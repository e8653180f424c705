------------------------------- MODULE Layout --------------------------------
(***************************************************************************)
(* The C structures that pass between Ctx and a module: where pkcs11t.h    *)
(* and the ABI of 64-bit Linux put each field, and where the code writes   *)
(* or reads it.  The contents of a field are the pairs of the field and    *)
(* the number of a byte, so that a byte that moves is seen.                *)
(***************************************************************************)
EXTENDS Integers, Sequences, TLC

-----------------------------------------------------------------------------
(* The C side: a structure is a sequence of fields, each with its size and *)
(* alignment, and the next free offset of the right alignment is its own.  *)

Field(name, size, align) == [name |-> name, size |-> size, align |-> align]
ULONG(name) == Field(name, 8, 8) \* also CK_FLAGS, and pointers
VERSION(name) == Field(name, 2, 1)
TEXT(name, n) == Field(name, n, 1)
ULONGs(names) == [i \in DOMAIN names |-> ULONG(names[i])]
Numbers(n) == [i \in 1..n |-> ToString(i)]

CStructs ==
  [CK_INFO |->
     <<VERSION("cryptokiVersion"), TEXT("manufacturerID", 32), ULONG("flags"),
       TEXT("libraryDescription", 32), VERSION("libraryVersion")>>,
   CK_SLOT_INFO |->
     <<TEXT("slotDescription", 64), TEXT("manufacturerID", 32), ULONG("flags"),
       VERSION("hardwareVersion"), VERSION("firmwareVersion")>>,
   CK_TOKEN_INFO |->
     <<TEXT("label", 32), TEXT("manufacturerID", 32), TEXT("model", 16),
       TEXT("serialNumber", 16), ULONG("flags")>>
     \o ULONGs(<<"maxSessionCount", "sessionCount", "maxRwSessionCount", "rwSessionCount",
                 "maxPinLen", "minPinLen", "totalPublicMemory", "freePublicMemory",
                 "totalPrivateMemory", "freePrivateMemory">>)
     \o <<VERSION("hardwareVersion"), VERSION("firmwareVersion"), TEXT("utcTime", 16)>>,
   CK_MECHANISM_INFO |-> ULONGs(<<"minKeySize", "maxKeySize", "flags">>),
   CK_SESSION_INFO |-> ULONGs(<<"slotID", "state", "flags", "deviceError">>),
   CK_FUNCTION_LIST |-> <<VERSION("version")>> \o ULONGs(Numbers(68)),
   CK_C_INITIALIZE_ARGS |->
     ULONGs(<<"createMutex", "destroyMutex", "lockMutex", "unlockMutex",
              "flags", "reserved">>),
   CK_ATTRIBUTES |-> ULONGs(Numbers(6)), \* two of type, pValue, ulValueLen
   CK_MECHANISM |-> ULONGs(<<"mechanism", "parameter", "parameterLen">>),
   CK_RSA_PKCS_OAEP_PARAMS |->
     ULONGs(<<"hashAlg", "mgf", "source", "sourceData", "sourceDataLen">>),
   CK_RSA_PKCS_PSS_PARAMS |-> ULONGs(<<"hashAlg", "mgf", "saltLen">>),
   CK_ECDH1_DERIVE_PARAMS |->
     ULONGs(<<"kdf", "sharedDataLen", "sharedData", "publicDataLen", "publicData">>),
   CK_GCM_PARAMS |-> ULONGs(<<"iv", "ivLen", "ivBits", "aad", "aadLen", "tagBits">>)]

AlignUp(n, align) == ((n + align - 1) \div align) * align

COffset(struct) ==
  LET off[i \in 1..Len(struct)] ==
        IF i = 1 THEN 0 ELSE AlignUp(off[i - 1] + struct[i - 1].size, struct[i].align)
  IN off

\* name -> <<offset, size>>
CPlaces(struct) ==
  LET off == COffset(struct)
      index(name) == CHOOSE i \in DOMAIN struct : struct[i].name = name
  IN [name \in {struct[i].name : i \in DOMAIN struct} |->
        <<off[index(name)], struct[index(name)].size>>]

CSize(struct) ==
  LET n == Len(struct)
      aligned == \E i \in 1..n : struct[i].align = 8
  IN AlignUp(COffset(struct)[n] + struct[n].size, IF aligned THEN 8 ELSE 1)

-----------------------------------------------------------------------------
(* The Go side: the size of the buffer, and the place of each field.       *)

\* Fields of eight bytes one after the other, from an offset on.
Words(names, from) ==
  [name \in {names[i] : i \in DOMAIN names} |->
     <<from + 8 * ((CHOOSE i \in DOMAIN names : names[i] = name) - 1), 8>>]

GetInfo ==
  [size |-> 88,
   at |-> [cryptokiVersion |-> <<0, 2>>, manufacturerID |-> <<2, 32>>, flags |-> <<40, 8>>,
           libraryDescription |-> <<48, 32>>, libraryVersion |-> <<80, 2>>]]

MutGetSlotInfo == \* with the padding between the versions that its comment shows
  [size |-> 128,
   at |-> [slotDescription |-> <<0, 64>>, manufacturerID |-> <<64, 32>>, flags |-> <<96, 8>>,
           hardwareVersion |-> <<104, 2>>, firmwareVersion |-> <<112, 2>>]]

GetSlotInfo ==
  [size |-> 128,
   at |-> [slotDescription |-> <<0, 64>>, manufacturerID |-> <<64, 32>>, flags |-> <<96, 8>>,
           hardwareVersion |-> <<104, 2>>, firmwareVersion |-> <<106, 2>>]]

GetTokenInfo ==
  LET off == 96 IN
  [size |-> 256,
   at |-> [label |-> <<0, 32>>, manufacturerID |-> <<32, 32>>, model |-> <<64, 16>>,
           serialNumber |-> <<80, 16>>,
           hardwareVersion |-> <<off + 88, 2>>, firmwareVersion |-> <<off + 90, 2>>,
           utcTime |-> <<off + 92, 16>>]
          @@ Words(<<"flags", "maxSessionCount", "sessionCount", "maxRwSessionCount",
                     "rwSessionCount", "maxPinLen", "minPinLen", "totalPublicMemory",
                     "freePublicMemory", "totalPrivateMemory", "freePrivateMemory">>, off)]

GetMechanismInfo == [size |-> 24, at |-> Words(<<"minKeySize", "maxKeySize", "flags">>, 0)]
GetSessionInfo ==
  [size |-> 32, at |-> Words(<<"slotID", "state", "flags", "deviceError">>, 0)]
readFunctionList == \* it reads the module's memory, not a buffer of its own
  [size |-> 552, at |-> Words(Numbers(68), 8)]

Initialize == [size |-> 48, at |-> [flags |-> <<32, 8>>, reserved |-> <<40, 8>>]]
marshalAttributes ==
  [size |-> 2 * 24,
   at |-> [n \in {ToString(i) : i \in 1..6} |->
             LET i == (CHOOSE i \in 1..6 : ToString(i) = n) - 1
             IN <<(i \div 3) * 24 + (i % 3) * 8, 8>>]]
marshalMechanism ==
  [size |-> 24, at |-> Words(<<"mechanism", "parameter", "parameterLen">>, 0)]
OAEPParams ==
  [size |-> 40,
   at |-> Words(<<"hashAlg", "mgf", "source", "sourceData", "sourceDataLen">>, 0)]
NewPSSParams == [size |-> 24, at |-> Words(<<"hashAlg", "mgf", "saltLen">>, 0)]
ECDH1DeriveParams ==
  [size |-> 40, at |-> Words(<<"kdf", "sharedDataLen", "sharedData", "publicDataLen",
                               "publicData">>, 0)]
GCMParams ==
  [size |-> 48, at |-> Words(<<"iv", "ivLen", "ivBits", "aad", "aadLen", "tagBits">>, 0)]

\* Structures that the module fills in, and structures that the code does.
Results ==
  [CK_INFO |-> GetInfo, CK_SLOT_INFO |-> GetSlotInfo, CK_TOKEN_INFO |-> GetTokenInfo,
   CK_MECHANISM_INFO |-> GetMechanismInfo, CK_SESSION_INFO |-> GetSessionInfo,
   CK_FUNCTION_LIST |-> readFunctionList]
Arguments ==
  [CK_C_INITIALIZE_ARGS |-> Initialize, CK_ATTRIBUTES |-> marshalAttributes,
   CK_MECHANISM |-> marshalMechanism, CK_RSA_PKCS_OAEP_PARAMS |-> OAEPParams,
   CK_RSA_PKCS_PSS_PARAMS |-> NewPSSParams, CK_ECDH1_DERIVE_PARAMS |-> ECDH1DeriveParams,
   CK_GCM_PARAMS |-> GCMParams]

-----------------------------------------------------------------------------
(* Memory *)

Zero == <<"zero", 0>>
Outside == <<"outside", 0>>
Contents(name, size) == [k \in 0..size - 1 |-> <<name, k>>]
Zeros(size) == [k \in 0..size - 1 |-> Zero]

Write(places, size) ==
  [b \in 0..size - 1 |->
     LET here == {f \in DOMAIN places : b - places[f][1] \in 0..places[f][2] - 1}
     IN IF here = {} THEN Zero
        ELSE LET f == CHOOSE f \in here : TRUE IN <<f, b - places[f][1]>>]

Read(memory, places) ==
  [f \in DOMAIN places |->
     [k \in 0..places[f][2] - 1 |->
        LET b == places[f][1] + k IN IF b \in DOMAIN memory THEN memory[b] ELSE Outside]]

\* What the reader of a structure gets, field by field, and whether its size fits.
Exchange(name) ==
  LET struct == CStructs[name] IN
  IF name \in DOMAIN Results
  THEN [got |-> Read(Write(CPlaces(struct), CSize(struct)), Results[name].at),
        fits |-> CSize(struct) <= Results[name].size]
  ELSE [got |-> Read(Write(Arguments[name].at, Arguments[name].size), CPlaces(struct)),
        fits |-> CSize(struct) = Arguments[name].size]
=============================================================================
