------------------------------- MODULE Signing -------------------------------
(***************************************************************************)
(* What Key.Sign asks of the token for a hash, a key type and options, and *)
(* what it makes of an ECDSA signature.  A digest is only its length here. *)
(***************************************************************************)
EXTENDS Integers, Sequences

CONSTANTS UintMod, \* stands for 2^64, the range of uint
          MaxSalt, \* the longest salt that fits the token's RSA key
          Base     \* stands for 256, the values of a byte

ASSUME UintModAssumption == UintMod \in Nat /\ UintMod > 1000
ASSUME MaxSaltAssumption == MaxSalt \in 0..UintMod \div 2 - 1
ASSUME BaseAssumption == Base \in Nat \ {0}

Error == [scheme |-> "error"]

-----------------------------------------------------------------------------
(* crypto.Hash, and the options of crypto/rsa *)

HashSize ==
  [MD5 |-> 16, SHA1 |-> 20, SHA224 |-> 28, SHA256 |-> 32, SHA384 |-> 48, SHA512 |-> 64]
Supported == DOMAIN HashSize \ {"MD5"}
PSSSaltLengthAuto == 0
PSSSaltLengthEqualsHash == -1

-----------------------------------------------------------------------------
(* rsaSigningParams *)

digestInfoPrefix ==
  [SHA1 |-> <<\h30, \h21, \h30, \h09, \h06, \h05, \h2b, \h0e, \h03, \h02, \h1a,
              \h05, \h00, \h04, \h14>>,
   SHA224 |-> <<\h30, \h2d, \h30, \h0d, \h06, \h09, \h60, \h86, \h48, \h01, \h65, \h03,
                \h04, \h02, \h04, \h05, \h00, \h04, \h1c>>,
   SHA256 |-> <<\h30, \h31, \h30, \h0d, \h06, \h09, \h60, \h86, \h48, \h01, \h65, \h03,
                \h04, \h02, \h01, \h05, \h00, \h04, \h20>>,
   SHA384 |-> <<\h30, \h41, \h30, \h0d, \h06, \h09, \h60, \h86, \h48, \h01, \h65, \h03,
                \h04, \h02, \h02, \h05, \h00, \h04, \h30>>,
   SHA512 |-> <<\h30, \h51, \h30, \h0d, \h06, \h09, \h60, \h86, \h48, \h01, \h65, \h03,
                \h04, \h02, \h03, \h05, \h00, \h04, \h40>>]

PKCS1Params(hash) ==
  IF hash \in DOMAIN digestInfoPrefix
  THEN [scheme |-> "RSA_PKCS", prefix |-> digestInfoPrefix[hash]]
  ELSE Error

pssHashToMechanism ==
  [SHA1 |-> [hash |-> "SHA_1", mgf |-> "MGF1_SHA1"],
   SHA224 |-> [hash |-> "SHA224", mgf |-> "MGF1_SHA224"],
   SHA256 |-> [hash |-> "SHA256", mgf |-> "MGF1_SHA256"],
   SHA384 |-> [hash |-> "SHA384", mgf |-> "MGF1_SHA384"],
   SHA512 |-> [hash |-> "SHA512", mgf |-> "MGF1_SHA512"]]

MutSaltLen(hash, salt) == \* only Auto is looked for
  (IF salt = PSSSaltLengthAuto THEN HashSize[hash] ELSE salt) % UintMod

SaltLen(hash, salt) ==
  (IF salt \in {PSSSaltLengthAuto, PSSSaltLengthEqualsHash} THEN HashSize[hash] ELSE salt)
  % UintMod

PSSParams(hash, salt) ==
  IF hash \in DOMAIN pssHashToMechanism
  THEN [scheme |-> "RSA_PKCS_PSS", hash |-> pssHashToMechanism[hash].hash,
        mgf |-> pssHashToMechanism[hash].mgf, saltLen |-> SaltLen(hash, salt)]
  ELSE Error

-----------------------------------------------------------------------------
(* The token, by PKCS #1: what the parameters and the prefix mean *)

\* The first two arcs of an OID are one byte, an arc from 128 on takes two.
Oid ==
  LET nist(n) == <<2 * 40 + 16, 128 + 840 \div 128, 840 % 128, 1, 101, 3, 4, 2, n>>
  IN [SHA1 |-> <<1 * 40 + 3, 14, 3, 2, 26>>, SHA224 |-> nist(4), SHA256 |-> nist(1),
      SHA384 |-> nist(2), SHA512 |-> nist(3)]
\* DER: SEQUENCE {SEQUENCE {OID, NULL}, OCTET STRING}; all lengths are below 128.
DigestInfo(hash) ==
  LET n == Len(Oid[hash])
      size == HashSize[hash]
  IN <<48, 2 + (2 + n + 2) + 2 + size, 48, 2 + n + 2, 6, n>> \o Oid[hash]
     \o <<5, 0, 4, size>>

\* The hash that a CK_MECHANISM_TYPE and a CK_RSA_PKCS_MGF_TYPE stand for.
HashOf ==
  [SHA_1 |-> "SHA1", SHA224 |-> "SHA224", SHA256 |-> "SHA256", SHA384 |-> "SHA384",
   SHA512 |-> "SHA512"]
MgfHash ==
  [MGF1_SHA1 |-> "SHA1", MGF1_SHA224 |-> "SHA224", MGF1_SHA256 |-> "SHA256",
   MGF1_SHA384 |-> "SHA384", MGF1_SHA512 |-> "SHA512"]

\* The scheme, hash and salt of the signature that the token gives.
TokenSigns(params) ==
  CASE params.scheme = "RSA_PKCS" ->
         LET fits == {h \in Supported : DigestInfo(h) = params.prefix}
         IN IF fits = {} THEN Error
            ELSE [scheme |-> "PKCS1v15", hash |-> CHOOSE h \in fits : TRUE, salt |-> 0]
    [] params.scheme = "RSA_PKCS_PSS" ->
         LET fits == {h \in Supported : HashOf[params.hash] = h /\ MgfHash[params.mgf] = h}
         IN IF fits = {} \/ params.saltLen > MaxSalt THEN Error
            ELSE [scheme |-> "PSS", hash |-> CHOOSE h \in fits : TRUE,
                  salt |-> params.saltLen]
    [] OTHER -> Error

-----------------------------------------------------------------------------
(* pkcs11ToRFC5480 *)

SetBytes(s) ==
  LET value[i \in 0..Len(s)] == IF i = 0 THEN 0 ELSE value[i - 1] * Base + s[i]
  IN value[Len(s)]

pkcs11ToRFC5480(sig) ==
  IF Len(sig) = 0 \/ Len(sig) % 2 # 0 THEN Error
  ELSE LET half == Len(sig) \div 2
       IN [scheme |-> "ECDSA", r |-> SetBytes(SubSeq(sig, 1, half)),
           s |-> SetBytes(SubSeq(sig, half + 1, Len(sig)))]
=============================================================================
