------------------------------ MODULE Operation ----------------------------
(***************************************************************************)
(* The cryptographic operations of one session, as the methods of Ctx run  *)
(* them: Init, then either one single-part call or Updates and a Final.    *)
(*                                                                         *)
(* A method that returns data calls its C function twice: with a NULL      *)
(* output buffer, which only asks for the size, and with a buffer of that  *)
(* size, which does the work.  The token tells the two apart by the        *)
(* pointer alone, also when the size is zero.                              *)
(*                                                                         *)
(* Data is modelled by its length.  A cipher gives out whole blocks as its *)
(* input comes in and the rest at the end; the other kinds give out one    *)
(* unit, a digest, signature or recovered message, at the end.             *)
(***************************************************************************)
EXTENDS Naturals, FiniteSets

CONSTANTS Kinds,    \* the kinds of operation used
          Block,    \* block length of the ciphers
          MaxInput, \* largest input of one call, to bound the model
          MaxTotal  \* largest input of one operation, to bound the model

AllKinds == {"encrypt", "decrypt", "digest", "sign", "verify", "signRecover",
             "verifyRecover"}
Ciphers == {"encrypt", "decrypt"} \cap Kinds

ASSUME KindsAssumption == Kinds \subseteq AllKinds
ASSUME LengthsAssumption == Block \in Nat \ {0} /\ MaxInput \in Nat /\ MaxTotal \in Nat

VARIABLES active,   \* the token: kinds with an operation in progress
          multi,    \* the token: those that have had an Update
          consumed, \* the token: input taken by each operation
          emitted,  \* the token: output given out by each operation
          call,     \* the method call in progress, or NoCall
          given,    \* history: input of the calls that returned without error
          got,      \* history: length of what they returned
          finished  \* history: kinds whose last operation was completed

tokenVars == <<active, multi, consumed, emitted>>
historyVars == <<given, got, finished>>
vars == <<tokenVars, call, historyVars>>

NoCall == [on |-> {}]

\* An output call: the operations it is about, the length of its input, whether
\* it ends them, and outLen once the size is known.
Calls == [on: SUBSET Kinds, n: 0..MaxInput, ends: BOOLEAN,
          pass: {"size", "data"}, outLen: Nat]

TypeOK ==
  /\ active \subseteq Kinds
  /\ multi \subseteq active
  /\ finished \subseteq Kinds
  /\ \A f \in {consumed, emitted, given, got} : f \in [Kinds -> Nat]
  /\ call \in Calls \cup {NoCall}

Init ==
  /\ active = {} /\ multi = {} /\ finished = {}
  /\ consumed = [k \in Kinds |-> 0] /\ emitted = [k \in Kinds |-> 0]
  /\ given = [k \in Kinds |-> 0] /\ got = [k \in Kinds |-> 0]
  /\ call = NoCall

-----------------------------------------------------------------------------
(* The token *)

\* Output due of kind k after n more bytes of input.
Due(k, n, ends) ==
  IF k \in Ciphers
  THEN (IF ends THEN consumed[k] + n ELSE Block * ((consumed[k] + n) \div Block)) - emitted[k]
  ELSE IF ends THEN 1 ELSE 0

\* Of the operations in a dual-function call, the cipher gives out the data.
DueFrom(on, n, ends) ==
  LET Output(k) == Due(k, n, ends)
  IN  IF on \cap Ciphers # {} THEN Output(CHOOSE k \in on \cap Ciphers : TRUE)
      ELSE Output(CHOOSE k \in on : TRUE)

Legal(on, ends, single) == on \subseteq active /\ (single => on \cap multi = {})

Plus(f, on, n) == [k \in Kinds |-> IF k \in on THEN f[k] + n ELSE f[k]]
PlusData(f, on, n) == Plus(f, IF on \cap Ciphers # {} THEN on \cap Ciphers ELSE on, n)

\* Beside a decryption, the other operation takes the recovered plaintext.
PlusInput(f, on, n, len) ==
  IF "decrypt" \in on THEN Plus(Plus(f, {"decrypt"}, n), on \ {"decrypt"}, len)
  ELSE Plus(f, on, n)

\* The real call: input is taken, output given, the operation goes on or ends.
Consume(on, n, ends, len) ==
  /\ consumed' = PlusInput(consumed, on, n, len)
  /\ emitted' = PlusData(emitted, on, len)
  /\ active' = IF ends THEN active \ on ELSE active
  /\ multi' = IF ends THEN multi \ on ELSE multi \cup on

\* An error ends the operations, or, as CKR_BUFFER_TOO_SMALL does, leaves them.
Abort(on) ==
  /\ \/ active' = active \ on /\ multi' = multi \ on
     \/ UNCHANGED <<active, multi>>
  /\ UNCHANGED <<consumed, emitted>>

-----------------------------------------------------------------------------
(* XxxInit *)

InitOperation(k) ==
  /\ call = NoCall
  /\ k \notin active
  /\ active' = active \cup {k}
  /\ consumed' = [consumed EXCEPT ![k] = 0]
  /\ emitted' = [emitted EXCEPT ![k] = 0]
  /\ given' = [given EXCEPT ![k] = 0]
  /\ got' = [got EXCEPT ![k] = 0]
  /\ finished' = finished \ {k}
  /\ UNCHANGED <<multi, call>>

-----------------------------------------------------------------------------
(* Methods without output: DigestUpdate, DigestKey, SignUpdate, VerifyUpdate, *)
(* Verify and VerifyFinal call their function once.                           *)

Settled(on, n, len, ends) ==
  /\ given' = PlusInput(given, on, n, len)
  /\ got' = PlusData(got, on, len)
  /\ finished' = IF ends THEN finished \cup on ELSE finished

Returned(on, n, len, ends) == Settled(on, n, len, ends) /\ call' = NoCall

Failed == call' = NoCall /\ UNCHANGED historyVars

Update(k, n) ==
  /\ call = NoCall
  /\ k \in Kinds \cap {"digest", "sign", "verify"}
  /\ given[k] + n <= MaxTotal
  /\ \/ Legal({k}, FALSE, FALSE) /\ Consume({k}, n, FALSE, 0) /\ Returned({k}, n, 0, FALSE)
     \/ Abort({k}) /\ Failed

Verify(n, single) ==
  /\ call = NoCall
  /\ "verify" \in Kinds
  /\ given["verify"] + n <= MaxTotal
  /\ \/ /\ Legal({"verify"}, TRUE, single)
        /\ Consume({"verify"}, n, TRUE, 1)
        /\ Returned({"verify"}, n, 1, TRUE)
     \/ Abort({"verify"}) /\ Failed

-----------------------------------------------------------------------------
(* Methods with output: twoPassOutput and twoPassOutputNoInput *)

\* The methods: a single-part call on one operation, an Update of one operation
\* or, dual-function, of two, and a Final, which has no input.
SingleParts == {{k} : k \in Kinds \ {"verify"}}
Updates == {on \in {{"encrypt"}, {"decrypt"}, {"digest", "encrypt"}, {"decrypt", "digest"},
                    {"sign", "encrypt"}, {"decrypt", "verify"}} : on \subseteq Kinds}
Finals == {{k} : k \in Kinds \cap {"encrypt", "decrypt", "digest", "sign"}}

\* First pass.  The size may be an upper bound.
SizePass(on, n, ends, single) ==
  /\ call = NoCall
  /\ \A k \in on : given[k] + n <= MaxTotal
  /\ \/ /\ Legal(on, ends, single)
        /\ \E slack \in {0, 1} :
             call' = [on |-> on, n |-> n, ends |-> ends, pass |-> "data",
                      outLen |-> DueFrom(on, n, ends) + slack]
        /\ UNCHANGED <<tokenVars, historyVars>>
     \/ Abort(on) /\ Failed

\* pinBytes is NULL for an empty buffer, pinNonNull never.
MutPinNonNull(len) == len # 0
PinNonNull(len) == TRUE

MutReturnedLength(outLen, len) == outLen \* the whole buffer
MutShortLength(outLen, len) == len - 1   \* one byte short
ReturnedLength(outLen, len) == len       \* out[:outLen]

MutDataPass == \* nothing to fetch: the second call is saved
  /\ call # NoCall
  /\ IF call.outLen = 0
     THEN Returned(call.on, call.n, 0, call.ends) /\ UNCHANGED tokenVars
     ELSE LET len == DueFrom(call.on, call.n, call.ends)
          IN  /\ Consume(call.on, call.n, call.ends, len)
              /\ Returned(call.on, call.n, len, call.ends)

\* Second pass: made whatever the size, with a buffer that is not NULL.
DataPass ==
  /\ call # NoCall
  /\ LET len == DueFrom(call.on, call.n, call.ends)
     IN  \/ /\ PinNonNull(call.outLen)
            /\ Consume(call.on, call.n, call.ends, len)
            /\ Returned(call.on, call.n, ReturnedLength(call.outLen, len), call.ends)
         \* a NULL buffer only asks for the size again
         \/ /\ ~PinNonNull(call.outLen)
            /\ Returned(call.on, call.n, 0, call.ends)
            /\ UNCHANGED tokenVars
         \/ Abort(call.on) /\ Failed

-----------------------------------------------------------------------------
Next ==
  \/ \E k \in Kinds : InitOperation(k)
  \/ \E k \in Kinds, n \in 0..MaxInput : Update(k, n)
  \/ \E n \in 0..MaxInput : Verify(n, TRUE)
  \/ Verify(0, FALSE)
  \/ \E on \in SingleParts, n \in 0..MaxInput : SizePass(on, n, TRUE, TRUE)
  \/ \E on \in Updates, n \in 0..MaxInput : SizePass(on, n, FALSE, FALSE)
  \/ \E on \in Finals : SizePass(on, 0, TRUE, FALSE)
  \/ DataPass

Spec == Init /\ [][Next]_vars

-----------------------------------------------------------------------------
(* Properties *)

\* The token has taken exactly the input of the calls that returned without
\* error, each once: the size pass takes none, the data pass all, also when
\* there is no output yet.  (twoPassOutput.)
InputOnce == \A k \in active : consumed[k] = given[k]

\* The caller has every byte the token gave out and no byte more: whole blocks
\* while a cipher runs, everything once an operation is finished.
\* (out[:outLen] in twoPassOutput and twoPassOutputNoInput.)
OutputComplete ==
  \A k \in Kinds :
    /\ k \in active => got[k] = IF k \in Ciphers THEN Block * (given[k] \div Block) ELSE 0
    /\ k \in finished => got[k] = IF k \in Ciphers THEN given[k] ELSE 1

\* A single-part or Final call that returns without error has ended its
\* operation, so the next Init on the session is not refused.  (The second call
\* "is made even when there is nothing to return".)
FinishedMeansEnded == finished \cap active = {}
=============================================================================
