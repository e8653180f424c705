--------------------------- MODULE OperationProofs --------------------------
(***************************************************************************)
(* The operations of a session for any set of kinds, block length and      *)
(* lengths of input.                                                       *)
(*                                                                         *)
(* A call in progress is about operations that are active, one of which    *)
(* gives out the data, and a call that ends operations ends just one       *)
(* (CallInv).  An active operation has given out what the caller has, the  *)
(* whole blocks of its input (OutputInv), so what is due is never negative *)
(* and the last call brings the rest.                                      *)
(***************************************************************************)
EXTENDS Operation, TLAPS

\* The operations of a call whose output the call returns.
Data(on) == IF on \cap Ciphers # {} THEN on \cap Ciphers ELSE on

Gives(on, k) == on \subseteq Kinds /\ Data(on) = {k}

CallInv ==
  call # NoCall =>
    /\ call.on \subseteq active
    /\ \E k \in call.on : Gives(call.on, k) /\ (call.ends => call.on = {k})

Whole(x) == Block * (x \div Block)

OutputInv ==
  \A k \in active :
    /\ emitted[k] = got[k]
    /\ got[k] = IF k \in Ciphers THEN Whole(given[k]) ELSE 0

FinishedInv ==
  \A k \in finished : got[k] = IF k \in Ciphers THEN given[k] ELSE 1

IInv ==
  /\ TypeOK
  /\ CallInv
  /\ InputOnce
  /\ OutputInv
  /\ FinishedInv
  /\ FinishedMeansEnded

-----------------------------------------------------------------------------
(* Lemmas *)

\* The whole blocks of an input are no more than it, and grow with it.
LEMMA WholeBlocks ==
  /\ Whole(0) = 0
  /\ \A x \in Nat : Whole(x) \in Nat /\ Whole(x) <= x
  /\ \A x, y \in Nat : x <= y => Whole(x) <= Whole(y)
<1>1. \A x \in Nat : x \div Block \in Nat /\ Block * (x \div Block) <= x
  BY LengthsAssumption
<1>2. ASSUME NEW x \in Nat PROVE Whole(x) \in Nat /\ Whole(x) <= x
  <2>1. \A a \in Nat : Block * a \in Nat
    BY LengthsAssumption
  <2> QED
    BY <1>1, <2>1 DEF Whole
<1>3. ASSUME NEW x \in Nat, NEW y \in Nat, x <= y PROVE Whole(x) <= Whole(y)
  <2>1. x \div Block <= y \div Block
    BY <1>3, LengthsAssumption
  <2>2. \A a, b \in Nat : a <= b => Block * a <= Block * b
    BY LengthsAssumption
  <2> QED
    BY <1>1, <2>1, <2>2 DEF Whole
<1>4. Whole(0) = 0
  BY <1>2
<1> QED
  BY <1>2, <1>3, <1>4

\* What a call returns is due from the one operation that gives out data.
LEMMA DueFromData ==
  ASSUME NEW on, NEW d, Gives(on, d), NEW n, NEW ends
  PROVE  DueFrom(on, n, ends) = Due(d, n, ends)
<1>1. CASE on \cap Ciphers # {}
  <2>1. (CHOOSE k \in on \cap Ciphers : TRUE) = d
    BY <1>1 DEF Gives, Data
  <2> QED
    BY <1>1, <2>1 DEF DueFrom
<1>2. CASE on \cap Ciphers = {}
  <2>1. (CHOOSE k \in on : TRUE) = d
    BY <1>2 DEF Gives, Data
  <2> QED
    BY <1>2, <2>1 DEF DueFrom
<1> QED
  BY <1>1, <1>2

\* The output due is a length, and brings the caller to the whole blocks of the
\* input, or to all of it at the end.
LEMMA DueIsRest ==
  ASSUME IInv, NEW k \in active, NEW n \in Nat, NEW ends \in BOOLEAN
  PROVE  /\ Due(k, n, ends) \in Nat
         /\ got[k] + Due(k, n, ends) =
              IF k \in Ciphers
              THEN IF ends THEN given[k] + n ELSE Whole(given[k] + n)
              ELSE IF ends THEN 1 ELSE 0
<1>1. /\ given[k] \in Nat /\ consumed[k] = given[k] /\ emitted[k] = got[k]
      /\ got[k] = IF k \in Ciphers THEN Whole(given[k]) ELSE 0
  BY DEF IInv, TypeOK, InputOnce, OutputInv
<1>2. /\ given[k] + n \in Nat /\ Whole(given[k]) \in Nat /\ Whole(given[k] + n) \in Nat
      /\ Whole(given[k]) <= given[k] /\ Whole(given[k]) <= Whole(given[k] + n)
  BY <1>1, WholeBlocks
<1>3. Due(k, n, ends) =
        IF k \in Ciphers
        THEN (IF ends THEN given[k] + n ELSE Whole(given[k] + n)) - got[k]
        ELSE IF ends THEN 1 ELSE 0
  BY <1>1 DEF Due, Whole
<1> QED
  BY <1>1, <1>2, <1>3

\* Plus adds to the operations it names and to no other.
LEMMA PlusAdds ==
  ASSUME NEW f \in [Kinds -> Nat], NEW on, NEW n \in Nat
  PROVE  /\ Plus(f, on, n) \in [Kinds -> Nat]
         /\ \A k \in Kinds : Plus(f, on, n)[k] = IF k \in on THEN f[k] + n ELSE f[k]
  BY DEF Plus

\* Input is counted in full for the operation that gives out the data.
LEMMA InputAdds ==
  ASSUME NEW f \in [Kinds -> Nat], NEW on, NEW n \in Nat, NEW len \in Nat,
         NEW d \in Kinds, Gives(on, d)
  PROVE  /\ PlusInput(f, on, n, len) \in [Kinds -> Nat]
         /\ PlusInput(f, on, n, len)[d] = f[d] + n
         /\ \A k \in Kinds \ on : PlusInput(f, on, n, len)[k] = f[k]
<1>1. d \in on
  BY DEF Gives, Data
<1>2. CASE "decrypt" \in on
  <2>1. d = "decrypt"
    BY <1>2 DEF Gives, Data, Ciphers
  <2>2. Plus(f, {"decrypt"}, n) \in [Kinds -> Nat]
    BY PlusAdds
  <2> QED
    BY <1>1, <1>2, <2>1, <2>2, PlusAdds DEF PlusInput
<1>3. CASE "decrypt" \notin on
  BY <1>1, <1>3, PlusAdds DEF PlusInput
<1> QED
  BY <1>2, <1>3

\* The token and the caller count input alike.
LEMMA InputAlike ==
  ASSUME NEW f \in [Kinds -> Nat], NEW g \in [Kinds -> Nat], NEW on,
         NEW n \in Nat, NEW len \in Nat, NEW k \in Kinds, f[k] = g[k]
  PROVE  PlusInput(f, on, n, len)[k] = PlusInput(g, on, n, len)[k]
  BY DEF PlusInput, Plus

\* Output is counted for the operation that gives it out, and no other.
LEMMA OutputAdds ==
  ASSUME NEW f \in [Kinds -> Nat], NEW on, NEW len \in Nat,
         NEW d \in Kinds, Gives(on, d)
  PROVE  /\ PlusData(f, on, len) \in [Kinds -> Nat]
         /\ PlusData(f, on, len)[d] = f[d] + len
         /\ \A k \in Kinds \ {d} : PlusData(f, on, len)[k] = f[k]
<1>1. PlusData(f, on, len) = Plus(f, {d}, len) /\ d \in Kinds
  BY DEF PlusData, Gives, Data
<1> QED
  BY <1>1, PlusAdds

-----------------------------------------------------------------------------
(* The invariant is inductive *)

\* The initial state satisfies the invariant.
LEMMA InitIInv == Init => IInv
  BY DEF Init, IInv, TypeOK, CallInv, InputOnce, OutputInv, FinishedInv,
         FinishedMeansEnded

\* A call that does the work and returns: the token and the caller count the same
\* input and output, and an operation that ends has all its output fetched.
LEMMA TransferStep ==
  ASSUME IInv, NEW on \in SUBSET active, NEW d, Gives(on, d),
         NEW n \in Nat, NEW ends \in BOOLEAN, ends => on = {d},
         NEW len, len = Due(d, n, ends),
         Consume(on, n, ends, len), Returned(on, n, len, ends)
  PROVE  IInv'
<1>1. /\ d \in on /\ d \in active /\ d \in Kinds
      /\ on \in SUBSET Kinds /\ active \subseteq Kinds
  BY DEF Gives, Data, IInv, TypeOK
<1>2. /\ len \in Nat
      /\ got[d] + len = IF d \in Ciphers
                        THEN IF ends THEN given[d] + n ELSE Whole(given[d] + n)
                        ELSE IF ends THEN 1 ELSE 0
  BY <1>1, DueIsRest
<1>3. /\ consumed' = PlusInput(consumed, on, n, len) /\ given' = PlusInput(given, on, n, len)
      /\ emitted' = PlusData(emitted, on, len) /\ got' = PlusData(got, on, len)
      /\ active' = IF ends THEN active \ on ELSE active
      /\ multi' = IF ends THEN multi \ on ELSE multi \cup on
      /\ finished' = IF ends THEN finished \cup on ELSE finished
      /\ call' = NoCall
  BY DEF Consume, Returned, Settled
<1>t. /\ consumed \in [Kinds -> Nat] /\ given \in [Kinds -> Nat]
      /\ emitted \in [Kinds -> Nat] /\ got \in [Kinds -> Nat]
  BY DEF IInv, TypeOK
<1>4. /\ given' \in [Kinds -> Nat] /\ given'[d] = given[d] + n
      /\ \A k \in Kinds \ on : given'[k] = given[k]
  <2>1. \A f \in {given} :
          /\ PlusInput(f, on, n, len) \in [Kinds -> Nat]
          /\ PlusInput(f, on, n, len)[d] = f[d] + n
          /\ \A k \in Kinds \ on : PlusInput(f, on, n, len)[k] = f[k]
    BY <1>1, <1>2, <1>t, InputAdds
  <2> QED
    BY <1>3, <2>1
<1>5. consumed' \in [Kinds -> Nat] /\ \A k \in active : consumed'[k] = given'[k]
  <2>1. \A k \in active : consumed[k] = given[k]
    BY DEF IInv, InputOnce
  <2>2. PlusInput(consumed, on, n, len) \in [Kinds -> Nat]
    BY <1>1, <1>2, <1>t, InputAdds
  <2>3. \A k \in active :
          PlusInput(consumed, on, n, len)[k] = PlusInput(given, on, n, len)[k]
    BY <1>1, <1>2, <1>t, <2>1, InputAlike
  <2> QED
    BY <1>3, <2>2, <2>3
<1>6. /\ emitted' \in [Kinds -> Nat] /\ got' \in [Kinds -> Nat]
      /\ emitted'[d] = emitted[d] + len /\ got'[d] = got[d] + len
      /\ \A k \in Kinds \ {d} : emitted'[k] = emitted[k] /\ got'[k] = got[k]
  <2>1. \A f \in {emitted, got} :
          /\ PlusData(f, on, len) \in [Kinds -> Nat]
          /\ PlusData(f, on, len)[d] = f[d] + len
          /\ \A k \in Kinds \ {d} : PlusData(f, on, len)[k] = f[k]
    BY <1>1, <1>2, <1>t, OutputAdds
  <2> QED
    BY <1>3, <2>1
<1>7. \A k \in on : k # d => k \notin Ciphers
  BY DEF Gives, Data
<1>8. TypeOK'
  <2>1. active' \subseteq Kinds /\ multi' \subseteq active' /\ finished' \subseteq Kinds
    BY <1>1, <1>3 DEF IInv, TypeOK
  <2> QED
    BY <1>3, <1>4, <1>5, <1>6, <2>1 DEF TypeOK
<1>9. CallInv' /\ InputOnce'
  BY <1>3, <1>5 DEF CallInv, InputOnce
<1>10. OutputInv'
  <2>1. ASSUME NEW k \in active', k # d
        PROVE  emitted'[k] = got'[k] /\ got'[k] = IF k \in Ciphers THEN Whole(given'[k]) ELSE 0
    <3>1. k \in active /\ k \in Kinds /\ emitted'[k] = emitted[k] /\ got'[k] = got[k]
      BY <1>1, <1>3, <1>6, <2>1
    <3>2. k \in Ciphers => given'[k] = given[k]
      BY <1>4, <1>7, <2>1, <3>1
    <3> QED
      BY <3>1, <3>2 DEF IInv, OutputInv
  <2>2. ASSUME d \in active'
        PROVE  emitted'[d] = got'[d] /\ got'[d] = IF d \in Ciphers THEN Whole(given'[d]) ELSE 0
    <3>1. ~ends
      BY <1>1, <1>3, <2>2
    <3>2. emitted[d] = got[d]
      BY <1>1 DEF IInv, OutputInv
    <3> QED
      BY <1>2, <1>4, <1>6, <3>1, <3>2
  <2>3. OutputInv' = (\A k \in active' :
                        /\ emitted'[k] = got'[k]
                        /\ got'[k] = IF k \in Ciphers THEN Whole(given'[k]) ELSE 0)
    BY DEF OutputInv, Whole
  <2> QED
    BY <2>1, <2>2, <2>3
<1>11. FinishedInv'
  <2>1. ASSUME NEW k \in finished'
        PROVE  got'[k] = IF k \in Ciphers THEN given'[k] ELSE 1
    <3>1. CASE k \in on
      <4>1. ends /\ k = d
        BY <1>3, <2>1, <3>1 DEF IInv, FinishedMeansEnded
      <4> QED
        BY <1>2, <1>4, <1>6, <4>1
    <3>2. CASE k \notin on
      <4>1. k \in finished /\ k \in Kinds /\ k # d
        BY <1>1, <1>3, <2>1, <3>2 DEF IInv, TypeOK
      <4> QED
        BY <1>4, <1>6, <3>2, <4>1 DEF IInv, FinishedInv
    <3> QED
      BY <3>1, <3>2
  <2> QED
    BY <2>1 DEF FinishedInv
<1>12. FinishedMeansEnded'
  BY <1>3 DEF IInv, FinishedMeansEnded
<1> QED
  BY <1>8, <1>9, <1>10, <1>11, <1>12 DEF IInv

\* A call that fails returns nothing, whether it ends the operations or not.
LEMMA FailStep ==
  ASSUME IInv, NEW on, Abort(on), Failed
  PROVE  IInv'
<1>1. /\ active' \subseteq active /\ multi' \subseteq active'
      /\ UNCHANGED <<consumed, emitted, given, got, finished>> /\ call' = NoCall
  BY DEF Abort, Failed, historyVars, IInv, TypeOK
<1> QED
  BY <1>1 DEF IInv, TypeOK, CallInv, InputOnce, OutputInv, FinishedInv,
              FinishedMeansEnded, Whole

\* A new operation has no input and no output.
LEMMA InitOperationStep ==
  ASSUME IInv, NEW k \in Kinds, InitOperation(k)
  PROVE  IInv'
<1>1. /\ k \notin active /\ active' = active \cup {k} /\ finished' = finished \ {k}
      /\ consumed' = [consumed EXCEPT ![k] = 0] /\ emitted' = [emitted EXCEPT ![k] = 0]
      /\ given' = [given EXCEPT ![k] = 0] /\ got' = [got EXCEPT ![k] = 0]
      /\ multi' = multi /\ call' = call /\ call = NoCall
  BY DEF InitOperation
<1>t. /\ consumed \in [Kinds -> Nat] /\ given \in [Kinds -> Nat]
      /\ emitted \in [Kinds -> Nat] /\ got \in [Kinds -> Nat]
      /\ active \subseteq Kinds /\ finished \subseteq Kinds
  BY DEF IInv, TypeOK
<1>2. TypeOK'
  BY <1>1, <1>t DEF IInv, TypeOK
<1>3. CallInv' /\ InputOnce' /\ FinishedMeansEnded'
  BY <1>1, <1>t DEF IInv, CallInv, InputOnce, FinishedMeansEnded
<1>4. FinishedInv'
  BY <1>1, <1>t DEF IInv, FinishedInv
<1>5. ASSUME NEW j \in active'
      PROVE  /\ emitted'[j] = got'[j]
             /\ got'[j] = IF j \in Ciphers THEN Whole(given'[j]) ELSE 0
  <2>1. CASE j = k
    BY <1>1, <1>t, <2>1, WholeBlocks
  <2>2. CASE j # k
    BY <1>1, <1>5, <1>t, <2>2 DEF IInv, OutputInv
  <2> QED
    BY <2>1, <2>2
<1>6. OutputInv'
  BY <1>5 DEF OutputInv, Whole
<1> QED
  BY <1>2, <1>3, <1>4, <1>6 DEF IInv

\* The first pass changes nothing but the call it begins.
LEMMA SizeStep ==
  ASSUME IInv, NEW on, NEW d, Gives(on, d), NEW n \in 0..MaxInput,
         NEW ends \in BOOLEAN, ends => on = {d}, NEW single,
         SizePass(on, n, ends, single)
  PROVE  IInv'
<1>1. CASE Abort(on) /\ Failed
  BY <1>1, FailStep
<1>2. CASE ~(Abort(on) /\ Failed)
  <2>1. /\ on \subseteq active /\ UNCHANGED <<tokenVars, historyVars>>
        /\ \E slack \in {0, 1} :
             call' = [on |-> on, n |-> n, ends |-> ends, pass |-> "data",
                      outLen |-> DueFrom(on, n, ends) + slack]
    BY <1>2 DEF SizePass, Legal
  <2>2. PICK slack \in {0, 1} :
             call' = [on |-> on, n |-> n, ends |-> ends, pass |-> "data",
                      outLen |-> DueFrom(on, n, ends) + slack]
    BY <2>1
  <2>3. d \in on /\ d \in active /\ n \in Nat /\ on \subseteq Kinds
    BY <2>1, LengthsAssumption DEF Gives, Data
  <2>4. DueFrom(on, n, ends) \in Nat
    BY <2>3, DueFromData, DueIsRest
  <2>5. DueFrom(on, n, ends) + slack \in Nat
    BY <2>4
  <2>6. call' \in Calls
    BY <2>2, <2>3, <2>5 DEF Calls
  <2>7. CallInv'
    BY <2>1, <2>2, <2>3 DEF CallInv, tokenVars
  <2> QED
    BY <2>1, <2>6, <2>7 DEF IInv, TypeOK, InputOnce, OutputInv, FinishedInv,
                            FinishedMeansEnded, Whole, tokenVars, historyVars
<1> QED
  BY <1>1, <1>2

\* The second pass is made with a buffer that is not NULL, so it does the work.
LEMMA DataStep ==
  ASSUME IInv, DataPass
  PROVE  IInv'
<1> DEFINE on == call.on  n == call.n  ends == call.ends
<1>1. call # NoCall /\ call \in Calls
  BY DEF DataPass, IInv, TypeOK
<1>2. /\ on \in SUBSET Kinds /\ n \in Nat /\ ends \in BOOLEAN /\ on \subseteq active
  BY <1>1, LengthsAssumption DEF Calls, IInv, CallInv
<1>3. PICK d \in on : Gives(on, d) /\ (ends => on = {d})
  BY <1>1 DEF IInv, CallInv
<1>4. DueFrom(on, n, ends) = Due(d, n, ends)
  BY <1>2, <1>3, DueFromData
<1>5. \/ /\ Consume(on, n, ends, Due(d, n, ends))
         /\ Returned(on, n, Due(d, n, ends), ends)
      \/ Abort(on) /\ Failed
  BY <1>4 DEF DataPass, PinNonNull, ReturnedLength
<1> QED
  BY <1>2, <1>3, <1>5, TransferStep, FailStep

\* The kinds of call: one operation, or a cipher and one other.
LEMMA Operands ==
  /\ \A k \in Kinds : Gives({k}, k)
  /\ \A on \in Updates : on \in SUBSET Kinds /\ \E k \in on : Gives(on, k)
<1>1. ASSUME NEW k \in Kinds PROVE Gives({k}, k)
  BY DEF Gives, Data
<1>2. ASSUME NEW on \in Updates PROVE on \in SUBSET Kinds /\ \E k \in on : Gives(on, k)
  BY DEF Updates, Gives, Data, Ciphers
<1> QED
  BY <1>1, <1>2

\* A method with no output calls its function once.
LEMMA OneCallStep ==
  ASSUME IInv, NEW k \in Kinds \ Ciphers, NEW n \in Nat, NEW ends \in BOOLEAN, NEW single,
         NEW len, len = IF ends THEN 1 ELSE 0,
         \/ /\ Legal({k}, ends, single)
            /\ Consume({k}, n, ends, len)
            /\ Returned({k}, n, len, ends)
         \/ Abort({k}) /\ Failed
  PROVE  IInv'
<1>1. CASE Abort({k}) /\ Failed
  BY <1>1, FailStep
<1>2. CASE /\ Legal({k}, ends, single)
           /\ Consume({k}, n, ends, len)
           /\ Returned({k}, n, len, ends)
  <2>1. {k} \in SUBSET active /\ Gives({k}, k)
    BY <1>2, Operands DEF Legal
  <2>2. Due(k, n, ends) = len
    BY DEF Due
  <2> QED
    BY <1>2, <2>1, <2>2, TransferStep
<1> QED
  BY <1>1, <1>2

\* Every step keeps the invariant.
LEMMA NextIInv == IInv /\ [Next]_vars => IInv'
<1> SUFFICES ASSUME IInv, [Next]_vars PROVE IInv'
  OBVIOUS
<1>n. 0..MaxInput \subseteq Nat /\ 0 \in 0..MaxInput
  BY LengthsAssumption
<1>1. ASSUME NEW k \in Kinds, NEW n \in 0..MaxInput, Update(k, n) PROVE IInv'
  <2>1. k \in Kinds \ Ciphers
    BY <1>1 DEF Update, Ciphers
  <2> QED
    BY <1>1, <1>n, <2>1, OneCallStep DEF Update
<1>2. ASSUME NEW n \in 0..MaxInput, NEW single, Verify(n, single) PROVE IInv'
  <2>1. "verify" \in Kinds \ Ciphers
    BY <1>2 DEF Verify, Ciphers
  <2> QED
    BY <1>2, <1>n, <2>1, OneCallStep DEF Verify
<1>3. ASSUME NEW on \in SingleParts, NEW n \in 0..MaxInput, SizePass(on, n, TRUE, TRUE)
      PROVE  IInv'
  <2>1. PICK k \in Kinds : on = {k}
    BY DEF SingleParts
  <2> QED
    BY <1>3, <2>1, Operands, SizeStep
<1>4. ASSUME NEW on \in Updates, NEW n \in 0..MaxInput, SizePass(on, n, FALSE, FALSE)
      PROVE  IInv'
  BY <1>4, Operands, SizeStep
<1>5. ASSUME NEW on \in Finals, SizePass(on, 0, TRUE, FALSE) PROVE IInv'
  <2>1. PICK k \in Kinds : on = {k}
    BY DEF Finals
  <2> QED
    BY <1>5, <1>n, <2>1, Operands, SizeStep
<1>6. CASE UNCHANGED vars
  BY <1>6 DEF vars, tokenVars, historyVars, IInv, TypeOK, CallInv, InputOnce, OutputInv,
              FinishedInv, FinishedMeansEnded, Whole
<1> QED
  BY <1>1, <1>2, <1>3, <1>4, <1>5, <1>6, <1>n, InitOperationStep, DataStep DEF Next

\* IInv holds in every reachable state.
LEMMA InductiveInvariant == Spec => []IInv
  BY InitIInv, NextIInv, PTL DEF Spec

-----------------------------------------------------------------------------
(* Theorems *)

\* Every variable keeps its type; in particular no output that is due is negative.
THEOREM TypeCorrect == Spec => []TypeOK
<1>1. IInv => TypeOK
  BY DEF IInv
<1> QED
  BY <1>1, InductiveInvariant, PTL

\* The token takes the input of a call once, although twoPassOutput calls it
\* twice, and none with a call that fails and leaves the operation active.
THEOREM InputTakenOnce == Spec => []InputOnce
<1>1. IInv => InputOnce
  BY DEF IInv
<1> QED
  BY <1>1, InductiveInvariant, PTL

\* The caller has all the token gave out: the whole blocks of the input while a
\* cipher runs, for any block length, and everything after the last call.
\* (out[:outLen] in twoPassOutput and twoPassOutputNoInput.)
THEOREM OutputFetched == Spec => []OutputComplete
<1>1. ASSUME IInv PROVE OutputComplete
  BY <1>1 DEF IInv, OutputInv, FinishedInv, OutputComplete, Whole
<1> QED
  BY <1>1, InductiveInvariant, PTL

\* A single-part or Final call that returned has ended its operation, also when
\* there was nothing to return, so the session can begin the next one.
THEOREM FinishedEnds == Spec => []FinishedMeansEnded
<1>1. IInv => FinishedMeansEnded
  BY DEF IInv
<1> QED
  BY <1>1, InductiveInvariant, PTL
=============================================================================
