----------------------------- MODULE QueryProofs ----------------------------
(***************************************************************************)
(* Two-pass queries of any lists and attributes, which change any number   *)
(* of times between the two calls.                                         *)
(*                                                                         *)
(* While the second call is to come, the history of the call begins with   *)
(* the values whose sizes the first call found and ends with the present   *)
(* ones (HistoryInv), so an answer is compared with what was true last and *)
(* its room with what was true first.                                      *)
(***************************************************************************)
EXTENDS Query, SequenceTheorems, TLAPS

Valuations == [Things -> Seq(Elements)]

Types ==
  /\ value \in Valuations
  /\ asked \subseteq Things
  /\ sizes \in [Things -> Nat]
  /\ was \in Seq(Valuations)

HistoryInv ==
  pc = "data" =>
    /\ outcome = "none"
    /\ was # << >>
    /\ was[Len(was)] = value
    /\ \A t \in asked : sizes[t] = Len(was[1][t])

IInv ==
  /\ Types
  /\ HistoryInv
  /\ AnswerWasTrue
  /\ FailsOnlyOnGrowth

-----------------------------------------------------------------------------
(* Lemmas *)

\* A value is a sequence of elements.
LEMMA ValuesAreSeqs == Values \subseteq Seq(Elements)
<1>1. ASSUME NEW v \in Values PROVE v \in Seq(Elements)
  <2>1. PICK m \in 0..MaxLen : v \in [1..m -> Elements]
    BY DEF Values, BoundedSeq, SeqOf
  <2>2. m \in Nat
    BY LengthsAssumption
  <2> QED
    BY <2>1, <2>2
<1> QED
  BY <1>1

\* What fits into its buffer is taken from it as it is.
LEMMA TakenIsValue ==
  ASSUME Types, NEW t \in Things, Len(value[t]) <= sizes[t]
  PROVE  Taken(t) = value[t]
<1> DEFINE v == value[t]  n == sizes[t]
<1>1. v \in Seq(Elements) /\ n \in Nat /\ Len(v) \in 0..n
  BY DEF Types, Valuations
<1>2. Taken(t) = SubSeq(Buffer(t), 1, Len(v))
  BY <1>1 DEF Taken
<1>3. \A i \in 1..Len(v) : Buffer(t)[i] = v[i] /\ v[i] \in Elements
  <2>1. \A i \in 1..Len(v) : i \in 1..n /\ i <= Len(v) /\ v[i] \in Elements
    BY <1>1
  <2> QED
    BY <2>1 DEF Buffer
<1> HIDE DEF v, n
<1>4. Len(v) \in Int /\ 1 \in Int
  BY <1>1
<1>5. /\ SubSeq(Buffer(t), 1, Len(v)) \in Seq(Elements)
      /\ Len(SubSeq(Buffer(t), 1, Len(v))) = IF 1 <= Len(v) THEN Len(v) - 1 + 1 ELSE 0
      /\ \A i \in 1..(Len(v) - 1 + 1) : SubSeq(Buffer(t), 1, Len(v))[i] = Buffer(t)[1 + i - 1]
  BY <1>3, <1>4, SubSeqProperties
<1>6. Len(SubSeq(Buffer(t), 1, Len(v))) = Len(v)
  BY <1>1, <1>5
<1>7. \A i \in 1..Len(v) : SubSeq(Buffer(t), 1, Len(v))[i] = v[i]
  BY <1>1, <1>3, <1>5
<1>8. SubSeq(Buffer(t), 1, Len(v)) = v
  BY <1>1, <1>5, <1>6, <1>7, SeqEqual
<1> QED
  BY <1>2, <1>8 DEF v

\* The initial state satisfies the invariant.
LEMMA InitIInv == Init => IInv
<1> SUFFICES ASSUME Init PROVE IInv
  OBVIOUS
<1>1. Types
  BY ValuesAreSeqs DEF Init, Types, Valuations
<1> QED
  BY <1>1 DEF Init, IInv, HistoryInv, AnswerWasTrue, FailsOnlyOnGrowth

\* A change is the newest of the history, and leaves its beginning alone.
LEMMA ChangeStep ==
  ASSUME IInv, Change
  PROVE  IInv'
<1>1. PICK t \in asked, v \in Values : value' = [value EXCEPT ![t] = v]
  BY DEF Change
<1>2. /\ pc = "data" /\ was' = Append(was, value')
      /\ UNCHANGED <<pc, asked, sizes, outcome, answer>>
  BY DEF Change
<1>3. was \in Seq(Valuations) /\ value' \in Valuations
  BY <1>1, ValuesAreSeqs DEF IInv, Types, Valuations
<1>4. /\ was' \in Seq(Valuations) /\ was' # << >>
      /\ was'[Len(was')] = value'
      /\ was # << >> => was'[1] = was[1]
  <2>1. /\ was' \in Seq(Valuations) /\ was' # << >> /\ Len(was') = Len(was) + 1
        /\ was'[Len(was) + 1] = value'
        /\ \A i \in 1..Len(was) : was'[i] = was[i]
    BY <1>2, <1>3, AppendProperties
  <2>2. was # << >> => 1 \in 1..Len(was)
    BY <1>3, EmptySeq
  <2> QED
    BY <2>1, <2>2
<1>5. Types'
  BY <1>2, <1>3, <1>4 DEF IInv, Types
<1>6. HistoryInv'
  BY <1>2, <1>4 DEF IInv, HistoryInv
<1>7. outcome' = "none"
  BY <1>2 DEF IInv, HistoryInv
<1> QED
  BY <1>5, <1>6, <1>7 DEF IInv, AnswerWasTrue, FailsOnlyOnGrowth

\* The first call begins the history, and may find that a list is empty.
LEMMA SizeStep ==
  ASSUME IInv, NEW q \in Questions, SizePass(q)
  PROVE  IInv'
<1>1. /\ asked' = q /\ was' = <<value>> /\ value' = value
      /\ sizes' = [t \in Things |-> IF t \in q THEN Size(t) ELSE 0]
  BY DEF SizePass
<1>2. value \in Valuations /\ \A t \in Things : Len(value[t]) \in Nat
  BY DEF IInv, Types, Valuations
<1>3. q \subseteq Things
  BY DEF Questions, Things
<1>4. was' \in Seq(Valuations) /\ was' # << >> /\ Len(was') = 1 /\ was'[1] = value
  BY <1>1, <1>2
<1>5. Types'
  BY <1>1, <1>2, <1>3, <1>4 DEF IInv, Types, Size
<1>6. /\ outcome' \in {"none", "ok", "error"}
      /\ outcome' = "none" <=> pc' = "data"
      /\ outcome' = "ok" => /\ answer' = NoAnswer
                            /\ \E l \in q \cap Lists : sizes'[l] = 0
  BY DEF SizePass, Return
<1>7. HistoryInv'
  BY <1>1, <1>3, <1>4, <1>6 DEF HistoryInv, Size
<1>8. AnswerWasTrue'
  <2>1. ASSUME outcome' = "ok" PROVE \A t \in asked' : answer'[t] = was'[1][t]
    <3>1. PICK l \in q \cap Lists : sizes'[l] = 0
      BY <1>6, <2>1
    <3>2. q = {l}
      BY <3>1, ThingsAssumption DEF Questions
    <3>3. value[l] = << >>
      BY <1>1, <1>2, <1>3, <3>1, EmptySeq DEF Size, Valuations
    <3> QED
      BY <1>1, <1>3, <1>4, <1>6, <2>1, <3>2, <3>3 DEF NoAnswer
  <2>2. 1 \in DOMAIN was'
    BY <1>4
  <2> QED
    BY <2>1, <2>2 DEF AnswerWasTrue
<1>9. FailsOnlyOnGrowth'
  BY <1>6 DEF FailsOnlyOnGrowth
<1> QED
  BY <1>5, <1>7, <1>8, <1>9 DEF IInv

\* The second call answers with the present values, which fit, or says which does
\* not.
LEMMA DataStep ==
  ASSUME IInv, DataPass
  PROVE  IInv'
<1>1. pc = "data" /\ pc' = "idle" /\ UNCHANGED <<value, asked, sizes, was>>
  BY DEF DataPass, Return
<1>2. /\ was # << >> /\ was[Len(was)] = value
      /\ \A t \in asked : sizes[t] = Len(was[1][t])
  BY <1>1 DEF IInv, HistoryInv
<1>3. 1 \in DOMAIN was /\ Len(was) \in DOMAIN was
  BY <1>2, EmptySeq DEF IInv, Types
<1>4. Types' /\ HistoryInv'
  BY <1>1 DEF IInv, Types, HistoryInv
<1>5. AnswerWasTrue'
  <2>1. ASSUME outcome' = "ok", NEW t \in asked
        PROVE  answer'[t] = value[t] \/ (answer'[t] = << >> /\ was[1][t] = << >>)
    <3>1. ~TooSmall(t) /\ t \in Things /\ answer'[t] = Taken(t)
      BY <2>1 DEF DataPass, Return, IInv, Types
    <3>2. Len(value[t]) \in Nat /\ sizes[t] \in Nat /\ was[1][t] \in Seq(Elements)
      BY <1>3, <3>1 DEF IInv, Types, Valuations
    <3>3. CASE Len(value[t]) <= sizes[t]
      BY <3>1, <3>3, TakenIsValue DEF IInv
    <3>4. CASE Len(value[t]) > sizes[t]
      <4>1. sizes[t] = 0
        BY <3>1, <3>2, <3>4 DEF TooSmall
      <4>2. was[1][t] = << >>
        BY <1>2, <2>1, <3>2, <4>1, EmptySeq
      <4> QED
        BY <3>1, <3>4, <4>2 DEF Taken
    <3> QED
      BY <3>2, <3>3, <3>4
  <2> QED
    BY <1>1, <1>2, <1>3, <2>1 DEF AnswerWasTrue
<1>6. FailsOnlyOnGrowth'
  <2>1. ASSUME outcome' = "tooSmall" PROVE \E t \in asked : TooSmall(t)
    BY <2>1 DEF DataPass, Return
  <2> QED
    BY <1>1, <1>2, <1>3, <2>1 DEF FailsOnlyOnGrowth, TooSmall
<1> QED
  BY <1>4, <1>5, <1>6 DEF IInv

\* The conjuncts of IInv together are inductive.
LEMMA NextIInv == IInv /\ [Next]_vars => IInv'
<1> SUFFICES ASSUME IInv, [Next]_vars PROVE IInv'
  OBVIOUS
<1>1. CASE UNCHANGED vars
  BY <1>1 DEF vars, IInv, Types, HistoryInv, AnswerWasTrue, FailsOnlyOnGrowth
<1> QED
  BY <1>1, ChangeStep, SizeStep, DataStep DEF Next

\* IInv holds in every reachable state.
LEMMA InductiveInvariant == Spec => []IInv
  BY InitIInv, NextIInv, PTL DEF Spec

-----------------------------------------------------------------------------
(* Theorems *)

\* Whatever changes while a method asks twice, it returns what was true at one
\* instant of the call, of all attributes together, but for those that had no
\* buffer.  (GetAttributeValue, GetSlotList, GetMechanismList.)
THEOREM AnswersWereTrue == Spec => []AnswerWasTrue
<1>1. IInv => AnswerWasTrue
  BY DEF IInv
<1> QED
  BY <1>1, InductiveInvariant, PTL

\* CKR_BUFFER_TOO_SMALL from the second call means that something asked for has
\* grown since the first.
THEOREM FailuresMeanGrowth == Spec => []FailsOnlyOnGrowth
<1>1. IInv => FailsOnlyOnGrowth
  BY DEF IInv
<1> QED
  BY <1>1, InductiveInvariant, PTL
=============================================================================
