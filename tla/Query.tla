-------------------------------- MODULE Query ------------------------------
(***************************************************************************)
(* The methods of Ctx that ask twice, for the size of an answer and then   *)
(* for the answer: GetSlotList and GetMechanismList ask for one list,      *)
(* GetAttributeValue for the values of some attributes at once.  Between   *)
(* the two calls the answer may change: a token is plugged in or removed,  *)
(* another session or application writes an attribute.                     *)
(***************************************************************************)
EXTENDS Naturals, SequencesExt

CONSTANTS Lists,     \* the slot list, a mechanism list
          Attrs,     \* the attributes of one object asked for
          Elements,  \* slots, mechanisms, bytes
          Zero,      \* an element of a new buffer, before it is written
          MaxLen,    \* bound on the length of a list or value
          MaxChanges \* bound on the changes during a call

ASSUME ThingsAssumption == Lists \cap Attrs = {}
ASSUME ZeroAssumption == Zero \notin Elements
ASSUME LengthsAssumption == MaxLen \in Nat /\ MaxChanges \in Nat

VARIABLES value,   \* the token: what each list and attribute is now
          pc,
          asked,   \* what the call is about
          sizes,   \* what the first call of the function answered
          outcome, \* how the last call of a method ended
          answer,  \* what it returned
          was      \* history: what value has been since the call began, in order

vars == <<value, pc, asked, sizes, outcome, answer, was>>

Things == Lists \cup Attrs
Values == BoundedSeq(Elements, MaxLen)
Questions == {{l} : l \in Lists} \cup {Attrs}

Init ==
  /\ value \in [Things -> Values]
  /\ pc = "idle" /\ asked = {} /\ outcome = "none"
  /\ sizes = [t \in Things |-> 0]
  /\ answer = [t \in Things |-> << >>]
  /\ was = << >>

\* Somebody else changes the answer.
Change ==
  /\ pc = "data"
  /\ Len(was) <= MaxChanges
  /\ \E t \in asked : \E v \in Values \ {value[t]} :
       value' = [value EXCEPT ![t] = v]
  /\ was' = Append(was, value')
  /\ UNCHANGED <<pc, asked, sizes, outcome, answer>>

Return(o, a) ==
  /\ pc' = "idle"
  /\ outcome' = o
  /\ answer' = a

NoAnswer == [t \in Things |-> << >>]

\* The size that the first call leaves, as the method reads it.
MutSize(t) == IF Len(value[t]) > 1 THEN 1 ELSE Len(value[t]) \* the number of things asked for
Size(t) == Len(value[t])

\* First call, with NULL.  An empty list is returned at once.
SizePass(q) ==
  /\ pc = "idle"
  /\ asked' = q
  /\ was' = <<value>>
  /\ sizes' = [t \in Things |-> IF t \in q THEN Size(t) ELSE 0]
  /\ \/ Return("error", NoAnswer)
     \/ /\ \E l \in q \cap Lists : sizes'[l] = 0
        /\ Return("ok", NoAnswer)
     \/ /\ \A l \in q \cap Lists : sizes'[l] # 0
        /\ pc' = "data" /\ outcome' = "none" /\ answer' = NoAnswer
  /\ UNCHANGED value

\* What is asked for has outgrown its buffer.  With no buffer, which is what an
\* attribute of size zero gets, the function only answers the new size.
TooSmall(t) == sizes[t] > 0 /\ Len(value[t]) > sizes[t]

\* The buffer of t as the function leaves it.
Buffer(t) == [i \in 1..sizes[t] |-> IF i <= Len(value[t]) THEN value[t][i] ELSE Zero]

MutTaken(t) == Buffer(t) \* the length from the second call is not read
Taken(t) ==
  IF Len(value[t]) > sizes[t] THEN << >> ELSE SubSeq(Buffer(t), 1, Len(value[t]))

\* Second call, with buffers of the sizes found.
DataPass ==
  /\ pc = "data"
  /\ \/ Return("error", NoAnswer)
     \/ /\ \E t \in asked : TooSmall(t)
        /\ Return("tooSmall", NoAnswer)
     \/ /\ \A t \in asked : ~TooSmall(t)
        /\ Return("ok", [t \in Things |-> IF t \in asked THEN Taken(t) ELSE << >>])
  /\ UNCHANGED <<value, asked, sizes, was>>

Next == Change \/ DataPass \/ \E q \in Questions : SizePass(q)

Spec == Init /\ [][Next]_vars

-----------------------------------------------------------------------------
(* Properties *)

\* What a method returns was true at one instant of the call: nothing made up,
\* nothing longer or shorter, no two attributes from different instants.  Only an
\* attribute that was empty at first may be returned as empty beside later values
\* of the others, since it had no buffer to get a new value in.
\* (unmarshalAttributes, result[:count].)
AnswerWasTrue ==
  outcome = "ok" =>
    \E i \in DOMAIN was : \A t \in asked :
      \/ answer[t] = was[i][t]
      \/ answer[t] = << >> /\ was[1][t] = << >>

\* A method fails for want of room only when something asked for has grown since
\* the call began: while nobody changes anything, it answers.  (The buffers of the
\* second call have the sizes of the first.)
FailsOnlyOnGrowth ==
  outcome = "tooSmall" =>
    \E t \in asked, i \in DOMAIN was : Len(was[i][t]) > Len(was[1][t])
=============================================================================
