--------------------------- MODULE GCMParamsProofs --------------------------
(***************************************************************************)
(* A GCMParams shared by any number of goroutines, with any number of      *)
(* operations.                                                             *)
(*                                                                         *)
(* The critical section of marshal appends to the g.ops it has read        *)
(* (LockInv), so no operation is lost from the list; memory belongs to one *)
(* operation, which is in the list from its append on (MemInv); and what   *)
(* IV has answered stays in the list until it is unmapped (AnswerInv).     *)
(***************************************************************************)
EXTENDS GCMParams, SequenceTheorems, TLAPS

LockInv ==
  \A p \in Procs : /\ pc[p] = "append" <=> mu = p
                   /\ pc[p] = "append" => seen[p] = ops

MemInv ==
  \A p \in Procs :
    /\ mem[p] = None <=> pc[p] = "idle"
    /\ Unlisted(p) => mem[p] \notin Range(ops)
    /\ pc[p] \in {"init", "active"} => mem[p] \in Range(ops)
    /\ \A q \in Procs \ {p} : mem[p] # None => mem[q] # mem[p]

AnswerInv ==
  \A p \in Procs : /\ answer[p] \in used \cup {None}
                   /\ answer[p] \in mapped => answer[p] \in Range(ops)

IInv ==
  /\ TypeOK
  /\ LockInv
  /\ MemInv
  /\ MemoryIsListed
  /\ AnswerInv

-----------------------------------------------------------------------------
(* Lemmas *)

\* The elements of a sequence are what it has at its positions.
LEMMA InRange ==
  ASSUME NEW S, NEW s \in Seq(S), NEW x
  PROVE  x \in Range(s) <=> \E i \in 1..Len(s) : s[i] = x
  BY DEF Range

\* The empty sequence has none.
LEMMA EmptyRange == Range(<< >>) = {} /\ IsInjective(<< >>)
  BY DEF Range, IsInjective

\* Append adds its element and keeps a sequence without repetition so if the
\* element is new.
LEMMA AppendRange ==
  ASSUME NEW S, NEW s \in Seq(S), NEW e \in S
  PROVE  /\ Range(Append(s, e)) = Range(s) \cup {e}
         /\ IsInjective(s) /\ e \notin Range(s) => IsInjective(Append(s, e))
<1>1. Append(s, e) \in Seq(S) /\ Len(Append(s, e)) = Len(s) + 1
  OBVIOUS
<1>2. \A i \in 1..Len(s) : Append(s, e)[i] = s[i]
  OBVIOUS
<1>3. Append(s, e)[Len(s) + 1] = e
  OBVIOUS
<1>4. 1..(Len(s) + 1) = 1..Len(s) \cup {Len(s) + 1}
  OBVIOUS
<1>5. Range(Append(s, e)) = Range(s) \cup {e}
  BY <1>1, <1>2, <1>3, <1>4 DEF Range
<1>6. ASSUME IsInjective(s), e \notin Range(s) PROVE IsInjective(Append(s, e))
  BY <1>1, <1>2, <1>3, <1>4, <1>6 DEF Range, IsInjective
<1> QED
  BY <1>5, <1>6

\* The newest operation is listed, after every other one.
LEMMA LastListed ==
  ASSUME NEW S, NEW s \in Seq(S), s # << >>
  PROVE  /\ Last(s) \in Range(s)
         /\ \A x \in Range(s) : x # Last(s) =>
              \E i, j \in DOMAIN s : i < j /\ s[i] = x /\ s[j] = Last(s)
<1>1. Len(s) \in 1..Len(s) /\ DOMAIN s = 1..Len(s)
  BY EmptySeq
<1>2. Last(s) = s[Len(s)]
  BY DEF Last
<1>3. Last(s) \in Range(s)
  BY <1>1, <1>2, InRange
<1>4. ASSUME NEW x \in Range(s), x # Last(s)
      PROVE  \E i, j \in DOMAIN s : i < j /\ s[i] = x /\ s[j] = Last(s)
  <2>1. PICK i \in 1..Len(s) : s[i] = x
    BY InRange
  <2>2. i < Len(s)
    BY <1>1, <1>2, <1>4, <2>1
  <2> QED
    BY <1>1, <1>2, <2>1, <2>2
<1> QED
  BY <1>3, <1>4

\* The initial state satisfies the invariant.
LEMMA InitIInv == Init => IInv
<1> SUFFICES ASSUME Init PROVE IInv
  OBVIOUS
<1>1. TypeOK
  BY DEF Init, TypeOK, PCs
<1>2. LockInv
  BY SentinelAssumption DEF Init, LockInv
<1>3. Range(ops) = {} /\ IsInjective(ops)
  BY EmptyRange DEF Init
<1>4. MemInv
  BY <1>3 DEF Init, MemInv, Unlisted
<1>5. MemoryIsListed
  BY <1>3 DEF Init, MemoryIsListed, Unlisted
<1>6. AnswerInv
  BY SentinelAssumption DEF Init, AnswerInv
<1> QED
  BY <1>1, <1>2, <1>4, <1>5, <1>6 DEF IInv

\* Memory is new when it is mapped.
LEMMA MapStep ==
  ASSUME IInv, NEW p \in Procs, Map(p)
  PROVE  IInv'
<1> USE DEF Goto, PCs
<1>1. PICK m \in Memory \ used :
        /\ mapped' = mapped \cup {m}
        /\ used' = used \cup {m}
        /\ mem' = [mem EXCEPT ![p] = m]
  BY DEF Map
<1>2. /\ pc[p] = "idle" /\ pc' = [pc EXCEPT ![p] = "lock"]
      /\ UNCHANGED <<ops, mu, seen, answer>>
  BY DEF Map
<1>3. m # None /\ m \notin mapped
  BY SentinelAssumption DEF IInv, TypeOK
<1>4. TypeOK'
  BY <1>1, <1>2 DEF IInv, TypeOK
<1>5. LockInv'
  BY <1>2 DEF IInv, TypeOK, LockInv
<1>6. Range(ops) \subseteq mapped /\ \A q \in Procs : Unlisted(q) => mem[q] \in mapped
  BY DEF IInv, MemoryIsListed
<1>7. MemInv'
  <2>1. ASSUME NEW q \in Procs, q # p PROVE mem[q] # m
    BY <1>3, <1>6 DEF IInv, TypeOK, MemInv, Unlisted
  <2> QED
    BY <1>1, <1>2, <1>3, <1>6, <2>1 DEF IInv, TypeOK, MemInv, Unlisted
<1>8. MemoryIsListed'
  <2>1. /\ \A q \in Procs : Unlisted(q)' <=> Unlisted(q) \/ q = p
        /\ \A q \in Procs : q # p => mem'[q] = mem[q]
        /\ mem'[p] = m /\ ~Unlisted(p)
    BY <1>1, <1>2 DEF IInv, TypeOK, Unlisted
  <2>2. {mem'[q] : q \in {r \in Procs : Unlisted(r)'}}
          = {mem[q] : q \in {r \in Procs : Unlisted(r)}} \cup {m}
    BY <2>1
  <2> QED
    BY <1>1, <1>2, <2>2 DEF IInv, MemoryIsListed
<1>9. AnswerInv'
  <2>1. ASSUME NEW q \in Procs PROVE answer[q] # m
    BY <1>3 DEF IInv, AnswerInv
  <2> QED
    BY <1>1, <1>2, <2>1 DEF IInv, AnswerInv
<1> QED
  BY <1>4, <1>5, <1>7, <1>8, <1>9 DEF IInv

\* What the holder of g.mu has read stays true until it appends.
LEMMA LockStep ==
  ASSUME IInv, NEW p \in Procs, Lock(p)
  PROVE  IInv'
<1> USE DEF Goto, PCs
<1>1. /\ pc[p] = "lock" /\ pc' = [pc EXCEPT ![p] = "append"]
      /\ mu = Nobody /\ mu' = p /\ seen' = [seen EXCEPT ![p] = ops]
      /\ UNCHANGED <<mapped, used, ops, mem, answer>>
  BY DEF Lock
<1>2. TypeOK'
  BY <1>1 DEF IInv, TypeOK
<1>3. LockInv'
  BY <1>1, SentinelAssumption DEF IInv, TypeOK, LockInv
<1>4. \A q \in Procs : Unlisted(q)' <=> Unlisted(q)
  BY <1>1 DEF IInv, TypeOK, Unlisted
<1>5. MemInv'
  BY <1>1, <1>4 DEF IInv, TypeOK, MemInv
<1>6. MemoryIsListed'
  BY <1>1, <1>4 DEF IInv, MemoryIsListed
<1>7. AnswerInv'
  BY <1>1 DEF IInv, AnswerInv
<1> QED
  BY <1>2, <1>3, <1>5, <1>6, <1>7 DEF IInv

\* The append lists memory that was not listed, and loses none.
LEMMA AppendStep ==
  ASSUME IInv, NEW p \in Procs, AppendOp(p)
  PROVE  IInv'
<1> USE DEF Goto, PCs
<1>1. /\ pc[p] = "append" /\ pc' = [pc EXCEPT ![p] = "init"]
      /\ mu' = Nobody /\ seen' = [seen EXCEPT ![p] = << >>]
      /\ UNCHANGED <<mapped, used, mem, answer>>
  BY DEF AppendOp
<1>2. mu = p /\ ops' = Append(ops, mem[p])
  BY DEF AppendOp, IInv, LockInv
<1>3. mem[p] \in Memory /\ mem[p] \notin Range(ops) /\ ops \in Seq(Memory)
  BY <1>1 DEF IInv, TypeOK, MemInv, Unlisted
<1>4. Range(ops') = Range(ops) \cup {mem[p]} /\ IsInjective(ops')
  BY <1>2, <1>3, AppendRange DEF IInv, MemoryIsListed
<1>5. TypeOK'
  <2>1. ops' \in Seq(Memory)
    BY <1>2, <1>3
  <2> QED
    BY <1>1, <2>1 DEF IInv, TypeOK
<1>6. LockInv'
  BY <1>1, <1>2, SentinelAssumption DEF IInv, TypeOK, LockInv
<1>7. \A q \in Procs : Unlisted(q)' <=> Unlisted(q) /\ q # p
  BY <1>1 DEF IInv, TypeOK, Unlisted
<1>8. \A q \in Procs \ {p} : mem[q] # mem[p]
  BY <1>1 DEF IInv, MemInv
<1>9. MemInv'
  BY <1>1, <1>4, <1>7, <1>8 DEF IInv, TypeOK, MemInv
<1>10. MemoryIsListed'
  <2>1. {mem[q] : q \in {r \in Procs : Unlisted(r)}}
          = {mem[q] : q \in {r \in Procs : Unlisted(r) /\ r # p}} \cup {mem[p]}
    BY <1>1 DEF Unlisted
  <2>2. {mem'[q] : q \in {r \in Procs : Unlisted(r)'}}
          = {mem[q] : q \in {r \in Procs : Unlisted(r) /\ r # p}}
    BY <1>1, <1>7
  <2> QED
    BY <1>1, <1>4, <2>1, <2>2 DEF IInv, MemoryIsListed
<1>11. AnswerInv'
  BY <1>1, <1>4 DEF IInv, AnswerInv
<1> QED
  BY <1>5, <1>6, <1>9, <1>10, <1>11 DEF IInv

\* An operation that has started, or ended, leaves the list as it is.
LEMMA ModuleStep ==
  ASSUME IInv, NEW p \in Procs, CInit(p) \/ End(p)
  PROVE  IInv'
<1> USE DEF Goto, PCs
<1>1. /\ pc[p] \in {"init", "active"}
      /\ UNCHANGED <<mapped, used, ops, mu, seen, answer>>
  BY DEF CInit, End
<1>2. \/ pc' = [pc EXCEPT ![p] = "active"] /\ mem' = mem
      \/ pc' = [pc EXCEPT ![p] = "idle"] /\ mem' = [mem EXCEPT ![p] = None]
  BY DEF CInit, End
<1>3. TypeOK'
  BY <1>1, <1>2 DEF IInv, TypeOK
<1>4. LockInv'
  BY <1>1, <1>2 DEF IInv, TypeOK, LockInv
<1>5. /\ \A q \in Procs : Unlisted(q)' <=> Unlisted(q)
      /\ \A q \in Procs : q # p => mem'[q] = mem[q] /\ pc'[q] = pc[q]
      /\ ~Unlisted(p)
  BY <1>1, <1>2 DEF IInv, TypeOK, Unlisted
<1>6. MemInv'
  <2>1. CASE pc' = [pc EXCEPT ![p] = "active"] /\ mem' = mem
    BY <1>1, <1>5, <2>1 DEF IInv, TypeOK, MemInv
  <2>2. CASE pc' = [pc EXCEPT ![p] = "idle"] /\ mem' = [mem EXCEPT ![p] = None]
    BY <1>1, <1>5, <2>2 DEF IInv, TypeOK, MemInv
  <2> QED
    BY <1>2, <2>1, <2>2
<1>7. MemoryIsListed'
  <2>1. {mem'[q] : q \in {r \in Procs : Unlisted(r)'}}
          = {mem[q] : q \in {r \in Procs : Unlisted(r)}}
    BY <1>5
  <2> QED
    BY <1>1, <2>1 DEF IInv, MemoryIsListed
<1>8. AnswerInv'
  BY <1>1 DEF IInv, AnswerInv
<1> QED
  BY <1>3, <1>4, <1>6, <1>7, <1>8 DEF IInv

\* IV answers with memory that is listed.
LEMMA IVStep ==
  ASSUME IInv, NEW p \in Procs, IV(p)
  PROVE  IInv'
<1>1. /\ answer' = [answer EXCEPT ![p] = IF ops = << >> THEN None ELSE Last(ops)]
      /\ UNCHANGED <<mapped, used, ops, mu, pc, mem, seen>>
  BY DEF IV
<1>2. ops # << >> => Last(ops) \in Range(ops) /\ Last(ops) \in mapped /\ Last(ops) \in used
  BY LastListed DEF IInv, TypeOK, MemoryIsListed
<1>3. TypeOK'
  BY <1>1, <1>2 DEF IInv, TypeOK
<1>4. LockInv' /\ MemInv' /\ MemoryIsListed'
  BY <1>1 DEF IInv, LockInv, MemInv, MemoryIsListed, Unlisted
<1>5. AnswerInv'
  <2>1. answer'[p] \in used \cup {None} /\ (answer'[p] \in mapped => answer'[p] \in Range(ops))
    BY <1>1, <1>2, SentinelAssumption DEF IInv, TypeOK
  <2>2. \A q \in Procs \ {p} : answer'[q] = answer[q]
    BY <1>1 DEF IInv, TypeOK
  <2> QED
    BY <1>1, <2>1, <2>2 DEF IInv, AnswerInv
<1> QED
  BY <1>3, <1>4, <1>5 DEF IInv

\* With no operation under way everything mapped is listed, and Free unmaps it.
LEMMA FreeStep ==
  ASSUME IInv, Free
  PROVE  IInv'
<1>1. /\ \A p \in Procs : pc[p] = "idle"
      /\ mapped' = mapped \ Range(ops) /\ ops' = << >>
      /\ UNCHANGED <<used, mu, pc, mem, seen, answer>>
  BY DEF Free
<1>2. Range(ops') = {} /\ IsInjective(ops')
  BY <1>1, EmptyRange
<1>3. TypeOK'
  BY <1>1 DEF IInv, TypeOK
<1>4. LockInv' /\ MemInv'
  BY <1>1, <1>2 DEF IInv, LockInv, MemInv, Unlisted
<1>5. MemoryIsListed'
  BY <1>1, <1>2 DEF IInv, MemoryIsListed, Unlisted
<1>6. AnswerInv'
  BY <1>1 DEF IInv, AnswerInv
<1> QED
  BY <1>2, <1>3, <1>4, <1>5, <1>6 DEF IInv

\* The conjuncts of IInv together are inductive.
LEMMA NextIInv == IInv /\ [Next]_vars => IInv'
<1> SUFFICES ASSUME IInv, [Next]_vars PROVE IInv'
  OBVIOUS
<1>1. CASE UNCHANGED vars
  BY <1>1 DEF vars, IInv, TypeOK, LockInv, MemInv, MemoryIsListed, AnswerInv, Unlisted
<1> QED
  BY <1>1, MapStep, LockStep, AppendStep, ModuleStep, IVStep, FreeStep DEF Next

\* IInv holds in every reachable state.
LEMMA InductiveInvariant == Spec => []IInv
  BY InitIInv, NextIInv, PTL DEF Spec

-----------------------------------------------------------------------------
(* Theorems *)

\* Every variable keeps its type.
THEOREM TypeCorrect == Spec => []TypeOK
<1>1. IInv => TypeOK
  BY DEF IInv
<1> QED
  BY <1>1, InductiveInvariant, PTL

\* g.ops lists what is mapped, each once, but for what a marshal is about to list:
\* no memory leaks from Free, none is unmapped twice, and IV reads none that is
\* gone, whatever operations share the parameters.  (marshal, IV and Free.)
THEOREM MemoryListed == Spec => []MemoryIsListed
<1>1. IInv => MemoryIsListed
  BY DEF IInv
<1> QED
  BY <1>1, InductiveInvariant, PTL

\* An operation keeps memory of its own from C_EncryptInit to its end, so the
\* module can write its IV there at any time.  (marshal.)
THEOREM MemoryKept == Spec => []OperationsKeepMemory
<1>1. ASSUME IInv PROVE OperationsKeepMemory
  <2>1. ASSUME NEW p \in Procs, pc[p] \in {"init", "active"}
        PROVE  mem[p] \in mapped /\ \A q \in Procs \ {p} : mem[q] # mem[p]
    BY <1>1, <2>1 DEF IInv, MemInv, MemoryIsListed
  <2> QED
    BY <2>1 DEF OperationsKeepMemory
<1> QED
  BY <1>1, InductiveInvariant, PTL

\* A later call of IV never answers with an older operation's IV: appends that
\* overlap do not drop an operation that was answered.  (IV and marshal.)
THEOREM NewerIV == Spec => IVNeverOlder
<1>1. ASSUME IInv, [Next]_vars, NEW p \in Procs, answer'[p] # answer[p], answer[p] \in mapped
      PROVE  \E i, j \in DOMAIN ops : i < j /\ ops[i] = answer[p] /\ ops[j] = answer'[p]
  <2>1. PICK q \in Procs : IV(q)
    BY <1>1 DEF Next, vars, Map, Lock, AppendOp, CInit, End, Free
  <2>2. answer'[p] = IF ops = << >> THEN None ELSE Last(ops)
    BY <1>1, <2>1 DEF IV, IInv, TypeOK
  <2>3. answer[p] \in Range(ops) /\ ops \in Seq(Memory)
    BY <1>1 DEF IInv, AnswerInv, TypeOK
  <2>4. ops # << >>
    BY <2>3, EmptyRange
  <2> QED
    BY <1>1, <2>2, <2>3, <2>4, LastListed
<1>2. IInv /\ [Next]_vars =>
        [\A p \in Procs : answer'[p] # answer[p] /\ answer[p] \in mapped =>
           \E i, j \in DOMAIN ops : i < j /\ ops[i] = answer[p] /\ ops[j] = answer'[p]]_vars
  BY <1>1
<1> QED
  BY <1>2, InductiveInvariant, PTL DEF Spec, IVNeverOlder
=============================================================================
