---------------------------- MODULE PoolProofs -----------------------------
(***************************************************************************)
(* The safety of signer.Pool for any number of goroutines and any size.    *)
(*                                                                         *)
(* The heart of the inductive invariant is PlaceInv: the channel, the Keys *)
(* the running Destroy has collected and those the goroutines hold never   *)
(* overlap and together are all Keys.  That a send never blocks follows by *)
(* counting, and so does that a Destroy which has collected N Keys has     *)
(* them all.  QueueInv and HeldInv say who may receive and who holds,      *)
(* DestroyInv which Keys are open while a Destroy is under way.            *)
(***************************************************************************)
EXTENDS Pool, SequenceTheorems, FiniteSetTheorems, TLAPS

-----------------------------------------------------------------------------
(* Sequences without repetition: their elements after an Append or a Tail, *)
(* and how many of them fit.                                               *)

\* An element is in the range of a sequence at some position.
LEMMA InRange ==
  ASSUME NEW S, NEW s \in Seq(S), NEW x
  PROVE  /\ x \in Range(s) <=> \E i \in 1..Len(s) : s[i] = x
         /\ Contains(s, x) <=> x \in Range(s)
         /\ Range(s) \subseteq S
  BY DEF Range, Contains

\* The empty sequence has no elements, and is the only one.
LEMMA EmptyRange ==
  /\ Range(<< >>) = {}
  /\ IsInjective(<< >>)
  /\ \A S : \A s \in Seq(S) : Range(s) = {} => s = << >>
<1>1. Range(<< >>) = {}
  BY DEF Range
<1>2. IsInjective(<< >>)
  BY DEF IsInjective
<1>3. ASSUME NEW S, NEW s \in Seq(S), Range(s) = {} PROVE s = << >>
  <2>1. Len(s) \in Nat /\ \A i \in 1..Len(s) : s[i] \in Range(s)
    BY InRange
  <2> QED
    BY <2>1, <1>3
<1> QED
  BY <1>1, <1>2, <1>3

\* Append adds its element and keeps a sequence without repetition so if the
\* element is new.
LEMMA AppendRange ==
  ASSUME NEW S, NEW s \in Seq(S), NEW e \in S
  PROVE  /\ Range(Append(s, e)) = Range(s) \cup {e}
         /\ IsInjective(s) /\ e \notin Range(s) => IsInjective(Append(s, e))
<1>1. Append(s, e) \in Seq(S) /\ Len(Append(s, e)) = Len(s) + 1
  OBVIOUS
<1>2. \A i \in 1..Len(s) : Append(s, e)[i] = s[i]
  OBVIOUS
<1>3. Append(s, e)[Len(s) + 1] = e
  OBVIOUS
<1>4. 1..(Len(s) + 1) = 1..Len(s) \cup {Len(s) + 1}
  OBVIOUS
<1>5. Range(Append(s, e)) = Range(s) \cup {e}
  BY <1>1, <1>2, <1>3, <1>4 DEF Range
<1>6. ASSUME IsInjective(s), e \notin Range(s) PROVE IsInjective(Append(s, e))
  BY <1>1, <1>2, <1>3, <1>4, <1>6 DEF Range, IsInjective
<1> QED
  BY <1>5, <1>6

\* Without repetition, Tail takes the head out of the range.
LEMMA TailRange ==
  ASSUME NEW S, NEW s \in Seq(S), s # << >>
  PROVE  /\ Head(s) \in Range(s) /\ Head(s) \in S /\ Tail(s) \in Seq(S)
         /\ Range(s) = Range(Tail(s)) \cup {Head(s)}
         /\ IsInjective(s) => /\ IsInjective(Tail(s))
                              /\ Head(s) \notin Range(Tail(s))
<1>1. /\ Head(s) = s[1] /\ Head(s) \in S /\ 1 \in 1..Len(s)
      /\ Tail(s) \in Seq(S) /\ Len(Tail(s)) = Len(s) - 1
      /\ \A i \in 1..Len(Tail(s)) : Tail(s)[i] = s[i + 1]
  BY HeadTailProperties, EmptySeq
<1>2. \A i \in 1..Len(s) : i = 1 \/ i - 1 \in 1..Len(Tail(s))
  BY <1>1
<1>3. \A i \in 1..Len(Tail(s)) : i + 1 \in 1..Len(s) /\ i + 1 # 1
  BY <1>1
<1>4. Head(s) \in Range(s)
  BY <1>1 DEF Range
<1>5. Range(s) = Range(Tail(s)) \cup {Head(s)}
  <2>1. ASSUME NEW i \in 1..Len(s) PROVE s[i] = Head(s) \/ s[i] \in Range(Tail(s))
    <3>1. CASE i = 1
      BY <3>1, <1>1
    <3>2. CASE i - 1 \in 1..Len(Tail(s))
      <4>1. PICK j \in 1..Len(Tail(s)) : j = i - 1
        BY <3>2
      <4>2. j + 1 = i
        BY <4>1
      <4>3. Tail(s)[j] = s[i]
        BY <4>2, <1>1
      <4>4. Tail(s)[j] \in Range(Tail(s))
        BY <1>1, InRange
      <4> QED
        BY <4>3, <4>4
    <3> QED
      BY <3>1, <3>2, <1>2
  <2>2. ASSUME NEW i \in 1..Len(Tail(s)) PROVE Tail(s)[i] \in Range(s)
    BY <1>1, <1>3 DEF Range
  <2>3. \A x : x \in Range(s) => \E i \in 1..Len(s) : s[i] = x
    BY InRange
  <2>4. \A x : x \in Range(Tail(s)) => \E i \in 1..Len(Tail(s)) : Tail(s)[i] = x
    <3>1. Tail(s) \in Seq(S)
      BY <1>1
    <3> QED
      BY ONLY <3>1, InRange
  <2> QED
    BY <2>1, <2>2, <2>3, <2>4, <1>4
<1>6. ASSUME IsInjective(s)
      PROVE  IsInjective(Tail(s)) /\ Head(s) \notin Range(Tail(s))
  <2>1. \A i, j \in 1..Len(s) : s[i] = s[j] => i = j
    BY <1>6 DEF IsInjective
  <2>2. ASSUME NEW i \in 1..Len(Tail(s)), NEW j \in 1..Len(Tail(s)), Tail(s)[i] = Tail(s)[j]
        PROVE  i = j
    BY <2>1, <2>2, <1>1, <1>3
  <2>3. ASSUME NEW i \in 1..Len(Tail(s)), Tail(s)[i] = s[1] PROVE FALSE
    BY <2>1, <2>3, <1>1, <1>3
  <2>4. IsInjective(Tail(s))
    BY <2>2, <1>1 DEF IsInjective
  <2> QED
    BY <2>3, <2>4, <1>1, InRange
<1> QED
  BY <1>1, <1>4, <1>5, <1>6

\* A sequence without repetition is no longer than the set its elements are
\* from, as long only if it has them all, and shorter if it misses one.
LEMMA InjectiveLen ==
  ASSUME NEW n \in Nat, NEW s \in Seq(1..n), IsInjective(s)
  PROVE  /\ Len(s) <= n
         /\ Len(s) = n <=> Range(s) = 1..n
<1>1. s \in Injection(1..Len(s), 1..n) /\ Len(s) \in Nat
  BY DEF Injection
<1>2. /\ IsFiniteSet(1..n) /\ Cardinality(1..n) = n
      /\ Cardinality(1..Len(s)) = Len(s)
  <2>1. 1 \in Int /\ n \in Int /\ Len(s) \in Int
    BY <1>1
  <2>2. IsFiniteSet(1..n) /\ Cardinality(1..n) = IF 1 > n THEN 0 ELSE n - 1 + 1
    BY ONLY <2>1, FS_Interval
  <2>3. Cardinality(1..Len(s)) = IF 1 > Len(s) THEN 0 ELSE Len(s) - 1 + 1
    BY ONLY <2>1, FS_Interval
  <2> QED
    BY <1>1, <2>2, <2>3
<1>3. /\ Cardinality(1..Len(s)) <= Cardinality(1..n)
      /\ Cardinality(1..Len(s)) = Cardinality(1..n) <=> s \in Surjection(1..Len(s), 1..n)
  BY <1>1, <1>2, FS_Injection
<1>4. s \in Surjection(1..Len(s), 1..n) <=> Range(s) = 1..n
  <2>1. \A x : x \in Range(s) <=> \E i \in 1..Len(s) : s[i] = x
    BY InRange
  <2>2. s \in [1..Len(s) -> 1..n] /\ Range(s) \subseteq 1..n
    BY <1>1, InRange DEF Injection
  <2> QED
    BY <2>1, <2>2 DEF Surjection
<1> QED
  BY <1>2, <1>3, <1>4

-----------------------------------------------------------------------------
(* The invariant *)

Using == {"sign", "send", "destroyKey"}
Waiting == {"receive", "collect"}
Destroying == {"collect", "destroyKey", "putBack"}

\* Before the pool is handed out nobody uses it, and every Key that is open is
\* on the list of those New has returned.
CreateInv ==
  /\ phase = "creating" =>
       /\ Len(built) <= N
       /\ \A i \in 1..Len(built) : built[i] = i
       /\ \A k \in Keys : open[k] <=> k <= Len(built)
  /\ phase = "undoing" => \A k \in Keys : open[k] => k \in Range(built)
  /\ phase = "failed" => \A k \in Keys : ~open[k]
  /\ phase # "ready" =>
       /\ free = << >> /\ recvq = << >> /\ taken = << >> /\ once = "fresh"
       /\ \A p \in Procs : pc[p] = "idle"

HeldInv == \A p \in Procs : held[p] = NoKey <=> pc[p] \notin Using

\* Only goroutines that want a Key are parked, and none while there is one.
QueueInv ==
  /\ IsInjective(recvq)
  /\ \A p \in Range(recvq) : pc[p] \in Waiting
  /\ recvq # << >> => free = << >>

PlaceInv ==
  /\ IsInjective(free) /\ IsInjective(taken)
  /\ Range(free) \cap Range(taken) = {}
  /\ \A p \in Procs : held[p] \notin Range(free) /\ held[p] \notin Range(taken)
  /\ \A p, q \in Procs : held[p] = held[q] /\ held[p] # NoKey => p = q
  /\ phase = "ready" =>
       \A k \in Keys : k \in Range(free) \cup Range(taken) \/ \E p \in Procs : held[p] = k

\* One goroutine at a time runs the function of destroyOnce.  Until it has all
\* Keys the destroyed ones are those it has collected, and when it puts them back
\* all are destroyed.
DestroyInv ==
  /\ \A p, q \in Procs : pc[p] \in Destroying /\ pc[q] \in Destroying => p = q
  /\ once = "running" <=> \E p \in Procs : pc[p] \in Destroying
  /\ taken # << >> => once = "running"
  /\ \A p \in Procs : pc[p] \in {"collect", "destroyKey"} =>
       \A k \in Keys : ~open[k] <=> k \in Range(taken)
  /\ \A p \in Procs : pc[p] = "putBack" => \A k \in Keys : ~open[k]
  /\ phase = "ready" /\ once = "fresh" => \A k \in Keys : open[k]
  /\ once = "done" => \A k \in Keys : ~open[k]

\* result is set where the call takes effect and read until it returns.
ResultInv ==
  \A p \in Procs :
    /\ pc[p] \in {"idle", "receive", "sign", "once", "collect", "destroyKey"}
         => result[p] = "pending"
    /\ pc[p] = "send" => result[p] \in {"ok", "error", "dead"}
    /\ pc[p] = "putBack" => result[p] = "done"
    /\ pc[p] = "return" => result[p] # "pending"

IInv ==
  /\ TypeOK
  /\ CreateInv
  /\ HeldInv
  /\ QueueInv
  /\ PlaceInv
  /\ DestroyInv
  /\ ResultInv

-----------------------------------------------------------------------------
(* What a receive and a send do, in terms of who has which Key *)

\* p takes a Key out of the channel ...
Takes(p) ==
  \E k \in Range(free) :
    /\ free' \in Seq(Keys) /\ IsInjective(free') /\ Range(free') = Range(free) \ {k}
    /\ held' = [held EXCEPT ![p] = k]
    /\ pc' = [pc EXCEPT ![p] = Received(pc[p])]
    /\ recvq = << >> /\ recvq' = << >>

\* ... or is parked.
Parks(p) ==
  /\ recvq' \in Seq(Procs) /\ IsInjective(recvq') /\ Range(recvq') = Range(recvq) \cup {p}
  /\ free = << >>
  /\ UNCHANGED <<free, held, pc>>

LEMMA ReceiveEffect ==
  ASSUME TypeOK, QueueInv, PlaceInv, NEW p \in Procs, Receive(p)
  PROVE  Takes(p) \/ Parks(p)
<1>1. CASE free # << >> /\ held' = [held EXCEPT ![p] = Head(free)] /\ free' = Tail(free)
           /\ pc' = [pc EXCEPT ![p] = Received(pc[p])] /\ UNCHANGED recvq
  <2>1. free \in Seq(Keys) /\ IsInjective(free)
    BY DEF TypeOK, PlaceInv
  <2>2. /\ Head(free) \in Range(free) /\ Tail(free) \in Seq(Keys)
        /\ Range(free) = Range(Tail(free)) \cup {Head(free)}
        /\ IsInjective(Tail(free)) /\ Head(free) \notin Range(Tail(free))
    BY <1>1, <2>1, TailRange
  <2>3. recvq = << >>
    BY <1>1 DEF QueueInv
  <2> QED
    BY <1>1, <2>2, <2>3 DEF Takes
<1>2. CASE free = << >> /\ ~Contains(recvq, p) /\ recvq' = Append(recvq, p)
           /\ UNCHANGED <<held, free, pc>>
  <2>1. recvq \in Seq(Procs) /\ IsInjective(recvq)
    BY DEF TypeOK, QueueInv
  <2>2. p \notin Range(recvq)
    BY <1>2, <2>1, InRange
  <2>3. /\ Range(Append(recvq, p)) = Range(recvq) \cup {p}
        /\ IsInjective(Append(recvq, p)) /\ Append(recvq, p) \in Seq(Procs)
    BY <2>1, <2>2, AppendRange
  <2> QED
    BY <1>2, <2>3 DEF Parks
<1> QED
  BY <1>1, <1>2 DEF Receive

\* p hands its Key to a parked goroutine ...
Hands(p, k, l) ==
  \E r \in Range(recvq) :
    /\ recvq' \in Seq(Procs) /\ IsInjective(recvq') /\ Range(recvq') = Range(recvq) \ {r}
    /\ held' = [held EXCEPT ![p] = NoKey, ![r] = k]
    /\ pc' = [pc EXCEPT ![p] = l, ![r] = Received(pc[r])]
    /\ free = << >> /\ free' = << >>

\* ... or puts it into the channel.
Buffers(p, k, l) ==
  /\ free' \in Seq(Keys) /\ Range(free') = Range(free) \cup {k}
  /\ k \notin Range(free) => IsInjective(free')
  /\ held' = [held EXCEPT ![p] = NoKey]
  /\ pc' = [pc EXCEPT ![p] = l]
  /\ recvq = << >> /\ recvq' = << >>

LEMMA SendEffect ==
  ASSUME TypeOK, QueueInv, PlaceInv, NEW p \in Procs, NEW k \in Keys, NEW l, Send(p, k, l)
  PROVE  Hands(p, k, l) \/ Buffers(p, k, l)
<1>1. CASE recvq # << >> /\ held' = [held EXCEPT ![p] = NoKey, ![Head(recvq)] = k]
           /\ pc' = [pc EXCEPT ![p] = l, ![Head(recvq)] = Received(pc[Head(recvq)])]
           /\ recvq' = Tail(recvq) /\ UNCHANGED free
  <2>1. recvq \in Seq(Procs) /\ IsInjective(recvq)
    BY DEF TypeOK, QueueInv
  <2>2. /\ Head(recvq) \in Range(recvq) /\ Tail(recvq) \in Seq(Procs)
        /\ Range(recvq) = Range(Tail(recvq)) \cup {Head(recvq)}
        /\ IsInjective(Tail(recvq)) /\ Head(recvq) \notin Range(Tail(recvq))
    BY <1>1, <2>1, TailRange
  <2>3. free = << >>
    BY <1>1 DEF QueueInv
  <2> QED
    BY <1>1, <2>2, <2>3 DEF Hands
<1>2. CASE recvq = << >> /\ held' = [held EXCEPT ![p] = NoKey] /\ Goto(p, l)
           /\ free' = Append(free, k) /\ UNCHANGED recvq
  <2>1. free \in Seq(Keys) /\ IsInjective(free)
    BY DEF TypeOK, PlaceInv
  <2>2. /\ Range(Append(free, k)) = Range(free) \cup {k} /\ Append(free, k) \in Seq(Keys)
        /\ k \notin Range(free) => IsInjective(Append(free, k))
    BY <2>1, AppendRange
  <2> QED
    BY <1>2, <2>2 DEF Buffers, Goto
<1> QED
  BY <1>1, <1>2 DEF Send

-----------------------------------------------------------------------------
(* The inductive invariant: one lemma per conjunct *)

\* The initial state satisfies the invariant.
LEMMA InitIInv == Init => IInv
<1> SUFFICES ASSUME Init PROVE IInv
  OBVIOUS
<1> USE SizeAssumption DEF Init
<1>1. TypeOK
  BY DEF TypeOK, Keys, NoKey, SignPCs, DestroyPCs, Results
<1>2. CreateInv
  BY DEF CreateInv, Keys
<1>3. HeldInv /\ DestroyInv /\ ResultInv
  BY DEF HeldInv, DestroyInv, ResultInv, Using, Destroying
<1>4. QueueInv /\ PlaceInv
  BY EmptyRange DEF QueueInv, PlaceInv, NoKey
<1> QED
  BY <1>1, <1>2, <1>3, <1>4 DEF IInv

\* Every step keeps every variable within its type.
LEMMA TypeStep == TypeOK /\ HeldInv /\ QueueInv /\ PlaceInv /\ [Next]_vars => TypeOK'
<1> SUFFICES ASSUME TypeOK, HeldInv, QueueInv, PlaceInv, [Next]_vars PROVE TypeOK'
  OBVIOUS
<1> USE SizeAssumption DEF TypeOK, vars, poolVars, SignPCs, DestroyPCs, Results
<1>1. CASE NewKey
  <2>1. Len(built) \in Nat /\ (Len(built) < N => Len(built) + 1 \in Keys)
    BY DEF Keys
  <2>2. Len(built) < N => Append(built, Len(built) + 1) \in Seq(Keys)
    BY <2>1
  <2> QED
    BY <1>1, <2>1, <2>2 DEF NewKey
<1>2. CASE Undo
  <2>1. built # << >> => Tail(built) \in Seq(Keys)
    BY TailRange
  <2> QED
    BY <1>2, <2>1 DEF Undo
<1>3. CASE NewPool
  BY <1>3 DEF NewPool
<1>4. ASSUME NEW p \in Procs, SignCall(p) PROVE TypeOK'
  BY <1>4 DEF SignCall, Goto
<1>5. ASSUME NEW p \in Procs, Receive(p), pc[p] \in Waiting,
             UNCHANGED <<phase, built, open, once, taken, result>> PROVE TypeOK'
  <2>1. CASE Takes(p)
    BY <1>5, <2>1, InRange DEF Takes, Received, Waiting
  <2>2. CASE Parks(p)
    BY <1>5, <2>2 DEF Parks
  <2> QED
    BY <1>5, <2>1, <2>2, ReceiveEffect
<1>6. ASSUME NEW p \in Procs, SignKey(p) PROVE TypeOK'
  BY <1>6 DEF SignKey, Goto
<1>7. ASSUME NEW p \in Procs, NEW k \in Keys, NEW l \in {"return", "putBack"}, Send(p, k, l),
             UNCHANGED <<phase, built, open, result>>, taken' \in Seq(Keys),
             once' \in {"fresh", "running", "done"}
      PROVE  TypeOK'
  <2>1. CASE Hands(p, k, l)
    <3>1. PICK r \in Procs :
             /\ held' = [held EXCEPT ![p] = NoKey, ![r] = k]
             /\ pc' = [pc EXCEPT ![p] = l, ![r] = Received(pc[r])]
      BY <2>1, InRange DEF Hands
    <3>2. Received(pc[r]) \in {"sign", "destroyKey"}
      BY DEF Received
    <3> QED
      BY <1>7, <2>1, <3>1, <3>2 DEF Hands
  <2>2. CASE Buffers(p, k, l)
    BY <1>7, <2>2 DEF Buffers
  <2> QED
    BY <1>7, <2>1, <2>2, SendEffect
<1>8. ASSUME NEW p \in Procs, SignSend(p) PROVE TypeOK'
  BY <1>7, <1>8 DEF SignSend, HeldInv, Using
<1>9. ASSUME NEW p \in Procs, DestroyCall(p) PROVE TypeOK'
  BY <1>9 DEF DestroyCall, Goto
<1>10. ASSUME NEW p \in Procs, OnceDo(p) PROVE TypeOK'
  BY <1>10 DEF OnceDo, Goto
<1>11. ASSUME NEW p \in Procs, DestroyKey(p) PROVE TypeOK'
  <2>1. held[p] \in Keys
    BY <1>11 DEF DestroyKey, HeldInv, Using
  <2>2. Append(taken, held[p]) \in Seq(Keys)
    BY <2>1
  <2> QED
    BY <1>11, <2>1, <2>2 DEF DestroyKey, Goto
<1>12. ASSUME NEW p \in Procs, PutBack(p) PROVE TypeOK'
  <2>1. CASE taken # << >>
    <3>1. Head(taken) \in Keys /\ Tail(taken) \in Seq(Keys)
      BY <2>1, TailRange
    <3> QED
      BY <1>7, <1>12, <2>1, <3>1 DEF PutBack
  <2>2. CASE taken = << >>
    BY <1>12, <2>2 DEF PutBack, Goto
  <2> QED
    BY <2>1, <2>2
<1>13. ASSUME NEW p \in Procs, Return(p) PROVE TypeOK'
  BY <1>13 DEF Return, Goto
<1>14. CASE UNCHANGED vars
  BY <1>14
<1> QED
  BY <1>1, <1>2, <1>3, <1>4, <1>5, <1>6, <1>8, <1>9, <1>10, <1>11, <1>12, <1>13, <1>14
     DEF Next, Create, Step, SignReceive, Collect, Waiting

\* Nothing is in use before the pool is ready, and NewPool keeps its account of
\* the open Keys.
LEMMA CreateStep == TypeOK /\ CreateInv /\ [Next]_vars => CreateInv'
<1> SUFFICES ASSUME TypeOK, CreateInv, [Next]_vars PROVE CreateInv'
  OBVIOUS
<1> USE SizeAssumption
<1>1. CASE NewKey
  <2>1. built \in Seq(Keys) /\ Len(built) \in Nat /\ open \in [Keys -> BOOLEAN]
    BY DEF TypeOK
  <2>2. /\ \A i \in 1..Len(built) : built[i] = i
        /\ \A k \in Keys : open[k] <=> k <= Len(built)
        /\ \A p \in Procs : pc[p] = "idle"
        /\ free = << >> /\ recvq = << >> /\ taken = << >> /\ once = "fresh"
    BY <1>1 DEF NewKey, CreateInv
  <2>3. CASE Len(built) < N /\ built' = Append(built, Len(built) + 1)
             /\ open' = [open EXCEPT ![Len(built) + 1] = TRUE] /\ phase' = "creating"
    <3>1. Len(built') = Len(built) + 1 /\ \A i \in 1..Len(built') : built'[i] = i
      BY <2>1, <2>2, <2>3 DEF Keys
    <3>2. \A k \in Keys : open'[k] <=> k <= Len(built')
      BY <2>1, <2>2, <2>3, <3>1 DEF Keys
    <3> QED
      BY <1>1, <2>1, <2>2, <2>3, <3>1, <3>2 DEF NewKey, CreateInv
  <2>4. CASE phase' = "undoing" /\ UNCHANGED <<built, open>>
    <3>1. \A k \in Keys : open[k] => k \in Range(built)
      BY <2>1, <2>2, InRange DEF Keys
    <3> QED
      BY <1>1, <2>2, <2>4, <3>1 DEF NewKey, CreateInv
  <2> QED
    BY <1>1, <2>3, <2>4 DEF NewKey
<1>2. CASE Undo
  <2>1. CASE built # << >> /\ phase' = "undoing" /\ built' = Tail(built)
             /\ open' = [open EXCEPT ![Head(built)] = FALSE]
    <3>1. Range(built) = Range(built') \cup {Head(built)}
      BY <2>1, TailRange DEF TypeOK
    <3> QED
      BY <1>2, <2>1, <3>1 DEF Undo, CreateInv, TypeOK
  <2>2. CASE built = << >> /\ phase' = "failed" /\ UNCHANGED <<built, open>>
    BY <1>2, <2>2, EmptyRange DEF Undo, CreateInv
  <2> QED
    BY <1>2, <2>1, <2>2 DEF Undo
<1>3. CASE NewPool
  BY <1>3 DEF NewPool, CreateInv
<1>4. CASE \E p \in Procs : SignCall(p) \/ DestroyCall(p) \/ Step(p)
  <2>1. phase = "ready"
    BY <1>4 DEF CreateInv, Step, SignCall, DestroyCall, SignReceive, SignKey, SignSend,
                OnceDo, Collect, DestroyKey, PutBack, Return
  <2>2. UNCHANGED phase
    BY <1>4 DEF Step, SignCall, DestroyCall, SignReceive, SignKey, SignSend, OnceDo,
                Collect, DestroyKey, PutBack, Return, poolVars
  <2> QED
    BY <2>1, <2>2 DEF CreateInv
<1>5. CASE UNCHANGED vars
  BY <1>5 DEF vars, poolVars, CreateInv
<1> QED
  BY <1>1, <1>2, <1>3, <1>4, <1>5 DEF Next, Create

\* A goroutine holds a Key from the receive to the send, and at no other time.
LEMMA HeldStep ==
  TypeOK /\ HeldInv /\ QueueInv /\ PlaceInv /\ [Next]_vars => HeldInv'
<1> SUFFICES ASSUME TypeOK, HeldInv, QueueInv, PlaceInv, [Next]_vars PROVE HeldInv'
  OBVIOUS
<1> USE DEF HeldInv, Using, Goto
<1>1. /\ pc \in [Procs -> {"idle", "return"} \cup SignPCs \cup DestroyPCs]
      /\ held \in [Procs -> Keys \cup {NoKey}] /\ NoKey \notin Keys
      /\ Range(free) \subseteq Keys /\ Range(recvq) \subseteq Procs
  <2>1. Range(free) \subseteq Keys /\ Range(recvq) \subseteq Procs
    BY InRange DEF TypeOK
  <2>2. NoKey \notin Keys
    BY DEF Keys, NoKey
  <2> QED
    BY <2>1, <2>2 DEF TypeOK
<1>2. CASE Create
  BY <1>2 DEF Create, NewKey, Undo, NewPool
<1>3. ASSUME NEW p \in Procs, Receive(p), pc[p] \in Waiting PROVE HeldInv'
  <2>1. CASE Takes(p)
    BY <1>1, <1>3, <2>1 DEF Takes, Received, Waiting
  <2>2. CASE Parks(p)
    BY <2>2 DEF Parks
  <2> QED
    BY <1>3, <2>1, <2>2, ReceiveEffect
<1>4. ASSUME NEW p \in Procs, NEW k \in Keys, NEW l \in {"return", "putBack"}, Send(p, k, l),
             pc[p] \notin Waiting
      PROVE  HeldInv'
  <2>1. CASE Hands(p, k, l)
    <3>1. PICK r \in Range(recvq) :
             /\ held' = [held EXCEPT ![p] = NoKey, ![r] = k]
             /\ pc' = [pc EXCEPT ![p] = l, ![r] = Received(pc[r])]
      BY <2>1 DEF Hands
    <3>2. r \in Procs /\ r # p /\ Received(pc[r]) \in Using
      BY <1>1, <1>4, <3>1 DEF QueueInv, Received
    <3> QED
      BY <1>1, <1>4, <3>1, <3>2
  <2>2. CASE Buffers(p, k, l)
    BY <1>1, <1>4, <2>2 DEF Buffers
  <2> QED
    BY <1>4, <2>1, <2>2, SendEffect
<1>5. ASSUME NEW p \in Procs, SignCall(p) \/ DestroyCall(p) \/ OnceDo(p) \/ Return(p)
      PROVE  HeldInv'
  BY <1>1, <1>5 DEF SignCall, DestroyCall, OnceDo, Return
<1>6. ASSUME NEW p \in Procs, SignKey(p) PROVE HeldInv'
  BY <1>1, <1>6 DEF SignKey
<1>7. ASSUME NEW p \in Procs, SignSend(p) PROVE HeldInv'
  BY <1>1, <1>4, <1>7 DEF SignSend, Waiting
<1>8. ASSUME NEW p \in Procs, DestroyKey(p) PROVE HeldInv'
  BY <1>1, <1>8 DEF DestroyKey
<1>9. ASSUME NEW p \in Procs, PutBack(p) PROVE HeldInv'
  <2>1. CASE taken # << >>
    <3>1. Head(taken) \in Keys
      BY <2>1, TailRange DEF TypeOK
    <3> QED
      BY <1>4, <1>9, <2>1, <3>1 DEF PutBack, Waiting
  <2>2. CASE taken = << >>
    BY <1>1, <1>9, <2>2 DEF PutBack
  <2> QED
    BY <2>1, <2>2
<1>10. CASE UNCHANGED vars
  BY <1>10 DEF vars
<1> QED
  BY <1>2, <1>3, <1>5, <1>6, <1>7, <1>8, <1>9, <1>10
     DEF Next, Step, SignReceive, Collect, Waiting

\* Only goroutines at a receive are parked, each once, and only while the channel
\* is empty.
LEMMA QueueStep ==
  TypeOK /\ CreateInv /\ HeldInv /\ QueueInv /\ PlaceInv /\ [Next]_vars => QueueInv'
<1> SUFFICES ASSUME TypeOK, CreateInv, HeldInv, QueueInv, PlaceInv, [Next]_vars
             PROVE  QueueInv'
  OBVIOUS
<1> USE DEF Goto
<1>1. /\ pc \in [Procs -> {"idle", "return"} \cup SignPCs \cup DestroyPCs]
      /\ Range(recvq) \subseteq Procs /\ \A p \in Range(recvq) : pc[p] \in Waiting
  BY InRange DEF TypeOK, QueueInv
<1>2. CASE NewKey \/ Undo
  BY <1>2 DEF QueueInv, NewKey, Undo
<1>3. CASE NewPool
  BY <1>3, EmptyRange DEF QueueInv, NewPool, CreateInv
<1>4. ASSUME NEW p \in Procs, Receive(p), pc[p] \in Waiting PROVE QueueInv'
  <2>1. CASE Takes(p)
    BY <2>1, EmptyRange DEF Takes, QueueInv
  <2>2. CASE Parks(p)
    BY <1>1, <1>4, <2>2 DEF Parks, QueueInv
  <2> QED
    BY <1>4, <2>1, <2>2, ReceiveEffect
<1>5. ASSUME NEW p \in Procs, NEW k \in Keys, NEW l, Send(p, k, l), pc[p] \notin Waiting
      PROVE  QueueInv'
  <2>1. CASE Hands(p, k, l)
    <3>1. PICK r \in Range(recvq) :
             /\ IsInjective(recvq') /\ Range(recvq') = Range(recvq) \ {r}
             /\ pc' = [pc EXCEPT ![p] = l, ![r] = Received(pc[r])]
             /\ free' = << >>
      BY <2>1 DEF Hands
    <3>2. \A q \in Range(recvq') : q # p /\ q # r /\ pc'[q] = pc[q]
      BY <1>1, <1>5, <3>1
    <3> QED
      BY <1>1, <3>1, <3>2 DEF QueueInv
  <2>2. CASE Buffers(p, k, l)
    BY <2>2, EmptyRange DEF Buffers, QueueInv
  <2> QED
    BY <1>5, <2>1, <2>2, SendEffect
<1>6. ASSUME NEW p \in Procs, pc[p] \notin Waiting, NEW l, Goto(p, l),
             UNCHANGED <<free, recvq>>
      PROVE  QueueInv'
  BY <1>1, <1>6 DEF QueueInv
<1>7. ASSUME NEW p \in Procs, SignCall(p) \/ DestroyCall(p) \/ SignKey(p) \/ Return(p)
      PROVE  QueueInv'
  BY <1>6, <1>7 DEF SignCall, DestroyCall, SignKey, Return, poolVars, Waiting
<1>8. ASSUME NEW p \in Procs, OnceDo(p) \/ DestroyKey(p) PROVE QueueInv'
  BY <1>6, <1>8 DEF OnceDo, DestroyKey, Waiting
<1>9. ASSUME NEW p \in Procs, SignSend(p) PROVE QueueInv'
  <2>1. held[p] \in Keys
    BY <1>9 DEF SignSend, HeldInv, TypeOK, Using
  <2> QED
    BY <1>5, <1>9, <2>1 DEF SignSend, Waiting
<1>10. ASSUME NEW p \in Procs, PutBack(p) PROVE QueueInv'
  <2>1. CASE taken # << >>
    <3>1. Head(taken) \in Keys
      BY <2>1, TailRange DEF TypeOK
    <3> QED
      BY <1>5, <1>10, <2>1, <3>1 DEF PutBack, Waiting
  <2>2. CASE taken = << >>
    BY <1>6, <1>10, <2>2 DEF PutBack, Waiting
  <2> QED
    BY <2>1, <2>2
<1>11. CASE UNCHANGED vars
  BY <1>11 DEF vars, poolVars, QueueInv
<1> QED
  BY <1>2, <1>3, <1>4, <1>7, <1>8, <1>9, <1>10, <1>11
     DEF Next, Create, Step, SignReceive, Collect, Waiting

\* No step loses a Key or puts one in two places.
LEMMA PlaceStep ==
  TypeOK /\ CreateInv /\ HeldInv /\ QueueInv /\ PlaceInv /\ [Next]_vars => PlaceInv'
<1> SUFFICES ASSUME TypeOK, CreateInv, HeldInv, QueueInv, PlaceInv, [Next]_vars
             PROVE  PlaceInv'
  OBVIOUS
<1>1. /\ held \in [Procs -> Keys \cup {NoKey}] /\ NoKey \notin Keys
      /\ Range(free) \subseteq Keys /\ Range(taken) \subseteq Keys
      /\ Range(recvq) \subseteq Procs
  <2>1. /\ Range(free) \subseteq Keys /\ Range(taken) \subseteq Keys
        /\ Range(recvq) \subseteq Procs
    BY InRange DEF TypeOK
  <2>2. NoKey \notin Keys
    BY DEF Keys, NoKey
  <2> QED
    BY <2>1, <2>2 DEF TypeOK
<1>2. CASE NewKey \/ Undo
  BY <1>2 DEF PlaceInv, NewKey, Undo
<1>3. CASE NewPool
  <2>1. /\ free' = built /\ taken' = << >> /\ held' = held
        /\ \A p \in Procs : held[p] = NoKey
    BY <1>3 DEF NewPool, CreateInv, HeldInv, Using
  <2>2. /\ Len(built) = N /\ \A i \in 1..N : built[i] = i
        /\ built \in Seq(Keys) /\ N \in Nat
    BY <1>3, SizeAssumption DEF NewPool, CreateInv, TypeOK
  <2>3. IsInjective(built)
    BY <2>2 DEF IsInjective
  <2>4. Range(built) = Keys
    BY <2>2, <2>3, InjectiveLen DEF Keys
  <2> QED
    BY <1>1, <2>1, <2>3, <2>4, EmptyRange DEF PlaceInv
<1>4. ASSUME NEW p \in Procs, Receive(p), pc[p] \in Waiting, UNCHANGED <<phase, taken>>
      PROVE  PlaceInv'
  <2>1. CASE Takes(p)
    <3>1. PICK k \in Range(free) :
             /\ IsInjective(free') /\ Range(free') = Range(free) \ {k}
             /\ held' = [held EXCEPT ![p] = k]
      BY <2>1 DEF Takes
    <3>2. held[p] = NoKey /\ k \in Keys /\ \A q \in Procs : held[q] # k
      BY <1>1, <1>4, <3>1 DEF HeldInv, Using, Waiting, PlaceInv
    <3> QED
      BY <1>1, <1>4, <3>1, <3>2 DEF PlaceInv
  <2>2. CASE Parks(p)
    BY <1>4, <2>2 DEF Parks, PlaceInv
  <2> QED
    BY <1>4, <2>1, <2>2, ReceiveEffect
<1>5. ASSUME NEW p \in Procs, Send(p, held[p], "return"), held[p] \in Keys,
             pc[p] \notin Waiting, UNCHANGED <<phase, taken>>
      PROVE  PlaceInv'
  <2>1. CASE Hands(p, held[p], "return")
    <3>1. PICK r \in Range(recvq) :
             /\ held' = [held EXCEPT ![p] = NoKey, ![r] = held[p]]
             /\ free' = << >> /\ free = << >>
      BY <2>1 DEF Hands
    <3>2. r \in Procs /\ r # p /\ held[r] = NoKey
      BY <1>1, <1>5 DEF QueueInv, HeldInv, Using, Waiting
    <3>3. /\ \A q \in Procs \ {p, r} : held'[q] = held[q]
          /\ held'[p] = NoKey /\ held'[r] = held[p]
      BY <1>1, <3>1, <3>2
    <3> QED
      BY <1>1, <1>5, <3>1, <3>2, <3>3 DEF PlaceInv
  <2>2. CASE Buffers(p, held[p], "return")
    <3>1. /\ IsInjective(free') /\ Range(free') = Range(free) \cup {held[p]}
          /\ held' = [held EXCEPT ![p] = NoKey]
      BY <2>2 DEF Buffers, PlaceInv
    <3>2. \A q \in Procs \ {p} : held[q] # held[p]
      BY <1>1, <1>5 DEF PlaceInv
    <3> QED
      BY <1>1, <1>5, <3>1, <3>2 DEF PlaceInv
  <2> QED
    BY <1>5, <2>1, <2>2, SendEffect
<1>6. ASSUME UNCHANGED <<phase, free, taken, held>> PROVE PlaceInv'
  BY <1>6 DEF PlaceInv
<1>7. ASSUME NEW p \in Procs, SignCall(p) \/ DestroyCall(p) \/ SignKey(p) \/ OnceDo(p)
                                \/ Return(p)
      PROVE  PlaceInv'
  BY <1>6, <1>7 DEF SignCall, DestroyCall, SignKey, OnceDo, Return, poolVars
<1>8. ASSUME NEW p \in Procs, SignSend(p) PROVE PlaceInv'
  BY <1>1, <1>5, <1>8 DEF SignSend, HeldInv, Using, Waiting
<1>9. ASSUME NEW p \in Procs, DestroyKey(p) PROVE PlaceInv'
  <2>1. held[p] \in Keys /\ held[p] \notin Range(taken) /\ IsInjective(taken)
    BY <1>1, <1>9 DEF DestroyKey, HeldInv, Using, PlaceInv
  <2>2. IsInjective(taken') /\ Range(taken') = Range(taken) \cup {held[p]}
    BY <1>9, <2>1, AppendRange DEF DestroyKey, TypeOK
  <2>3. held' = [held EXCEPT ![p] = NoKey] /\ UNCHANGED <<phase, free>>
    BY <1>9 DEF DestroyKey
  <2> QED
    BY <1>1, <2>1, <2>2, <2>3 DEF PlaceInv
<1>10. ASSUME NEW p \in Procs, PutBack(p) PROVE PlaceInv'
  <2>1. CASE taken = << >>
    BY <1>6, <1>10, <2>1 DEF PutBack
  <2>2. CASE taken # << >>
    <3> DEFINE k == Head(taken)
    <3>1. /\ k \in Keys /\ k \in Range(taken) /\ Range(taken) = Range(Tail(taken)) \cup {k}
          /\ IsInjective(Tail(taken)) /\ k \notin Range(Tail(taken))
      BY <2>2, TailRange DEF TypeOK, PlaceInv
    <3>2. /\ Send(p, k, "putBack") /\ taken' = Tail(taken) /\ UNCHANGED phase
          /\ pc[p] = "putBack" /\ held[p] = NoKey
      BY <1>10, <2>2 DEF PutBack, HeldInv, Using
    <3>3. k \notin Range(free) /\ \A q \in Procs : held[q] # k
      BY <3>1 DEF PlaceInv
    <3> HIDE DEF k
    <3>4. CASE Hands(p, k, "putBack")
      <4>1. PICK r \in Range(recvq) :
               /\ held' = [held EXCEPT ![p] = NoKey, ![r] = k]
               /\ free' = << >> /\ free = << >>
        BY <3>4 DEF Hands
      <4>2. r \in Procs /\ r # p /\ held[r] = NoKey
        BY <1>1, <3>2 DEF QueueInv, HeldInv, Using, Waiting
      <4>3. /\ \A q \in Procs \ {r} : held'[q] = held[q]
            /\ held'[r] = k
        BY <1>1, <3>2, <4>1, <4>2
      <4> QED
        BY <1>1, <3>1, <3>2, <3>3, <4>1, <4>2, <4>3 DEF PlaceInv
    <3>5. CASE Buffers(p, k, "putBack")
      <4>1. /\ IsInjective(free') /\ Range(free') = Range(free) \cup {k}
            /\ UNCHANGED held
        BY <1>1, <3>2, <3>3, <3>5 DEF Buffers
      <4> QED
        BY <1>1, <3>1, <3>2, <3>3, <4>1 DEF PlaceInv
    <3> QED
      BY <3>1, <3>2, <3>4, <3>5, SendEffect
  <2> QED
    BY <2>1, <2>2
<1>11. CASE UNCHANGED vars
  BY <1>11 DEF vars, poolVars, PlaceInv
<1> QED
  BY <1>2, <1>3, <1>4, <1>7, <1>8, <1>9, <1>10, <1>11
     DEF Next, Create, Step, SignReceive, Collect, Waiting

\* A Destroy that has collected N Keys has collected them all.
LEMMA TakenAll ==
  ASSUME NEW s \in Seq(Keys), IsInjective(s)
  PROVE  /\ Len(s) = N => Range(s) = Keys
         /\ Len(s) < N => Range(s) # Keys
  BY SizeAssumption, InjectiveLen DEF Keys

\* One Destroy runs at a time, and which Keys are open agrees with how far it is.
LEMMA DestroyStep ==
  TypeOK /\ CreateInv /\ HeldInv /\ QueueInv /\ PlaceInv /\ DestroyInv /\ [Next]_vars
    => DestroyInv'
<1> SUFFICES ASSUME TypeOK, CreateInv, HeldInv, QueueInv, PlaceInv, DestroyInv, [Next]_vars
             PROVE  DestroyInv'
  OBVIOUS
<1> USE DEF Goto
<1>1. /\ pc \in [Procs -> {"idle", "return"} \cup SignPCs \cup DestroyPCs]
      /\ open \in [Keys -> BOOLEAN]
      /\ Range(recvq) \subseteq Procs
  BY InRange DEF TypeOK
<1>2. CASE NewKey \/ Undo
  BY <1>2 DEF NewKey, Undo, CreateInv, DestroyInv, Destroying
<1>3. CASE NewPool
  <2>1. \A k \in Keys : open[k]
    BY <1>3 DEF NewPool, CreateInv, Keys
  <2>2. UNCHANGED <<open, once, taken, pc>>
    BY <1>3 DEF NewPool
  <2> QED
    BY <1>1, <2>1, <2>2 DEF DestroyInv
\* A goroutine that does not enter or leave the function changes nothing ...
<1>4. ASSUME \A p \in Procs : pc'[p] \in Destroying <=> pc[p] \in Destroying,
             \A p \in Procs : pc'[p] \in {"collect", "destroyKey"}
                                <=> pc[p] \in {"collect", "destroyKey"},
             UNCHANGED <<phase, open, once, taken>>
      PROVE  DestroyInv'
  BY <1>4 DEF DestroyInv, Destroying
\* ... and the channel moves nobody in or out.
<1>5. ASSUME NEW p \in Procs, Receive(p), pc[p] \in Waiting,
             UNCHANGED <<phase, open, once, taken>>
      PROVE  DestroyInv'
  <2>1. CASE Takes(p)
    BY <1>1, <1>4, <1>5, <2>1 DEF Takes, Received, Waiting, Destroying
  <2>2. CASE Parks(p)
    BY <1>4, <1>5, <2>2 DEF Parks
  <2> QED
    BY <1>5, <2>1, <2>2, ReceiveEffect
<1>6. ASSUME NEW p \in Procs, NEW k \in Keys, NEW l \in {"return", "putBack"}, Send(p, k, l),
             pc[p] = IF l = "return" THEN "send" ELSE "putBack"
      PROVE  /\ \A q \in Procs : pc'[q] \in Destroying <=> pc[q] \in Destroying
             /\ \A q \in Procs : pc'[q] \in {"collect", "destroyKey"}
                                   <=> pc[q] \in {"collect", "destroyKey"}
  <2>1. CASE Hands(p, k, l)
    <3>1. PICK r \in Range(recvq) : pc' = [pc EXCEPT ![p] = l, ![r] = Received(pc[r])]
      BY <2>1 DEF Hands
    <3>2. r \in Procs /\ r # p /\ pc[r] \in Waiting
      BY <1>1, <1>6 DEF QueueInv, Waiting
    <3>3. /\ \A q \in Procs \ {p, r} : pc'[q] = pc[q]
          /\ pc'[p] = l /\ pc'[r] = Received(pc[r])
      BY <1>1, <3>1, <3>2
    <3> QED
      BY <1>6, <3>2, <3>3 DEF Received, Waiting, Destroying
  <2>2. CASE Buffers(p, k, l)
    BY <1>1, <1>6, <2>2 DEF Buffers, Destroying
  <2> QED
    BY <1>6, <2>1, <2>2, SendEffect
<1>7. ASSUME NEW p \in Procs, SignCall(p) \/ DestroyCall(p) \/ SignKey(p) \/ Return(p)
      PROVE  DestroyInv'
  BY <1>1, <1>4, <1>7 DEF SignCall, DestroyCall, SignKey, Return, poolVars, Destroying
<1>8. ASSUME NEW p \in Procs, SignSend(p) PROVE DestroyInv'
  <2>1. held[p] \in Keys
    BY <1>8 DEF SignSend, HeldInv, TypeOK, Using
  <2>2. PICK k \in Keys : Send(p, k, "return")
    BY <1>8, <2>1 DEF SignSend
  <2>3. /\ \A q \in Procs : pc'[q] \in Destroying <=> pc[q] \in Destroying
        /\ \A q \in Procs : pc'[q] \in {"collect", "destroyKey"}
                              <=> pc[q] \in {"collect", "destroyKey"}
    <3>1. pc[p] = "send"
      BY <1>8 DEF SignSend
    <3> QED
      BY <1>6, <2>2, <3>1
  <2> QED
    BY <1>4, <1>8, <2>3 DEF SignSend
<1>9. ASSUME NEW p \in Procs, OnceDo(p) PROVE DestroyInv'
  <2>1. phase = "ready" /\ UNCHANGED <<phase, open, taken>> /\ pc[p] = "once"
    BY <1>9 DEF OnceDo, CreateInv
  <2>2. CASE once = "fresh" /\ once' = "running" /\ pc' = [pc EXCEPT ![p] = "collect"]
    <3>1. taken = << >> /\ \A q \in Procs : pc[q] \notin Destroying
      BY <2>2 DEF DestroyInv
    <3>2. /\ \A k \in Keys : open[k] /\ k \notin Range(taken)
          /\ \A q \in Procs : pc'[q] \in Destroying => q = p
          /\ pc'[p] = "collect"
      BY <1>1, <2>1, <2>2, <3>1, EmptyRange DEF DestroyInv
    <3>3. /\ \A q \in Procs : pc'[q] # "putBack"
          /\ \E q \in Procs : pc'[q] \in Destroying
      BY <3>2 DEF Destroying
    <3> QED
      BY <2>1, <2>2, <3>2, <3>3 DEF DestroyInv, Destroying
  <2>3. CASE once = "done" /\ once' = once /\ pc' = [pc EXCEPT ![p] = "return"]
    BY <1>1, <1>4, <2>1, <2>3 DEF Destroying
  <2> QED
    BY <1>9, <2>2, <2>3 DEF OnceDo
<1>10. ASSUME NEW p \in Procs, DestroyKey(p) PROVE DestroyInv'
  <2>1. /\ pc[p] = "destroyKey" /\ held[p] \in Keys /\ held[p] \notin Range(taken)
        /\ IsInjective(taken) /\ taken \in Seq(Keys)
        /\ once = "running" /\ once' = once /\ UNCHANGED phase
        /\ \A q \in Procs : pc[q] \in Destroying => q = p
        /\ \A k \in Keys : ~open[k] <=> k \in Range(taken)
    BY <1>10 DEF DestroyKey, HeldInv, TypeOK, Using, PlaceInv, DestroyInv, Destroying
  <2>2. /\ IsInjective(taken') /\ taken' \in Seq(Keys)
        /\ Range(taken') = Range(taken) \cup {held[p]}
    BY <1>10, <2>1, AppendRange DEF DestroyKey
  <2>3. \A k \in Keys : ~open'[k] <=> k \in Range(taken')
    BY <1>1, <1>10, <2>1, <2>2 DEF DestroyKey
  <2>4. ASSUME NEW l \in {"collect", "putBack"}, pc' = [pc EXCEPT ![p] = l],
               l = "putBack" => \A k \in Keys : ~open'[k]
        PROVE  DestroyInv'
    <3>1. pc'[p] = l /\ \A q \in Procs : q # p => pc'[q] = pc[q]
      BY <1>1, <2>4
    <3>2. /\ \A q \in Procs : pc'[q] \in Destroying => q = p
          /\ pc'[p] \in Destroying
      BY <2>1, <3>1 DEF Destroying
    <3> QED
      BY <2>1, <2>3, <2>4, <3>1, <3>2 DEF DestroyInv, Destroying
  <2>5. Len(taken') = N => \A k \in Keys : ~open'[k]
    BY <2>2, <2>3, TakenAll
  <2> QED
    BY <1>10, <2>4, <2>5 DEF DestroyKey, Cap
<1>11. ASSUME NEW p \in Procs, PutBack(p) PROVE DestroyInv'
  <2>1. /\ pc[p] = "putBack" /\ once = "running" /\ UNCHANGED <<phase, open>>
        /\ \A q \in Procs : pc[q] \in Destroying => q = p
        /\ \A k \in Keys : ~open[k]
    BY <1>11 DEF PutBack, DestroyInv, Destroying
  <2>2. CASE taken # << >>
    <3>1. Head(taken) \in Keys
      BY <2>2, TailRange DEF TypeOK
    <3>2. /\ \A q \in Procs : pc'[q] \in Destroying <=> pc[q] \in Destroying
          /\ \A q \in Procs : pc'[q] \in {"collect", "destroyKey"}
                                <=> pc[q] \in {"collect", "destroyKey"}
      BY <1>6, <1>11, <2>1, <2>2, <3>1 DEF PutBack
    <3>3. once' = once
      BY <1>11, <2>2 DEF PutBack
    <3>4. \A q \in Procs : pc'[q] \notin {"collect", "destroyKey"}
      BY <2>1, <3>2 DEF Destroying
    <3> QED
      BY <2>1, <3>2, <3>3, <3>4 DEF DestroyInv, Destroying
  <2>3. CASE taken = << >>
    <3>1. once' = "done" /\ pc' = [pc EXCEPT ![p] = "return"] /\ taken' = << >>
      BY <1>11, <2>3 DEF PutBack
    <3>2. \A q \in Procs : pc'[q] \notin Destroying
      BY <1>1, <2>1, <3>1 DEF Destroying
    <3> QED
      BY <2>1, <3>1, <3>2 DEF DestroyInv, Destroying
  <2> QED
    BY <2>2, <2>3
<1>12. CASE UNCHANGED vars
  BY <1>12 DEF vars, poolVars, DestroyInv
<1> QED
  BY <1>2, <1>3, <1>5, <1>7, <1>8, <1>9, <1>10, <1>11, <1>12
     DEF Next, Create, Step, SignReceive, Collect, Waiting

\* How a call ends is settled once, at the step that decides it.
LEMMA ResultStep ==
  TypeOK /\ HeldInv /\ QueueInv /\ PlaceInv /\ ResultInv /\ [Next]_vars => ResultInv'
<1> SUFFICES ASSUME TypeOK, HeldInv, QueueInv, PlaceInv, ResultInv, [Next]_vars
             PROVE  ResultInv'
  OBVIOUS
<1> USE DEF ResultInv, Goto
<1>1. /\ pc \in [Procs -> {"idle", "return"} \cup SignPCs \cup DestroyPCs]
      /\ result \in [Procs -> Results] /\ Range(recvq) \subseteq Procs
  BY InRange DEF TypeOK
<1>2. CASE Create
  BY <1>2 DEF Create, NewKey, Undo, NewPool
<1>3. ASSUME NEW p \in Procs, Receive(p), pc[p] \in Waiting, UNCHANGED result
      PROVE  ResultInv'
  <2>1. CASE Takes(p)
    BY <1>1, <1>3, <2>1 DEF Takes, Received, Waiting
  <2>2. CASE Parks(p)
    BY <1>3, <2>2 DEF Parks
  <2> QED
    BY <1>3, <2>1, <2>2, ReceiveEffect
<1>4. ASSUME NEW p \in Procs, NEW k \in Keys, NEW l \in {"return", "putBack"}, Send(p, k, l),
             UNCHANGED result,
             pc[p] = IF l = "return" THEN "send" ELSE "putBack"
      PROVE  ResultInv'
  <2>1. CASE Hands(p, k, l)
    <3>1. PICK r \in Range(recvq) : pc' = [pc EXCEPT ![p] = l, ![r] = Received(pc[r])]
      BY <2>1 DEF Hands
    <3>2. r \in Procs /\ r # p /\ pc[r] \in Waiting
      BY <1>1, <1>4 DEF QueueInv, Waiting
    <3>3. /\ \A q \in Procs \ {p, r} : pc'[q] = pc[q]
          /\ pc'[p] = l /\ pc'[r] = Received(pc[r])
      BY <1>1, <3>1, <3>2
    <3> QED
      BY <1>4, <3>2, <3>3 DEF Received, Waiting
  <2>2. CASE Buffers(p, k, l)
    BY <1>1, <1>4, <2>2 DEF Buffers
  <2> QED
    BY <1>4, <2>1, <2>2, SendEffect
<1>5. ASSUME NEW p \in Procs, SignCall(p) \/ DestroyCall(p) PROVE ResultInv'
  BY <1>1, <1>5 DEF SignCall, DestroyCall
<1>6. ASSUME NEW p \in Procs, SignKey(p) PROVE ResultInv'
  BY <1>1, <1>6 DEF SignKey
<1>7. ASSUME NEW p \in Procs, SignSend(p) PROVE ResultInv'
  <2>1. held[p] \in Keys
    BY <1>7 DEF SignSend, HeldInv, TypeOK, Using
  <2>2. PICK k \in Keys : Send(p, k, "return")
    BY <1>7, <2>1 DEF SignSend
  <2>3. pc[p] = "send" /\ UNCHANGED result
    BY <1>7 DEF SignSend
  <2> QED
    BY <1>4, <2>2, <2>3
<1>8. ASSUME NEW p \in Procs, OnceDo(p) \/ DestroyKey(p) \/ Return(p) PROVE ResultInv'
  BY <1>1, <1>8 DEF OnceDo, DestroyKey, Return
<1>9. ASSUME NEW p \in Procs, PutBack(p) PROVE ResultInv'
  <2>1. CASE taken # << >>
    <3>1. Head(taken) \in Keys
      BY <2>1, TailRange DEF TypeOK
    <3> QED
      BY <1>4, <1>9, <2>1, <3>1 DEF PutBack
  <2>2. CASE taken = << >>
    BY <1>1, <1>9, <2>2 DEF PutBack
  <2> QED
    BY <2>1, <2>2
<1>10. CASE UNCHANGED vars
  BY <1>10 DEF vars
<1> QED
  BY <1>2, <1>3, <1>5, <1>6, <1>7, <1>8, <1>9, <1>10
     DEF Next, Step, SignReceive, Collect, Waiting

\* The invariant is inductive ...
LEMMA NextIInv == IInv /\ [Next]_vars => IInv'
  BY TypeStep, CreateStep, HeldStep, QueueStep, PlaceStep, DestroyStep, ResultStep DEF IInv

\* ... and so holds in every state.
LEMMA InductiveInvariant == SafeSpec => []IInv
  BY InitIInv, NextIInv, PTL DEF SafeSpec

-----------------------------------------------------------------------------
(* Theorems *)

\* Every variable keeps its type.
THEOREM TypeCorrect == SafeSpec => []TypeOK
<1>1. IInv => TypeOK
  BY DEF IInv
<1> QED
  BY <1>1, InductiveInvariant, PTL

\* Without repetition, an element has one position.
LEMMA Positions ==
  ASSUME NEW S, NEW s \in Seq(S), IsInjective(s), NEW x
  PROVE  IF x \in Range(s)
         THEN \E i : {j \in DOMAIN s : s[j] = x} = {i}
         ELSE {j \in DOMAIN s : s[j] = x} = {}
<1>1. CASE x \in Range(s)
  <2>1. PICK i \in DOMAIN s : s[i] = x
    BY <1>1 DEF Range
  <2>2. {j \in DOMAIN s : s[j] = x} = {i}
    BY <2>1 DEF IsInjective
  <2> QED
    BY <1>1, <2>2
<1>2. CASE x \notin Range(s)
  BY <1>2 DEF Range
<1> QED
  BY <1>1, <1>2

\* No Key is ever lost or in two places: one that is not in the channel or with
\* the Destroy is with exactly one goroutine.
THEOREM KeysAreConserved == SafeSpec => []KeyConservation
<1>1. ASSUME IInv, phase = "ready", NEW k \in Keys
      PROVE  Cardinality({i \in DOMAIN free : free[i] = k})
               + Cardinality({i \in DOMAIN taken : taken[i] = k})
               + Cardinality({p \in Procs : held[p] = k}) = 1
  <2> DEFINE inFree == {i \in DOMAIN free : free[i] = k}
             inTaken == {i \in DOMAIN taken : taken[i] = k}
             holders == {p \in Procs : held[p] = k}
  <2>1. /\ free \in Seq(Keys) /\ IsInjective(free)
        /\ taken \in Seq(Keys) /\ IsInjective(taken)
    BY <1>1 DEF IInv, TypeOK, PlaceInv
  <2>2. /\ IF k \in Range(free) THEN \E i : inFree = {i} ELSE inFree = {}
        /\ IF k \in Range(taken) THEN \E i : inTaken = {i} ELSE inTaken = {}
    BY <2>1, Positions
  <2>3. IF \E p \in Procs : held[p] = k THEN \E p : holders = {p} ELSE holders = {}
    <3>1. \A p, q \in Procs : held[p] = k /\ held[q] = k => p = q
      BY <1>1 DEF IInv, PlaceInv, Keys, NoKey
    <3> QED
      BY <3>1
  <2>4. /\ k \in Range(free) => k \notin Range(taken) /\ ~\E p \in Procs : held[p] = k
        /\ k \in Range(taken) => k \notin Range(free) /\ ~\E p \in Procs : held[p] = k
        /\ k \in Range(free) \/ k \in Range(taken) \/ \E p \in Procs : held[p] = k
    BY <1>1 DEF IInv, PlaceInv
  <2>5. Cardinality({}) = 0 /\ \A x : Cardinality({x}) = 1
    BY FS_EmptySet, FS_Singleton
  <2> HIDE DEF inFree, inTaken, holders
  <2>6. /\ Cardinality(inFree) = IF k \in Range(free) THEN 1 ELSE 0
        /\ Cardinality(inTaken) = IF k \in Range(taken) THEN 1 ELSE 0
        /\ Cardinality(holders) = IF \E p \in Procs : held[p] = k THEN 1 ELSE 0
    BY <2>2, <2>3, <2>5
  <2>7. Cardinality(inFree) + Cardinality(inTaken) + Cardinality(holders) = 1
    BY <2>4, <2>6
  <2> QED
    BY <2>7 DEF inFree, inTaken, holders
<1>2. IInv => KeyConservation
  BY <1>1 DEF KeyConservation
<1> QED
  BY <1>2, InductiveInvariant, PTL

\* The deferred send of Sign and the put-back of Destroy find room: whoever has a
\* Key to send has one that the channel lacks.
THEOREM SendsDoNotBlock == SafeSpec => []SendNeverBlocks
<1>1. ASSUME IInv, NEW k \in Keys, k \notin Range(free) PROVE CanSend
  <2>1. free \in Seq(1..N) /\ IsInjective(free) /\ Len(free) \in Nat /\ N \in Nat
    BY <1>1, SizeAssumption DEF IInv, TypeOK, PlaceInv, Keys
  <2>2. Len(free) <= N /\ Len(free) # N
    BY <1>1, <2>1, InjectiveLen DEF Keys
  <2> QED
    BY <2>1, <2>2 DEF CanSend, Cap
<1>2. ASSUME IInv, NEW p \in Procs, pc[p] = "send" PROVE CanSend
  <2>1. held[p] \in Keys /\ held[p] \notin Range(free)
    BY <1>2 DEF IInv, TypeOK, HeldInv, Using, PlaceInv
  <2> QED
    BY <1>1, <1>2, <2>1
<1>3. ASSUME IInv, taken # << >> PROVE CanSend
  <2>1. Head(taken) \in Keys /\ Head(taken) \in Range(taken)
    BY <1>3, TailRange DEF IInv, TypeOK
  <2>2. Head(taken) \notin Range(free)
    BY <1>3, <2>1 DEF IInv, PlaceInv
  <2> QED
    BY <1>1, <1>3, <2>1, <2>2
<1>4. IInv => SendNeverBlocks
  BY <1>2, <1>3 DEF SendNeverBlocks
<1> QED
  BY <1>4, InductiveInvariant, PTL

\* A NewPool that fails has destroyed every Key it had made.
THEOREM FailedPoolLeavesNothing == SafeSpec => []FailureLeavesNoKey
<1>1. IInv => FailureLeavesNoKey
  BY DEF IInv, CreateInv, FailureLeavesNoKey
<1> QED
  BY <1>1, InductiveInvariant, PTL

-----------------------------------------------------------------------------
(* Refinement of SignerContract *)

\* A step that leaves every call a call of the same kind shows nothing to the
\* callers.
LEMMA Unseen ==
  ASSUME UNCHANGED <<phase, open, result>>,
         \A q \in Procs : /\ pc'[q] = "idle" <=> pc[q] = "idle"
                          /\ pc'[q] \in DestroyPCs \/ result[q] = "done"
                               <=> pc[q] \in DestroyPCs \/ result[q] = "done"
  PROVE  UNCHANGED Contract!contractVars
<1>1. UNCHANGED statusBar
  BY DEF statusBar
<1>2. UNCHANGED <<doingBar, onBar>>
  BY DEF doingBar, onBar
<1> QED
  BY <1>1, <1>2 DEF Contract!contractVars

\* Every step is one of the contract, or unseen.
LEMMA ContractStep == IInv /\ [Next]_vars => [Contract!Next]_(Contract!contractVars)
<1> SUFFICES ASSUME IInv, [Next]_vars PROVE [Contract!Next]_(Contract!contractVars)
  OBVIOUS
<1> USE DEF Goto
<1>1. /\ pc \in [Procs -> {"idle", "return"} \cup SignPCs \cup DestroyPCs]
      /\ open \in [Keys -> BOOLEAN] /\ result \in [Procs -> Results]
      /\ Range(recvq) \subseteq Procs
      /\ \A p \in Procs : held[p] \in Keys \cup {NoKey}
  BY InRange DEF IInv, TypeOK
<1>2. CASE NewKey \/ Undo
  <2>1. phase # "ready" /\ phase' # "ready" /\ UNCHANGED <<pc, result>>
    BY <1>2 DEF NewKey, Undo
  <2>2. UNCHANGED <<statusBar, doingBar, onBar>>
    BY <2>1 DEF statusBar, doingBar, onBar
  <2> QED
    BY <2>1, <2>2 DEF Contract!contractVars
<1>3. CASE NewPool
  <2>1. phase = "creating" /\ phase' = "ready" /\ UNCHANGED <<open, pc, result>>
    BY <1>3 DEF NewPool
  <2>2. 1 \in Keys /\ open[1]
    BY <1>3, SizeAssumption DEF NewPool, IInv, CreateInv, Keys
  <2>3. statusBar["pool"] = "absent" /\ statusBar' = [statusBar EXCEPT !["pool"] = "alive"]
    BY <2>1, <2>2 DEF statusBar
  <2>4. UNCHANGED <<doingBar, onBar>>
    BY <2>1 DEF doingBar, onBar
  <2> QED
    BY <2>1, <2>3, <2>4 DEF Contract!Next, Contract!Create
<1>4. ASSUME NEW p \in Procs, NEW o \in {"sign", "destroy"}, phase = "ready",
             pc[p] = "idle", NEW l, pc' = [pc EXCEPT ![p] = l],
             l = IF o = "sign" THEN "receive" ELSE "once",
             UNCHANGED <<phase, open, result>>
      PROVE  Contract!Next
  <2>1. UNCHANGED statusBar /\ statusBar["pool"] # "absent"
    BY <1>4 DEF statusBar
  <2>2. result[p] = "pending"
    BY <1>4 DEF IInv, ResultInv
  <2>3. doingBar[p] = "none" /\ doingBar' = [doingBar EXCEPT ![p] = o]
    BY <1>1, <1>4, <2>2 DEF doingBar, DestroyPCs
  <2>4. onBar' = [onBar EXCEPT ![p] = "pool"]
    BY <1>1, <1>4 DEF onBar
  <2> QED
    BY <1>4, <2>1, <2>3, <2>4 DEF Contract!Next, Contract!Invoke
<1>5. ASSUME NEW p \in Procs, SignCall(p) PROVE Contract!Next
  BY <1>4, <1>5 DEF SignCall, poolVars
<1>6. ASSUME NEW p \in Procs, DestroyCall(p) PROVE Contract!Next
  BY <1>4, <1>6 DEF DestroyCall, poolVars
<1>7. ASSUME NEW p \in Procs, Receive(p), pc[p] \in Waiting, UNCHANGED <<phase, open, result>>
      PROVE  UNCHANGED Contract!contractVars
  <2>1. CASE Takes(p)
    BY <1>1, <1>7, <2>1, Unseen DEF Takes, Received, Waiting, DestroyPCs
  <2>2. CASE Parks(p)
    BY <1>7, <2>2, Unseen DEF Parks
  <2> QED
    BY <1>7, <2>1, <2>2, ReceiveEffect DEF IInv
<1>8. ASSUME NEW p \in Procs, NEW k \in Keys, NEW l \in {"return", "putBack"}, Send(p, k, l),
             pc[p] = IF l = "return" THEN "send" ELSE "putBack",
             UNCHANGED <<phase, open, result>>
      PROVE  UNCHANGED Contract!contractVars
  <2>1. CASE Hands(p, k, l)
    <3>1. PICK r \in Range(recvq) : pc' = [pc EXCEPT ![p] = l, ![r] = Received(pc[r])]
      BY <2>1 DEF Hands
    <3>2. r \in Procs /\ r # p /\ pc[r] \in Waiting
      BY <1>1, <1>8 DEF IInv, QueueInv, Waiting
    <3>3. /\ \A q \in Procs \ {p, r} : pc'[q] = pc[q]
          /\ pc'[p] = l /\ pc'[r] = Received(pc[r])
      BY <1>1, <3>1, <3>2
    <3> QED
      BY <1>8, <3>2, <3>3, Unseen DEF Received, Waiting, DestroyPCs
  <2>2. CASE Buffers(p, k, l)
    BY <1>1, <1>8, <2>2, Unseen DEF Buffers, DestroyPCs
  <2> QED
    BY <1>8, <2>1, <2>2, SendEffect DEF IInv
<1>9. ASSUME NEW p \in Procs, SignKey(p) PROVE Contract!Next
  <2>1. /\ phase = "ready" /\ UNCHANGED <<phase, open>> /\ pc' = [pc EXCEPT ![p] = "send"]
        /\ result[p] = "pending" /\ pc[p] = "sign" /\ held[p] \in Keys
    BY <1>1, <1>9 DEF SignKey, poolVars, IInv, CreateInv, ResultInv, HeldInv, Using
  <2>2. /\ UNCHANGED statusBar /\ onBar[p] = "pool" /\ UNCHANGED onBar /\ doingBar[p] = "sign"
    BY <1>1, <2>1 DEF statusBar, onBar, doingBar, DestroyPCs
  <2>3. ASSUME NEW r \in {"ok", "error", "dead"}, result' = [result EXCEPT ![p] = r]
        PROVE  Contract!Settle(p, "sign", r)
    <3>1. UNCHANGED doingBar
      BY <1>1, <2>1, <2>3 DEF doingBar, DestroyPCs
    <3> QED
      BY <2>1, <2>2, <2>3, <3>1 DEF Contract!Settle
  <2>4. CASE open[held[p]] /\ result' = [result EXCEPT ![p] = "ok"]
    <3>1. statusBar["pool"] = "alive"
      BY <2>1, <2>4 DEF statusBar
    <3> QED
      BY <2>2, <2>3, <2>4, <3>1 DEF Contract!Next, Contract!Finish, Contract!Succeed
  <2>5. CASE result' = [result EXCEPT ![p] = "error"]
    BY <2>2, <2>3, <2>5 DEF Contract!Next, Contract!Finish, Contract!Fail
  <2>6. CASE ~open[held[p]] /\ result' = [result EXCEPT ![p] = "dead"]
    <3>1. held[p] \notin Range(taken)
      BY DEF IInv, PlaceInv
    <3>2. \A k \in Keys : ~open[k]
      BY <2>1, <2>6, <3>1 DEF IInv, TypeOK, DestroyInv, Destroying
    <3>3. statusBar["pool"] = "dead"
      BY <2>1, <3>2 DEF statusBar
    <3> QED
      BY <2>2, <2>3, <2>6, <3>3 DEF Contract!Next, Contract!Finish, Contract!Refuse
  <2> QED
    BY <1>9, <2>4, <2>5, <2>6 DEF SignKey
<1>10. ASSUME NEW p \in Procs, SignSend(p) PROVE UNCHANGED Contract!contractVars
  <2>1. pc[p] = "send" /\ held[p] \in Keys /\ UNCHANGED <<phase, open, result>>
    BY <1>1, <1>10 DEF SignSend, IInv, HeldInv, Using
  <2>2. PICK k \in Keys : Send(p, k, "return")
    BY <1>10, <2>1 DEF SignSend
  <2> QED
    BY <1>8, <2>1, <2>2
\* A Destroy takes effect when the last Key is destroyed, or has done so already.
<1>11. ASSUME NEW p \in Procs, pc[p] \in DestroyPCs, NEW l \in {"return", "putBack"},
              phase = "ready", UNCHANGED phase, pc' = [pc EXCEPT ![p] = l],
              result' = [result EXCEPT ![p] = "done"], result[p] = "pending",
              \A k \in Keys : ~open'[k]
       PROVE  Contract!Next
  <2>1. onBar[p] = "pool" /\ UNCHANGED onBar
    BY <1>1, <1>11 DEF onBar, DestroyPCs
  <2>2. doingBar[p] = "destroy" /\ UNCHANGED doingBar
    BY <1>1, <1>11 DEF doingBar, DestroyPCs
  <2>3. statusBar' = [statusBar EXCEPT !["pool"] = "dead"]
    BY <1>11 DEF statusBar
  <2> QED
    BY <1>11, <2>1, <2>2, <2>3
       DEF Contract!Next, Contract!Finish, Contract!Kill, Contract!Settle
<1>12. ASSUME NEW p \in Procs, OnceDo(p) PROVE [Contract!Next]_(Contract!contractVars)
  <2>1. CASE once = "done" /\ pc' = [pc EXCEPT ![p] = "return"]
             /\ result' = [result EXCEPT ![p] = "done"]
    BY <1>11, <1>12, <2>1 DEF OnceDo, DestroyPCs, IInv, CreateInv, DestroyInv, ResultInv
  <2>2. CASE pc' = [pc EXCEPT ![p] = "collect"] /\ UNCHANGED result
    BY <1>1, <1>12, <2>2, Unseen DEF OnceDo, DestroyPCs
  <2> QED
    BY <1>12, <2>1, <2>2 DEF OnceDo
<1>13. ASSUME NEW p \in Procs, DestroyKey(p) PROVE [Contract!Next]_(Contract!contractVars)
  <2>1. /\ phase = "ready" /\ UNCHANGED phase /\ result[p] = "pending"
        /\ pc[p] = "destroyKey" /\ held[p] \in Keys /\ held[p] \notin Range(taken)
        /\ \A k \in Keys : ~open[k] <=> k \in Range(taken)
    BY <1>1, <1>13 DEF DestroyKey, IInv, CreateInv, DestroyInv, ResultInv, HeldInv, Using,
                       PlaceInv
  <2>2. /\ IsInjective(taken') /\ taken' \in Seq(Keys)
        /\ Range(taken') = Range(taken) \cup {held[p]} /\ Range(taken') \subseteq Keys
    BY <1>13, <2>1, AppendRange, InRange DEF DestroyKey, IInv, TypeOK, PlaceInv
  <2>3. \A k \in Keys : ~open'[k] <=> k \in Range(taken')
    BY <1>1, <1>13, <2>1, <2>2 DEF DestroyKey
  <2>4. CASE Len(taken') = N
    <3>1. \A k \in Keys : ~open'[k]
      BY <2>2, <2>3, <2>4, TakenAll
    <3> QED
      BY <1>11, <1>13, <2>1, <2>4, <3>1, SizeAssumption DEF DestroyKey, Cap, DestroyPCs
  <2>5. CASE Len(taken') < N
    <3>1. \E k \in Keys : open'[k]
      BY <2>2, <2>3, <2>5, TakenAll
    <3>2. \E k \in Keys : open[k]
      BY <2>1, <2>2, <2>3, <3>1
    <3>3. pc' = [pc EXCEPT ![p] = "collect"] /\ UNCHANGED result
      BY <1>13, <2>5, SizeAssumption DEF DestroyKey, Cap
    <3>4. UNCHANGED <<statusBar, doingBar, onBar>>
      BY <1>1, <2>1, <3>1, <3>2, <3>3 DEF statusBar, doingBar, onBar, DestroyPCs
    <3> QED
      BY <3>3, <3>4 DEF Contract!contractVars
  <2> QED
    BY <1>13, <2>4, <2>5 DEF DestroyKey, Cap
<1>14. ASSUME NEW p \in Procs, PutBack(p) PROVE UNCHANGED Contract!contractVars
  <2>1. pc[p] = "putBack" /\ result[p] = "done" /\ UNCHANGED <<phase, open, result>>
    BY <1>14 DEF PutBack, IInv, ResultInv
  <2>2. CASE taken # << >>
    <3>1. Head(taken) \in Keys
      BY <2>2, TailRange DEF IInv, TypeOK
    <3> QED
      BY <1>8, <1>14, <2>1, <2>2, <3>1 DEF PutBack
  <2>3. CASE taken = << >>
    BY <1>1, <1>14, <2>1, <2>3, Unseen DEF PutBack, DestroyPCs
  <2> QED
    BY <2>2, <2>3
<1>15. ASSUME NEW p \in Procs, Return(p) PROVE Contract!Next
  <2>1. /\ pc[p] = "return" /\ result[p] # "pending" /\ UNCHANGED <<phase, open>>
        /\ pc' = [pc EXCEPT ![p] = "idle"] /\ result' = [result EXCEPT ![p] = "pending"]
    BY <1>15 DEF Return, IInv, ResultInv, poolVars
  <2>2. UNCHANGED statusBar
    BY <2>1 DEF statusBar
  <2>3. doingBar' = [doingBar EXCEPT ![p] = "none"] /\ onBar' = [onBar EXCEPT ![p] = "none"]
    BY <1>1, <2>1 DEF doingBar, onBar
  <2> QED
    BY <2>1, <2>2, <2>3 DEF Contract!Next, Contract!Finish, Contract!Return
<1>16. CASE UNCHANGED vars
  BY <1>16, Unseen DEF vars, poolVars
<1> QED
  BY <1>2, <1>3, <1>5, <1>6, <1>7, <1>9, <1>10, <1>12, <1>13, <1>14, <1>15, <1>16
     DEF Next, Create, Step, SignReceive, Collect, Waiting

\* Pool implements the safety part of the contract of a destroyable signer: what a
\* caller sees of N Keys and a channel is one signer.
THEOREM PoolImplementsContract == SafeSpec => Contract!SafeSpec
<1>1. Init => Contract!Init
  BY DEF Init, Contract!Init, statusBar, doingBar, onBar
<1>2. IInv /\ [Next]_vars => [Contract!Next]_(Contract!contractVars)
  BY ContractStep
<1> QED
  BY <1>1, <1>2, InductiveInvariant, PTL DEF SafeSpec, Contract!SafeSpec
=============================================================================
