--------------------------- MODULE LifecycleProofs --------------------------
(***************************************************************************)
(* The life cycle of Ctx for any number of goroutines, Ctxs and calls of   *)
(* WaitForSlotEvent.                                                       *)
(*                                                                         *)
(* As long as the client has been careful, whoever uses a Ctx finds it     *)
(* open and nobody else uses one that is being destroyed (CtxInv); the     *)
(* references of the library are those of the open Ctxs and of the News    *)
(* under way (RefsInv), so a Ctx in use keeps a reference of its own when  *)
(* another one gives up its.  ChannelInv follows an answer from the        *)
(* goroutine through the channel to the receiver and needs no care.        *)
(***************************************************************************)
EXTENDS Lifecycle, FiniteSetTheorems, SequenceTheorems, TLAPS

CtxSafe ==
  /\ ~crashed
  /\ \A c \in open : fl[c] = "list"
  /\ \A c \in Ctxs : fl[c] = "list" /\ c \notin open =>
       \E p \in Procs : on[p] = c /\ pc[p] = "clear"
  /\ \A p, q \in Procs : pc[p] = "open" /\ pc[q] = "open" /\ on[p] = on[q] => p = q
  /\ \A p \in Procs : pc[p] = "open" => fl[on[p]] = "none"
  /\ \A p \in Procs : pc[p] \in DestroyPCs =>
       /\ fl[on[p]] = "list"
       /\ on[p] \in open <=> pc[p] # "clear"
       /\ \A q \in Procs : on[q] = on[p] /\ q # p => pc[q] = "idle"
       /\ \A w \in Waits : waitOn[w] = on[p] => wpc[w] \in {"unused", "done"}
  /\ \A p \in Procs : pc[p] \in Functions => on[p] \in open
  /\ \A w \in Waits : wpc[w] \in {"start", "wait"} => waitOn[w] \in open
  /\ \A c \in Holders : lib[c] = load

Counted ==
  /\ IsFiniteSet(Holders) /\ IsFiniteSet(Opening)
  /\ refs = Cardinality(Holders) + Cardinality(Opening)

CtxInv == ~careless => CtxSafe
RefsInv == ~careless => Counted

\* Until it is received, an answer that was sent is in the channel.
Delivered(w) ==
  \/ buffer[w] = answer[w] /\ got[w] = << >>
  \/ buffer[w] = << >> /\ got[w] = answer[w]

ChannelInv ==
  \A w \in Waits :
    /\ wpc[w] \in {"unused", "start", "wait"} => answer[w] = << >>
    /\ wpc[w] \in {"unused", "start", "wait", "send"} =>
         buffer[w] = << >> /\ got[w] = << >>
    /\ wpc[w] \in {"close", "done"} => Delivered(w)
    /\ w \in closed <=> wpc[w] = "done"
    /\ w \in seen => buffer[w] = << >>

IInv ==
  /\ TypeOK
  /\ CtxInv
  /\ RefsInv
  /\ ChannelInv

-----------------------------------------------------------------------------
(* Lemmas *)

\* The initial state satisfies the invariant.
LEMMA InitIInv == Init => IInv
<1> SUFFICES ASSUME Init PROVE IInv
  OBVIOUS
<1>1. (CHOOSE c \in Ctxs : TRUE) \in Ctxs
  BY CtxsAssumption
<1>2. TypeOK
  <2>1. on \in [Procs -> Ctxs] /\ waitOn \in [Waits -> Ctxs]
    BY <1>1 DEF Init
  <2>2. /\ fl \in [Ctxs -> {"none", "list", "nil"}] /\ open \subseteq Ctxs
        /\ lib \in [Ctxs -> 0..MaxLoads] /\ refs \in Nat /\ load \in 0..MaxLoads
    BY MaxLoadsAssumption DEF Init
  <2>3. /\ answer \in [Waits -> {<< >>} \cup OneSlot]
        /\ buffer \in [Waits -> {<< >>} \cup OneSlot]
        /\ got \in [Waits -> {<< >>} \cup OneSlot]
    BY DEF Init
  <2> QED
    BY <2>1, <2>2, <2>3 DEF Init, TypeOK
<1>3. Holders = {} /\ Opening = {}
  BY DEF Init, Holders, Opening
<1>4. CtxInv
  BY <1>3 DEF Init, CtxInv, CtxSafe, DestroyPCs, Functions
<1>5. RefsInv
  BY <1>3, FS_EmptySet DEF Init, RefsInv, Counted
<1>6. ChannelInv
  BY DEF Init, ChannelInv
<1> QED
  BY <1>2, <1>4, <1>5, <1>6 DEF IInv

\* Dlclose gives back a reference that is there.
LEMMA DlcloseType ==
  ASSUME TypeOK, Dlclose
  PROVE  refs' \in Nat /\ load' = load /\ initialized' \in BOOLEAN /\ crashed' \in BOOLEAN
<1>1. refs' \in Nat /\ load' = load
  BY DEF Dlclose, TypeOK
<1>2. initialized' \in BOOLEAN /\ crashed' \in BOOLEAN
  BY Zenon DEF Dlclose
<1> QED
  BY <1>1, <1>2

\* Every step keeps every variable within its type.
LEMMA TypeStep == TypeOK /\ ChannelInv /\ [Next]_vars => TypeOK'
<1> SUFFICES ASSUME TypeOK, ChannelInv, [Next]_vars PROVE TypeOK'
  OBVIOUS
<1> USE MaxLoadsAssumption DEF TypeOK, vars, ctxVars, libVars, waitVars, chanVars, Goto,
        WaitGoto, At, WaitAt, Functions, DestroyPCs
<1>1. ASSUME NEW p \in Procs, NEW c \in Ctxs, NewCall(p, c) PROVE TypeOK'
  BY <1>1 DEF NewCall
<1>2. ASSUME NEW p \in Procs, ReadFunctionList(p) PROVE TypeOK'
  <2>1. CASE Dlclose /\ UNCHANGED ctxVars
    BY <1>2, <2>1, DlcloseType DEF ReadFunctionList
  <2>2. CASE /\ fl' = [fl EXCEPT ![on[p]] = "list"]
             /\ open' = open \cup {on[p]}
             /\ lib' = [lib EXCEPT ![on[p]] = load]
             /\ UNCHANGED <<libVars, crashed>>
    BY <1>2, <2>2 DEF ReadFunctionList
  <2> QED
    BY <1>2, <2>1, <2>2 DEF ReadFunctionList
<1>3. ASSUME NEW p \in Procs, NEW c \in Ctxs, NEW f \in Functions, Call(p, c, f)
      PROVE  TypeOK'
  BY <1>3 DEF Call, Destroyed, Callable
<1>4. ASSUME NEW p \in Procs, Return(p) PROVE TypeOK'
  BY <1>4 DEF Return
<1>5. ASSUME NEW p \in Procs, NEW c \in Ctxs, DestroyCall(p, c) PROVE TypeOK'
  BY <1>5 DEF DestroyCall, InUse
<1>6. ASSUME NEW p \in Procs, Close(p) PROVE TypeOK'
  BY <1>6 DEF Close
<1>7. ASSUME NEW p \in Procs, DlcloseHandle(p) PROVE TypeOK'
  <2>1. CASE Dlclose
    BY <1>7, <2>1, DlcloseType DEF DlcloseHandle
  <2>2. CASE UNCHANGED <<libVars, crashed>>
    BY <1>7, <2>2 DEF DlcloseHandle
  <2> QED
    BY <1>7, <2>1, <2>2 DEF DlcloseHandle
<1>8. ASSUME NEW p \in Procs, ForgetHandle(p) PROVE TypeOK'
  BY <1>8 DEF ForgetHandle
<1>9. ASSUME NEW p \in Procs, Clear(p) PROVE TypeOK'
  BY <1>9 DEF Clear
<1>10. ASSUME NEW p \in Procs, NEW c \in Ctxs, NEW w \in Waits, WaitForSlotEvent(p, c, w)
       PROVE  TypeOK'
  BY <1>10 DEF WaitForSlotEvent, Destroyed
<1>11. ASSUME NEW w \in Waits, WaitStart(w) PROVE TypeOK'
  BY <1>11 DEF WaitStart, Callable
<1>12. ASSUME NEW w \in Waits, WaitAnswered(w) \/ WaitFailed(w) \/ WaitClose(w)
       PROVE  TypeOK'
  <2>1. CASE WaitAnswered(w)
    <3>1. PICK a \in OneSlot : answer' = [answer EXCEPT ![w] = a]
      BY <2>1 DEF WaitAnswered
    <3>2. answer' \in [Waits -> {<< >>} \cup OneSlot]
      BY <3>1
    <3> QED
      BY <2>1, <3>2 DEF WaitAnswered
  <2>2. CASE WaitFailed(w)
    BY <2>2 DEF WaitFailed
  <2>3. CASE WaitClose(w)
    BY <2>3 DEF WaitClose
  <2> QED
    BY <1>12, <2>1, <2>2, <2>3
<1>13. ASSUME NEW w \in Waits, WaitSend(w) PROVE TypeOK'
  <2>1. CASE UNCHANGED buffer
    BY <1>13, <2>1 DEF WaitSend
  <2>2. CASE buffer' = [buffer EXCEPT ![w] = @ \o answer[w]]
    <3>1. buffer[w] = << >>
      BY <1>13 DEF WaitSend, ChannelInv
    <3>2. << >> \o answer[w] = answer[w]
      BY SlotsAssumption DEF OneSlot
    <3> QED
      BY <1>13, <2>2, <3>1, <3>2 DEF WaitSend
  <2> QED
    BY <1>13, <2>1, <2>2 DEF WaitSend
<1>14. ASSUME NEW w \in Waits, Receive(w) PROVE TypeOK'
  BY <1>14 DEF Receive
<1>15. CASE UNCHANGED vars
  BY <1>15
<1> QED
  BY <1>1, <1>2, <1>3, <1>4, <1>5, <1>6, <1>7, <1>8, <1>9, <1>10, <1>11, <1>12, <1>13,
     <1>14, <1>15 DEF Next

\* An answer is in one place: with the goroutine, in the channel, or received.
LEMMA ChannelStep == TypeOK /\ ChannelInv /\ [Next]_vars => ChannelInv'
<1> SUFFICES ASSUME TypeOK, ChannelInv, [Next]_vars PROVE ChannelInv'
  OBVIOUS
<1> USE DEF vars, waitVars, chanVars, WaitGoto, WaitAt, ChannelInv, Delivered
<1>1. ASSUME UNCHANGED waitVars PROVE ChannelInv'
  BY <1>1
<1>2. ASSUME NEW p \in Procs, NEW c \in Ctxs, NEW w \in Waits, WaitForSlotEvent(p, c, w)
      PROVE  ChannelInv'
  BY <1>2 DEF WaitForSlotEvent, TypeOK
<1>3. ASSUME NEW w \in Waits, WaitStart(w) PROVE ChannelInv'
  BY <1>3 DEF WaitStart, TypeOK
<1>4. ASSUME NEW w \in Waits, WaitAnswered(w) \/ WaitFailed(w) PROVE ChannelInv'
  BY <1>4 DEF WaitAnswered, WaitFailed, TypeOK
<1>5. ASSUME NEW w \in Waits, WaitSend(w) PROVE ChannelInv'
  <2>1. << >> \o answer[w] = answer[w]
    BY SlotsAssumption DEF OneSlot, TypeOK
  <2>2. wpc[w] = "send" /\ buffer[w] = << >> /\ got[w] = << >>
    BY <1>5 DEF WaitSend
  <2>3. /\ wpc' = [wpc EXCEPT ![w] = "close"]
        /\ UNCHANGED <<answer, got, closed, seen>>
    BY <1>5 DEF WaitSend
  <2>4. buffer' = [buffer EXCEPT ![w] = answer[w]]
    <3>1. CASE answer[w] = << >> /\ UNCHANGED buffer
      BY <2>2, <3>1 DEF TypeOK
    <3>2. CASE buffer' = [buffer EXCEPT ![w] = @ \o answer[w]]
      BY <2>1, <2>2, <3>2
    <3> QED
      BY <1>5, <3>1, <3>2 DEF WaitSend
  <2> QED
    BY <2>2, <2>3, <2>4 DEF TypeOK
<1>6. ASSUME NEW w \in Waits, WaitClose(w) PROVE ChannelInv'
  BY <1>6 DEF WaitClose, TypeOK
<1>7. ASSUME NEW w \in Waits, Receive(w) PROVE ChannelInv'
  BY <1>7 DEF Receive, TypeOK
<1>8. ASSUME NEW p \in Procs, ReadFunctionList(p) \/ Return(p) \/ Close(p)
                               \/ DlcloseHandle(p) \/ ForgetHandle(p) \/ Clear(p)
      PROVE  UNCHANGED waitVars
  BY <1>8 DEF ReadFunctionList, Return, Close, DlcloseHandle, ForgetHandle, Clear
<1>9. ASSUME NEW p \in Procs, NEW c \in Ctxs,
             NewCall(p, c) \/ DestroyCall(p, c) \/ \E f \in Functions : Call(p, c, f)
      PROVE  UNCHANGED waitVars
  BY <1>9 DEF NewCall, DestroyCall, Call
<1> QED
  BY <1>1, <1>2, <1>3, <1>4, <1>5, <1>6, <1>7, <1>8, <1>9 DEF Next

\* How many elements a set has that has one, or two.
LEMMA OneOrTwo ==
  ASSUME NEW S, IsFiniteSet(S), NEW x \in S
  PROVE  /\ Cardinality(S) \in Nat /\ Cardinality(S) >= 1
         /\ \A y \in S : y # x => Cardinality(S) >= 2
<1>1. Cardinality(S) \in Nat /\ Cardinality({x}) = 1
  BY FS_CardinalityType, FS_Singleton
<1>2. Cardinality({x}) <= Cardinality(S)
  BY FS_Subset
<1>3. ASSUME NEW y \in S, y # x PROVE Cardinality(S) >= 2
  <2>1. Cardinality({x} \cup {y}) = 2
    <3>1. IsFiniteSet({x}) /\ Cardinality({x}) = 1 /\ y \notin {x}
      BY <1>3, FS_Singleton
    <3>2. Cardinality({x} \cup {y}) = Cardinality({x}) + 1
      BY <3>1, FS_AddElement
    <3> QED
      BY <3>1, <3>2
  <2>2. Cardinality({x} \cup {y}) <= Cardinality(S)
    BY <1>3, FS_Subset
  <2> QED
    BY <1>1, <2>1, <2>2
<1> QED
  BY <1>1, <1>2, <1>3

\* A Ctx that has its reference can be called.
LEMMA HolderCallable ==
  ASSUME TypeOK, CtxSafe, Counted, NEW c \in Holders
  PROVE  Callable(c)
<1>1. refs > 0
  <2>1. Cardinality(Holders) \in Nat /\ Cardinality(Holders) >= 1 /\ Cardinality(Opening) \in Nat
    BY OneOrTwo, FS_CardinalityType DEF Counted
  <2> QED
    BY <2>1 DEF Counted
<1>2. fl[c] = "list" /\ lib[c] = load
  BY DEF CtxSafe, Holders
<1> QED
  BY <1>1, <1>2 DEF Callable

\* A Ctx that has been made and not destroyed has its reference.
LEMMA AliveHolds ==
  ASSUME TypeOK, CtxSafe, NEW c \in Ctxs, fl[c] # "none", ~Destroyed(c)
  PROVE  c \in open /\ c \in Holders
<1>1. fl[c] = "list" /\ \A q \in Procs : on[q] = c => pc[q] \notin DestroyPCs
  BY DEF TypeOK, Destroyed
<1> QED
  BY <1>1 DEF CtxSafe, Holders, DestroyPCs

\* A Ctx that runs in the library has its reference.
LEMMA UserHolds ==
  ASSUME TypeOK, CtxSafe
  PROVE  /\ \A q \in Procs : pc[q] \in Functions => on[q] \in Holders
         /\ \A w \in Waits : wpc[w] \in {"start", "wait"} => waitOn[w] \in Holders
<1>1. ASSUME NEW q \in Procs, pc[q] \in Functions PROVE on[q] \in Holders
  BY <1>1 DEF CtxSafe, Holders, DestroyPCs, Functions
<1>2. ASSUME NEW w \in Waits, wpc[w] \in {"start", "wait"} PROVE waitOn[w] \in Holders
  BY <1>2 DEF CtxSafe, Holders, DestroyPCs
<1> QED
  BY <1>1, <1>2

\* Whoever gives up a reference has it, and the library stays for the others.
LEMMA DlcloseSafe ==
  ASSUME TypeOK, CtxSafe, Counted, Dlclose,
         NEW p \in Procs, pc[p] \in {"open", "dlclose"}
  PROVE  ~crashed'
<1>1. Cardinality(Holders) \in Nat /\ Cardinality(Opening) \in Nat
  BY FS_CardinalityType DEF Counted
<1>2. ASSUME NEW d \in Holders, pc[p] = "dlclose" => on[p] # d PROVE refs # 1
  <2>1. CASE pc[p] = "open"
    <3>1. p \in Opening
      BY <2>1 DEF Opening
    <3>2. Cardinality(Opening) >= 1 /\ Cardinality(Holders) >= 1
      BY <3>1, OneOrTwo DEF Counted
    <3> QED
      BY <1>1, <3>2 DEF Counted
  <2>2. CASE pc[p] = "dlclose"
    <3>1. on[p] \in Holders
      BY <2>2 DEF CtxSafe, Holders, DestroyPCs
    <3>2. Cardinality(Holders) >= 2
      BY <1>2, <2>2, <3>1, OneOrTwo DEF Counted
    <3> QED
      BY <1>1, <3>2 DEF Counted
  <2> QED
    BY <2>1, <2>2
<1>3. ASSUME NEW q \in Procs, pc[q] \in Functions PROVE refs # 1
  <2>1. on[q] \in Holders
    BY <1>3, UserHolds
  <2>2. pc[p] = "dlclose" => on[p] # on[q]
    BY <1>3 DEF CtxSafe, DestroyPCs, Functions
  <2> QED
    BY <1>2, <2>1, <2>2
<1>4. ASSUME NEW w \in Waits, wpc[w] = "wait" PROVE refs # 1
  <2>1. waitOn[w] \in Holders
    BY <1>4, UserHolds
  <2>2. pc[p] = "dlclose" => on[p] # waitOn[w]
    BY <1>4 DEF CtxSafe, DestroyPCs
  <2> QED
    BY <1>2, <2>1, <2>2
<1>5. crashed' => refs = 1 /\ InLibrary # {}
  BY DEF Dlclose
<1> QED
  BY <1>3, <1>4, <1>5 DEF InLibrary

\* Carelessness is not forgotten.
LEMMA CarelessStays ==
  ASSUME [Next]_vars, ~careless'
  PROVE  ~careless
<1>1. ASSUME NEW p \in Procs, ReadFunctionList(p) \/ Return(p) \/ Close(p)
                               \/ DlcloseHandle(p) \/ ForgetHandle(p) \/ Clear(p)
      PROVE  careless' = careless
  BY <1>1 DEF ReadFunctionList, Return, Close, DlcloseHandle, ForgetHandle, Clear
<1>2. ASSUME NEW p \in Procs, NEW c \in Ctxs, NewCall(p, c) PROVE careless' = careless
  BY <1>2 DEF NewCall
<1>3. ASSUME NEW p \in Procs, NEW c \in Ctxs, DestroyCall(p, c) PROVE ~careless
  BY <1>3, Zenon DEF DestroyCall
<1>4. ASSUME NEW p \in Procs, NEW c \in Ctxs, NEW f \in Functions, Call(p, c, f)
      PROVE  ~careless
  BY <1>4, Zenon DEF Call
<1>5. ASSUME NEW p \in Procs, NEW c \in Ctxs, NEW w \in Waits, WaitForSlotEvent(p, c, w)
      PROVE  ~careless
  BY <1>5, Zenon DEF WaitForSlotEvent
<1>6. ASSUME NEW w \in Waits, WaitStart(w) \/ WaitAnswered(w) \/ WaitFailed(w)
                               \/ WaitSend(w) \/ WaitClose(w) \/ Receive(w)
      PROVE  careless' = careless
  BY <1>6 DEF WaitStart, WaitAnswered, WaitFailed, WaitSend, WaitClose, Receive
<1>7. CASE UNCHANGED vars
  BY <1>7 DEF vars
<1> QED
  BY <1>1, <1>2, <1>3, <1>4, <1>5, <1>6, <1>7 DEF Next

\* While the client is careful, nobody uses a Ctx that is being destroyed, and
\* nothing is unloaded under a call.
LEMMA CtxStep == TypeOK /\ CtxInv /\ RefsInv /\ ChannelInv /\ [Next]_vars => CtxInv'
<1> SUFFICES ASSUME TypeOK, CtxInv, RefsInv, ChannelInv, [Next]_vars, ~careless'
             PROVE  CtxSafe'
  BY DEF CtxInv
<1>0. ~careless /\ CtxSafe /\ Counted
  BY CarelessStays DEF CtxInv, RefsInv
<1> USE DEF vars, ctxVars, libVars, waitVars, chanVars, Goto,
        WaitGoto, At, WaitAt, Functions, DestroyPCs
<1>t. /\ pc \in [Procs -> {"idle", "open"} \cup Functions \cup DestroyPCs]
      /\ on \in [Procs -> Ctxs] /\ fl \in [Ctxs -> {"none", "list", "nil"}]
      /\ lib \in [Ctxs -> 0..MaxLoads] /\ open \subseteq Ctxs
      /\ wpc \in [Waits -> {"unused", "start", "wait", "send", "close", "done"}]
      /\ waitOn \in [Waits -> Ctxs]
  BY DEF TypeOK
<1>1. ASSUME NEW p \in Procs, NEW c \in Ctxs, NewCall(p, c) PROVE CtxSafe'
  <2>1. refs = 0 => Holders = {}
    BY <1>0, FS_CardinalityType, FS_EmptySet DEF Counted
  <2> QED
    BY <1>0, <1>t, <1>1, <2>1 DEF NewCall, CtxSafe, Holders
<1>2. ASSUME NEW p \in Procs, ReadFunctionList(p) PROVE CtxSafe'
  <2>1. CASE /\ fl' = [fl EXCEPT ![on[p]] = "list"]
             /\ open' = open \cup {on[p]}
             /\ lib' = [lib EXCEPT ![on[p]] = load]
             /\ UNCHANGED <<libVars, crashed>>
    BY <1>0, <1>t, <1>2, <2>1 DEF ReadFunctionList, CtxSafe, Holders
  <2>2. CASE Dlclose /\ UNCHANGED ctxVars
    <3>1. ~crashed'
      BY <1>0, <1>2, <2>2, DlcloseSafe DEF ReadFunctionList
    <3> QED
      BY <1>0, <1>t, <1>2, <2>2, <3>1, DlcloseType DEF ReadFunctionList, CtxSafe, Holders
  <2> QED
    BY <1>2, <2>1, <2>2 DEF ReadFunctionList
<1>3. ASSUME NEW p \in Procs, NEW c \in Ctxs, NEW f \in Functions, Call(p, c, f)
      PROVE  CtxSafe'
  <2>1. ~Destroyed(c) /\ fl[c] # "none"
    BY <1>3 DEF Call
  <2>2. c \in Holders /\ c \in open /\ Callable(c)
    BY <1>0, <2>1, AliveHolds, HolderCallable
  <2> QED
    BY <1>0, <1>t, <1>3, <2>1, <2>2 DEF Call, CtxSafe, Holders, Destroyed
<1>4. ASSUME NEW p \in Procs, Return(p) PROVE CtxSafe'
  BY <1>0, <1>t, <1>4 DEF Return, CtxSafe, Holders
<1>5. ASSUME NEW p \in Procs, NEW c \in Ctxs, DestroyCall(p, c) PROVE CtxSafe'
  <2>1. ~InUse(p, c)
    BY <1>5 DEF DestroyCall
  <2>2. \A w \in Waits : waitOn[w] = c => wpc[w] \in {"unused", "done"}
    BY <2>1 DEF InUse, TypeOK, ChannelInv
  <2> QED
    BY <1>0, <1>t, <1>5, <2>1, <2>2 DEF DestroyCall, CtxSafe, Holders, InUse
<1>6. ASSUME NEW p \in Procs, Close(p) PROVE CtxSafe'
  <2>1. fl[on[p]] = "list" /\ on[p] \in open
    BY <1>0, <1>6 DEF Close, CtxSafe
  <2>2. ~crashed'
    BY <1>6, <2>1 DEF Close
  <2>3. pc' = [pc EXCEPT ![p] = "dlclose"] /\ pc[p] = "close"
    BY <1>6, <2>1 DEF Close
  <2>4. UNCHANGED <<fl, open, lib, load, on, wpc, waitOn>>
    BY <1>6 DEF Close
  <2> QED
    BY <1>0, <1>t, <2>2, <2>3, <2>4 DEF CtxSafe, Holders
<1>7. ASSUME NEW p \in Procs, DlcloseHandle(p) PROVE CtxSafe'
  <2>1. ~crashed' /\ load' = load
    BY <1>0, <1>7, DlcloseSafe, DlcloseType DEF DlcloseHandle, CtxSafe
  <2> QED
    BY <1>0, <1>t, <1>7, <2>1 DEF DlcloseHandle, CtxSafe, Holders
<1>8. ASSUME NEW p \in Procs, ForgetHandle(p) PROVE CtxSafe'
  BY <1>0, <1>t, <1>8 DEF ForgetHandle, CtxSafe, Holders
<1>9. ASSUME NEW p \in Procs, Clear(p) PROVE CtxSafe'
  BY <1>0, <1>t, <1>9 DEF Clear, CtxSafe, Holders
<1>10. ASSUME NEW p \in Procs, NEW c \in Ctxs, NEW w \in Waits, WaitForSlotEvent(p, c, w)
       PROVE  CtxSafe'
  <2>1. ~Destroyed(c) /\ fl[c] # "none"
    BY <1>10 DEF WaitForSlotEvent
  <2>2. c \in open
    BY <1>0, <2>1, AliveHolds
  <2> QED
    BY <1>0, <1>t, <1>10, <2>1, <2>2 DEF WaitForSlotEvent, CtxSafe, Holders, Destroyed
<1>11. ASSUME NEW w \in Waits, WaitStart(w) PROVE CtxSafe'
  <2>1. Callable(waitOn[w])
    BY <1>0, <1>11, UserHolds, HolderCallable DEF WaitStart
  <2>2. ~crashed'
    BY <1>11, <2>1, Zenon DEF WaitStart
  <2>3. /\ UNCHANGED <<fl, open, lib, load, pc, on, waitOn>>
        /\ wpc[w] = "start" /\ wpc' = [wpc EXCEPT ![w] = "wait"]
    BY <1>11 DEF WaitStart
  <2> QED
    BY <1>0, <1>t, <2>2, <2>3 DEF CtxSafe, Holders
<1>12. ASSUME NEW w \in Waits, WaitAnswered(w) \/ WaitFailed(w) \/ WaitSend(w) \/ WaitClose(w)
       PROVE  CtxSafe'
  <2>1. UNCHANGED <<fl, open, lib, load, pc, on, waitOn, crashed>>
    BY <1>12 DEF WaitAnswered, WaitFailed, WaitSend, WaitClose
  <2>2. \/ wpc[w] = "wait" /\ wpc' = [wpc EXCEPT ![w] = "send"]
        \/ wpc[w] = "send" /\ wpc' = [wpc EXCEPT ![w] = "close"]
        \/ wpc[w] = "close" /\ wpc' = [wpc EXCEPT ![w] = "done"]
    BY <1>12 DEF WaitAnswered, WaitFailed, WaitSend, WaitClose
  <2>3. \A v \in Waits : v # w => wpc'[v] = wpc[v]
    BY <1>t, <2>2
  <2>4. wpc[w] \notin {"unused", "done"} /\ wpc'[w] \notin {"start", "wait"}
    BY <1>t, <2>2
  <2>5. Holders' = Holders
    BY <2>1 DEF Holders
  <2> QED
    BY <1>0, <2>1, <2>3, <2>4, <2>5 DEF CtxSafe
<1>13. ASSUME NEW w \in Waits, Receive(w) PROVE CtxSafe'
  BY <1>0, <1>13 DEF Receive, CtxSafe, Holders
<1>14. CASE UNCHANGED vars
  BY <1>0, <1>14 DEF CtxSafe, Holders
<1> QED
  BY <1>1, <1>2, <1>3, <1>4, <1>5, <1>6, <1>7, <1>8, <1>9, <1>10, <1>11, <1>12, <1>13,
     <1>14 DEF Next

\* The library has one reference for every open Ctx and for every New under way.
LEMMA RefsStep == TypeOK /\ CtxInv /\ RefsInv /\ [Next]_vars => RefsInv'
<1> SUFFICES ASSUME TypeOK, CtxInv, RefsInv, [Next]_vars, ~careless'
             PROVE  Counted'
  BY DEF RefsInv
<1>0. CtxSafe /\ Counted
  BY CarelessStays DEF CtxInv, RefsInv
<1> USE DEF vars, ctxVars, libVars, waitVars, chanVars, Goto, WaitGoto, At, WaitAt,
        Functions, DestroyPCs
<1>t. /\ pc \in [Procs -> {"idle", "open"} \cup Functions \cup DestroyPCs]
      /\ on \in [Procs -> Ctxs] /\ refs \in Nat
  BY DEF TypeOK
<1>q. ASSUME refs' = refs, Holders' = Holders, Opening' = Opening PROVE Counted'
  BY <1>0, <1>q DEF Counted
<1>n. Cardinality(Holders) \in Nat /\ Cardinality(Opening) \in Nat
  BY <1>0, FS_CardinalityType DEF Counted
<1>1. ASSUME NEW p \in Procs, NEW c \in Ctxs, NewCall(p, c) PROVE Counted'
  <2>1. Holders' = Holders
    BY <1>t, <1>1 DEF NewCall, Holders
  <2>2. Opening' = Opening \cup {p} /\ p \notin Opening
    BY <1>t, <1>1 DEF NewCall, Opening
  <2>3. IsFiniteSet(Opening') /\ Cardinality(Opening') = Cardinality(Opening) + 1
    BY <1>0, <2>2, FS_AddElement DEF Counted
  <2>4. refs' = refs + 1
    BY <1>1 DEF NewCall
  <2> QED
    BY <1>0, <1>n, <2>1, <2>3, <2>4 DEF Counted
<1>2. ASSUME NEW p \in Procs, ReadFunctionList(p) PROVE Counted'
  <2>1. Opening' = Opening \ {p} /\ p \in Opening
    BY <1>t, <1>2 DEF ReadFunctionList, Opening
  <2>2. IsFiniteSet(Opening') /\ Cardinality(Opening') = Cardinality(Opening) - 1
    BY <1>0, <2>1, FS_RemoveElement DEF Counted
  <2>3. CASE open' = open \cup {on[p]} /\ refs' = refs
    <3>1. on[p] \notin open /\ \A q \in Procs : on[q] = on[p] => pc[q] # "forget"
      BY <1>0, <1>2 DEF ReadFunctionList, CtxSafe
    <3>2. Holders' = Holders \cup {on[p]} /\ on[p] \notin Holders
      BY <1>t, <1>2, <2>3, <3>1 DEF ReadFunctionList, Holders
    <3>3. IsFiniteSet(Holders') /\ Cardinality(Holders') = Cardinality(Holders) + 1
      BY <1>0, <3>2, FS_AddElement DEF Counted
    <3> QED
      BY <1>0, <1>n, <2>2, <2>3, <3>3 DEF Counted
  <2>4. CASE Dlclose /\ UNCHANGED ctxVars
    <3>1. Holders' = Holders
      BY <1>t, <1>2, <2>4 DEF ReadFunctionList, Holders
    <3>2. refs' = refs - 1
      BY <2>4 DEF Dlclose
    <3> QED
      BY <1>0, <1>n, <2>2, <3>1, <3>2 DEF Counted
  <2> QED
    BY <1>2, <2>3, <2>4 DEF ReadFunctionList
<1>3. ASSUME NEW p \in Procs, DlcloseHandle(p) PROVE Counted'
  <2>1. Holders' = Holders \ {on[p]}
    BY <1>t, <1>3 DEF DlcloseHandle, Holders
  <2>2. on[p] \in Holders
    BY <1>0, <1>3 DEF DlcloseHandle, CtxSafe, Holders
  <2>3. IsFiniteSet(Holders') /\ Cardinality(Holders') = Cardinality(Holders) - 1
    BY <1>0, <2>1, <2>2, FS_RemoveElement DEF Counted
  <2>4. Cardinality(Holders) >= 1
    BY <1>0, <2>2, OneOrTwo DEF Counted
  <2>5. refs # 0 /\ on[p] \in open
    BY <1>0, <1>n, <2>2, <2>4 DEF Counted, Holders
  <2>6. refs' = refs - 1
    BY <1>3, <2>5 DEF DlcloseHandle, Dlclose
  <2>7. Opening' = Opening
    BY <1>t, <1>3 DEF DlcloseHandle, Opening
  <2> QED
    BY <1>0, <1>n, <2>3, <2>6, <2>7 DEF Counted
<1>4. ASSUME NEW p \in Procs, ForgetHandle(p) PROVE Counted'
  <2>1. Holders' = Holders
    BY <1>t, <1>4 DEF ForgetHandle, Holders
  <2>2. Opening' = Opening /\ refs' = refs
    BY <1>t, <1>4 DEF ForgetHandle, Opening
  <2> QED
    BY <1>q, <2>1, <2>2
<1>5. ASSUME NEW p \in Procs, Return(p) \/ Close(p) \/ Clear(p) PROVE Counted'
  <2>1. UNCHANGED <<open, refs, on>>
    BY <1>5 DEF Return, Close, Clear
  <2>2. /\ pc[p] \notin {"open", "forget"}
        /\ \E l \in {"idle", "dlclose", "clear"} : pc' = [pc EXCEPT ![p] = l]
    BY <1>5 DEF Return, Close, Clear
  <2>3. Holders' = Holders /\ Opening' = Opening
    BY <1>t, <2>1, <2>2 DEF Holders, Opening
  <2> QED
    BY <1>q, <2>1, <2>3
<1>6. ASSUME NEW p \in Procs, NEW c \in Ctxs,
             DestroyCall(p, c) \/ \E f \in Functions : Call(p, c, f)
      PROVE  Counted'
  <2>1. UNCHANGED <<open, refs>> /\ on' = [on EXCEPT ![p] = c] /\ pc[p] = "idle"
    BY <1>6 DEF DestroyCall, Call
  <2>2. \E l \in {"idle", "close"} \cup Functions : pc' = [pc EXCEPT ![p] = l]
    <3>1. [pc EXCEPT ![p] = "idle"] = pc
      BY <1>t, <2>1
    <3> QED
      BY <1>6, <3>1 DEF DestroyCall, Call
  <2>3. Holders' = Holders /\ Opening' = Opening
    BY <1>t, <2>1, <2>2 DEF Holders, Opening
  <2> QED
    BY <1>q, <2>1, <2>3
<1>7. ASSUME UNCHANGED <<open, refs, on, pc>> PROVE Counted'
  BY <1>q, <1>7 DEF Holders, Opening
<1>8. ASSUME NEW p \in Procs, NEW c \in Ctxs, NEW w \in Waits, WaitForSlotEvent(p, c, w)
      PROVE  Counted'
  BY <1>7, <1>8 DEF WaitForSlotEvent
<1>9. ASSUME NEW w \in Waits, WaitStart(w) \/ WaitAnswered(w) \/ WaitFailed(w)
                               \/ WaitSend(w) \/ WaitClose(w) \/ Receive(w)
      PROVE  Counted'
  BY <1>7, <1>9 DEF WaitStart, WaitAnswered, WaitFailed, WaitSend, WaitClose, Receive
<1>10. CASE UNCHANGED vars
  BY <1>7, <1>10
<1> QED
  BY <1>1, <1>2, <1>3, <1>4, <1>5, <1>6, <1>8, <1>9, <1>10 DEF Next

\* The conjuncts of IInv together are inductive.
LEMMA NextIInv == IInv /\ [Next]_vars => IInv'
  BY TypeStep, CtxStep, RefsStep, ChannelStep DEF IInv

\* IInv holds in every reachable state.
LEMMA InductiveInvariant == Spec => []IInv
  BY InitIInv, NextIInv, PTL DEF Spec

-----------------------------------------------------------------------------
(* Theorems *)

\* Every variable keeps its type, whatever the client does to its Ctxs.
THEOREM TypeCorrect == Spec => []TypeOK
<1>1. IInv => TypeOK
  BY DEF IInv
<1> QED
  BY <1>1, InductiveInvariant, PTL

\* A client that destroys a Ctx only when nothing of it runs and every channel of
\* it was seen closed never runs code of an unloaded library and never follows
\* the nil pointer that Destroy leaves, however many Ctxs share the library and in
\* whatever order they are made and destroyed.  (Destroy, dlopen and dlclose.)
THEOREM CarefulIsSafe == Spec => []SafeWhenCareful
<1>1. IInv => SafeWhenCareful
  BY DEF IInv, CtxInv, CtxSafe, SafeWhenCareful
<1> QED
  BY <1>1, InductiveInvariant, PTL

\* For such a client the library has one reference for every Ctx that is not
\* destroyed and for every New under way: none leaks when New fails, none is
\* given back twice.  (New and Destroy.)
THEOREM ReferencesCounted == Spec => []ReferencesAccounted
<1>1. IInv => ReferencesAccounted
  BY DEF IInv, RefsInv, Counted, ReferencesAccounted
<1> QED
  BY <1>1, InductiveInvariant, PTL

\* Whoever has seen a channel of WaitForSlotEvent closed has received the event
\* that C_WaitForSlotEvent gave, or none if it failed: the goroutine sends before
\* it closes.  (WaitForSlotEvent.)
THEOREM AnswersArrive == Spec => []ChannelAnswers
<1>1. ASSUME IInv PROVE ChannelAnswers
  <2>1. ASSUME NEW w \in seen PROVE got[w] = answer[w]
    <3>1. w \in Waits /\ w \in closed
      BY <1>1 DEF IInv, TypeOK
    <3> QED
      BY <1>1, <3>1 DEF IInv, ChannelInv, Delivered
  <2> QED
    BY <2>1 DEF ChannelAnswers
<1> QED
  BY <1>1, InductiveInvariant, PTL
=============================================================================
