------------------------------ MODULE Lifecycle ------------------------------
(***************************************************************************)
(* A Ctx from New to Destroy, while goroutines call its methods and the    *)
(* goroutines of WaitForSlotEvent wait for events.  All Ctxs have opened   *)
(* one library, which is loaded while somebody has a reference to it.      *)
(* Nothing in Ctx is locked, and the client may do anything: a nil pointer *)
(* followed, or code that runs in a library that is gone, sets crashed.    *)
(***************************************************************************)
EXTENDS Naturals, FiniteSets, Sequences

CONSTANTS Procs, Ctxs,
          Waits,   \* calls of WaitForSlotEvent, each with its goroutine and channel
          Slots,
          MaxLoads \* bound on how often the library is loaded

ASSUME CtxsAssumption == Ctxs # {}
ASSUME SlotsAssumption == Slots \subseteq Nat
ASSUME MaxLoadsAssumption == MaxLoads \in Nat

VARIABLES fl,          \* c.fl: "none" before New has returned c, "list" or "nil"
          open,        \* the Ctxs whose functionList has a handle that is not 0
          lib,         \* lib[c]: the load of the library that c's functions belong to
          refs, load, initialized, \* the library: references, loads so far, C_Initialize
          pc, on,      \* where each goroutine of the client is, and the Ctx it uses
          wpc, waitOn, \* the same for the goroutines of WaitForSlotEvent
          answer,      \* answer[w]: the slot C_WaitForSlotEvent gave, if any
          buffer, closed, \* w's channel
          got, seen,   \* what was received from it; those seen to be closed
          crashed,
          careless     \* history: a Destroy overlapped a use of its Ctx

libVars == <<refs, load, initialized>>
ctxVars == <<fl, open, lib>>
chanVars == <<buffer, closed, got, seen>>
waitVars == <<wpc, waitOn, answer, chanVars>>
vars == <<ctxVars, libVars, pc, on, waitVars, crashed, careless>>

Functions == {"C_Initialize", "C_Finalize", "C_Function"}
DestroyPCs == {"close", "dlclose", "forget", "clear"}
OneSlot == {<<s>> : s \in Slots}

TypeOK ==
  /\ fl \in [Ctxs -> {"none", "list", "nil"}]
  /\ open \subseteq Ctxs
  /\ lib \in [Ctxs -> 0..MaxLoads]
  /\ refs \in Nat /\ load \in 0..MaxLoads /\ initialized \in BOOLEAN
  /\ pc \in [Procs -> {"idle", "open"} \cup Functions \cup DestroyPCs]
  /\ on \in [Procs -> Ctxs]
  /\ wpc \in [Waits -> {"unused", "start", "wait", "send", "close", "done"}]
  /\ waitOn \in [Waits -> Ctxs]
  /\ answer \in [Waits -> {<< >>} \cup OneSlot]
  /\ buffer \in [Waits -> {<< >>} \cup OneSlot]
  /\ got \in [Waits -> {<< >>} \cup OneSlot]
  /\ closed \subseteq Waits /\ seen \subseteq closed
  /\ crashed \in BOOLEAN /\ careless \in BOOLEAN

Init ==
  /\ fl = [c \in Ctxs |-> "none"] /\ open = {} /\ lib = [c \in Ctxs |-> 0]
  /\ refs = 0 /\ load = 0 /\ initialized = FALSE
  /\ pc = [p \in Procs |-> "idle"] /\ wpc = [w \in Waits |-> "unused"]
  /\ on \in [Procs -> {CHOOSE c \in Ctxs : TRUE}]
  /\ waitOn \in [Waits -> {CHOOSE c \in Ctxs : TRUE}]
  /\ answer = [w \in Waits |-> << >>] /\ buffer = answer /\ got = answer
  /\ closed = {} /\ seen = {}
  /\ crashed = FALSE /\ careless = FALSE

At(p, l) == ~crashed /\ pc[p] = l
WaitAt(w, l) == ~crashed /\ wpc[w] = l
Goto(p, l) == pc' = [pc EXCEPT ![p] = l]
WaitGoto(w, l) == wpc' = [wpc EXCEPT ![w] = l]

-----------------------------------------------------------------------------
(* The library *)

InLibrary == {p \in Procs : pc[p] \in Functions} \cup {w \in Waits : wpc[w] = "wait"}

\* c's function pointers point into the library as it is loaded now.
Callable(c) == fl[c] = "list" /\ refs > 0 /\ lib[c] = load

Dlclose ==
  /\ refs > 0
  /\ refs' = refs - 1
  /\ initialized' = (initialized /\ refs > 1)
  /\ crashed' = (refs = 1 /\ InLibrary # {})
  /\ UNCHANGED load

-----------------------------------------------------------------------------
(* New *)

NewCall(p, c) ==
  /\ At(p, "idle")
  /\ fl[c] = "none"
  /\ \A q \in Procs : ~(pc[q] = "open" /\ on[q] = c)
  /\ \/ refs > 0 /\ UNCHANGED load
     \/ refs = 0 /\ load < MaxLoads /\ load' = load + 1
  /\ refs' = refs + 1
  /\ on' = [on EXCEPT ![p] = c]
  /\ Goto(p, "open")
  /\ UNCHANGED <<ctxVars, initialized, waitVars, crashed, careless>>

MutReadFunctionList(p) == \* a library without a function list stays open
  /\ At(p, "open")
  /\ \/ /\ fl' = [fl EXCEPT ![on[p]] = "list"]
        /\ open' = open \cup {on[p]}
        /\ lib' = [lib EXCEPT ![on[p]] = load]
        /\ UNCHANGED <<libVars, crashed>>
     \/ UNCHANGED <<ctxVars, libVars, crashed>>
  /\ Goto(p, "idle")
  /\ UNCHANGED <<on, waitVars, careless>>

\* The function list is read, or the library is closed again and New returns nil.
ReadFunctionList(p) ==
  /\ At(p, "open")
  /\ \/ /\ fl' = [fl EXCEPT ![on[p]] = "list"]
        /\ open' = open \cup {on[p]}
        /\ lib' = [lib EXCEPT ![on[p]] = load]
        /\ UNCHANGED <<libVars, crashed>>
     \/ Dlclose /\ UNCHANGED ctxVars
  /\ Goto(p, "idle")
  /\ UNCHANGED <<on, waitVars, careless>>

-----------------------------------------------------------------------------
(* Initialize, Finalize, and any other method that makes one call *)

Destroyed(c) == fl[c] = "nil" \/ \E q \in Procs : on[q] = c /\ pc[q] \in DestroyPCs

Call(p, c, f) ==
  /\ At(p, "idle")
  /\ fl[c] # "none"
  /\ careless' = (careless \/ Destroyed(c))
  /\ crashed' = ~Callable(c)
  /\ on' = [on EXCEPT ![p] = c]
  /\ Goto(p, f)
  /\ UNCHANGED <<ctxVars, libVars, waitVars>>

\* C_Initialize and C_Finalize take effect, or the function fails or is another one.
Return(p) ==
  /\ ~crashed
  /\ pc[p] \in Functions
  /\ \/ pc[p] = "C_Initialize" /\ ~initialized /\ initialized' = TRUE
     \/ pc[p] = "C_Finalize" /\ initialized /\ initialized' = FALSE
     \/ UNCHANGED initialized
  /\ Goto(p, "idle")
  /\ UNCHANGED <<ctxVars, refs, load, on, waitVars, crashed, careless>>

-----------------------------------------------------------------------------
(* Destroy *)

InUse(p, c) ==
  \/ \E q \in Procs \ {p} : on[q] = c /\ pc[q] # "idle"
  \/ \E w \in Waits \ seen : waitOn[w] = c /\ wpc[w] # "unused"

DestroyCall(p, c) ==
  /\ At(p, "idle")
  /\ fl[c] # "none"
  /\ careless' = (careless \/ InUse(p, c))
  /\ on' = [on EXCEPT ![p] = c]
  /\ IF fl[c] = "list" THEN Goto(p, "close") ELSE UNCHANGED pc
  /\ UNCHANGED <<ctxVars, libVars, waitVars, crashed>>

\* c.fl is read a second time, and then its handle.
Close(p) ==
  /\ At(p, "close")
  /\ crashed' = (fl[on[p]] = "nil")
  /\ Goto(p, IF on[p] \in open THEN "dlclose" ELSE "clear")
  /\ UNCHANGED <<ctxVars, libVars, on, waitVars, careless>>

DlcloseHandle(p) ==
  /\ At(p, "dlclose")
  /\ \/ on[p] \in open /\ Dlclose
     \/ (on[p] \notin open \/ refs = 0) /\ UNCHANGED <<libVars, crashed>>
  /\ Goto(p, "forget")
  /\ UNCHANGED <<ctxVars, on, waitVars, careless>>

ForgetHandle(p) ==
  /\ At(p, "forget")
  /\ open' = open \ {on[p]}
  /\ Goto(p, "clear")
  /\ UNCHANGED <<fl, lib, libVars, on, waitVars, crashed, careless>>

Clear(p) ==
  /\ At(p, "clear")
  /\ fl' = [fl EXCEPT ![on[p]] = "nil"]
  /\ Goto(p, "idle")
  /\ UNCHANGED <<open, lib, libVars, on, waitVars, crashed, careless>>

-----------------------------------------------------------------------------
(* WaitForSlotEvent: the method, its goroutine, and a receiver *)

MutWaitForSlotEvent(p, c, w) == \* the method, not its goroutine, closes the channel
  /\ At(p, "idle")
  /\ fl[c] # "none"
  /\ WaitAt(w, "unused")
  /\ careless' = (careless \/ Destroyed(c))
  /\ waitOn' = [waitOn EXCEPT ![w] = c]
  /\ closed' = closed \cup {w}
  /\ WaitGoto(w, "start")
  /\ UNCHANGED <<ctxVars, libVars, pc, on, answer, buffer, got, seen, crashed>>

WaitForSlotEvent(p, c, w) ==
  /\ At(p, "idle")
  /\ fl[c] # "none"
  /\ WaitAt(w, "unused")
  /\ careless' = (careless \/ Destroyed(c))
  /\ waitOn' = [waitOn EXCEPT ![w] = c]
  /\ WaitGoto(w, "start")
  /\ UNCHANGED <<ctxVars, libVars, pc, on, answer, chanVars, crashed>>

\* Only now does the goroutine read c.fl.
WaitStart(w) ==
  /\ WaitAt(w, "start")
  /\ crashed' = ~Callable(waitOn[w])
  /\ WaitGoto(w, "wait")
  /\ UNCHANGED <<ctxVars, libVars, pc, on, waitOn, answer, chanVars, careless>>

\* An event of some slot ends the wait.
WaitAnswered(w) ==
  /\ WaitAt(w, "wait")
  /\ initialized
  /\ \E a \in OneSlot : answer' = [answer EXCEPT ![w] = a]
  /\ WaitGoto(w, "send")
  /\ UNCHANGED <<ctxVars, libVars, pc, on, waitOn, chanVars, crashed, careless>>

\* So does an error: CKR_NO_EVENT, or not, or no longer, initialized.
WaitFailed(w) ==
  /\ WaitAt(w, "wait")
  /\ WaitGoto(w, "send")
  /\ UNCHANGED <<ctxVars, libVars, pc, on, waitOn, answer, chanVars, crashed, careless>>

MutCap == 0 \* an unbuffered channel, whose receiver may have gone away
Cap == 1

MutWaitSend(w) == \* the error is ignored, and slotID sent as it was at first
  /\ WaitAt(w, "send")
  /\ Len(buffer[w]) < Cap
  /\ buffer' = [buffer EXCEPT ![w] = IF answer[w] = << >> THEN <<0>> ELSE answer[w]]
  /\ WaitGoto(w, "close")
  /\ UNCHANGED <<ctxVars, libVars, pc, on, waitOn, answer, closed, got, seen,
                 crashed, careless>>

WaitSend(w) ==
  /\ WaitAt(w, "send")
  /\ \/ answer[w] = << >> /\ UNCHANGED buffer
     \/ /\ answer[w] # << >>
        /\ Len(buffer[w]) < Cap
        /\ buffer' = [buffer EXCEPT ![w] = @ \o answer[w]]
  /\ WaitGoto(w, "close")
  /\ UNCHANGED <<ctxVars, libVars, pc, on, waitOn, answer, closed, got, seen,
                 crashed, careless>>

WaitClose(w) ==
  /\ WaitAt(w, "close")
  /\ closed' = closed \cup {w}
  /\ WaitGoto(w, "done")
  /\ UNCHANGED <<ctxVars, libVars, pc, on, waitOn, answer, buffer, got, seen,
                 crashed, careless>>

\* The client receives an event, or sees that there will be none.
Receive(w) ==
  /\ ~crashed
  /\ \/ /\ buffer[w] # << >>
        /\ got' = [got EXCEPT ![w] = buffer[w]]
        /\ buffer' = [buffer EXCEPT ![w] = << >>]
        /\ UNCHANGED seen
     \/ /\ buffer[w] = << >> /\ w \in closed \ seen
        /\ seen' = seen \cup {w}
        /\ UNCHANGED <<got, buffer>>
  /\ UNCHANGED <<ctxVars, libVars, pc, on, wpc, waitOn, answer, closed, crashed, careless>>

Next ==
  \/ \E p \in Procs :
       \/ ReadFunctionList(p) \/ Return(p)
       \/ Close(p) \/ DlcloseHandle(p) \/ ForgetHandle(p) \/ Clear(p)
       \/ \E c \in Ctxs :
            \/ NewCall(p, c) \/ DestroyCall(p, c)
            \/ \E f \in Functions : Call(p, c, f)
            \/ \E w \in Waits : WaitForSlotEvent(p, c, w)
  \/ \E w \in Waits :
       \/ WaitStart(w) \/ WaitAnswered(w) \/ WaitFailed(w)
       \/ WaitSend(w) \/ WaitClose(w) \/ Receive(w)

\* A goroutine that can run does, and C_WaitForSlotEvent answers once the library
\* is not initialized (any more).  Nobody has to receive.
Fairness ==
  \A w \in Waits :
    /\ WF_vars(WaitStart(w) \/ WaitSend(w) \/ WaitClose(w))
    /\ WF_vars(~initialized /\ WaitFailed(w))

Spec == Init /\ [][Next]_vars /\ Fairness

-----------------------------------------------------------------------------
(* Properties *)

\* A client is safe if it destroys a Ctx only when no method of it runs and every
\* channel it had from WaitForSlotEvent has been seen closed, and leaves the Ctx
\* alone from then on, but for Destroys one after the other: nothing runs in an
\* unloaded library and no nil pointer is followed, whatever is done to other
\* Ctxs of the library.  (Destroy, and the reference count of dlopen.)
SafeWhenCareful == ~careless => ~crashed

\* The library is loaded exactly as long as some Ctx is not destroyed, or some New
\* is under way; a New that fails leaves no reference.
Holders == {c \in open : ~\E p \in Procs : on[p] = c /\ pc[p] = "forget"}
Opening == {p \in Procs : pc[p] = "open"}
ReferencesAccounted ==
  ~careless => refs = Cardinality(Holders) + Cardinality(Opening)

\* Whoever receives until the channel is closed has had the event that
\* C_WaitForSlotEvent gave, and none if it failed.  (WaitForSlotEvent.)
ChannelAnswers == \A w \in seen : got[w] = answer[w]

\* After a Finalize no goroutine of WaitForSlotEvent is left behind, not even one
\* whose channel nobody receives from.
WaitersEnd ==
  \A w \in Waits :
    wpc[w] \notin {"unused", "done"} /\ ~initialized
      ~> wpc[w] = "done" \/ initialized \/ crashed
=============================================================================
