-------------------------------- MODULE Pool -------------------------------
(***************************************************************************)
(* signer.Pool: goroutines that share N Keys through a buffered channel.   *)
(* Sign borrows a Key, Destroy collects and destroys all of them and only  *)
(* then puts them back, so that a later Sign fails instead of waiting.     *)
(*                                                                         *)
(* A Key is used by whoever received it from the channel, one goroutine at *)
(* a time; of its own state only whether it is destroyed matters here, and *)
(* its Sign and Destroy are the atomic ones SignerContract describes.      *)
(***************************************************************************)
EXTENDS Naturals, SequencesExt

CONSTANTS Procs, \* goroutines
          N      \* size of the pool

ASSUME SizeAssumption == N \in Nat \ {0}

Keys == 1..N
NoKey == 0

VARIABLES phase,  \* NewPool: "creating", "undoing", "failed" or "ready"
          built,  \* NewPool: the Keys created so far
          open,   \* open[k]: k has been created and not destroyed
          free,   \* buffer of the channel p.free
          recvq,  \* goroutines parked on a receive, first come first served
          once,   \* destroyOnce: "fresh", "running" or "done"
          taken,  \* Keys the running Destroy has collected
          pc, held, result

poolVars == <<phase, built, open, free, recvq, once, taken>>
vars == <<poolVars, pc, held, result>>

SignPCs == {"receive", "sign", "send"}
DestroyPCs == {"once", "collect", "destroyKey", "putBack"}
Results == {"pending", "ok", "error", "dead", "done"}

TypeOK ==
  /\ phase \in {"creating", "undoing", "failed", "ready"}
  /\ built \in Seq(Keys)
  /\ open \in [Keys -> BOOLEAN]
  /\ free \in Seq(Keys)
  /\ recvq \in Seq(Procs)
  /\ once \in {"fresh", "running", "done"}
  /\ taken \in Seq(Keys)
  /\ pc \in [Procs -> {"idle", "return"} \cup SignPCs \cup DestroyPCs]
  /\ held \in [Procs -> Keys \cup {NoKey}]
  /\ result \in [Procs -> Results]

Init ==
  /\ phase = "creating"
  /\ built = << >>
  /\ open = [k \in Keys |-> FALSE]
  /\ free = << >>
  /\ recvq = << >>
  /\ once = "fresh"
  /\ taken = << >>
  /\ pc = [p \in Procs |-> "idle"]
  /\ held = [p \in Procs |-> NoKey]
  /\ result = [p \in Procs |-> "pending"]

-----------------------------------------------------------------------------
(* NewPool *)

MutNewKey == \* one Key too many
  /\ phase = "creating"
  /\ Len(built) <= N
  /\ built' = Append(built, Len(built) + 1)
  /\ open' = [open EXCEPT ![Len(built) + 1] = TRUE]
  /\ UNCHANGED <<phase, free, recvq, once, taken, pc, held, result>>

NewKey ==
  /\ phase = "creating"
  /\ Len(built) < N
  /\ \/ /\ built' = Append(built, Len(built) + 1)
        /\ open' = [open EXCEPT ![Len(built) + 1] = TRUE]
        /\ UNCHANGED phase
     \/ phase' = "undoing" /\ UNCHANGED <<built, open>>
  /\ UNCHANGED <<free, recvq, once, taken, pc, held, result>>

MutUndo == \* NewPool returns the error and leaves the earlier Keys alone
  /\ phase = "undoing"
  /\ phase' = "failed"
  /\ UNCHANGED <<built, open, free, recvq, once, taken, pc, held, result>>

\* A failed New: the Keys created before it are destroyed in turn.
Undo ==
  /\ phase = "undoing"
  /\ \/ /\ built # << >>
        /\ open' = [open EXCEPT ![Head(built)] = FALSE]
        /\ built' = Tail(built)
        /\ UNCHANGED phase
     \/ built = << >> /\ phase' = "failed" /\ UNCHANGED <<built, open>>
  /\ UNCHANGED <<free, recvq, once, taken, pc, held, result>>

\* newPool fills the channel before anyone else can see it.
NewPool ==
  /\ phase = "creating"
  /\ Len(built) = N
  /\ phase' = "ready"
  /\ free' = built
  /\ UNCHANGED <<built, open, recvq, once, taken, pc, held, result>>

-----------------------------------------------------------------------------
(* The channel.  A receive from an empty channel parks the goroutine; a send *)
(* hands its Key to the first parked goroutine or else buffers it.           *)

MutCap == N - 1 \* the channel is one short

Cap == N

Goto(p, l) == pc' = [pc EXCEPT ![p] = l]

\* What a goroutine does with the Key it receives.
Received(l) == IF l = "receive" THEN "sign" ELSE "destroyKey"

Receive(p) ==
  \/ /\ free # << >>
     /\ held' = [held EXCEPT ![p] = Head(free)]
     /\ free' = Tail(free)
     /\ pc' = [pc EXCEPT ![p] = Received(pc[p])]
     /\ UNCHANGED recvq
  \/ /\ free = << >>
     /\ ~Contains(recvq, p)
     /\ recvq' = Append(recvq, p)
     /\ UNCHANGED <<held, free, pc>>

CanSend == recvq # << >> \/ Len(free) < Cap

\* p sends k and continues at l, holding nothing.
Send(p, k, l) ==
  /\ CanSend
  /\ \/ /\ recvq # << >>
        /\ LET r == Head(recvq)
           IN  /\ held' = [held EXCEPT ![p] = NoKey, ![r] = k]
               /\ pc' = [pc EXCEPT ![p] = l, ![r] = Received(pc[r])]
        /\ recvq' = Tail(recvq)
        /\ UNCHANGED free
     \/ /\ recvq = << >>
        /\ held' = [held EXCEPT ![p] = NoKey]
        /\ Goto(p, l)
        /\ free' = Append(free, k)
        /\ UNCHANGED recvq

-----------------------------------------------------------------------------
(* Sign *)

SignCall(p) ==
  /\ phase = "ready"
  /\ pc[p] = "idle"
  /\ Goto(p, "receive")
  /\ UNCHANGED <<poolVars, held, result>>

SignReceive(p) ==
  /\ pc[p] = "receive"
  /\ Receive(p)
  /\ UNCHANGED <<phase, built, open, once, taken, result>>

\* Key.Sign: the outcome, whatever it is, is returned to the caller.
SignKey(p) ==
  /\ pc[p] = "sign"
  /\ \/ open[held[p]]  /\ result' = [result EXCEPT ![p] = "ok"]
     \/ open[held[p]]  /\ result' = [result EXCEPT ![p] = "error"]
     \/ ~open[held[p]] /\ result' = [result EXCEPT ![p] = "dead"]
  /\ Goto(p, "send")
  /\ UNCHANGED <<poolVars, held>>

MutSignSend(p) == \* the Key is put back only after a Sign without an error
  /\ pc[p] = "send"
  /\ \/ result[p] = "ok" /\ Send(p, held[p], "return")
     \/ /\ result[p] # "ok"
        /\ Goto(p, "return")
        /\ held' = [held EXCEPT ![p] = NoKey]
        /\ UNCHANGED <<free, recvq>>
  /\ UNCHANGED <<phase, built, open, once, taken, result>>

\* The deferred send.
SignSend(p) ==
  /\ pc[p] = "send"
  /\ Send(p, held[p], "return")
  /\ UNCHANGED <<phase, built, open, once, taken, result>>

-----------------------------------------------------------------------------
(* Destroy *)

DestroyCall(p) ==
  /\ phase = "ready"
  /\ pc[p] = "idle"
  /\ Goto(p, "once")
  /\ UNCHANGED <<poolVars, held, result>>

MutOnceDo(p) == \* every Destroy collects the Keys
  /\ pc[p] = "once"
  /\ Goto(p, "collect")
  /\ UNCHANGED <<poolVars, held, result>>

\* destroyOnce.Do: the first call runs the function, the others wait for it.
OnceDo(p) ==
  /\ pc[p] = "once"
  /\ \/ once = "fresh" /\ once' = "running" /\ Goto(p, "collect") /\ UNCHANGED result
     \/ /\ once = "done"
        /\ Goto(p, "return")
        /\ result' = [result EXCEPT ![p] = "done"]
        /\ UNCHANGED once
  /\ UNCHANGED <<phase, built, open, free, recvq, taken, held>>

Collect(p) ==
  /\ pc[p] = "collect"
  /\ Receive(p)
  /\ UNCHANGED <<phase, built, open, once, taken, result>>

MutDestroyKey(p) == \* each Key is put back as soon as it is destroyed
  /\ pc[p] = "destroyKey"
  /\ open' = [open EXCEPT ![held[p]] = FALSE]
  /\ taken' = Append(taken, held[p])
  /\ Send(p, held[p], IF Len(taken') = N THEN "return" ELSE "collect")
  /\ once' = IF Len(taken') = N THEN "done" ELSE once
  /\ result' = IF Len(taken') = N THEN [result EXCEPT ![p] = "done"] ELSE result
  /\ UNCHANGED <<phase, built>>

DestroyKey(p) ==
  /\ pc[p] = "destroyKey"
  /\ open' = [open EXCEPT ![held[p]] = FALSE]
  /\ taken' = Append(taken, held[p])
  /\ held' = [held EXCEPT ![p] = NoKey]
  /\ \/ Len(taken') < Cap /\ Goto(p, "collect") /\ UNCHANGED result
     \/ /\ Len(taken') = Cap
        /\ Goto(p, "putBack")
        /\ result' = [result EXCEPT ![p] = "done"]
  /\ UNCHANGED <<phase, built, free, recvq, once>>

MutPutBack(p) == \* the Keys stay with the Destroy
  /\ pc[p] = "putBack"
  /\ once' = "done"
  /\ Goto(p, "return")
  /\ UNCHANGED <<phase, built, open, free, recvq, taken, held, result>>

PutBack(p) ==
  /\ pc[p] = "putBack"
  /\ \/ /\ taken # << >>
        /\ Send(p, Head(taken), "putBack")
        /\ taken' = Tail(taken)
        /\ UNCHANGED once
     \/ /\ taken = << >>
        /\ once' = "done"
        /\ Goto(p, "return")
        /\ UNCHANGED <<free, recvq, taken, held>>
  /\ UNCHANGED <<phase, built, open, result>>

Return(p) ==
  /\ pc[p] = "return"
  /\ Goto(p, "idle")
  /\ result' = [result EXCEPT ![p] = "pending"]
  /\ UNCHANGED <<poolVars, held>>

-----------------------------------------------------------------------------
Create == NewKey \/ Undo \/ NewPool

Step(p) ==
  \/ SignReceive(p) \/ SignKey(p) \/ SignSend(p) \/ OnceDo(p) \/ Collect(p)
  \/ DestroyKey(p) \/ PutBack(p) \/ Return(p)

Next ==
  \/ Create
  \/ \E p \in Procs : SignCall(p) \/ DestroyCall(p) \/ Step(p)

SafeSpec == Init /\ [][Next]_vars

\* Goroutines are scheduled, and a Key's Sign and Destroy return.  The channel's
\* queue is first come, first served, so weak fairness is enough.
Fairness == WF_vars(Create) /\ \A p \in Procs : WF_vars(Step(p))

Spec == SafeSpec /\ Fairness

-----------------------------------------------------------------------------
(* Properties *)

\* Every Key of the pool is in exactly one place: idle in the channel, with one
\* goroutine, or with the Destroy that collected it.  (The channel of Pool,
\* the deferred send of Sign, the put-back of Destroy.)
KeyConservation ==
  phase = "ready" =>
    \A k \in Keys :
      LET inFree == {i \in DOMAIN free : free[i] = k}
          inTaken == {i \in DOMAIN taken : taken[i] = k}
          holders == {p \in Procs : held[p] = k}
      IN  Cardinality(inFree) + Cardinality(inTaken) + Cardinality(holders) = 1

\* A send to the channel never blocks, so a Sign that has its signature and a
\* Destroy that has destroyed everything return without waiting for anyone.
SendNeverBlocks ==
  \A p \in Procs :
    pc[p] = "send" \/ (pc[p] = "putBack" /\ taken # << >>) => CanSend

\* A NewPool that fails leaves no Key behind with an open session.
FailureLeavesNoKey ==
  phase = "failed" => \A k \in Keys : ~open[k]

\* Every Sign and Destroy returns, also those that arrive during or after a
\* Destroy, and several Destroys at once do not wait for each other's Keys.
CallsReturn == \A p \in Procs : pc[p] # "idle" ~> pc[p] = "idle"

-----------------------------------------------------------------------------
(* Pool implements SignerContract, as a single signer *)

statusBar ==
  [s \in {"pool"} |->
    IF phase # "ready" THEN "absent"
    ELSE IF \E k \in Keys : open[k] THEN "alive" ELSE "dead"]

doingBar ==
  [p \in Procs |-> IF pc[p] = "idle" THEN "none"
                   ELSE IF pc[p] \in DestroyPCs \/ result[p] = "done" THEN "destroy"
                   ELSE "sign"]
onBar == [p \in Procs |-> IF pc[p] = "idle" THEN "none" ELSE "pool"]

Contract == INSTANCE SignerContract
              WITH Callers <- Procs, Signers <- {"pool"}, NoSigner <- "none",
                   status <- statusBar, doing <- doingBar, on <- onBar, res <- result

\* A pool is one signer to its callers: a Sign reports it destroyed only when
\* all its Keys are, and once a Destroy has returned no Sign succeeds.
ImplementsContract == Contract!Spec
=============================================================================
