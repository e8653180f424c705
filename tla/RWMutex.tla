------------------------------ MODULE RWMutex ------------------------------
(***************************************************************************)
(* Go's sync.RWMutex as the signer package relies on it.  A Lock that has  *)
(* been announced but still waits for readers (pending) already keeps new  *)
(* readers out, so writers are not starved; an Unlock admits every reader  *)
(* that was kept out, so readers are not starved either.                   *)
(*                                                                         *)
(* A goroutine that called RLock owns the lock once it is in readers, one  *)
(* that called Lock once it is the writer; until then it is parked.        *)
(***************************************************************************)
CONSTANTS Goroutines, \* the goroutines that use the lock
          Nobody      \* not a goroutine

VARIABLES writer,  \* owner of the write lock, or Nobody
          pending, \* announced writer waiting for the readers to leave
          readers, \* owners of the read lock
          blocked  \* readers parked behind a writer

lockVars == <<writer, pending, readers, blocked>>

LockTypeOK ==
  /\ writer  \in Goroutines \cup {Nobody}
  /\ pending \in Goroutines \cup {Nobody}
  /\ readers \subseteq Goroutines
  /\ blocked \subseteq Goroutines

LockInit ==
  /\ writer = Nobody
  /\ pending = Nobody
  /\ readers = {}
  /\ blocked = {}

Holds(g) == g \in readers \/ writer = g

NoWriter == writer = Nobody /\ pending = Nobody

RLock(g) ==
  /\ \/ NoWriter  /\ readers' = readers \cup {g} /\ UNCHANGED blocked
     \/ ~NoWriter /\ blocked' = blocked \cup {g} /\ UNCHANGED readers
  /\ UNCHANGED <<writer, pending>>

\* The last reader to leave hands the lock to the announced writer.
RUnlock(g) ==
  /\ readers' = readers \ {g}
  /\ \/ /\ readers' = {} /\ pending # Nobody
        /\ writer' = pending
        /\ pending' = Nobody
     \/ /\ readers' # {} \/ pending = Nobody
        /\ UNCHANGED <<writer, pending>>
  /\ UNCHANGED blocked

\* Writers announce themselves one at a time.
Lock(g) ==
  /\ NoWriter
  /\ \/ readers = {} /\ writer' = g  /\ UNCHANGED pending
     \/ readers # {} /\ pending' = g /\ UNCHANGED writer
  /\ UNCHANGED <<readers, blocked>>

Unlock ==
  /\ writer' = Nobody
  /\ readers' = blocked
  /\ blocked' = {}
  /\ UNCHANGED pending
=============================================================================
