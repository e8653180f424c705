------------------------------- MODULE Token -------------------------------
(***************************************************************************)
(* A PKCS#11 token as the signer package uses it, through the ctx          *)
(* interface.  The login belongs to the application, not to a session: a   *)
(* Logout on one session logs every session out.  Every call may also fail *)
(* for reasons of the device's own; those failures are disjuncts here, so  *)
(* that a client has to cope with each of them.                            *)
(*                                                                         *)
(* One Key opens one session, so a session is named by its Key.            *)
(***************************************************************************)
CONSTANTS Keys,     \* the Key objects, which also name their sessions
          Procs,    \* goroutines, naming who started a sign operation
          WrongPin, \* the Keys that were given a PIN the token rejects
          NoKey, Nobody

VARIABLES sessions, \* sessions open on the token
          loginOf,  \* session whose Login is in force, or NoKey
          op        \* op[s]: goroutine whose SignInit is active on s

tokenVars == <<sessions, loginOf, op>>

TokenTypeOK ==
  /\ sessions \subseteq Keys
  /\ loginOf \in Keys \cup {NoKey}
  /\ op \in [Keys -> Procs \cup {Nobody}]

TokenInit ==
  /\ sessions = {}
  /\ loginOf = NoKey
  /\ op = [s \in Keys |-> Nobody]

LoggedIn == loginOf # NoKey

OpenSession(s) ==
  /\ sessions' = sessions \cup {s}
  /\ UNCHANGED <<loginOf, op>>

\* The token may end the login when the application's last session closes.
CloseSession(s) ==
  /\ sessions' = sessions \ {s}
  /\ op' = [op EXCEPT ![s] = Nobody]
  /\ \/ UNCHANGED loginOf
     \/ sessions' = {} /\ loginOf' = NoKey

\* CKR_OK: only from the logged-out state and only with the right PIN.  With a
\* login in force the token answers CKR_USER_ALREADY_LOGGED_IN without
\* looking at the PIN.
Login(s) ==
  /\ s \in sessions
  /\ ~LoggedIn
  /\ s \notin WrongPin
  /\ loginOf' = s
  /\ UNCHANGED <<sessions, op>>

\* Operations in progress may or may not survive a Logout.
Logout ==
  /\ loginOf' = NoKey
  /\ UNCHANGED op \/ op' = [s \in Keys |-> Nobody]
  /\ UNCHANGED sessions

SignInit(s, p) ==
  /\ s \in sessions
  /\ LoggedIn
  /\ op[s] = Nobody
  /\ op' = [op EXCEPT ![s] = p]
  /\ UNCHANGED <<sessions, loginOf>>

EndOperation(s) ==
  /\ op' = [op EXCEPT ![s] = Nobody]
  /\ UNCHANGED <<sessions, loginOf>>

\* A failed C_Sign normally ends the operation; some failures leave it active.
FailOperation(s) == EndOperation(s) \/ UNCHANGED tokenVars
=============================================================================
