-------------------------------- MODULE Key --------------------------------
(***************************************************************************)
(* signer.Key: goroutines that create, use and destroy the Keys of one     *)
(* token.  A Key serialises its own calls with sessionMu.  Because a       *)
(* Logout logs out every session of the token, whoever needs the login     *)
(* holds the token's login lock for reading, and an always-authenticate    *)
(* Sign, which logs out and in again, holds it for writing.                *)
(*                                                                         *)
(* A goroutine is at pc[p], working on key[p]; result[p] is how its call   *)
(* will end, once that is settled.  Between two token calls or lock        *)
(* operations it can be interrupted by any other goroutine.                *)
(***************************************************************************)
EXTENDS FiniteSets

CONSTANTS Procs,      \* goroutines
          Keys,       \* the Keys of one token
          AlwaysAuth, \* those whose private key has CKA_ALWAYS_AUTHENTICATE
          WrongPin,   \* those configured with a PIN the token rejects
          Nobody, NoKey

ASSUME NobodyAssumption == Nobody \notin Procs
ASSUME NoKeyAssumption == NoKey \notin Keys
ASSUME KeyKindsAssumption == AlwaysAuth \subseteq Keys /\ WrongPin \subseteq Keys

VARIABLES pc, key, result,
          created,                           \* Keys that New has returned
          session,                           \* session[k]: k.session # nil
          sessionMu,                         \* owner of k.sessionMu
          writer, pending, readers, blocked, \* the token's login lock
          sessions, loginOf, op,             \* the token
          lostLogin, \* history: the last re-login failed, logging the token out
          unclosed   \* history: sessions whose CloseSession was refused

LoginLock == INSTANCE RWMutex WITH Goroutines <- Procs
HSM == INSTANCE Token

keyVars == <<created, session, sessionMu>>
ghostVars == <<lostLogin, unclosed>>
lockVars == <<writer, pending, readers, blocked>>
tokenVars == <<sessions, loginOf, op>>
vars == <<pc, key, result, keyVars, lockVars, tokenVars, ghostVars>>

SetupPCs == {"setup", "open", "login", "publicKey", "privateKey", "closeFailed",
             "setupReturn"}
SignPCs == {"sign", "loginLock", "logout", "relogin", "signInit", "signSize",
            "signData", "unlockLogin"}
DestroyPCs == {"destroy", "close"}
PCs == {"idle", "unlockSession"} \cup SetupPCs \cup SignPCs \cup DestroyPCs
Results == {"pending", "ok", "error", "dead", "done"}

\* Every variable has its type; in particular what New returns without an error is
\* never nil, and a goroutine has a Key exactly while it is in a call.  (New.)
TypeOK ==
  /\ pc \in [Procs -> PCs]
  /\ key \in [Procs -> Keys \cup {NoKey}]
  /\ \A p \in Procs : key[p] = NoKey <=> pc[p] = "idle"
  /\ result \in [Procs -> Results]
  /\ created \subseteq Keys
  /\ session \in [Keys -> BOOLEAN]
  /\ sessionMu \in [Keys -> Procs \cup {Nobody}]
  /\ LoginLock!LockTypeOK
  /\ HSM!TokenTypeOK
  /\ lostLogin \in BOOLEAN
  /\ unclosed \subseteq Keys

Init ==
  /\ pc = [p \in Procs |-> "idle"]
  /\ key = [p \in Procs |-> NoKey]
  /\ result = [p \in Procs |-> "pending"]
  /\ created = {}
  /\ session = [k \in Keys |-> FALSE]
  /\ sessionMu = [k \in Keys |-> Nobody]
  /\ LoginLock!LockInit
  /\ HSM!TokenInit
  /\ lostLogin = FALSE
  /\ unclosed = {}

-----------------------------------------------------------------------------
(* Control flow of one goroutine *)

Goto(p, l) == pc' = [pc EXCEPT ![p] = l] /\ UNCHANGED <<key, result>>

GotoWith(p, l, r) ==
  /\ pc' = [pc EXCEPT ![p] = l]
  /\ result' = [result EXCEPT ![p] = r]
  /\ UNCHANGED key

Call(p, l, k) ==
  /\ pc[p] = "idle"
  /\ pc' = [pc EXCEPT ![p] = l]
  /\ key' = [key EXCEPT ![p] = k]
  /\ UNCHANGED <<result, keyVars, lockVars, tokenVars, ghostVars>>

Return(p) ==
  /\ pc' = [pc EXCEPT ![p] = "idle"]
  /\ key' = [key EXCEPT ![p] = NoKey]
  /\ result' = [result EXCEPT ![p] = "pending"]

\* The token refuses a call and stays as it is; the error goes to l.
Error(p, l) ==
  /\ GotoWith(p, l, "error")
  /\ UNCHANGED tokenVars

\* CloseSession, whose own error is dropped.
CloseIgnored(k) ==
  \/ HSM!CloseSession(k) /\ UNCHANGED unclosed
  \/ unclosed' = unclosed \cup {k} /\ UNCHANGED tokenVars

-----------------------------------------------------------------------------
(* New and setup *)

SetupCall(p, k) ==
  /\ k \notin created \cup sessions
  /\ \A q \in Procs : key[q] # k
  /\ Call(p, "setup", k)

SetupRLock(p) ==
  /\ pc[p] = "setup"
  /\ LoginLock!RLock(p)
  /\ Goto(p, "open")
  /\ UNCHANGED <<keyVars, tokenVars, ghostVars>>

OpenSession(p) ==
  /\ pc[p] = "open"
  /\ LoginLock!Holds(p)
  /\ \/ HSM!OpenSession(key[p]) /\ Goto(p, "login")
     \/ Error(p, "setupReturn")
  /\ UNCHANGED <<keyVars, lockVars, ghostVars>>

\* CKR_USER_ALREADY_LOGGED_IN counts as logged in, whatever the PIN.
SetupLogin(p) ==
  /\ pc[p] = "login"
  /\ \/ /\ HSM!Login(key[p])
        /\ Goto(p, "publicKey")
        /\ session' = [session EXCEPT ![key[p]] = TRUE]
        /\ lostLogin' = FALSE
     \/ /\ HSM!LoggedIn
        /\ Goto(p, "publicKey")
        /\ session' = [session EXCEPT ![key[p]] = TRUE]
        /\ UNCHANGED <<tokenVars, lostLogin>>
     \/ Error(p, "closeFailed") /\ UNCHANGED <<session, lostLogin>>
  /\ UNCHANGED <<created, sessionMu, lockVars, unclosed>>

GetPublicKeyID(p) ==
  /\ pc[p] = "publicKey"
  /\ \/ Goto(p, "privateKey") /\ UNCHANGED tokenVars
     \/ Error(p, "closeFailed")
  /\ UNCHANGED <<keyVars, lockVars, ghostVars>>

\* Private objects are visible only while the token is logged in.
GetPrivateKey(p) ==
  /\ pc[p] = "privateKey"
  /\ \/ HSM!LoggedIn /\ GotoWith(p, "setupReturn", "ok") /\ UNCHANGED tokenVars
     \/ Error(p, "closeFailed")
  /\ UNCHANGED <<keyVars, lockVars, ghostVars>>

MutCloseFailed(p) == \* the session is forgotten, not closed
  /\ pc[p] = "closeFailed"
  /\ session' = [session EXCEPT ![key[p]] = FALSE]
  /\ Goto(p, "setupReturn")
  /\ UNCHANGED <<created, sessionMu, lockVars, tokenVars, ghostVars>>

CloseFailed(p) ==
  /\ pc[p] = "closeFailed"
  /\ CloseIgnored(key[p])
  /\ session' = [session EXCEPT ![key[p]] = FALSE]
  /\ Goto(p, "setupReturn")
  /\ UNCHANGED <<created, sessionMu, lockVars, lostLogin>>

MutSetupReturn(p) == \* New hands out the Key whether or not setup failed
  /\ pc[p] = "setupReturn"
  /\ LoginLock!RUnlock(p)
  /\ created' = created \cup {key[p]}
  /\ Return(p)
  /\ UNCHANGED <<session, sessionMu, tokenVars, ghostVars>>

MutNilKey(p) == \* New loses setup's error and returns a nil Key as if all were well
  /\ pc[p] = "setupReturn"
  /\ LoginLock!RUnlock(p)
  /\ created' = created \cup {IF result[p] = "ok" THEN key[p] ELSE NoKey}
  /\ Return(p)
  /\ UNCHANGED <<session, sessionMu, tokenVars, ghostVars>>

\* The deferred RUnlock; New hands out the Key only if setup succeeded.
SetupReturn(p) ==
  /\ pc[p] = "setupReturn"
  /\ LoginLock!RUnlock(p)
  /\ created' = IF result[p] = "ok" THEN created \cup {key[p]} ELSE created
  /\ Return(p)
  /\ UNCHANGED <<session, sessionMu, tokenVars, ghostVars>>

-----------------------------------------------------------------------------
(* Sign *)

SignCall(p, k) == k \in created /\ Call(p, "sign", k)

LockSession(p) ==
  /\ sessionMu[key[p]] = Nobody
  /\ sessionMu' = [sessionMu EXCEPT ![key[p]] = p]
  /\ UNCHANGED <<created, session, lockVars, tokenVars, ghostVars>>

MutSignLock(p) == \* Sign does not take sessionMu
  /\ pc[p] = "sign"
  /\ \/ session[key[p]] /\ Goto(p, "loginLock")
     \/ ~session[key[p]] /\ GotoWith(p, "unlockSession", "dead")
  /\ UNCHANGED <<keyVars, lockVars, tokenVars, ghostVars>>

SignLock(p) ==
  /\ pc[p] = "sign"
  /\ LockSession(p)
  /\ \/ session[key[p]] /\ Goto(p, "loginLock")
     \/ ~session[key[p]] /\ GotoWith(p, "unlockSession", "dead")

MutLockLogin(p) == \* the re-login takes the lock for reading
  /\ pc[p] = "loginLock"
  /\ key[p] \in AlwaysAuth
  /\ LoginLock!RLock(p)
  /\ Goto(p, "logout")
  /\ UNCHANGED <<keyVars, tokenVars, ghostVars>>

LockLogin(p) ==
  /\ pc[p] = "loginLock"
  /\ key[p] \in AlwaysAuth
  /\ LoginLock!Lock(p)
  /\ Goto(p, "logout")
  /\ UNCHANGED <<keyVars, tokenVars, ghostVars>>

RLockLogin(p) ==
  /\ pc[p] = "loginLock"
  /\ key[p] \notin AlwaysAuth
  /\ LoginLock!RLock(p)
  /\ Goto(p, "signInit")
  /\ UNCHANGED <<keyVars, tokenVars, ghostVars>>

\* Best effort: a Logout that fails is ignored.
Logout(p) ==
  /\ pc[p] = "logout"
  /\ LoginLock!Holds(p)
  /\ HSM!Logout \/ UNCHANGED tokenVars
  /\ Goto(p, "relogin")
  /\ UNCHANGED <<keyVars, lockVars, ghostVars>>

MutRelogin(p) == \* a failed re-login returns without Unlock
  /\ pc[p] = "relogin"
  /\ \/ HSM!Login(key[p]) /\ Goto(p, "signInit") /\ lostLogin' = FALSE
     \/ Error(p, "unlockSession") /\ lostLogin' = (lostLogin \/ ~HSM!LoggedIn)
  /\ UNCHANGED <<keyVars, lockVars, unclosed>>

\* Here CKR_USER_ALREADY_LOGGED_IN is an error like any other.
Relogin(p) ==
  /\ pc[p] = "relogin"
  /\ \/ HSM!Login(key[p]) /\ Goto(p, "signInit") /\ lostLogin' = FALSE
     \/ Error(p, "unlockLogin") /\ lostLogin' = (lostLogin \/ ~HSM!LoggedIn)
  /\ UNCHANGED <<keyVars, lockVars, unclosed>>

\* signingParams may reject the options before the token is asked.
SignInit(p) ==
  /\ pc[p] = "signInit"
  /\ LoginLock!Holds(p)
  /\ \/ HSM!SignInit(key[p], p) /\ Goto(p, "signSize")
     \/ Error(p, "unlockLogin")
  /\ UNCHANGED <<keyVars, lockVars, ghostVars>>

\* First pass of Ctx.Sign: the length of the signature.
SignSize(p) ==
  /\ pc[p] = "signSize"
  /\ \/ Goto(p, "signData") /\ UNCHANGED tokenVars
     \/ GotoWith(p, "unlockLogin", "error") /\ HSM!FailOperation(key[p])
  /\ UNCHANGED <<keyVars, lockVars, ghostVars>>

\* Second pass: the signature, which an ECDSA key converts or rejects.
SignData(p) ==
  /\ pc[p] = "signData"
  /\ \/ GotoWith(p, "unlockLogin", "ok") /\ HSM!EndOperation(key[p])
     \/ GotoWith(p, "unlockLogin", "error") /\ HSM!FailOperation(key[p])
  /\ UNCHANGED <<keyVars, lockVars, ghostVars>>

UnlockLogin(p) ==
  /\ pc[p] = "unlockLogin"
  /\ \/ key[p] \in AlwaysAuth /\ LoginLock!Unlock
     \/ key[p] \notin AlwaysAuth /\ LoginLock!RUnlock(p)
  /\ Goto(p, "unlockSession")
  /\ UNCHANGED <<keyVars, tokenVars, ghostVars>>

UnlockSession(p) ==
  /\ pc[p] = "unlockSession"
  /\ sessionMu' = [sessionMu EXCEPT ![key[p]] = Nobody]
  /\ Return(p)
  /\ UNCHANGED <<created, session, lockVars, tokenVars, ghostVars>>

-----------------------------------------------------------------------------
(* Destroy *)

DestroyCall(p, k) == k \in created /\ Call(p, "destroy", k)

MutDestroyLock(p) == \* Destroy does not take sessionMu
  /\ pc[p] = "destroy"
  /\ \/ session[key[p]] /\ Goto(p, "close")
     \/ ~session[key[p]] /\ GotoWith(p, "unlockSession", "done")
  /\ UNCHANGED <<keyVars, lockVars, tokenVars, ghostVars>>

DestroyLock(p) ==
  /\ pc[p] = "destroy"
  /\ LockSession(p)
  /\ \/ session[key[p]] /\ Goto(p, "close")
     \/ ~session[key[p]] /\ GotoWith(p, "unlockSession", "done")

Close(p) ==
  /\ pc[p] = "close"
  /\ CloseIgnored(key[p])
  /\ session' = [session EXCEPT ![key[p]] = FALSE]
  /\ GotoWith(p, "unlockSession", "done")
  /\ UNCHANGED <<created, sessionMu, lockVars, lostLogin>>

-----------------------------------------------------------------------------
Begin(p, k) == SetupCall(p, k) \/ SignCall(p, k) \/ DestroyCall(p, k)

\* Steps that wait for nothing but a lock whose holder is about to leave.
Step(p) ==
  \/ SetupRLock(p) \/ OpenSession(p) \/ SetupLogin(p) \/ GetPublicKeyID(p)
  \/ GetPrivateKey(p) \/ CloseFailed(p) \/ SetupReturn(p)
  \/ RLockLogin(p) \/ Logout(p) \/ Relogin(p) \/ SignInit(p) \/ SignSize(p)
  \/ SignData(p) \/ UnlockLogin(p) \/ UnlockSession(p) \/ Close(p)

\* Acquisitions other goroutines can overtake.
Acquire(p) == SignLock(p) \/ LockLogin(p) \/ DestroyLock(p)

Next ==
  \E p \in Procs :
    \/ \E k \in Keys : Begin(p, k)
    \/ Step(p)
    \/ Acquire(p)

SafeSpec == Init /\ [][Next]_vars

\* Goroutines are scheduled and token calls return; sync.Mutex, in its
\* starvation mode, serves a waiter that is overtaken again and again.
Fairness == \A p \in Procs : WF_vars(Step(p)) /\ SF_vars(Acquire(p))

Spec == SafeSpec /\ Fairness

-----------------------------------------------------------------------------
(* Properties *)

\* p needs the token to stay logged in.
UsesLogin(p) ==
  /\ LoginLock!Holds(p)
  /\ pc[p] \in {"publicKey", "privateKey", "signInit", "signSize", "signData"}

\* Whoever needs the login finds it in force: a setup from its own Login on,
\* an always-authenticate Sign with the very login it has just made, any other
\* Sign unless a re-login, possibly of another Key, has failed before.  (setup,
\* Sign: login.RLock and login.Lock around the calls.)
LoginHeld ==
  \A p \in Procs : UsesLogin(p) =>
    IF pc[p] \in SetupPCs THEN HSM!LoggedIn
    ELSE IF key[p] \in AlwaysAuth THEN loginOf = key[p]
    ELSE HSM!LoggedIn \/ lostLogin

\* No token call is made on a session that a concurrent Destroy, or the clean-up
\* of a failed setup, has closed.  (sessionMu in Sign and Destroy; setup.)
NoUseAfterClose ==
  \A p \in Procs :
    pc[p] \in {"login", "publicKey", "privateKey", "closeFailed", "logout", "relogin",
               "signInit", "signSize", "signData", "close"}
      => key[p] \in sessions

\* A goroutine between SignInit and the end of Sign owns the operation active
\* on its session: what it signs is its own data under its own mechanism, and
\* no Logout of another Key has ended the operation.  (sessionMu, login.)
OwnOperation ==
  \A p \in Procs : pc[p] \in {"signSize", "signData"} => op[key[p]] = p

\* A session open on the token belongs to a Key that will close it, to a setup
\* still running, or is one the token refused to close.  (setup and openSession
\* on their error paths.)
NoSessionLeak ==
  \A k \in sessions :
    \/ session[k]
    \/ k \in unclosed
    \/ \E p \in Procs : key[p] = k /\ pc[p] \in {"login", "closeFailed"}

\* The login disappears, by a Logout or because the last session was closed,
\* only while no other goroutine needs it.  (login.Lock around the re-login.)
LogoutExclusive ==
  [][HSM!LoggedIn /\ ~HSM!LoggedIn' => \A p \in Procs : ~UsesLogin(p)]_vars

\* p waits for sessionMu, for the login lock or for the writers before it.
Waiting(p) ==
  \/ pc[p] \in {"sign", "destroy"} /\ sessionMu[key[p]] # Nobody
  \/ pc[p] \in {"open", "signInit", "logout"} /\ ~LoginLock!Holds(p)
  \/ pc[p] = "loginLock" /\ key[p] \in AlwaysAuth /\ ~LoginLock!NoWriter

\* As long as calls are under way, they do not all wait, and one that does not
\* can take a step: sessionMu is taken before the login lock, and every path
\* releases both.
SomebodyRuns ==
  (\E p \in Procs : pc[p] # "idle") => \E p \in Procs : pc[p] # "idle" /\ ~Waiting(p)
NoDeadlock ==
  /\ SomebodyRuns
  /\ \A p \in Procs :
       pc[p] # "idle" /\ ~Waiting(p) => ENABLED (Step(p) \/ Acquire(p))

\* Every New, Sign and Destroy returns: the two lock levels, sessionMu then the
\* login lock, neither deadlock nor starve anyone.
CallsReturn == \A p \in Procs : pc[p] # "idle" ~> pc[p] = "idle"

\* "Keys on one token, always-authenticate or not, must not sign while another
\* key's re-login has the token logged out" (signer/concurrency_test.go:62).
SignsOnlyWhenLoggedIn ==
  \A p \in Procs : UsesLogin(p) => HSM!LoggedIn

-----------------------------------------------------------------------------
(* Key implements SignerContract *)

statusBar ==
  [k \in Keys |-> IF k \notin created THEN "absent"
                  ELSE IF session[k] THEN "alive" ELSE "dead"]

\* New is not a call on a signer.  UnlockSession returns from Sign and from
\* Destroy; only a Destroy ends with done.
OnKey(p) == pc[p] \notin SetupPCs \cup {"idle"}
doingBar ==
  [p \in Procs |-> IF ~OnKey(p) THEN "none"
                   ELSE IF pc[p] \in DestroyPCs \/ result[p] = "done" THEN "destroy"
                   ELSE "sign"]
onBar == [p \in Procs |-> IF OnKey(p) THEN key[p] ELSE NoKey]
resBar == [p \in Procs |-> IF OnKey(p) THEN result[p] ELSE "pending"]

Contract == INSTANCE SignerContract
              WITH Callers <- Procs, Signers <- Keys, NoSigner <- NoKey,
                   status <- statusBar, doing <- doingBar, on <- onBar, res <- resBar

\* Sign and Destroy are atomic to their callers, a Destroy that returned keeps
\* every later Sign from succeeding, and every call returns.
ImplementsContract == Contract!Spec
=============================================================================
