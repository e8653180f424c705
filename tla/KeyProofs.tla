----------------------------- MODULE KeyProofs -----------------------------
(***************************************************************************)
(* The safety of signer.Key for any number of goroutines and Keys.         *)
(*                                                                         *)
(* What a goroutine may do at pc[p] depends on the locks it holds there,   *)
(* so the inductive invariant first ties pc to the locks (LoginLockInv,    *)
(* SessionMuInv, SetupInv), then the locks to the session and the login    *)
(* they protect (SessionInv, LoginInv).                                    *)
(***************************************************************************)
EXTENDS Key, TLAPS

\* p is between RLock and RUnlock of the login lock, parked or not ...
Reading(p) ==
  \/ pc[p] \in SetupPCs \ {"setup"}
  \/ pc[p] \in {"signInit", "signSize", "signData", "unlockLogin"} /\ key[p] \notin AlwaysAuth

\* ... or between Lock and Unlock.
Writing(p) ==
  /\ pc[p] \in {"logout", "relogin", "signInit", "signSize", "signData", "unlockLogin"}
  /\ key[p] \in AlwaysAuth

LoginLockInv ==
  /\ \A p \in Procs : p \in readers \cup blocked <=> Reading(p)
  /\ \A p \in Procs : Writing(p) <=> writer = p \/ pending = p
  /\ readers \cap blocked = {}
  /\ \A p \in blocked : pc[p] \in {"open", "signInit"}
  /\ \A p \in Procs : pending = p => pc[p] = "logout"
  /\ \A p \in Procs : pc[p] \in {"logout", "relogin"} => key[p] \in AlwaysAuth
  /\ writer # Nobody => readers = {} /\ pending = Nobody
  /\ pending # Nobody => readers # {}
  /\ blocked # {} => writer # Nobody \/ pending # Nobody

\* pcs at which p owns sessionMu of its Key.
Critical == (SignPCs \ {"sign"}) \cup {"close", "unlockSession"}

SessionMuInv ==
  \A p \in Procs : \A k \in Keys :
    sessionMu[k] = p <=> key[p] = k /\ pc[p] \in Critical

\* A Key under construction belongs to the goroutine that runs New.
SetupInv ==
  /\ \A p \in Procs : pc[p] \in SetupPCs =>
       key[p] \notin created /\ \A q \in Procs \ {p} : key[q] # key[p]
  /\ \A p \in Procs : pc[p] \notin SetupPCs \cup {"idle"} => key[p] \in created

SessionInv ==
  /\ \A k \in Keys : session[k] => k \in sessions
  /\ \A p \in Procs :
       pc[p] \in {"publicKey", "privateKey", "loginLock", "logout", "relogin",
                  "signInit", "signSize", "signData", "unlockLogin", "close"}
         => session[key[p]]
  /\ \A p \in Procs : pc[p] \in {"login", "closeFailed"} => key[p] \in sessions
  /\ NoSessionLeak

\* The token is logged out under a live Key only during a re-login or after one
\* that failed.
LoginInv ==
  /\ LoginHeld
  /\ \A k \in Keys : session[k] /\ ~HSM!LoggedIn =>
       lostLogin \/ \E p \in Procs : pc[p] = "relogin"

\* result says how the call ends once that is settled, and a New that succeeded
\* has its session.
ResultInv ==
  \A p \in Procs :
    /\ pc[p] \in (PCs \ {"closeFailed", "setupReturn", "unlockLogin", "unlockSession"})
         => result[p] = "pending"
    /\ pc[p] = "closeFailed" => result[p] = "error"
    /\ pc[p] = "setupReturn" => result[p] = "error" \/ (result[p] = "ok" /\ session[key[p]])
    /\ pc[p] = "unlockLogin" => result[p] \in {"ok", "error"}
    /\ pc[p] = "unlockSession" => result[p] # "pending"

IInv ==
  /\ TypeOK
  /\ LoginLockInv
  /\ SessionMuInv
  /\ SetupInv
  /\ SessionInv
  /\ LoginInv
  /\ OwnOperation
  /\ ResultInv

-----------------------------------------------------------------------------
(* Lemmas: one per conjunct of IInv, with one step per action *)

\* The initial state satisfies the invariant.
LEMMA InitIInv == Init => IInv
<1> SUFFICES ASSUME Init PROVE IInv
  OBVIOUS
<1> USE NobodyAssumption, NoKeyAssumption, KeyKindsAssumption DEF Init
<1>1. TypeOK
  BY DEF TypeOK, PCs, SetupPCs, SignPCs, DestroyPCs, Results, LoginLock!LockInit,
         LoginLock!LockTypeOK, HSM!TokenInit, HSM!TokenTypeOK
<1>2. LoginLockInv /\ SessionMuInv
  BY DEF LoginLockInv, Reading, Writing, SetupPCs, SessionMuInv, Critical, SignPCs,
         LoginLock!LockInit
<1>3. SetupInv /\ SessionInv
  BY DEF SetupInv, SetupPCs, SessionInv, NoSessionLeak, HSM!TokenInit
<1>4. LoginInv /\ OwnOperation /\ ResultInv
  BY DEF LoginInv, LoginHeld, UsesLogin, OwnOperation, ResultInv, HSM!LoggedIn, HSM!TokenInit
<1> QED
  BY <1>1, <1>2, <1>3, <1>4 DEF IInv

\* RLock makes a reader or parks one.
LEMMA RLockType ==
  ASSUME NEW p \in Procs, LoginLock!LockTypeOK, LoginLock!RLock(p)
  PROVE  LoginLock!LockTypeOK'
  BY DEF LoginLock!LockTypeOK, LoginLock!RLock

\* Every step keeps every variable within its type.
LEMMA TypeStep == TypeOK /\ [Next]_vars => TypeOK'
<1> SUFFICES ASSUME TypeOK, [Next]_vars PROVE TypeOK'
  OBVIOUS
<1> USE NobodyAssumption, NoKeyAssumption, KeyKindsAssumption DEF vars, HSM!tokenVars,
        keyVars, lockVars, tokenVars, ghostVars, TypeOK, PCs, SetupPCs, SignPCs,
        DestroyPCs, Results, LoginLock!LockTypeOK, HSM!TokenTypeOK
<1>1. ASSUME NEW p \in Procs, NEW k \in Keys, SetupCall(p, k) PROVE TypeOK'
  BY <1>1 DEF SetupCall, Call
<1>2. ASSUME NEW p \in Procs, NEW k \in Keys, SignCall(p, k) PROVE TypeOK'
  BY <1>2 DEF SignCall, Call
<1>3. ASSUME NEW p \in Procs, NEW k \in Keys, DestroyCall(p, k) PROVE TypeOK'
  BY <1>3 DEF DestroyCall, Call
<1>4. ASSUME NEW p \in Procs, SetupRLock(p) PROVE TypeOK'
  <2>1. LoginLock!LockTypeOK'
    BY <1>4, RLockType DEF SetupRLock
  <2> QED
    BY <1>4, <2>1 DEF SetupRLock, Goto
<1>5. ASSUME NEW p \in Procs, OpenSession(p) PROVE TypeOK'
  <2>1. CASE HSM!OpenSession(key[p]) /\ Goto(p, "login")
    BY <1>5, <2>1 DEF OpenSession, Goto, HSM!OpenSession
  <2>2. CASE Error(p, "setupReturn")
    BY <1>5, <2>2 DEF OpenSession, Error, GotoWith
  <2> QED
    BY <1>5, <2>1, <2>2 DEF OpenSession
<1>6. ASSUME NEW p \in Procs, SetupLogin(p) PROVE TypeOK'
  <2>1. /\ HSM!TokenTypeOK'
        /\ \/ Goto(p, "publicKey")
           \/ GotoWith(p, "closeFailed", "error")
        /\ lostLogin' \in BOOLEAN /\ session' \in [Keys -> BOOLEAN]
    BY <1>6 DEF SetupLogin, Error, HSM!Login
  <2> QED
    BY <1>6, <2>1 DEF SetupLogin, Goto, GotoWith
<1>7. ASSUME NEW p \in Procs, GetPublicKeyID(p) PROVE TypeOK'
  BY <1>7 DEF GetPublicKeyID, Goto, GotoWith, Error
<1>8. ASSUME NEW p \in Procs, GetPrivateKey(p) PROVE TypeOK'
  BY <1>8 DEF GetPrivateKey, GotoWith, Error, HSM!LoggedIn
<1>9. ASSUME NEW p \in Procs, CloseFailed(p) PROVE TypeOK'
  BY <1>9 DEF CloseFailed, Goto, CloseIgnored, HSM!CloseSession
<1>10. ASSUME NEW p \in Procs, SetupReturn(p) PROVE TypeOK'
  BY <1>10 DEF SetupReturn, Return, LoginLock!RUnlock
<1>11. ASSUME NEW p \in Procs, RLockLogin(p) PROVE TypeOK'
  <2>1. LoginLock!LockTypeOK'
    BY <1>11, RLockType DEF RLockLogin
  <2> QED
    BY <1>11, <2>1 DEF RLockLogin, Goto
<1>12. ASSUME NEW p \in Procs, Logout(p) PROVE TypeOK'
  <2>1. HSM!TokenTypeOK'
    BY <1>12 DEF Logout, HSM!Logout
  <2> QED
    BY <1>12, <2>1 DEF Logout, Goto
<1>13. ASSUME NEW p \in Procs, Relogin(p) PROVE TypeOK'
  <2>1. CASE HSM!Login(key[p]) /\ Goto(p, "signInit") /\ lostLogin' = FALSE
    BY <1>13, <2>1 DEF Relogin, Goto, HSM!Login
  <2>2. CASE Error(p, "unlockLogin") /\ lostLogin' = (lostLogin \/ ~HSM!LoggedIn)
    BY <1>13, <2>2 DEF Relogin, GotoWith, Error, HSM!LoggedIn
  <2> QED
    BY <1>13, <2>1, <2>2 DEF Relogin
<1>14. ASSUME NEW p \in Procs, SignInit(p) PROVE TypeOK'
   BY <1>14 DEF SignInit, Goto, GotoWith, Error, LoginLock!Holds, HSM!SignInit,
     HSM!LoggedIn
<1>15. ASSUME NEW p \in Procs, SignSize(p) PROVE TypeOK'
  BY <1>15 DEF SignSize, Goto, GotoWith, HSM!FailOperation, HSM!EndOperation
<1>16. ASSUME NEW p \in Procs, SignData(p) PROVE TypeOK'
  BY <1>16 DEF SignData, GotoWith, HSM!FailOperation, HSM!EndOperation
<1>17. ASSUME NEW p \in Procs, UnlockLogin(p) PROVE TypeOK'
  BY <1>17 DEF UnlockLogin, Goto, LoginLock!Unlock, LoginLock!RUnlock
<1>18. ASSUME NEW p \in Procs, UnlockSession(p) PROVE TypeOK'
  BY <1>18 DEF UnlockSession, Return
<1>19. ASSUME NEW p \in Procs, Close(p) PROVE TypeOK'
  BY <1>19 DEF Close, GotoWith, CloseIgnored, HSM!CloseSession
<1>20. ASSUME NEW p \in Procs, SignLock(p) PROVE TypeOK'
  BY <1>20 DEF SignLock, Goto, GotoWith, LockSession
<1>21. ASSUME NEW p \in Procs, LockLogin(p) PROVE TypeOK'
  BY <1>21 DEF LockLogin, Goto, LoginLock!Lock, LoginLock!NoWriter
<1>22. ASSUME NEW p \in Procs, DestroyLock(p) PROVE TypeOK'
  BY <1>22 DEF DestroyLock, Goto, GotoWith, LockSession
<1>23. CASE UNCHANGED vars
  BY <1>23
<1> QED
   BY <1>1, <1>2, <1>3, <1>4, <1>5, <1>6, <1>7, <1>8, <1>9, <1>10, <1>11, <1>12, <1>13,
     <1>14, <1>15, <1>16, <1>17, <1>18, <1>19, <1>20, <1>21, <1>22, <1>23 DEF Next,
     Begin, Step, Acquire

\* Every step keeps pc and the ownership of the login lock in agreement.
LEMMA LoginLockStep == TypeOK /\ LoginLockInv /\ [Next]_vars => LoginLockInv'
<1> SUFFICES ASSUME TypeOK, LoginLockInv, [Next]_vars PROVE LoginLockInv'
  OBVIOUS
<1> USE NobodyAssumption, NoKeyAssumption, KeyKindsAssumption DEF vars, HSM!tokenVars,
        keyVars, lockVars, tokenVars, ghostVars, TypeOK, PCs, SetupPCs, SignPCs,
        DestroyPCs, Results, LoginLock!LockTypeOK, HSM!TokenTypeOK, LoginLockInv,
        Reading, Writing
<1>1. ASSUME NEW p \in Procs, NEW k \in Keys, SetupCall(p, k) PROVE LoginLockInv'
  BY <1>1 DEF SetupCall, Call
<1>2. ASSUME NEW p \in Procs, NEW k \in Keys, SignCall(p, k) PROVE LoginLockInv'
  BY <1>2 DEF SignCall, Call
<1>3. ASSUME NEW p \in Procs, NEW k \in Keys, DestroyCall(p, k) PROVE LoginLockInv'
  BY <1>3 DEF DestroyCall, Call
<1>4. ASSUME NEW p \in Procs, SetupRLock(p) PROVE LoginLockInv'
  BY <1>4 DEF SetupRLock, Goto, LoginLock!RLock, LoginLock!NoWriter
<1>5. ASSUME NEW p \in Procs, OpenSession(p) PROVE LoginLockInv'
  BY <1>5 DEF OpenSession, Goto, GotoWith, Error, LoginLock!Holds, HSM!OpenSession
<1>6. ASSUME NEW p \in Procs, SetupLogin(p) PROVE LoginLockInv'
  BY <1>6 DEF SetupLogin, Goto, GotoWith, Error, HSM!Login, HSM!LoggedIn
<1>7. ASSUME NEW p \in Procs, GetPublicKeyID(p) PROVE LoginLockInv'
  BY <1>7 DEF GetPublicKeyID, Goto, GotoWith, Error
<1>8. ASSUME NEW p \in Procs, GetPrivateKey(p) PROVE LoginLockInv'
  BY <1>8 DEF GetPrivateKey, GotoWith, Error, HSM!LoggedIn
<1>9. ASSUME NEW p \in Procs, CloseFailed(p) PROVE LoginLockInv'
  BY <1>9 DEF CloseFailed, Goto, CloseIgnored, HSM!CloseSession
<1>10. ASSUME NEW p \in Procs, SetupReturn(p) PROVE LoginLockInv'
  BY <1>10 DEF SetupReturn, Return, LoginLock!RUnlock
<1>11. ASSUME NEW p \in Procs, RLockLogin(p) PROVE LoginLockInv'
  BY <1>11 DEF RLockLogin, Goto, LoginLock!RLock, LoginLock!NoWriter
<1>12. ASSUME NEW p \in Procs, Logout(p) PROVE LoginLockInv'
  BY <1>12 DEF Logout, Goto, LoginLock!Holds, HSM!Logout
<1>13. ASSUME NEW p \in Procs, Relogin(p) PROVE LoginLockInv'
  BY <1>13 DEF Relogin, Goto, GotoWith, Error, HSM!Login, HSM!LoggedIn
<1>14. ASSUME NEW p \in Procs, SignInit(p) PROVE LoginLockInv'
   BY <1>14 DEF SignInit, Goto, GotoWith, Error, LoginLock!Holds, HSM!SignInit,
     HSM!LoggedIn
<1>15. ASSUME NEW p \in Procs, SignSize(p) PROVE LoginLockInv'
  BY <1>15 DEF SignSize, Goto, GotoWith, HSM!FailOperation, HSM!EndOperation
<1>16. ASSUME NEW p \in Procs, SignData(p) PROVE LoginLockInv'
  BY <1>16 DEF SignData, GotoWith, HSM!FailOperation, HSM!EndOperation
<1>17. ASSUME NEW p \in Procs, UnlockLogin(p) PROVE LoginLockInv'
  BY <1>17 DEF UnlockLogin, Goto, LoginLock!Unlock, LoginLock!RUnlock
<1>18. ASSUME NEW p \in Procs, UnlockSession(p) PROVE LoginLockInv'
  BY <1>18 DEF UnlockSession, Return
<1>19. ASSUME NEW p \in Procs, Close(p) PROVE LoginLockInv'
  BY <1>19 DEF Close, GotoWith, CloseIgnored, HSM!CloseSession
<1>20. ASSUME NEW p \in Procs, SignLock(p) PROVE LoginLockInv'
  BY <1>20 DEF SignLock, Goto, GotoWith, LockSession
<1>21. ASSUME NEW p \in Procs, LockLogin(p) PROVE LoginLockInv'
  BY <1>21 DEF LockLogin, Goto, LoginLock!Lock, LoginLock!NoWriter
<1>22. ASSUME NEW p \in Procs, DestroyLock(p) PROVE LoginLockInv'
  BY <1>22 DEF DestroyLock, Goto, GotoWith, LockSession
<1>23. CASE UNCHANGED vars
  BY <1>23
<1> QED
   BY <1>1, <1>2, <1>3, <1>4, <1>5, <1>6, <1>7, <1>8, <1>9, <1>10, <1>11, <1>12, <1>13,
     <1>14, <1>15, <1>16, <1>17, <1>18, <1>19, <1>20, <1>21, <1>22, <1>23 DEF Next,
     Begin, Step, Acquire

\* Every step keeps pc and the ownership of the session mutexes in agreement.
LEMMA SessionMuStep == TypeOK /\ SessionMuInv /\ [Next]_vars => SessionMuInv'
<1> SUFFICES ASSUME TypeOK, SessionMuInv, [Next]_vars PROVE SessionMuInv'
  OBVIOUS
<1> USE NobodyAssumption, NoKeyAssumption, KeyKindsAssumption DEF vars, HSM!tokenVars,
        keyVars, lockVars, tokenVars, ghostVars, TypeOK, PCs, SetupPCs, SignPCs,
        DestroyPCs, Results, LoginLock!LockTypeOK, HSM!TokenTypeOK, SessionMuInv,
        Critical
<1>1. ASSUME NEW p \in Procs, NEW k \in Keys, SetupCall(p, k) PROVE SessionMuInv'
  BY <1>1 DEF SetupCall, Call
<1>2. ASSUME NEW p \in Procs, NEW k \in Keys, SignCall(p, k) PROVE SessionMuInv'
  BY <1>2 DEF SignCall, Call
<1>3. ASSUME NEW p \in Procs, NEW k \in Keys, DestroyCall(p, k) PROVE SessionMuInv'
  BY <1>3 DEF DestroyCall, Call
<1>4. ASSUME NEW p \in Procs, SetupRLock(p) PROVE SessionMuInv'
  BY <1>4 DEF SetupRLock, Goto, LoginLock!RLock, LoginLock!NoWriter
<1>5. ASSUME NEW p \in Procs, OpenSession(p) PROVE SessionMuInv'
  BY <1>5 DEF OpenSession, Goto, GotoWith, Error, LoginLock!Holds, HSM!OpenSession
<1>6. ASSUME NEW p \in Procs, SetupLogin(p) PROVE SessionMuInv'
  BY <1>6 DEF SetupLogin, Goto, GotoWith, Error, HSM!Login, HSM!LoggedIn
<1>7. ASSUME NEW p \in Procs, GetPublicKeyID(p) PROVE SessionMuInv'
  BY <1>7 DEF GetPublicKeyID, Goto, GotoWith, Error
<1>8. ASSUME NEW p \in Procs, GetPrivateKey(p) PROVE SessionMuInv'
  BY <1>8 DEF GetPrivateKey, GotoWith, Error, HSM!LoggedIn
<1>9. ASSUME NEW p \in Procs, CloseFailed(p) PROVE SessionMuInv'
  BY <1>9 DEF CloseFailed, Goto, CloseIgnored, HSM!CloseSession
<1>10. ASSUME NEW p \in Procs, SetupReturn(p) PROVE SessionMuInv'
  BY <1>10 DEF SetupReturn, Return, LoginLock!RUnlock
<1>11. ASSUME NEW p \in Procs, RLockLogin(p) PROVE SessionMuInv'
  BY <1>11 DEF RLockLogin, Goto, LoginLock!RLock, LoginLock!NoWriter
<1>12. ASSUME NEW p \in Procs, Logout(p) PROVE SessionMuInv'
  BY <1>12 DEF Logout, Goto, LoginLock!Holds, HSM!Logout
<1>13. ASSUME NEW p \in Procs, Relogin(p) PROVE SessionMuInv'
  BY <1>13 DEF Relogin, Goto, GotoWith, Error, HSM!Login, HSM!LoggedIn
<1>14. ASSUME NEW p \in Procs, SignInit(p) PROVE SessionMuInv'
   BY <1>14 DEF SignInit, Goto, GotoWith, Error, LoginLock!Holds, HSM!SignInit,
     HSM!LoggedIn
<1>15. ASSUME NEW p \in Procs, SignSize(p) PROVE SessionMuInv'
  BY <1>15 DEF SignSize, Goto, GotoWith, HSM!FailOperation, HSM!EndOperation
<1>16. ASSUME NEW p \in Procs, SignData(p) PROVE SessionMuInv'
  BY <1>16 DEF SignData, GotoWith, HSM!FailOperation, HSM!EndOperation
<1>17. ASSUME NEW p \in Procs, UnlockLogin(p) PROVE SessionMuInv'
  BY <1>17 DEF UnlockLogin, Goto, LoginLock!Unlock, LoginLock!RUnlock
<1>18. ASSUME NEW p \in Procs, UnlockSession(p) PROVE SessionMuInv'
  BY <1>18 DEF UnlockSession, Return
<1>19. ASSUME NEW p \in Procs, Close(p) PROVE SessionMuInv'
  BY <1>19 DEF Close, GotoWith, CloseIgnored, HSM!CloseSession
<1>20. ASSUME NEW p \in Procs, SignLock(p) PROVE SessionMuInv'
  BY <1>20 DEF SignLock, Goto, GotoWith, LockSession
<1>21. ASSUME NEW p \in Procs, LockLogin(p) PROVE SessionMuInv'
  BY <1>21 DEF LockLogin, Goto, LoginLock!Lock, LoginLock!NoWriter
<1>22. ASSUME NEW p \in Procs, DestroyLock(p) PROVE SessionMuInv'
  BY <1>22 DEF DestroyLock, Goto, GotoWith, LockSession
<1>23. CASE UNCHANGED vars
  BY <1>23
<1> QED
   BY <1>1, <1>2, <1>3, <1>4, <1>5, <1>6, <1>7, <1>8, <1>9, <1>10, <1>11, <1>12, <1>13,
     <1>14, <1>15, <1>16, <1>17, <1>18, <1>19, <1>20, <1>21, <1>22, <1>23 DEF Next,
     Begin, Step, Acquire

\* No two goroutines set up the same Key, and none uses a Key that New has not
\* returned.
LEMMA SetupStep == TypeOK /\ SetupInv /\ [Next]_vars => SetupInv'
<1> SUFFICES ASSUME TypeOK, SetupInv, [Next]_vars PROVE SetupInv'
  OBVIOUS
<1> USE NobodyAssumption, NoKeyAssumption, KeyKindsAssumption DEF vars, HSM!tokenVars,
        keyVars, lockVars, tokenVars, ghostVars, TypeOK, PCs, SetupPCs, SignPCs,
        DestroyPCs, Results, LoginLock!LockTypeOK, HSM!TokenTypeOK, SetupInv
<1>1. ASSUME NEW p \in Procs, NEW k \in Keys, SetupCall(p, k) PROVE SetupInv'
  BY <1>1 DEF SetupCall, Call
<1>2. ASSUME NEW p \in Procs, NEW k \in Keys, SignCall(p, k) PROVE SetupInv'
  BY <1>2 DEF SignCall, Call
<1>3. ASSUME NEW p \in Procs, NEW k \in Keys, DestroyCall(p, k) PROVE SetupInv'
  BY <1>3 DEF DestroyCall, Call
<1>4. ASSUME NEW p \in Procs, SetupRLock(p) PROVE SetupInv'
  BY <1>4 DEF SetupRLock, Goto, LoginLock!RLock, LoginLock!NoWriter
<1>5. ASSUME NEW p \in Procs, OpenSession(p) PROVE SetupInv'
  BY <1>5 DEF OpenSession, Goto, GotoWith, Error, LoginLock!Holds, HSM!OpenSession
<1>6. ASSUME NEW p \in Procs, SetupLogin(p) PROVE SetupInv'
  BY <1>6 DEF SetupLogin, Goto, GotoWith, Error, HSM!Login, HSM!LoggedIn
<1>7. ASSUME NEW p \in Procs, GetPublicKeyID(p) PROVE SetupInv'
  BY <1>7 DEF GetPublicKeyID, Goto, GotoWith, Error
<1>8. ASSUME NEW p \in Procs, GetPrivateKey(p) PROVE SetupInv'
  BY <1>8 DEF GetPrivateKey, GotoWith, Error, HSM!LoggedIn
<1>9. ASSUME NEW p \in Procs, CloseFailed(p) PROVE SetupInv'
  BY <1>9 DEF CloseFailed, Goto, CloseIgnored, HSM!CloseSession
<1>10. ASSUME NEW p \in Procs, SetupReturn(p) PROVE SetupInv'
  BY <1>10 DEF SetupReturn, Return, LoginLock!RUnlock
<1>11. ASSUME NEW p \in Procs, RLockLogin(p) PROVE SetupInv'
  BY <1>11 DEF RLockLogin, Goto, LoginLock!RLock, LoginLock!NoWriter
<1>12. ASSUME NEW p \in Procs, Logout(p) PROVE SetupInv'
  BY <1>12 DEF Logout, Goto, LoginLock!Holds, HSM!Logout
<1>13. ASSUME NEW p \in Procs, Relogin(p) PROVE SetupInv'
  BY <1>13 DEF Relogin, Goto, GotoWith, Error, HSM!Login, HSM!LoggedIn
<1>14. ASSUME NEW p \in Procs, SignInit(p) PROVE SetupInv'
   BY <1>14 DEF SignInit, Goto, GotoWith, Error, LoginLock!Holds, HSM!SignInit,
     HSM!LoggedIn
<1>15. ASSUME NEW p \in Procs, SignSize(p) PROVE SetupInv'
  BY <1>15 DEF SignSize, Goto, GotoWith, HSM!FailOperation, HSM!EndOperation
<1>16. ASSUME NEW p \in Procs, SignData(p) PROVE SetupInv'
  BY <1>16 DEF SignData, GotoWith, HSM!FailOperation, HSM!EndOperation
<1>17. ASSUME NEW p \in Procs, UnlockLogin(p) PROVE SetupInv'
  BY <1>17 DEF UnlockLogin, Goto, LoginLock!Unlock, LoginLock!RUnlock
<1>18. ASSUME NEW p \in Procs, UnlockSession(p) PROVE SetupInv'
  BY <1>18 DEF UnlockSession, Return
<1>19. ASSUME NEW p \in Procs, Close(p) PROVE SetupInv'
  BY <1>19 DEF Close, GotoWith, CloseIgnored, HSM!CloseSession
<1>20. ASSUME NEW p \in Procs, SignLock(p) PROVE SetupInv'
  BY <1>20 DEF SignLock, Goto, GotoWith, LockSession
<1>21. ASSUME NEW p \in Procs, LockLogin(p) PROVE SetupInv'
  BY <1>21 DEF LockLogin, Goto, LoginLock!Lock, LoginLock!NoWriter
<1>22. ASSUME NEW p \in Procs, DestroyLock(p) PROVE SetupInv'
  BY <1>22 DEF DestroyLock, Goto, GotoWith, LockSession
<1>23. CASE UNCHANGED vars
  BY <1>23
<1> QED
   BY <1>1, <1>2, <1>3, <1>4, <1>5, <1>6, <1>7, <1>8, <1>9, <1>10, <1>11, <1>12, <1>13,
     <1>14, <1>15, <1>16, <1>17, <1>18, <1>19, <1>20, <1>21, <1>22, <1>23 DEF Next,
     Begin, Step, Acquire

\* A live Key's session is open on the token, and an open session belongs to
\* someone.  Closing is done by the owner of sessionMu or by the setup.
LEMMA SessionStep ==
  TypeOK /\ SessionMuInv /\ SetupInv /\ SessionInv /\ [Next]_vars => SessionInv'
<1> SUFFICES ASSUME TypeOK, SessionMuInv, SetupInv, SessionInv, [Next]_vars
             PROVE  SessionInv'
  OBVIOUS
<1> USE NobodyAssumption, NoKeyAssumption, KeyKindsAssumption DEF vars, HSM!tokenVars,
        keyVars, lockVars, tokenVars, ghostVars, TypeOK, PCs, SetupPCs, SignPCs,
        DestroyPCs, Results, LoginLock!LockTypeOK, HSM!TokenTypeOK, SessionMuInv,
        Critical, SetupInv, SessionInv, NoSessionLeak
<1>1. ASSUME NEW p \in Procs, NEW k \in Keys, SetupCall(p, k) PROVE SessionInv'
  BY <1>1 DEF SetupCall, Call
<1>2. ASSUME NEW p \in Procs, NEW k \in Keys, SignCall(p, k) PROVE SessionInv'
  BY <1>2 DEF SignCall, Call
<1>3. ASSUME NEW p \in Procs, NEW k \in Keys, DestroyCall(p, k) PROVE SessionInv'
  BY <1>3 DEF DestroyCall, Call
<1>4. ASSUME NEW p \in Procs, SetupRLock(p) PROVE SessionInv'
  BY <1>4 DEF SetupRLock, Goto, LoginLock!RLock, LoginLock!NoWriter
<1>5. ASSUME NEW p \in Procs, OpenSession(p) PROVE SessionInv'
  BY <1>5 DEF OpenSession, Goto, GotoWith, Error, LoginLock!Holds, HSM!OpenSession
<1>6. ASSUME NEW p \in Procs, SetupLogin(p) PROVE SessionInv'
  BY <1>6 DEF SetupLogin, Goto, GotoWith, Error, HSM!Login, HSM!LoggedIn
<1>7. ASSUME NEW p \in Procs, GetPublicKeyID(p) PROVE SessionInv'
  BY <1>7 DEF GetPublicKeyID, Goto, GotoWith, Error
<1>8. ASSUME NEW p \in Procs, GetPrivateKey(p) PROVE SessionInv'
  BY <1>8 DEF GetPrivateKey, GotoWith, Error, HSM!LoggedIn
<1>9. ASSUME NEW p \in Procs, CloseFailed(p) PROVE SessionInv'
  BY <1>9 DEF CloseFailed, Goto, CloseIgnored, HSM!CloseSession
<1>10. ASSUME NEW p \in Procs, SetupReturn(p) PROVE SessionInv'
  BY <1>10 DEF SetupReturn, Return, LoginLock!RUnlock
<1>11. ASSUME NEW p \in Procs, RLockLogin(p) PROVE SessionInv'
  BY <1>11 DEF RLockLogin, Goto, LoginLock!RLock, LoginLock!NoWriter
<1>12. ASSUME NEW p \in Procs, Logout(p) PROVE SessionInv'
  BY <1>12 DEF Logout, Goto, LoginLock!Holds, HSM!Logout
<1>13. ASSUME NEW p \in Procs, Relogin(p) PROVE SessionInv'
  BY <1>13 DEF Relogin, Goto, GotoWith, Error, HSM!Login, HSM!LoggedIn
<1>14. ASSUME NEW p \in Procs, SignInit(p) PROVE SessionInv'
   BY <1>14 DEF SignInit, Goto, GotoWith, Error, LoginLock!Holds, HSM!SignInit,
     HSM!LoggedIn
<1>15. ASSUME NEW p \in Procs, SignSize(p) PROVE SessionInv'
  BY <1>15 DEF SignSize, Goto, GotoWith, HSM!FailOperation, HSM!EndOperation
<1>16. ASSUME NEW p \in Procs, SignData(p) PROVE SessionInv'
  BY <1>16 DEF SignData, GotoWith, HSM!FailOperation, HSM!EndOperation
<1>17. ASSUME NEW p \in Procs, UnlockLogin(p) PROVE SessionInv'
  BY <1>17 DEF UnlockLogin, Goto, LoginLock!Unlock, LoginLock!RUnlock
<1>18. ASSUME NEW p \in Procs, UnlockSession(p) PROVE SessionInv'
  BY <1>18 DEF UnlockSession, Return
<1>19. ASSUME NEW p \in Procs, Close(p) PROVE SessionInv'
  BY <1>19 DEF Close, GotoWith, CloseIgnored, HSM!CloseSession
<1>20. ASSUME NEW p \in Procs, SignLock(p) PROVE SessionInv'
  BY <1>20 DEF SignLock, Goto, GotoWith, LockSession
<1>21. ASSUME NEW p \in Procs, LockLogin(p) PROVE SessionInv'
  BY <1>21 DEF LockLogin, Goto, LoginLock!Lock, LoginLock!NoWriter
<1>22. ASSUME NEW p \in Procs, DestroyLock(p) PROVE SessionInv'
  BY <1>22 DEF DestroyLock, Goto, GotoWith, LockSession
<1>23. CASE UNCHANGED vars
  BY <1>23
<1> QED
   BY <1>1, <1>2, <1>3, <1>4, <1>5, <1>6, <1>7, <1>8, <1>9, <1>10, <1>11, <1>12, <1>13,
     <1>14, <1>15, <1>16, <1>17, <1>18, <1>19, <1>20, <1>21, <1>22, <1>23 DEF Next,
     Begin, Step, Acquire

\* A login in use is not taken away: a Logout needs the write lock, the last
\* session of a token with a live Key is not closed.
LEMMA LoginStep ==
  TypeOK /\ LoginLockInv /\ SessionMuInv /\ SetupInv /\ SessionInv /\ LoginInv /\ [Next]_vars
    => LoginInv'
<1> SUFFICES ASSUME TypeOK, LoginLockInv, SessionMuInv, SetupInv, SessionInv, LoginInv,
                    [Next]_vars
             PROVE  LoginInv'
  OBVIOUS
<1> USE NobodyAssumption, NoKeyAssumption, KeyKindsAssumption DEF vars, HSM!tokenVars,
        keyVars, lockVars, tokenVars, ghostVars, TypeOK, PCs, SetupPCs, SignPCs,
        DestroyPCs, Results, LoginLock!LockTypeOK, HSM!TokenTypeOK, LoginLockInv,
        Reading, Writing, SessionMuInv, Critical, SetupInv, SessionInv, LoginInv,
        LoginHeld, UsesLogin, LoginLock!Holds, HSM!LoggedIn
<1>1. ASSUME NEW p \in Procs, NEW k \in Keys, SetupCall(p, k) PROVE LoginInv'
  BY <1>1 DEF SetupCall, Call
<1>2. ASSUME NEW p \in Procs, NEW k \in Keys, SignCall(p, k) PROVE LoginInv'
  BY <1>2 DEF SignCall, Call
<1>3. ASSUME NEW p \in Procs, NEW k \in Keys, DestroyCall(p, k) PROVE LoginInv'
  BY <1>3 DEF DestroyCall, Call
<1>4. ASSUME NEW p \in Procs, SetupRLock(p) PROVE LoginInv'
  BY <1>4 DEF SetupRLock, Goto, LoginLock!RLock, LoginLock!NoWriter
<1>5. ASSUME NEW p \in Procs, OpenSession(p) PROVE LoginInv'
  BY <1>5 DEF OpenSession, Goto, GotoWith, Error, LoginLock!Holds, HSM!OpenSession
<1>6. ASSUME NEW p \in Procs, SetupLogin(p) PROVE LoginInv'
  BY <1>6 DEF SetupLogin, Goto, GotoWith, Error, HSM!Login, HSM!LoggedIn
<1>7. ASSUME NEW p \in Procs, GetPublicKeyID(p) PROVE LoginInv'
  BY <1>7 DEF GetPublicKeyID, Goto, GotoWith, Error
<1>8. ASSUME NEW p \in Procs, GetPrivateKey(p) PROVE LoginInv'
  BY <1>8 DEF GetPrivateKey, GotoWith, Error, HSM!LoggedIn
<1>9. ASSUME NEW p \in Procs, CloseFailed(p) PROVE LoginInv'
  BY <1>9 DEF CloseFailed, Goto, CloseIgnored, HSM!CloseSession
<1>10. ASSUME NEW p \in Procs, SetupReturn(p) PROVE LoginInv'
  BY <1>10 DEF SetupReturn, Return, LoginLock!RUnlock
<1>11. ASSUME NEW p \in Procs, RLockLogin(p) PROVE LoginInv'
  BY <1>11 DEF RLockLogin, Goto, LoginLock!RLock, LoginLock!NoWriter
<1>12. ASSUME NEW p \in Procs, Logout(p) PROVE LoginInv'
  BY <1>12 DEF Logout, Goto, LoginLock!Holds, HSM!Logout
<1>13. ASSUME NEW p \in Procs, Relogin(p) PROVE LoginInv'
  BY <1>13 DEF Relogin, Goto, GotoWith, Error, HSM!Login, HSM!LoggedIn
<1>14. ASSUME NEW p \in Procs, SignInit(p) PROVE LoginInv'
   BY <1>14 DEF SignInit, Goto, GotoWith, Error, LoginLock!Holds, HSM!SignInit,
     HSM!LoggedIn
<1>15. ASSUME NEW p \in Procs, SignSize(p) PROVE LoginInv'
  BY <1>15 DEF SignSize, Goto, GotoWith, HSM!FailOperation, HSM!EndOperation
<1>16. ASSUME NEW p \in Procs, SignData(p) PROVE LoginInv'
  BY <1>16 DEF SignData, GotoWith, HSM!FailOperation, HSM!EndOperation
<1>17. ASSUME NEW p \in Procs, UnlockLogin(p) PROVE LoginInv'
  BY <1>17 DEF UnlockLogin, Goto, LoginLock!Unlock, LoginLock!RUnlock
<1>18. ASSUME NEW p \in Procs, UnlockSession(p) PROVE LoginInv'
  BY <1>18 DEF UnlockSession, Return
<1>19. ASSUME NEW p \in Procs, Close(p) PROVE LoginInv'
  BY <1>19 DEF Close, GotoWith, CloseIgnored, HSM!CloseSession
<1>20. ASSUME NEW p \in Procs, SignLock(p) PROVE LoginInv'
  BY <1>20 DEF SignLock, Goto, GotoWith, LockSession
<1>21. ASSUME NEW p \in Procs, LockLogin(p) PROVE LoginInv'
  BY <1>21 DEF LockLogin, Goto, LoginLock!Lock, LoginLock!NoWriter
<1>22. ASSUME NEW p \in Procs, DestroyLock(p) PROVE LoginInv'
  BY <1>22 DEF DestroyLock, Goto, GotoWith, LockSession
<1>23. CASE UNCHANGED vars
  BY <1>23
<1> QED
   BY <1>1, <1>2, <1>3, <1>4, <1>5, <1>6, <1>7, <1>8, <1>9, <1>10, <1>11, <1>12, <1>13,
     <1>14, <1>15, <1>16, <1>17, <1>18, <1>19, <1>20, <1>21, <1>22, <1>23 DEF Next,
     Begin, Step, Acquire

\* The operation active on a session is its user's own.
LEMMA OperationStep ==
  TypeOK /\ LoginLockInv /\ SessionMuInv /\ SetupInv /\ OwnOperation /\ [Next]_vars
    => OwnOperation'
<1> SUFFICES ASSUME TypeOK, LoginLockInv, SessionMuInv, SetupInv, OwnOperation,
                    [Next]_vars
             PROVE  OwnOperation'
  OBVIOUS
<1> USE NobodyAssumption, NoKeyAssumption, KeyKindsAssumption DEF vars, HSM!tokenVars,
        keyVars, lockVars, tokenVars, ghostVars, TypeOK, PCs, SetupPCs, SignPCs,
        DestroyPCs, Results, LoginLock!LockTypeOK, HSM!TokenTypeOK, LoginLockInv,
        Reading, Writing, SessionMuInv, Critical, SetupInv, OwnOperation
<1>1. ASSUME NEW p \in Procs, NEW k \in Keys, SetupCall(p, k) PROVE OwnOperation'
  BY <1>1 DEF SetupCall, Call
<1>2. ASSUME NEW p \in Procs, NEW k \in Keys, SignCall(p, k) PROVE OwnOperation'
  BY <1>2 DEF SignCall, Call
<1>3. ASSUME NEW p \in Procs, NEW k \in Keys, DestroyCall(p, k) PROVE OwnOperation'
  BY <1>3 DEF DestroyCall, Call
<1>4. ASSUME NEW p \in Procs, SetupRLock(p) PROVE OwnOperation'
  BY <1>4 DEF SetupRLock, Goto, LoginLock!RLock, LoginLock!NoWriter
<1>5. ASSUME NEW p \in Procs, OpenSession(p) PROVE OwnOperation'
  BY <1>5 DEF OpenSession, Goto, GotoWith, Error, LoginLock!Holds, HSM!OpenSession
<1>6. ASSUME NEW p \in Procs, SetupLogin(p) PROVE OwnOperation'
  BY <1>6 DEF SetupLogin, Goto, GotoWith, Error, HSM!Login, HSM!LoggedIn
<1>7. ASSUME NEW p \in Procs, GetPublicKeyID(p) PROVE OwnOperation'
  BY <1>7 DEF GetPublicKeyID, Goto, GotoWith, Error
<1>8. ASSUME NEW p \in Procs, GetPrivateKey(p) PROVE OwnOperation'
  BY <1>8 DEF GetPrivateKey, GotoWith, Error, HSM!LoggedIn
<1>9. ASSUME NEW p \in Procs, CloseFailed(p) PROVE OwnOperation'
  BY <1>9 DEF CloseFailed, Goto, CloseIgnored, HSM!CloseSession
<1>10. ASSUME NEW p \in Procs, SetupReturn(p) PROVE OwnOperation'
  BY <1>10 DEF SetupReturn, Return, LoginLock!RUnlock
<1>11. ASSUME NEW p \in Procs, RLockLogin(p) PROVE OwnOperation'
  BY <1>11 DEF RLockLogin, Goto, LoginLock!RLock, LoginLock!NoWriter
<1>12. ASSUME NEW p \in Procs, Logout(p) PROVE OwnOperation'
  BY <1>12 DEF Logout, Goto, LoginLock!Holds, HSM!Logout
<1>13. ASSUME NEW p \in Procs, Relogin(p) PROVE OwnOperation'
  BY <1>13 DEF Relogin, Goto, GotoWith, Error, HSM!Login, HSM!LoggedIn
<1>14. ASSUME NEW p \in Procs, SignInit(p) PROVE OwnOperation'
   BY <1>14 DEF SignInit, Goto, GotoWith, Error, LoginLock!Holds, HSM!SignInit,
     HSM!LoggedIn
<1>15. ASSUME NEW p \in Procs, SignSize(p) PROVE OwnOperation'
  BY <1>15 DEF SignSize, Goto, GotoWith, HSM!FailOperation, HSM!EndOperation
<1>16. ASSUME NEW p \in Procs, SignData(p) PROVE OwnOperation'
  BY <1>16 DEF SignData, GotoWith, HSM!FailOperation, HSM!EndOperation
<1>17. ASSUME NEW p \in Procs, UnlockLogin(p) PROVE OwnOperation'
  BY <1>17 DEF UnlockLogin, Goto, LoginLock!Unlock, LoginLock!RUnlock
<1>18. ASSUME NEW p \in Procs, UnlockSession(p) PROVE OwnOperation'
  BY <1>18 DEF UnlockSession, Return
<1>19. ASSUME NEW p \in Procs, Close(p) PROVE OwnOperation'
  BY <1>19 DEF Close, GotoWith, CloseIgnored, HSM!CloseSession
<1>20. ASSUME NEW p \in Procs, SignLock(p) PROVE OwnOperation'
  BY <1>20 DEF SignLock, Goto, GotoWith, LockSession
<1>21. ASSUME NEW p \in Procs, LockLogin(p) PROVE OwnOperation'
  BY <1>21 DEF LockLogin, Goto, LoginLock!Lock, LoginLock!NoWriter
<1>22. ASSUME NEW p \in Procs, DestroyLock(p) PROVE OwnOperation'
  BY <1>22 DEF DestroyLock, Goto, GotoWith, LockSession
<1>23. CASE UNCHANGED vars
  BY <1>23
<1> QED
   BY <1>1, <1>2, <1>3, <1>4, <1>5, <1>6, <1>7, <1>8, <1>9, <1>10, <1>11, <1>12, <1>13,
     <1>14, <1>15, <1>16, <1>17, <1>18, <1>19, <1>20, <1>21, <1>22, <1>23 DEF Next,
     Begin, Step, Acquire

\* A call's result is settled once, and not before its last token call.
LEMMA ResultStep ==
  TypeOK /\ SetupInv /\ SessionInv /\ ResultInv /\ [Next]_vars => ResultInv'
<1> SUFFICES ASSUME TypeOK, SetupInv, SessionInv, ResultInv, [Next]_vars
             PROVE  ResultInv'
  OBVIOUS
<1> USE NobodyAssumption, NoKeyAssumption, KeyKindsAssumption DEF vars, HSM!tokenVars,
        keyVars, lockVars, tokenVars, ghostVars, TypeOK, PCs, SetupPCs, SignPCs,
        DestroyPCs, Results, LoginLock!LockTypeOK, HSM!TokenTypeOK, SetupInv,
        SessionInv, ResultInv
<1>1. ASSUME NEW p \in Procs, NEW k \in Keys, SetupCall(p, k) PROVE ResultInv'
  BY <1>1 DEF SetupCall, Call
<1>2. ASSUME NEW p \in Procs, NEW k \in Keys, SignCall(p, k) PROVE ResultInv'
  BY <1>2 DEF SignCall, Call
<1>3. ASSUME NEW p \in Procs, NEW k \in Keys, DestroyCall(p, k) PROVE ResultInv'
  BY <1>3 DEF DestroyCall, Call
<1>4. ASSUME NEW p \in Procs, SetupRLock(p) PROVE ResultInv'
  BY <1>4 DEF SetupRLock, Goto, LoginLock!RLock, LoginLock!NoWriter
<1>5. ASSUME NEW p \in Procs, OpenSession(p) PROVE ResultInv'
  BY <1>5 DEF OpenSession, Goto, GotoWith, Error, LoginLock!Holds, HSM!OpenSession
<1>6. ASSUME NEW p \in Procs, SetupLogin(p) PROVE ResultInv'
  BY <1>6 DEF SetupLogin, Goto, GotoWith, Error, HSM!Login, HSM!LoggedIn
<1>7. ASSUME NEW p \in Procs, GetPublicKeyID(p) PROVE ResultInv'
  BY <1>7 DEF GetPublicKeyID, Goto, GotoWith, Error
<1>8. ASSUME NEW p \in Procs, GetPrivateKey(p) PROVE ResultInv'
  BY <1>8 DEF GetPrivateKey, GotoWith, Error, HSM!LoggedIn
<1>9. ASSUME NEW p \in Procs, CloseFailed(p) PROVE ResultInv'
  BY <1>9 DEF CloseFailed, Goto, CloseIgnored, HSM!CloseSession
<1>10. ASSUME NEW p \in Procs, SetupReturn(p) PROVE ResultInv'
  BY <1>10 DEF SetupReturn, Return, LoginLock!RUnlock
<1>11. ASSUME NEW p \in Procs, RLockLogin(p) PROVE ResultInv'
  BY <1>11 DEF RLockLogin, Goto, LoginLock!RLock, LoginLock!NoWriter
<1>12. ASSUME NEW p \in Procs, Logout(p) PROVE ResultInv'
  BY <1>12 DEF Logout, Goto, LoginLock!Holds, HSM!Logout
<1>13. ASSUME NEW p \in Procs, Relogin(p) PROVE ResultInv'
  BY <1>13 DEF Relogin, Goto, GotoWith, Error, HSM!Login, HSM!LoggedIn
<1>14. ASSUME NEW p \in Procs, SignInit(p) PROVE ResultInv'
   BY <1>14 DEF SignInit, Goto, GotoWith, Error, LoginLock!Holds, HSM!SignInit,
     HSM!LoggedIn
<1>15. ASSUME NEW p \in Procs, SignSize(p) PROVE ResultInv'
  BY <1>15 DEF SignSize, Goto, GotoWith, HSM!FailOperation, HSM!EndOperation
<1>16. ASSUME NEW p \in Procs, SignData(p) PROVE ResultInv'
  BY <1>16 DEF SignData, GotoWith, HSM!FailOperation, HSM!EndOperation
<1>17. ASSUME NEW p \in Procs, UnlockLogin(p) PROVE ResultInv'
  BY <1>17 DEF UnlockLogin, Goto, LoginLock!Unlock, LoginLock!RUnlock
<1>18. ASSUME NEW p \in Procs, UnlockSession(p) PROVE ResultInv'
  BY <1>18 DEF UnlockSession, Return
<1>19. ASSUME NEW p \in Procs, Close(p) PROVE ResultInv'
  BY <1>19 DEF Close, GotoWith, CloseIgnored, HSM!CloseSession
<1>20. ASSUME NEW p \in Procs, SignLock(p) PROVE ResultInv'
  BY <1>20 DEF SignLock, Goto, GotoWith, LockSession
<1>21. ASSUME NEW p \in Procs, LockLogin(p) PROVE ResultInv'
  BY <1>21 DEF LockLogin, Goto, LoginLock!Lock, LoginLock!NoWriter
<1>22. ASSUME NEW p \in Procs, DestroyLock(p) PROVE ResultInv'
  BY <1>22 DEF DestroyLock, Goto, GotoWith, LockSession
<1>23. CASE UNCHANGED vars
  BY <1>23
<1> QED
   BY <1>1, <1>2, <1>3, <1>4, <1>5, <1>6, <1>7, <1>8, <1>9, <1>10, <1>11, <1>12, <1>13,
     <1>14, <1>15, <1>16, <1>17, <1>18, <1>19, <1>20, <1>21, <1>22, <1>23 DEF Next,
     Begin, Step, Acquire

\* The invariant is inductive.
LEMMA NextIInv == IInv /\ [Next]_vars => IInv'
  BY TypeStep, LoginLockStep, SessionMuStep, SetupStep, SessionStep, LoginStep,
     OperationStep, ResultStep DEF IInv

\* It holds in every reachable state.
LEMMA InductiveInvariant == SafeSpec => []IInv
<1>1. Init => IInv
  BY InitIInv
<1>2. IInv /\ [Next]_vars => IInv'
  BY NextIInv
<1> QED
  BY <1>1, <1>2, PTL DEF SafeSpec

\* A goroutine that waits for the login lock waits for one that does not wait:
\* the writer, or, before a parked writer, one of the readers.
LEMMA LoginWaiterHasRunner ==
  ASSUME IInv, NEW p \in Procs, Waiting(p), pc[p] \notin {"sign", "destroy"}
  PROVE  \E q \in Procs : pc[q] # "idle" /\ ~Waiting(q)
<1> USE DEF LoginLock!Holds, LoginLock!NoWriter, SetupPCs
<1>1. writer # Nobody \/ pending # Nobody
  <2>1. CASE pc[p] \in {"open", "signInit"} /\ ~LoginLock!Holds(p)
    <3>1. p \in readers \cup blocked \/ writer = p \/ pending = p
      BY <2>1 DEF IInv, LoginLockInv, Reading, Writing
    <3> QED
      BY <2>1, <3>1, NobodyAssumption DEF IInv, LoginLockInv
  <2>2. CASE pc[p] = "logout"
    BY <2>2, NobodyAssumption DEF IInv, LoginLockInv, Writing
  <2>3. CASE pc[p] = "loginLock" /\ ~LoginLock!NoWriter
    BY <2>3
  <2> QED
    BY <2>1, <2>2, <2>3 DEF Waiting
<1>2. CASE writer # Nobody
  <2>1. writer \in Procs /\ Writing(writer)
    BY <1>2 DEF IInv, TypeOK, LoginLock!LockTypeOK, LoginLockInv
  <2>2. pc[writer] # "idle" /\ ~Waiting(writer)
    BY <2>1 DEF Writing, Waiting
  <2> QED
    BY <2>1, <2>2
<1>3. CASE pending # Nobody
  <2>1. PICK r \in Procs : r \in readers
    BY <1>3 DEF IInv, TypeOK, LoginLock!LockTypeOK, LoginLockInv
  <2>2. Reading(r)
    BY <2>1 DEF IInv, LoginLockInv
  <2>3. pc[r] # "idle" /\ ~Waiting(r)
    BY <2>1, <2>2 DEF Reading, Waiting
  <2> QED
    BY <2>3
<1> QED
  BY <1>1, <1>2, <1>3

\* A goroutine that waits for sessionMu waits for one that has it, which runs or
\* waits for the login lock.
LEMMA IInvSomebodyRuns == IInv => SomebodyRuns
<1> SUFFICES ASSUME IInv, NEW p \in Procs, pc[p] # "idle"
             PROVE  \E q \in Procs : pc[q] # "idle" /\ ~Waiting(q)
  BY DEF SomebodyRuns
<1>1. CASE ~Waiting(p)
  BY <1>1
<1>2. CASE Waiting(p) /\ pc[p] \notin {"sign", "destroy"}
  BY <1>2, LoginWaiterHasRunner
<1>3. CASE Waiting(p) /\ pc[p] \in {"sign", "destroy"}
  <2>1. sessionMu[key[p]] # Nobody /\ key[p] \in Keys
    BY <1>3 DEF Waiting, IInv, TypeOK
  <2>2. PICK q \in Procs : q = sessionMu[key[p]]
    BY <2>1 DEF IInv, TypeOK
  <2>3. pc[q] \in Critical
    BY <2>1, <2>2 DEF IInv, SessionMuInv
  <2>4. pc[q] \notin {"sign", "destroy", "idle"}
    BY <2>3 DEF Critical, SignPCs
  <2> QED
    BY <2>4, LoginWaiterHasRunner
<1> QED
  BY <1>1, <1>2, <1>3

\* A token call is made on an open session.
LEMMA IInvNoUseAfterClose == IInv => NoUseAfterClose
  BY DEF IInv, SessionInv, NoUseAfterClose, TypeOK

\* Losing the login needs the write lock or the last session.
LEMMA LogoutStep ==
  IInv /\ [Next]_vars => (HSM!LoggedIn /\ ~HSM!LoggedIn' => \A p \in Procs : ~UsesLogin(p))
<1> SUFFICES ASSUME IInv, [Next]_vars, HSM!LoggedIn, ~HSM!LoggedIn',
                    NEW q \in Procs, UsesLogin(q)
             PROVE  FALSE
  OBVIOUS
<1> USE NobodyAssumption, NoKeyAssumption DEF IInv, TypeOK, LoginLock!LockTypeOK,
        HSM!TokenTypeOK, SetupPCs, SignPCs, UsesLogin, LoginLock!Holds, HSM!LoggedIn
\* q's session is open: q's Key is live.
<1>1. key[q] \in sessions /\ key[q] \in Keys /\ session[key[q]]
  BY DEF SessionInv
<1>2. ASSUME NEW p \in Procs, Logout(p) PROVE FALSE
  BY <1>2 DEF Logout, LoginLockInv, Reading, Writing
<1>3. ASSUME NEW p \in Procs, CloseFailed(p) PROVE FALSE
  <2>1. pc[p] = "closeFailed" /\ key[p] # key[q]
    BY <1>3 DEF CloseFailed, SetupInv
  <2> QED
    BY <1>1, <1>3, <2>1 DEF CloseFailed, CloseIgnored, HSM!CloseSession, tokenVars
<1>4. ASSUME NEW p \in Procs, Close(p) PROVE FALSE
  <2>1. pc[p] = "close" /\ key[p] # key[q]
    BY <1>4 DEF Close, SetupInv, SessionMuInv, Critical
  <2> QED
    BY <1>1, <1>4, <2>1 DEF Close, CloseIgnored, HSM!CloseSession, tokenVars
\* No other action logs anyone out.
<1>5. \/ \E p \in Procs : Logout(p) \/ CloseFailed(p) \/ Close(p)
      \/ HSM!LoggedIn'
   BY DEF Next, Begin, Step, Acquire, vars, tokenVars, HSM!tokenVars, Call, Error,
     SetupCall,
         SignCall, DestroyCall, SetupRLock, OpenSession, HSM!OpenSession, SetupLogin,
         HSM!Login, GetPublicKeyID, GetPrivateKey, SetupReturn, RLockLogin, Relogin, SignInit,
         HSM!SignInit, SignSize, SignData, HSM!FailOperation, HSM!EndOperation, UnlockLogin,
         UnlockSession, LockSession, SignLock, LockLogin, DestroyLock
<1> QED
  BY <1>2, <1>3, <1>4, <1>5

\* Every step of Key is a step of the contract, or changes nothing the contract
\* sees: Sign settles at SignData, or where it fails, Destroy at Close.
LEMMA ContractStep == IInv /\ [Next]_vars => [Contract!Next]_(Contract!contractVars)
<1> SUFFICES ASSUME IInv, [Next]_vars PROVE [Contract!Next]_(Contract!contractVars)
  OBVIOUS
<1> USE NoKeyAssumption, KeyKindsAssumption DEF IInv, TypeOK, vars, HSM!tokenVars,
        keyVars, lockVars, tokenVars, ghostVars,
       PCs, SetupPCs, SignPCs, DestroyPCs, Results, OnKey
<1>1. ASSUME NEW p \in Procs, NEW k \in Keys, SetupCall(p, k)
      PROVE  UNCHANGED Contract!contractVars
   BY <1>1 DEF SetupCall, Call, SetupInv, SessionInv, ResultInv, statusBar, doingBar,
     onBar, resBar, Contract!contractVars
<1>2. ASSUME NEW p \in Procs, NEW k \in Keys, SignCall(p, k)
      PROVE  [Contract!Next]_(Contract!contractVars)
  <2>1. statusBar' = statusBar
    BY <1>2 DEF SignCall, Call, SetupInv, SessionInv, ResultInv, statusBar
  <2>2. doingBar' = [doingBar EXCEPT ![p] = "sign"]
    BY <1>2 DEF SignCall, Call, SetupInv, SessionInv, ResultInv, doingBar
  <2>3. onBar' = [onBar EXCEPT ![p] = k]
    BY <1>2 DEF SignCall, Call, SetupInv, SessionInv, ResultInv, onBar
  <2>4. resBar' = resBar
    BY <1>2 DEF SignCall, Call, SetupInv, SessionInv, ResultInv, resBar
  <2>5. doingBar[p] = "none" /\ statusBar[k] # "absent"
    BY <1>2 DEF SignCall, Call, SetupInv, SessionInv, ResultInv, statusBar, doingBar
  <2> QED
     BY <2>1, <2>2, <2>3, <2>4, <2>5 DEF Contract!contractVars, Contract!Next,
       Contract!Invoke
<1>3. ASSUME NEW p \in Procs, NEW k \in Keys, DestroyCall(p, k)
      PROVE  [Contract!Next]_(Contract!contractVars)
  <2>1. statusBar' = statusBar
    BY <1>3 DEF DestroyCall, Call, SetupInv, SessionInv, ResultInv, statusBar
  <2>2. doingBar' = [doingBar EXCEPT ![p] = "destroy"]
    BY <1>3 DEF DestroyCall, Call, SetupInv, SessionInv, ResultInv, doingBar
  <2>3. onBar' = [onBar EXCEPT ![p] = k]
    BY <1>3 DEF DestroyCall, Call, SetupInv, SessionInv, ResultInv, onBar
  <2>4. resBar' = resBar
    BY <1>3 DEF DestroyCall, Call, SetupInv, SessionInv, ResultInv, resBar
  <2>5. doingBar[p] = "none" /\ statusBar[k] # "absent"
    BY <1>3 DEF DestroyCall, Call, SetupInv, SessionInv, ResultInv, statusBar, doingBar
  <2> QED
     BY <2>1, <2>2, <2>3, <2>4, <2>5 DEF Contract!contractVars, Contract!Next,
       Contract!Invoke
<1>4. ASSUME NEW p \in Procs, SetupRLock(p) PROVE UNCHANGED Contract!contractVars
   BY <1>4 DEF SetupRLock, Goto, LoginLock!RLock, LoginLock!NoWriter, SetupInv,
     SessionInv, ResultInv, statusBar, doingBar, onBar, resBar, Contract!contractVars
<1>5. ASSUME NEW p \in Procs, OpenSession(p) PROVE UNCHANGED Contract!contractVars
   BY <1>5 DEF OpenSession, Goto, GotoWith, Error, LoginLock!Holds, HSM!OpenSession,
     SetupInv, SessionInv, ResultInv, statusBar, doingBar, onBar, resBar,
     Contract!contractVars
<1>6. ASSUME NEW p \in Procs, SetupLogin(p) PROVE UNCHANGED Contract!contractVars
   BY <1>6 DEF SetupLogin, Goto, GotoWith, Error, HSM!Login, HSM!LoggedIn, SetupInv,
     SessionInv, ResultInv, statusBar, doingBar, onBar, resBar, Contract!contractVars
<1>7. ASSUME NEW p \in Procs, GetPublicKeyID(p) PROVE UNCHANGED Contract!contractVars
   BY <1>7 DEF GetPublicKeyID, Goto, GotoWith, Error, SetupInv, SessionInv, ResultInv,
     statusBar, doingBar, onBar, resBar, Contract!contractVars
<1>8. ASSUME NEW p \in Procs, GetPrivateKey(p) PROVE UNCHANGED Contract!contractVars
   BY <1>8 DEF GetPrivateKey, GotoWith, Error, HSM!LoggedIn, SetupInv, SessionInv,
     ResultInv, statusBar, doingBar, onBar, resBar, Contract!contractVars
<1>9. ASSUME NEW p \in Procs, CloseFailed(p) PROVE UNCHANGED Contract!contractVars
   BY <1>9 DEF CloseFailed, Goto, CloseIgnored, HSM!CloseSession, SetupInv, SessionInv,
     ResultInv, statusBar, doingBar, onBar, resBar, Contract!contractVars
<1>10. ASSUME NEW p \in Procs, SetupReturn(p)
       PROVE  [Contract!Next]_(Contract!contractVars)
  <2>1. doingBar' = doingBar
     BY <1>10 DEF SetupReturn, Return, LoginLock!RUnlock, SetupInv, SessionInv,
       ResultInv, doingBar
  <2>2. onBar' = onBar
     BY <1>10 DEF SetupReturn, Return, LoginLock!RUnlock, SetupInv, SessionInv,
       ResultInv, onBar
  <2>3. resBar' = resBar
     BY <1>10 DEF SetupReturn, Return, LoginLock!RUnlock, SetupInv, SessionInv,
       ResultInv, resBar
  <2>4. CASE result[p] = "ok"
    <3>1. key[p] \in Keys \ created /\ session[key[p]]
      BY <1>10, <2>4 DEF SetupReturn, SetupInv, ResultInv
    <3>2. created' = created \cup {key[p]} /\ session' = session
      BY <1>10, <2>4 DEF SetupReturn
    <3>3. statusBar[key[p]] = "absent"
      BY <3>1 DEF statusBar
    <3>4. \A k \in Keys : statusBar'[k] = IF k = key[p] THEN "alive" ELSE statusBar[k]
      BY <3>1, <3>2 DEF statusBar
    <3>5. statusBar' = [statusBar EXCEPT ![key[p]] = "alive"]
      BY <3>4 DEF statusBar
    <3> QED
       BY <3>1, <3>3, <3>5, <2>1, <2>2, <2>3 DEF Contract!contractVars, Contract!Next,
         Contract!Create
  <2>5. CASE result[p] # "ok"
    <3>1. statusBar' = statusBar
       BY <1>10, <2>5 DEF SetupReturn, Return, LoginLock!RUnlock, SetupInv, SessionInv,
         ResultInv, statusBar
    <3> QED
      BY <3>1, <2>1, <2>2, <2>3 DEF Contract!contractVars, Contract!Next
  <2> QED
    BY <2>4, <2>5
<1>11. ASSUME NEW p \in Procs, RLockLogin(p) PROVE UNCHANGED Contract!contractVars
   BY <1>11 DEF RLockLogin, Goto, LoginLock!RLock, LoginLock!NoWriter, SetupInv,
     SessionInv, ResultInv, statusBar, doingBar, onBar, resBar, Contract!contractVars
<1>12. ASSUME NEW p \in Procs, Logout(p) PROVE UNCHANGED Contract!contractVars
   BY <1>12 DEF Logout, Goto, LoginLock!Holds, HSM!Logout, SetupInv, SessionInv,
     ResultInv, statusBar, doingBar, onBar, resBar, Contract!contractVars
<1>13. ASSUME NEW p \in Procs, Relogin(p) PROVE [Contract!Next]_(Contract!contractVars)
  <2> DEFINE Moved(l, r) == /\ pc' = [pc EXCEPT ![p] = l]
                         /\ result' = [result EXCEPT ![p] = r]
                         /\ key' = key
  <2>1. statusBar' = statusBar
     BY <1>13 DEF Relogin, Goto, GotoWith, Error, HSM!Login, HSM!LoggedIn, SetupInv,
       SessionInv, ResultInv, statusBar
  <2>2. doingBar' = doingBar
     BY <1>13 DEF Relogin, Goto, GotoWith, Error, HSM!Login, HSM!LoggedIn, SetupInv,
       SessionInv, ResultInv, doingBar
  <2>3. onBar' = onBar
     BY <1>13 DEF Relogin, Goto, GotoWith, Error, HSM!Login, HSM!LoggedIn, SetupInv,
       SessionInv, ResultInv, onBar
  <2>4. doingBar[p] = "sign" /\ resBar[p] = "pending"
     BY <1>13 DEF Relogin, Goto, GotoWith, Error, HSM!Login, HSM!LoggedIn, SetupInv,
       SessionInv, ResultInv, doingBar, resBar
  <2>5. CASE result' = result
    <3>1. resBar' = resBar
       BY <1>13, <2>5 DEF Relogin, Goto, GotoWith, Error, HSM!Login, HSM!LoggedIn,
         SetupInv, SessionInv, ResultInv, resBar
    <3> QED
      BY <3>1, <2>1, <2>2, <2>3, <2>4 DEF Contract!contractVars, Contract!Next
  <2>6. CASE Moved("unlockLogin", "error")
    <3>1. resBar' = [resBar EXCEPT ![p] = "error"]
      BY <1>13, <2>6 DEF Relogin, resBar
    <3> QED
       BY <3>1, <2>1, <2>2, <2>3, <2>4 DEF Contract!contractVars, Contract!Next,
         Contract!Finish, Contract!Fail, Contract!Settle
  <2> QED
    BY <1>13, <2>5, <2>6 DEF Relogin, Goto, GotoWith, Error, HSM!Login, HSM!LoggedIn
<1>14. ASSUME NEW p \in Procs, SignInit(p) PROVE [Contract!Next]_(Contract!contractVars)
  <2> DEFINE Moved(l, r) == /\ pc' = [pc EXCEPT ![p] = l]
                         /\ result' = [result EXCEPT ![p] = r]
                         /\ key' = key
  <2>1. statusBar' = statusBar
     BY <1>14 DEF SignInit, Goto, GotoWith, Error, LoginLock!Holds, HSM!SignInit,
       HSM!LoggedIn, SetupInv, SessionInv, ResultInv, statusBar
  <2>2. doingBar' = doingBar
     BY <1>14 DEF SignInit, Goto, GotoWith, Error, LoginLock!Holds, HSM!SignInit,
       HSM!LoggedIn, SetupInv, SessionInv, ResultInv, doingBar
  <2>3. onBar' = onBar
     BY <1>14 DEF SignInit, Goto, GotoWith, Error, LoginLock!Holds, HSM!SignInit,
       HSM!LoggedIn, SetupInv, SessionInv, ResultInv, onBar
  <2>4. doingBar[p] = "sign" /\ resBar[p] = "pending"
     BY <1>14 DEF SignInit, Goto, GotoWith, Error, LoginLock!Holds, HSM!SignInit,
       HSM!LoggedIn, SetupInv, SessionInv, ResultInv, doingBar, resBar
  <2>5. CASE result' = result
    <3>1. resBar' = resBar
       BY <1>14, <2>5 DEF SignInit, Goto, GotoWith, Error, LoginLock!Holds,
         HSM!SignInit, HSM!LoggedIn, SetupInv, SessionInv, ResultInv, resBar
    <3> QED
      BY <3>1, <2>1, <2>2, <2>3, <2>4 DEF Contract!contractVars, Contract!Next
  <2>6. CASE Moved("unlockLogin", "error")
    <3>1. resBar' = [resBar EXCEPT ![p] = "error"]
      BY <1>14, <2>6 DEF SignInit, resBar
    <3> QED
       BY <3>1, <2>1, <2>2, <2>3, <2>4 DEF Contract!contractVars, Contract!Next,
         Contract!Finish, Contract!Fail, Contract!Settle
  <2> QED
     BY <1>14, <2>5, <2>6 DEF SignInit, Goto, GotoWith, Error, LoginLock!Holds,
       HSM!SignInit, HSM!LoggedIn
<1>15. ASSUME NEW p \in Procs, SignSize(p) PROVE [Contract!Next]_(Contract!contractVars)
  <2> DEFINE Moved(l, r) == /\ pc' = [pc EXCEPT ![p] = l]
                         /\ result' = [result EXCEPT ![p] = r]
                         /\ key' = key
  <2>1. statusBar' = statusBar
     BY <1>15 DEF SignSize, Goto, GotoWith, HSM!FailOperation, HSM!EndOperation,
       SetupInv, SessionInv, ResultInv, statusBar
  <2>2. doingBar' = doingBar
     BY <1>15 DEF SignSize, Goto, GotoWith, HSM!FailOperation, HSM!EndOperation,
       SetupInv, SessionInv, ResultInv, doingBar
  <2>3. onBar' = onBar
     BY <1>15 DEF SignSize, Goto, GotoWith, HSM!FailOperation, HSM!EndOperation,
       SetupInv, SessionInv, ResultInv, onBar
  <2>4. doingBar[p] = "sign" /\ resBar[p] = "pending"
     BY <1>15 DEF SignSize, Goto, GotoWith, HSM!FailOperation, HSM!EndOperation,
       SetupInv, SessionInv, ResultInv, doingBar, resBar
  <2>5. CASE result' = result
    <3>1. resBar' = resBar
       BY <1>15, <2>5 DEF SignSize, Goto, GotoWith, HSM!FailOperation, HSM!EndOperation,
         SetupInv, SessionInv, ResultInv, resBar
    <3> QED
      BY <3>1, <2>1, <2>2, <2>3, <2>4 DEF Contract!contractVars, Contract!Next
  <2>6. CASE Moved("unlockLogin", "error")
    <3>1. resBar' = [resBar EXCEPT ![p] = "error"]
      BY <1>15, <2>6 DEF SignSize, resBar
    <3> QED
       BY <3>1, <2>1, <2>2, <2>3, <2>4 DEF Contract!contractVars, Contract!Next,
         Contract!Finish, Contract!Fail, Contract!Settle
  <2> QED
     BY <1>15, <2>5, <2>6 DEF SignSize, Goto, GotoWith, HSM!FailOperation,
       HSM!EndOperation
<1>16. ASSUME NEW p \in Procs, SignData(p) PROVE [Contract!Next]_(Contract!contractVars)
  <2> DEFINE Moved(l, r) == /\ pc' = [pc EXCEPT ![p] = l]
                         /\ result' = [result EXCEPT ![p] = r]
                         /\ key' = key
  <2>1. statusBar' = statusBar
     BY <1>16 DEF SignData, GotoWith, HSM!FailOperation, HSM!EndOperation, SetupInv,
       SessionInv, ResultInv, statusBar
  <2>2. doingBar' = doingBar
     BY <1>16 DEF SignData, GotoWith, HSM!FailOperation, HSM!EndOperation, SetupInv,
       SessionInv, ResultInv, doingBar
  <2>3. onBar' = onBar
     BY <1>16 DEF SignData, GotoWith, HSM!FailOperation, HSM!EndOperation, SetupInv,
       SessionInv, ResultInv, onBar
  <2>4. doingBar[p] = "sign" /\ resBar[p] = "pending"
     BY <1>16 DEF SignData, GotoWith, HSM!FailOperation, HSM!EndOperation, SetupInv,
       SessionInv, ResultInv, doingBar, resBar
  <2>5. CASE result' = [result EXCEPT ![p] = "ok"]
    <3>1. resBar' = [resBar EXCEPT ![p] = "ok"]
      <4>1. pc' = [pc EXCEPT ![p] = "unlockLogin"] /\ key' = key
        BY <1>16 DEF SignData, GotoWith
      <4> QED
        BY <1>16, <2>5, <4>1 DEF SignData, resBar
    <3>2. statusBar[onBar[p]] = "alive"
       BY <1>16, <2>5 DEF SignData, GotoWith, HSM!FailOperation, HSM!EndOperation,
         SetupInv, SessionInv, ResultInv, statusBar, onBar
    <3> QED
       BY <3>1, <3>2, <2>1, <2>2, <2>3, <2>4 DEF Contract!contractVars, Contract!Next,
         Contract!Finish, Contract!Succeed, Contract!Settle
  <2>6. CASE Moved("unlockLogin", "error")
    <3>1. resBar' = [resBar EXCEPT ![p] = "error"]
      BY <1>16, <2>6 DEF SignData, resBar
    <3> QED
       BY <3>1, <2>1, <2>2, <2>3, <2>4 DEF Contract!contractVars, Contract!Next,
         Contract!Finish, Contract!Fail, Contract!Settle
  <2> QED
    BY <1>16, <2>5, <2>6 DEF SignData, GotoWith, HSM!FailOperation, HSM!EndOperation
<1>17. ASSUME NEW p \in Procs, UnlockLogin(p) PROVE UNCHANGED Contract!contractVars
   BY <1>17 DEF UnlockLogin, Goto, LoginLock!Unlock, LoginLock!RUnlock, SetupInv,
     SessionInv, ResultInv, statusBar, doingBar, onBar, resBar, Contract!contractVars
<1>18. ASSUME NEW p \in Procs, UnlockSession(p)
       PROVE  [Contract!Next]_(Contract!contractVars)
  <2>1. statusBar' = statusBar
    BY <1>18 DEF UnlockSession, Return, SetupInv, SessionInv, ResultInv, statusBar
  <2>2. doingBar' = [doingBar EXCEPT ![p] = "none"]
    BY <1>18 DEF UnlockSession, Return, SetupInv, SessionInv, ResultInv, doingBar
  <2>3. onBar' = [onBar EXCEPT ![p] = NoKey]
    BY <1>18 DEF UnlockSession, Return, SetupInv, SessionInv, ResultInv, onBar
  <2>4. resBar' = [resBar EXCEPT ![p] = "pending"]
    BY <1>18 DEF UnlockSession, Return, SetupInv, SessionInv, ResultInv, resBar
  <2>5. resBar[p] # "pending"
    BY <1>18 DEF UnlockSession, Return, SetupInv, SessionInv, ResultInv, resBar
  <2> QED
     BY <2>1, <2>2, <2>3, <2>4, <2>5 DEF Contract!contractVars, Contract!Next,
       Contract!Return, Contract!Finish
<1>19. ASSUME NEW p \in Procs, Close(p) PROVE [Contract!Next]_(Contract!contractVars)
  <2>1. doingBar' = doingBar
     BY <1>19 DEF Close, GotoWith, CloseIgnored, HSM!CloseSession, SetupInv, SessionInv,
       ResultInv, doingBar
  <2>2. onBar' = onBar
     BY <1>19 DEF Close, GotoWith, CloseIgnored, HSM!CloseSession, SetupInv, SessionInv,
       ResultInv, onBar
  <2>3. resBar' = [resBar EXCEPT ![p] = "done"]
     BY <1>19 DEF Close, GotoWith, CloseIgnored, HSM!CloseSession, SetupInv, SessionInv,
       ResultInv, resBar
  <2>4. statusBar' = [statusBar EXCEPT ![key[p]] = "dead"]
    <3>1. key[p] \in created
      BY <1>19 DEF Close, SetupInv
    <3>2. created' = created /\ session' = [session EXCEPT ![key[p]] = FALSE]
      BY <1>19 DEF Close
    <3>3. ASSUME NEW k \in Keys
          PROVE  statusBar'[k] = IF k = key[p] THEN "dead" ELSE statusBar[k]
      <4>1. session'[k] = IF k = key[p] THEN FALSE ELSE session[k]
        BY <3>2
      <4> QED
        BY <3>1, <3>2, <4>1 DEF statusBar
    <3> QED
      BY <3>3 DEF statusBar
  <2>5. doingBar[p] = "destroy" /\ resBar[p] = "pending" /\ onBar[p] = key[p]
    <3>1. pc[p] = "close" /\ result[p] = "pending"
      BY <1>19 DEF Close, ResultInv
    <3> QED
      BY <3>1 DEF doingBar, onBar, resBar
  <2> QED
     BY <2>1, <2>2, <2>3, <2>4, <2>5 DEF Contract!contractVars, Contract!Next,
       Contract!Finish, Contract!Kill, Contract!Settle
<1>20. ASSUME NEW p \in Procs, SignLock(p) PROVE [Contract!Next]_(Contract!contractVars)
  <2> DEFINE Moved(l, r) == /\ pc' = [pc EXCEPT ![p] = l]
                         /\ result' = [result EXCEPT ![p] = r]
                         /\ key' = key
  <2>1. statusBar' = statusBar
     BY <1>20 DEF SignLock, Goto, GotoWith, LockSession, SetupInv, SessionInv,
       ResultInv, statusBar
  <2>2. doingBar' = doingBar
     BY <1>20 DEF SignLock, Goto, GotoWith, LockSession, SetupInv, SessionInv,
       ResultInv, doingBar
  <2>3. onBar' = onBar
     BY <1>20 DEF SignLock, Goto, GotoWith, LockSession, SetupInv, SessionInv,
       ResultInv, onBar
  <2>4. doingBar[p] = "sign" /\ resBar[p] = "pending" /\ onBar[p] = key[p]
     BY <1>20 DEF SignLock, Goto, GotoWith, LockSession, SetupInv, SessionInv,
       ResultInv, doingBar, onBar, resBar
  <2>5. CASE session[key[p]]
    <3>1. resBar' = resBar
       BY <1>20, <2>5 DEF SignLock, Goto, GotoWith, LockSession, SetupInv, SessionInv,
         ResultInv, resBar
    <3> QED
      BY <3>1, <2>1, <2>2, <2>3, <2>4 DEF Contract!contractVars, Contract!Next
  <2>6. CASE ~session[key[p]]
    <3>1. Moved("unlockSession", "dead")
      BY <1>20, <2>6 DEF SignLock, Goto, GotoWith, LockSession
    <3>2. resBar' = [resBar EXCEPT ![p] = "dead"]
      BY <1>20, <3>1 DEF SignLock, SetupInv, ResultInv, resBar
    <3>3. statusBar[key[p]] = "dead"
      BY <1>20, <2>6 DEF SignLock, SetupInv, statusBar
    <3> QED
       BY <3>2, <3>3, <2>1, <2>2, <2>3, <2>4 DEF Contract!contractVars, Contract!Next,
         Contract!Finish, Contract!Refuse, Contract!Settle
  <2> QED
    BY <2>5, <2>6
<1>21. ASSUME NEW p \in Procs, LockLogin(p) PROVE UNCHANGED Contract!contractVars
   BY <1>21 DEF LockLogin, Goto, LoginLock!Lock, LoginLock!NoWriter, SetupInv,
     SessionInv, ResultInv, statusBar, doingBar, onBar, resBar, Contract!contractVars
<1>22. ASSUME NEW p \in Procs, DestroyLock(p)
       PROVE  [Contract!Next]_(Contract!contractVars)
  <2> DEFINE Moved(l, r) == /\ pc' = [pc EXCEPT ![p] = l]
                         /\ result' = [result EXCEPT ![p] = r]
                         /\ key' = key
  <2>1. statusBar' = statusBar
     BY <1>22 DEF DestroyLock, Goto, GotoWith, LockSession, SetupInv, SessionInv,
       ResultInv, statusBar
  <2>2. doingBar' = doingBar
     BY <1>22 DEF DestroyLock, Goto, GotoWith, LockSession, SetupInv, SessionInv,
       ResultInv, doingBar
  <2>3. onBar' = onBar
     BY <1>22 DEF DestroyLock, Goto, GotoWith, LockSession, SetupInv, SessionInv,
       ResultInv, onBar
  <2>4. doingBar[p] = "destroy" /\ resBar[p] = "pending" /\ onBar[p] = key[p]
     BY <1>22 DEF DestroyLock, Goto, GotoWith, LockSession, SetupInv, SessionInv,
       ResultInv, doingBar, onBar, resBar
  <2>5. CASE session[key[p]]
    <3>1. resBar' = resBar
       BY <1>22, <2>5 DEF DestroyLock, Goto, GotoWith, LockSession, SetupInv,
         SessionInv, ResultInv, resBar
    <3> QED
      BY <3>1, <2>1, <2>2, <2>3, <2>4 DEF Contract!contractVars, Contract!Next
  <2>6. CASE ~session[key[p]]
    <3>1. Moved("unlockSession", "done")
      BY <1>22, <2>6 DEF DestroyLock, Goto, GotoWith, LockSession
    <3>2. resBar' = [resBar EXCEPT ![p] = "done"]
      BY <1>22, <3>1 DEF DestroyLock, SetupInv, ResultInv, resBar
    <3>3. statusBar[key[p]] = "dead"
      BY <1>22, <2>6 DEF DestroyLock, SetupInv, statusBar
    <3>4. statusBar = [statusBar EXCEPT ![key[p]] = "dead"]
      BY <3>3 DEF statusBar
    <3> QED
       BY <3>2, <3>4, <2>1, <2>2, <2>3, <2>4 DEF Contract!contractVars, Contract!Next,
         Contract!Finish, Contract!Kill, Contract!Settle
  <2> QED
    BY <2>5, <2>6
<1>23. CASE UNCHANGED vars
  BY <1>23 DEF Contract!contractVars, statusBar, doingBar, onBar, resBar
<1> QED
   BY <1>1, <1>2, <1>3, <1>4, <1>5, <1>6, <1>7, <1>8, <1>9, <1>10, <1>11, <1>12, <1>13,
     <1>14, <1>15, <1>16, <1>17, <1>18, <1>19, <1>20, <1>21, <1>22, <1>23 DEF Next,
     Begin, Step, Acquire

-----------------------------------------------------------------------------
(* Theorems *)

\* Every variable of Key keeps its type, with any number of goroutines.
THEOREM TypeCorrect == SafeSpec => []TypeOK
  BY InductiveInvariant, PTL DEF IInv

\* Whoever needs the login has it, or a re-login has failed before.
THEOREM LoginIsHeld == SafeSpec => []LoginHeld
<1>1. IInv => LoginHeld
  BY DEF IInv, LoginInv
<1> QED
  BY <1>1, InductiveInvariant, PTL

\* No token call is made on a session that is closed.
THEOREM SessionsAreOpen == SafeSpec => []NoUseAfterClose
  BY IInvNoUseAfterClose, InductiveInvariant, PTL

\* A goroutine signs with the operation it has itself begun.
THEOREM OperationsAreOwn == SafeSpec => []OwnOperation
<1>1. IInv => OwnOperation
  BY DEF IInv
<1> QED
  BY <1>1, InductiveInvariant, PTL

\* No session is forgotten on the token, whatever fails during New.
THEOREM NothingLeaks == SafeSpec => []NoSessionLeak
<1>1. IInv => NoSessionLeak
  BY DEF IInv, SessionInv
<1> QED
  BY <1>1, InductiveInvariant, PTL

\* The login is never taken from a goroutine that needs it.
THEOREM LogoutIsExclusive == SafeSpec => LogoutExclusive
<1>1. IInv /\ [Next]_vars
        => [HSM!LoggedIn /\ ~HSM!LoggedIn' => \A p \in Procs : ~UsesLogin(p)]_vars
  BY LogoutStep
<1> QED
  BY <1>1, InductiveInvariant, PTL DEF SafeSpec, LogoutExclusive

\* Key implements the safety part of the contract of a destroyable signer.
THEOREM KeyImplementsContract == SafeSpec => Contract!SafeSpec
<1>1. Init => Contract!Init
  BY DEF Init, Contract!Init, statusBar, doingBar, onBar, resBar, OnKey
<1>2. IInv /\ [Next]_vars => [Contract!Next]_(Contract!contractVars)
  BY ContractStep
<1> QED
  BY <1>1, <1>2, InductiveInvariant, PTL DEF SafeSpec, Contract!SafeSpec

\* Goroutines in New, Sign and Destroy never all wait for each other, whatever
\* their number and that of the Keys and their kinds: waits for sessionMu end at
\* the login lock, and those for the login lock at one that runs.
\* (sessionMu before login in Sign.)
THEOREM LocksDoNotDeadlock == SafeSpec => []SomebodyRuns
  BY IInvSomebodyRuns, InductiveInvariant, PTL
=============================================================================
