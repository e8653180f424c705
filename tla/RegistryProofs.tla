--------------------------- MODULE RegistryProofs ---------------------------
(***************************************************************************)
(* The safety of the registries of signer.New for any number of            *)
(* goroutines, paths, libraries and tokens.                                *)
(*                                                                         *)
(* The two mutexes are tied to pc (MuInv).  With modulesMu held from the   *)
(* lookup to the insertion, a library is initialised exactly when one path *)
(* of it is cached (ModulesInv), so only one path of a library is in use   *)
(* and a token of a library is one entry of loginLocks (LocksInv).         *)
(***************************************************************************)
EXTENDS Registry, TLAPS

Loading == {"lookup", "resolve", "cInitialize"}
Loaded == {"loginLock", "insert", "setup"}

MuInv ==
  /\ \A p \in Procs : modulesMu = p <=> pc[p] \in Loading
  /\ \A p \in Procs : loginLocksMu = p <=> pc[p] = "insert"

\* A library has been initialised through the one path that is cached, and has the
\* reference of that path beside the one a New is about to give back.
ModulesInv ==
  /\ \A m \in modules : Library[m] \in initialized /\ refs[Library[m]] > 0
  /\ \A l \in initialized : \E m \in modules : Library[m] = l
  /\ \A m, n \in modules : Library[m] = Library[n] => m = n
  /\ \A p \in Procs : pc[p] \in {"resolve", "cInitialize"} =>
       /\ Path(p) \notin modules
       /\ refs[Library[Path(p)]] > 0
       /\ \A m \in modules : Library[m] = Library[Path(p)] => refs[Library[m]] > 1
  /\ \A p \in Procs : pc[p] \in Loaded => Path(p) \in modules
  /\ \A k \in keys : k.token[1] \in modules

\* A token's lock is entered once and is the one every Key of the token has.
LocksInv ==
  /\ \A p \in Procs : pc[p] \in {"insert", "setup"} => found[p] = loginLocks[token[p]]
  /\ \A p \in Procs : pc[p] = "setup" => found[p] # NoLock
  /\ \A k \in keys : k.login = loginLocks[k.token]

IInv ==
  /\ TypeOK
  /\ MuInv
  /\ ModulesInv
  /\ LocksInv

-----------------------------------------------------------------------------
(* The inductive invariant: one lemma per conjunct *)

\* The initial state satisfies the invariant.
LEMMA InitIInv == Init => IInv
<1> SUFFICES ASSUME Init PROVE IInv
  OBVIOUS
<1>1. (CHOOSE t \in Tokens : TRUE) \in Tokens
  <2>1. \E t \in Tokens : TRUE
    <3>1. PICK m \in Paths, a \in Labels : TRUE
      BY TokensAssumption
    <3>2. <<m, a>> \in Tokens
      BY <3>1 DEF Tokens
    <3> QED
      BY <3>2
  <2> QED
    BY <2>1, Zenon
<1>2. TypeOK
  BY <1>1, MaxRefsAssumption DEF Init, TypeOK, PCs
<1>3. MuInv /\ ModulesInv /\ LocksInv
  BY SentinelAssumption DEF Init, MuInv, ModulesInv, LocksInv, Loading, Loaded
<1> QED
  BY <1>2, <1>3 DEF IInv

\* Every step keeps every variable within its type; a reference is given back only
\* where one is held.
LEMMA TypeStep == TypeOK /\ ModulesInv /\ LocksInv /\ [Next]_vars => TypeOK'
<1> SUFFICES ASSUME TypeOK, ModulesInv, LocksInv, [Next]_vars PROVE TypeOK'
  OBVIOUS
<1> USE SentinelAssumption DEF TypeOK, vars, registryVars, libraryVars, PCs, Goto, Leave
<1>1. ASSUME NEW p \in Procs PROVE Path(p) \in Paths /\ Library[Path(p)] \in Libraries
  BY LibraryAssumption DEF Tokens, Path
<1>2. ASSUME NEW p \in Procs, NEW t \in Tokens, NewCall(p, t) PROVE TypeOK'
  BY <1>2 DEF NewCall
<1>3. ASSUME NEW p \in Procs, LockModules(p) PROVE TypeOK'
  BY <1>3 DEF LockModules
<1>4. ASSUME NEW p \in Procs, Cached(p) PROVE TypeOK'
  BY <1>4 DEF Cached
<1>5. ASSUME NEW p \in Procs, Dlopen(p) PROVE TypeOK'
  BY <1>1, <1>5, MaxRefsAssumption DEF Dlopen, AddRef
<1>6. ASSUME NEW p \in Procs, Resolve(p) PROVE TypeOK'
  <2>1. pc[p] = "resolve" /\ refs[Library[Path(p)]] > 0
    BY <1>6 DEF Resolve, ModulesInv
  <2> QED
    BY <1>1, <1>6, <2>1, MaxRefsAssumption DEF Resolve, DropRef
<1>7. ASSUME NEW p \in Procs, Initialize(p) PROVE TypeOK'
  BY <1>1, <1>7 DEF Initialize
<1>8. ASSUME NEW p \in Procs, LockLoginLocks(p) PROVE TypeOK'
  BY <1>8 DEF LockLoginLocks
<1>9. ASSUME NEW p \in Procs, InsertLock(p) PROVE TypeOK'
  BY <1>9 DEF InsertLock
<1>10. ASSUME NEW p \in Procs, Setup(p) PROVE TypeOK'
  <2>1. CASE keys' = keys
    BY <1>10, <2>1 DEF Setup
  <2>2. CASE keys' = keys \cup {[token |-> token[p], login |-> found[p]]}
    <3>1. found[p] \in Locks
      BY <1>10 DEF Setup, LocksInv
    <3> QED
      BY <1>10, <2>2, <3>1 DEF Setup, KeyRecords
  <2> QED
    BY <1>10, <2>1, <2>2 DEF Setup
<1>11. CASE UNCHANGED vars
  BY <1>11
<1> QED
  BY <1>2, <1>3, <1>4, <1>5, <1>6, <1>7, <1>8, <1>9, <1>10, <1>11 DEF Next, Step

\* Each mutex is owned by the goroutine in its critical section.
LEMMA MuStep == TypeOK /\ MuInv /\ [Next]_vars => MuInv'
<1> SUFFICES ASSUME TypeOK, MuInv, [Next]_vars PROVE MuInv'
  OBVIOUS
<1> USE SentinelAssumption DEF TypeOK, vars, registryVars, libraryVars, PCs, Goto, Leave,
        MuInv, Loading
<1>1. ASSUME NEW p \in Procs, NEW t \in Tokens, NewCall(p, t) PROVE MuInv'
  BY <1>1 DEF NewCall
<1>2. ASSUME NEW p \in Procs, LockModules(p) PROVE MuInv'
  BY <1>2 DEF LockModules
<1>3. ASSUME NEW p \in Procs, Cached(p) PROVE MuInv'
  BY <1>3 DEF Cached
<1>4. ASSUME NEW p \in Procs, Dlopen(p) PROVE MuInv'
  BY <1>4 DEF Dlopen
<1>5. ASSUME NEW p \in Procs, Resolve(p) PROVE MuInv'
  BY <1>5 DEF Resolve
<1>6. ASSUME NEW p \in Procs, Initialize(p) PROVE MuInv'
  BY <1>6 DEF Initialize
<1>7. ASSUME NEW p \in Procs, LockLoginLocks(p) PROVE MuInv'
  BY <1>7 DEF LockLoginLocks
<1>8. ASSUME NEW p \in Procs, InsertLock(p) PROVE MuInv'
  BY <1>8 DEF InsertLock
<1>9. ASSUME NEW p \in Procs, Setup(p) PROVE MuInv'
  BY <1>9 DEF Setup
<1>10. CASE UNCHANGED vars
  BY <1>10
<1> QED
  BY <1>1, <1>2, <1>3, <1>4, <1>5, <1>6, <1>7, <1>8, <1>9, <1>10 DEF Next, Step

\* Loading a module disturbs no other path: modulesMu excludes the other loaders,
\* and a library that is initialised refuses to be initialised again.
LEMMA ModulesStep == TypeOK /\ MuInv /\ ModulesInv /\ [Next]_vars => ModulesInv'
<1> SUFFICES ASSUME TypeOK, MuInv, ModulesInv, [Next]_vars PROVE ModulesInv'
  OBVIOUS
<1> USE SentinelAssumption DEF TypeOK, vars, registryVars, libraryVars, PCs, Goto, Leave,
        ModulesInv, Loaded
<1>1. /\ \A p \in Procs : Path(p) \in Paths /\ Library[Path(p)] \in Libraries
      /\ \A m \in modules : m \in Paths /\ Library[m] \in Libraries
      /\ \A l \in Libraries : refs[l] \in Nat
  BY LibraryAssumption, MaxRefsAssumption DEF Tokens, Path
<1>2. \A p, q \in Procs : pc[p] \in Loading /\ pc[q] \in Loading => p = q
  BY DEF MuInv
<1>3. ASSUME NEW p \in Procs, NEW t \in Tokens, NewCall(p, t) PROVE ModulesInv'
  BY <1>3 DEF NewCall, Path
<1>4. ASSUME NEW p \in Procs, LockModules(p) PROVE ModulesInv'
  BY <1>4 DEF LockModules, Path
<1>5. ASSUME NEW p \in Procs, Cached(p) PROVE ModulesInv'
  BY <1>5 DEF Cached, Path
<1>6. ASSUME NEW p \in Procs, Dlopen(p) PROVE ModulesInv'
  BY <1>1, <1>2, <1>6 DEF Dlopen, AddRef, Path, Loading
<1>7. ASSUME NEW p \in Procs, Resolve(p) PROVE ModulesInv'
  BY <1>1, <1>2, <1>7 DEF Resolve, DropRef, Path, Loading
<1>8. ASSUME NEW p \in Procs, Initialize(p) PROVE ModulesInv'
  BY <1>1, <1>2, <1>8 DEF Initialize, Path, Loading
<1>9. ASSUME NEW p \in Procs, LockLoginLocks(p) PROVE ModulesInv'
  BY <1>9 DEF LockLoginLocks, Path
<1>10. ASSUME NEW p \in Procs, InsertLock(p) PROVE ModulesInv'
  BY <1>10 DEF InsertLock, Path
<1>11. ASSUME NEW p \in Procs, Setup(p) PROVE ModulesInv'
  BY <1>11 DEF Setup, Path
<1>12. CASE UNCHANGED vars
  BY <1>12 DEF Path
<1> QED
  BY <1>3, <1>4, <1>5, <1>6, <1>7, <1>8, <1>9, <1>10, <1>11, <1>12 DEF Next, Step

\* The lock of a token never changes: loginLocksMu is held from the lookup to the
\* insertion, and only a missing lock is inserted.
LEMMA LocksStep == TypeOK /\ MuInv /\ LocksInv /\ [Next]_vars => LocksInv'
<1> SUFFICES ASSUME TypeOK, MuInv, LocksInv, [Next]_vars PROVE LocksInv'
  OBVIOUS
<1> USE SentinelAssumption DEF TypeOK, vars, registryVars, libraryVars, PCs, Goto, Leave,
        LocksInv
<1>1. \A p, q \in Procs : pc[p] = "insert" /\ pc[q] = "insert" => p = q
  BY DEF MuInv
<1>2. ASSUME NEW p \in Procs, NEW t \in Tokens, NewCall(p, t) PROVE LocksInv'
  BY <1>2 DEF NewCall
<1>3. ASSUME NEW p \in Procs, LockModules(p) \/ Cached(p) PROVE LocksInv'
  BY <1>3 DEF LockModules, Cached
<1>4. ASSUME NEW p \in Procs, Dlopen(p) \/ Resolve(p) PROVE LocksInv'
  BY <1>4 DEF Dlopen, Resolve
<1>5. ASSUME NEW p \in Procs, Initialize(p) PROVE LocksInv'
  BY <1>5 DEF Initialize
<1>6. ASSUME NEW p \in Procs, LockLoginLocks(p) PROVE LocksInv'
  BY <1>6 DEF LockLoginLocks
<1>7. ASSUME NEW p \in Procs, InsertLock(p) PROVE LocksInv'
  BY <1>1, <1>7 DEF InsertLock, KeyRecords
<1>8. ASSUME NEW p \in Procs, Setup(p) PROVE LocksInv'
  BY <1>8 DEF Setup
<1>9. CASE UNCHANGED vars
  BY <1>9
<1> QED
  BY <1>2, <1>3, <1>4, <1>5, <1>6, <1>7, <1>8, <1>9 DEF Next, Step

\* The invariant is inductive ...
LEMMA NextIInv == IInv /\ [Next]_vars => IInv'
  BY TypeStep, MuStep, ModulesStep, LocksStep DEF IInv

\* ... and so holds in every state.
LEMMA InductiveInvariant == Spec => []IInv
  BY InitIInv, NextIInv, PTL DEF Spec

-----------------------------------------------------------------------------
(* Theorems *)

\* Every variable keeps its type.
THEOREM TypeCorrect == Spec => []TypeOK
<1>1. IInv => TypeOK
  BY DEF IInv
<1> QED
  BY <1>1, InductiveInvariant, PTL

\* Keys of one token share their login lock even where the library has several
\* paths, since only one of them gets past initialize.
THEOREM TokensHaveOneLock == Spec => []OneLockPerToken
<1>1. ASSUME IInv, NEW k \in Holding
      PROVE  k.token \in Tokens /\ k.token[1] \in modules /\ k.login = loginLocks[k.token]
  <2>1. CASE k \in keys
    BY <1>1, <2>1 DEF IInv, TypeOK, KeyRecords, ModulesInv, LocksInv
  <2>2. ASSUME NEW p \in Procs, pc[p] = "setup", k = [token |-> token[p], login |-> found[p]]
        PROVE  k.token \in Tokens /\ k.token[1] \in modules /\ k.login = loginLocks[k.token]
    BY <1>1, <2>2 DEF IInv, TypeOK, ModulesInv, LocksInv, Loaded, Path
  <2> QED
    BY <1>1, <2>1, <2>2 DEF Holding
<1>2. ASSUME IInv, NEW k \in Holding, NEW l \in Holding, SameToken(k.token, l.token)
      PROVE  k.login = l.login
  <2>1. k.token[1] = l.token[1]
    BY <1>1, <1>2 DEF SameToken, IInv, ModulesInv
  <2>2. k.token = l.token
    BY <1>1, <1>2, <2>1 DEF SameToken, Tokens
  <2> QED
    BY <1>1, <1>2, <2>2
<1>3. IInv => OneLockPerToken
  BY <1>2 DEF OneLockPerToken
<1> QED
  BY <1>3, InductiveInvariant, PTL

\* Whoever calls C_Initialize has a path that is not cached, and is refused because the
\* library is initialised only if exactly one other path of that library is.
\* (initialize, under modulesMu.)
THEOREM OnlyOtherPathsRefuse == Spec => []RefusedOnlyAcrossPaths
<1>1. ASSUME IInv, NEW p \in Procs, pc[p] = "cInitialize"
      PROVE  Path(p) \notin modules
  BY <1>1 DEF IInv, ModulesInv
<1>2. ASSUME IInv, NEW p \in Procs, pc[p] = "cInitialize", Library[Path(p)] \in initialized
      PROVE  \E m \in Paths \ {Path(p)} :
                {n \in modules : Library[n] = Library[Path(p)]} = {m}
  <2>1. PICK m \in modules : Library[m] = Library[Path(p)]
    BY <1>2 DEF IInv, ModulesInv
  <2>2. m \in Paths \ {Path(p)}
    BY <1>1, <1>2, <2>1 DEF IInv, TypeOK
  <2>3. \A n \in modules : Library[n] = Library[Path(p)] => n = m
    BY <1>2, <2>1 DEF IInv, ModulesInv
  <2>4. {n \in modules : Library[n] = Library[Path(p)]} = {m}
    BY <2>1, <2>3
  <2> QED
    BY <2>2, <2>4
<1>3. IInv => RefusedOnlyAcrossPaths
  BY <1>1, <1>2 DEF RefusedOnlyAcrossPaths
<1> QED
  BY <1>3, InductiveInvariant, PTL

\* The module of every Key stays loaded and initialised.
THEOREM CachedModulesUsable == Spec => []ModulesUsable
<1>1. IInv => ModulesUsable
  BY DEF IInv, ModulesInv, ModulesUsable
<1> QED
  BY <1>1, InductiveInvariant, PTL
=============================================================================
