------------------------------ MODULE Registry -----------------------------
(***************************************************************************)
(* What signer.New shares between Keys: the modules loaded so far, by      *)
(* path, under modulesMu, and the login lock of each token, by module and  *)
(* label, under loginLocksMu.                                              *)
(*                                                                         *)
(* Two paths may name one library, of which the process has one copy: the  *)
(* second C_Initialize is refused.  A Ctx is named by the path it was      *)
(* loaded from.                                                            *)
(***************************************************************************)
EXTENDS Naturals, FiniteSets

CONSTANTS Procs,   \* goroutines that call New
          Paths, Libraries,
          Library, \* Library[m]: what the path m names
          Labels,  \* token labels
          Locks,   \* login locks, each made once: bounds those of a run
          MaxRefs, \* bound on the references of one library
          Nobody, NoLock

ASSUME LibraryAssumption == Library \in [Paths -> Libraries]
ASSUME TokensAssumption == Paths # {} /\ Labels # {}
ASSUME MaxRefsAssumption == MaxRefs \in Nat
ASSUME SentinelAssumption == Nobody \notin Procs /\ NoLock \notin Locks

VARIABLES modules,      \* paths of the modules cached
          modulesMu,    \* owner of modulesMu
          loginLocks,   \* loginLocks[t]: lock of token t, or NoLock
          loginLocksMu, \* owner of loginLocksMu
          refs,         \* refs[l]: dlopen references to library l
          initialized,  \* libraries whose C_Initialize has succeeded
          pc, token,    \* token[p]: module path and label of p's New
          found,        \* found[p]: the lock p found, or NoLock
          keys          \* the Keys made, with their login lock

Tokens == Paths \X Labels
registryVars == <<modules, modulesMu, loginLocks, loginLocksMu>>
libraryVars == <<refs, initialized>>
vars == <<registryVars, libraryVars, pc, token, found, keys>>

PCs == {"idle", "initialize", "lookup", "resolve", "cInitialize", "loginLock",
        "insert", "setup"}
KeyRecords == [token: Tokens, login: Locks]

TypeOK ==
  /\ modules \subseteq Paths
  /\ modulesMu \in Procs \cup {Nobody}
  /\ loginLocks \in [Tokens -> Locks \cup {NoLock}]
  /\ loginLocksMu \in Procs \cup {Nobody}
  /\ refs \in [Libraries -> 0..MaxRefs]
  /\ initialized \subseteq Libraries
  /\ pc \in [Procs -> PCs]
  /\ token \in [Procs -> Tokens]
  /\ found \in [Procs -> Locks \cup {NoLock}]
  /\ keys \subseteq KeyRecords

Init ==
  /\ modules = {} /\ initialized = {} /\ keys = {}
  /\ modulesMu = Nobody /\ loginLocksMu = Nobody
  /\ loginLocks = [t \in Tokens |-> NoLock]
  /\ refs = [l \in Libraries |-> 0]
  /\ pc = [p \in Procs |-> "idle"]
  /\ token = [p \in Procs |-> CHOOSE t \in Tokens : TRUE]
  /\ found = [p \in Procs |-> NoLock]

Path(p) == token[p][1]
Goto(p, l) == pc' = [pc EXCEPT ![p] = l]
AddRef(p) == refs' = [refs EXCEPT ![Library[Path(p)]] = @ + 1]
DropRef(p) == refs' = [refs EXCEPT ![Library[Path(p)]] = @ - 1]

NewCall(p, t) ==
  /\ pc[p] = "idle"
  /\ token' = [token EXCEPT ![p] = t]
  /\ Goto(p, "initialize")
  /\ UNCHANGED <<registryVars, libraryVars, found, keys>>

-----------------------------------------------------------------------------
(* initialize: everything from LockModules on happens under modulesMu, which *)
(* is released on every way out                                              *)

MutLockModules(p) == \* modulesMu is not taken
  /\ pc[p] = "initialize"
  /\ Goto(p, "lookup")
  /\ UNCHANGED <<registryVars, libraryVars, token, found, keys>>

LockModules(p) ==
  /\ pc[p] = "initialize"
  /\ modulesMu = Nobody
  /\ modulesMu' = p
  /\ Goto(p, "lookup")
  /\ UNCHANGED <<modules, loginLocks, loginLocksMu, libraryVars, token, found, keys>>

MutLeave(p, l) == \* an error keeps modulesMu
  /\ Goto(p, l)
  /\ modulesMu' = IF l = "idle" THEN modulesMu ELSE Nobody

Leave(p, l) == Goto(p, l) /\ modulesMu' = Nobody

Cached(p) ==
  /\ pc[p] = "lookup"
  /\ Path(p) \in modules
  /\ Leave(p, "loginLock")
  /\ UNCHANGED <<modules, loginLocks, loginLocksMu, libraryVars, token, found, keys>>

\* pkcs11.New opens the library, once more if another path has it open.
Dlopen(p) ==
  /\ pc[p] = "lookup"
  /\ Path(p) \notin modules
  /\ \/ /\ refs[Library[Path(p)]] < MaxRefs
        /\ AddRef(p)
        /\ Goto(p, "resolve")
        /\ UNCHANGED modulesMu
     \/ Leave(p, "idle") /\ UNCHANGED refs
  /\ UNCHANGED <<modules, loginLocks, loginLocksMu, initialized, token, found, keys>>

MutResolve(p) == \* the library is closed whatever C_GetFunctionList answers
  /\ pc[p] = "resolve"
  /\ DropRef(p)
  /\ \/ Goto(p, "cInitialize") /\ UNCHANGED modulesMu
     \/ Leave(p, "idle")
  /\ UNCHANGED <<modules, loginLocks, loginLocksMu, initialized, token, found, keys>>

\* The function list is read, or the library is closed again.
Resolve(p) ==
  /\ pc[p] = "resolve"
  /\ \/ Goto(p, "cInitialize") /\ UNCHANGED <<modulesMu, refs>>
     \/ Leave(p, "idle") /\ DropRef(p)
  /\ UNCHANGED <<modules, loginLocks, loginLocksMu, initialized, token, found, keys>>

MutInitialize(p) == \* the module is cached before Initialize has succeeded
  /\ pc[p] = "cInitialize"
  /\ modules' = modules \cup {Path(p)}
  /\ \/ /\ Library[Path(p)] \notin initialized
        /\ initialized' = initialized \cup {Library[Path(p)]}
        /\ Leave(p, "loginLock")
     \/ Leave(p, "idle") /\ UNCHANGED initialized
  /\ UNCHANGED <<loginLocks, loginLocksMu, refs, token, found, keys>>

\* When C_Initialize fails the library stays open.
Initialize(p) ==
  /\ pc[p] = "cInitialize"
  /\ \/ /\ Library[Path(p)] \notin initialized
        /\ initialized' = initialized \cup {Library[Path(p)]}
        /\ modules' = modules \cup {Path(p)}
        /\ Leave(p, "loginLock")
     \/ Leave(p, "idle") /\ UNCHANGED <<initialized, modules>>
  /\ UNCHANGED <<loginLocks, loginLocksMu, refs, token, found, keys>>

-----------------------------------------------------------------------------
(* loginLock *)

MutLockLoginLocks(p) == \* loginLocksMu is not taken
  /\ pc[p] = "loginLock"
  /\ found' = [found EXCEPT ![p] = loginLocks[token[p]]]
  /\ Goto(p, "insert")
  /\ UNCHANGED <<registryVars, libraryVars, token, keys>>

LockLoginLocks(p) ==
  /\ pc[p] = "loginLock"
  /\ loginLocksMu = Nobody
  /\ loginLocksMu' = p
  /\ found' = [found EXCEPT ![p] = loginLocks[token[p]]]
  /\ Goto(p, "insert")
  /\ UNCHANGED <<modules, modulesMu, loginLocks, libraryVars, token, keys>>

InUse == {found[p] : p \in Procs} \cup {loginLocks[t] : t \in Tokens} \cup
         {k.login : k \in keys}

MutInsertLock(p) == \* a new lock is kept and not returned
  /\ pc[p] = "insert"
  /\ \/ found[p] # NoLock /\ UNCHANGED loginLocks
     \/ /\ found[p] = NoLock
        /\ \E l \in Locks \ InUse : loginLocks' = [loginLocks EXCEPT ![token[p]] = l]
  /\ loginLocksMu' = Nobody
  /\ Goto(p, "setup")
  /\ UNCHANGED <<modules, modulesMu, libraryVars, token, found, keys>>

InsertLock(p) ==
  /\ pc[p] = "insert"
  /\ \/ found[p] # NoLock /\ UNCHANGED <<loginLocks, found>>
     \/ /\ found[p] = NoLock
        /\ \E l \in Locks \ InUse :
             /\ loginLocks' = [loginLocks EXCEPT ![token[p]] = l]
             /\ found' = [found EXCEPT ![p] = l]
  /\ loginLocksMu' = Nobody
  /\ Goto(p, "setup")
  /\ UNCHANGED <<modules, modulesMu, libraryVars, token, keys>>

-----------------------------------------------------------------------------
\* The rest of setup is that of module Key: it makes a Key or fails.
Setup(p) ==
  /\ pc[p] = "setup"
  /\ \/ keys' = keys \cup {[token |-> token[p], login |-> found[p]]}
     \/ UNCHANGED keys
  /\ found' = [found EXCEPT ![p] = NoLock]
  /\ Goto(p, "idle")
  /\ UNCHANGED <<registryVars, libraryVars, token>>

Step(p) ==
  \/ LockModules(p) \/ Cached(p) \/ Dlopen(p) \/ Resolve(p) \/ Initialize(p)
  \/ LockLoginLocks(p) \/ InsertLock(p) \/ Setup(p)

Next == \E p \in Procs : Step(p) \/ \E t \in Tokens : NewCall(p, t)

\* A goroutine that can run does.  sync.Mutex hands itself to a waiter in the
\* end, so waiting for one that is free again and again is not for ever.
Fairness ==
  \A p \in Procs :
    /\ WF_vars(Step(p))
    /\ SF_vars(LockModules(p))
    /\ SF_vars(LockLoginLocks(p))

Spec == Init /\ [][Next]_vars /\ Fairness

-----------------------------------------------------------------------------
(* Properties *)

\* All Keys on one token of one library, made or being made, by whatever path,
\* share one login lock: what a Logout needs it for.  (loginLocks, which is
\* keyed by the Ctx and not by the library.)
Holding == keys \cup {[token |-> token[p], login |-> found[p]] :
                        p \in {q \in Procs : pc[q] = "setup"}}
SameToken(t, u) == Library[t[1]] = Library[u[1]] /\ t[2] = u[2]
OneLockPerToken ==
  \A k, l \in Holding : SameToken(k.token, l.token) => k.login = l.login

\* A New that is about to call C_Initialize does so for a path that is not cached; and
\* if the library is initialised, so that the call is refused, the client has named it
\* by two paths: one other path of it is cached, and only one.  However many News
\* with one path run at a time, none is refused because of another.  (initialize
\* looks, loads, initialises and inserts in one critical section.)
RefusedOnlyAcrossPaths ==
  \A p \in Procs : pc[p] = "cInitialize" =>
    /\ Path(p) \notin modules
    /\ Library[Path(p)] \in initialized =>
         \E m \in Paths \ {Path(p)} : {n \in modules : Library[n] = Library[Path(p)]} = {m}

\* A cached module, and so the module of every Key, is loaded and initialised;
\* a failed New of another path of the library does not unload it.
ModulesUsable ==
  /\ \A m \in modules : refs[Library[m]] > 0 /\ Library[m] \in initialized
  /\ \A k \in keys : k.token[1] \in modules

\* New returns, also after calls that failed.
CallsReturn == \A p \in Procs : pc[p] # "idle" ~> pc[p] = "idle"
=============================================================================
