# TLA+ models and proofs of gopkcs11

gopkcs11 calls PKCS#11 modules from Go without cgo. It has two layers: package
`pkcs11` (root directory), one method of `Ctx` per C function, and package
`signer`, which builds concurrency-safe `crypto.Signer`s, `Key` and `Pool`, on
top of it. This directory holds TLA+ models of the parts of both that keep
state and of the conversions between them and C, TLC configurations that check
them, and TLAPS proofs of the safety of nine of these models, for every instance.

    tlc -config KeySafety.cfg MCKey     # any configuration, with its MC module
    tlapm KeyProofs.tla                 # any of the ...Proofs modules

## The system

| Component | State | Operations | Module |
|---|---|---|---|
| `signer.Key` | session handle, private key handle, `sessionMu`; the token's login lock | `New` (`setup`), `Sign`, `Destroy` | `Key` |
| `signer.Pool` | channel of idle Keys, `destroyOnce` | `NewPool`, `Sign`, `Destroy` | `Pool` |
| registries of `signer` | `modules` by path, `loginLocks` by module and label, a mutex each | `initialize`, `loginLock` | `Registry` |
| signature parameters and encodings | none | `signingParams`, `digestInfoPrefix`, `pkcs11ToRFC5480`, ... | `Signing`, partly |
| cryptographic operations of `Ctx` | none in Go; the operations active on a session, in the token | `XxxInit`, `Xxx`, `XxxUpdate`, `XxxFinal`, dual functions, `twoPassOutput*` | `Operation` |
| queries of `Ctx` | none | `GetSlotList`, `GetMechanismList`, `GetAttributeValue` | `Query` |
| `GCMParams` | `ops`, memory mapped for each operation; `mu` | `marshal`, `IV`, `Free` | `GCMParams` |
| module loading | the dlopen handle, the function table | `loadModule`, `close` | `Lifecycle`, `Registry`, `Layout`, partly |
| `Ctx` life cycle | `fl` | `New`, `Initialize`, `Finalize`, `Destroy`, `WaitForSlotEvent` | `Lifecycle` |
| memory passed to C | what the Pinners of a running method pin | `arena`, `marshalAttributes`, `marshalMechanism`, every method | `Pinning` |
| sessions, login, objects, keys of `Ctx` | none | one C call each | `Pinning`; what `signer` uses is in `Token` |
| structures, mechanism parameters, labels | none | offsets and sizes, `padString`, `trimPaddedString` | `Layout`, `Conversions` |
| errors, constants, `constgen` | none | tables and their generator | not modelled |

How they meet. A Key reaches the token through the `ctx` interface, which
`*pkcs11.Ctx` implements. `New` asks `initialize` for the module and `loginLock`
for the lock that all Keys of the token share. A Pool owns N Keys of one token
and lends one to each `Sign`. `Sign` of a Key is `SignInit` and `Sign` of `Ctx`,
the second of which is a two-pass call. Whoever starts an operation with
`GCMParams` makes `marshalMechanism` call `marshal`.

What is hard:

- The login is a property of the application, not of a session. An
  always-authenticate `Sign` must log out and in again, which logs out the
  session of every other Key while it lasts, and for good if it fails.
- Three kinds of lock per token (`sessionMu`, the login lock, the registries'
  mutexes), error returns between them, and a token that may fail at any call.
- `SignInit` and `Sign`, or the size pass and the data pass of one method, are
  two calls with anything in between.
- `Destroy` may meet a `Sign` in flight, on a Key and on a Pool.
- Memory given to a C module that outlives the call it was given to, and Go memory
  that must not be collected or left pinned whatever a call does.
- A `Ctx` has no lock: `Destroy` may meet any method, the goroutine of
  `WaitForSlotEvent`, or another `Ctx` of the same library.
- Offsets, prefixes and tables written as numbers, where one wrong entry breaks
  one case of many.

## Modules

**RWMutex** is Go's `sync.RWMutex` as the package relies on it: an announced
writer keeps new readers out, and an `Unlock` admits every reader that waited.
A goroutine that has called `RLock` or `Lock` and does not own the lock yet is
parked: its next step has `Holds` as a guard.
**Token** is what the calls of `ctx` do to a token: open sessions, the login in
force, the sign operation active on each session. Both are external: the code
is not in this repository, and the models are what the signer may assume.
Where modules differ, they allow everything: operations may or may not survive a
Logout, a failed `C_Sign` may or may not end its operation, closing the last
session may or may not end the login.

**Key** composes the two. Every goroutine has a place `pc`, the Key it works on
and how its call will end; each action is one lock operation or one token call
with the Go code up to the next one. A lock operation and the test that follows
it are one action, since nothing can come between. Where a call can fail, the
failure is a disjunct that goes where the code goes. Finding objects is one
action each for the public and the private key: it changes nothing on the token
that outlives it, since a failure closes the session. `created` is the set of
Keys that `New` has returned: one may be signed with or destroyed by anyone,
and `New` is called once at a time for each, because a Key under construction
has one owner. Two variables only remember: `lostLogin`, that the last re-login
failed with the token logged out, and `unclosed`, the sessions whose
`CloseSession` was refused.

**SignerContract** is what a `crypto.Signer` that can be destroyed promises:
`Sign` and `Destroy` take effect at one moment between call and return, a
`Sign` reports a destroyed signer only once it is destroyed as a whole, and
every call returns. Key implements it with one signer per Key, **Pool** with
the whole pool as its one signer. In Pool a Key's own Sign and Destroy are the
atomic ones of the contract, which Key is shown to implement.
The channel in Pool has Go's semantics: a buffer, goroutines parked in order,
and a sender that hands its Key to the first one parked. `newPool` is one
action, since nobody else can see the channel yet.

**Registry** is `New` before `setup`: the cache of modules and the table of login
locks with their mutexes, dlopen references, and `C_Initialize`, which the
process may do once per library however many paths the library has. A failed
`C_Initialize` keeps its reference, as in the code. The rest of `setup` is one
action that makes a Key or does not.

**Operation** is the operations of one session, called one at a time. Data is
its length. A method with output is two actions, the size pass and the data
pass; errors in either may end the operations or leave them. A cipher gives out
whole blocks and the rest at the end, the other kinds one unit at the end; the
size pass may answer one more than needed. The dual functions work on two
operations at once; beside a decryption the digest or verification takes the
plaintext.

**Query** is the methods that ask for a size and then for data, where the answer
may change in between. A list is asked for alone and, when empty, not asked for
again; attributes are asked for together, and one of size zero gets no buffer.

**GCMParams** is one value shared by goroutines: `marshal` in three actions (map,
lock `g.mu`, append and unlock), the module's `CInit` and `End` of an operation,
`IV`, and `Free`, which its callers do only when no operation with `g` is active
or being started, as its comment demands.

**Lifecycle** is what happens to a Ctx between `New` and `Destroy`. `fl` is `c.fl`,
`open` the handles, and the library, which all Ctxs of the model have opened, is
loaded while `refs` is positive; `load` tells one load from the next, since
functions found in one are not where the next has them. `Destroy` is five actions,
as it loads `c.fl` twice and reads, closes and clears the handle one after the
other. A method is its call, which needs the Ctx and the library, and its return;
`WaitForSlotEvent` is the method, which returns at once, and each step of its
goroutine up to the close of the channel. Nothing prevents a client from doing
all this in any order: `crashed` says that a nil pointer was followed or code run
that is not there, and `careless` remembers whether the client ever broke the
discipline that `SafeWhenCareful` states. The code asks no such discipline in
writing; the property shows which one is enough.

**Pinning** is one method call at a time with the garbage collector. Each method is
a row of a table, the sequence of its steps: a Pinner declared, an argument
built and pinned, the deferred `Unpin`, the C call, the look at its error. The rows
follow `pkcs11.go` from top to bottom. What an argument is made of comes from the
marshalling functions: nothing (NULL), a buffer, a structure that holds addresses,
or a mechanism whose parameter holds addresses. Objects not pinned are taken to be
garbage at once, the worst the collector may assume of a variable that is not used
again. The memory of `GCMParams` is not Go's; it is in GCMParams.

**Layout**, **Signing** and **Conversions**. Layout has the C structures of `pkcs11t.h`,
laid out by the rules of the ABI, and beside them the offsets and buffer sizes of
the Go code; `Exchange` writes a structure on one side and reads it on the other,
byte by byte. Signing has the parameters that `rsaSigningParams` makes and a token
that reads them by PKCS #1: it compares the prefix with the DER encoding of a
`DigestInfo`, built from the object identifier, takes the hash and the mask function
from what PKCS #11 says their numbers mean, and refuses a salt that does not fit. Conversions makes a state machine of them, one call and its result at a time,
and adds the labels: `InitToken` pads or cuts, `openSession` reads, trims and
compares, slot by slot.

The `MC` modules add what TLC needs: symmetry sets, the table of paths, the salt lengths.
**KeyProofs**, **PoolProofs**, **RegistryProofs**, **LifecycleProofs**, **GCMParamsProofs**,
**OperationProofs** and **QueryProofs** each extend the module they are named after with
its inductive invariant, lemmas and theorems. **BoundaryProofs** does so for what crosses the
boundary to C, Pinning and Conversions, which is why the specification of Pinning has
names of its own (`PinInit`, `PinNext`, `PinSpec`).

## Runs

| Run | Instance | Shows |
|---|---|---|
| KeySafety | 3 goroutines; Keys: always-authenticate, plain, wrong PIN; 2.3 million states | `LoginHeld`, `NoUseAfterClose`, `OwnOperation`, `NoSessionLeak`, `NoDeadlock` |
| KeyContract | 2 goroutines; an always-authenticate Key and a plain one; fairness | `LogoutExclusive`, `CallsReturn`, `ImplementsContract` |
| KeyRelogin | as KeySafety with two Keys | `SignsOnlyWhenLoggedIn` is violated: finding 1 |
| PoolSafety | 4 goroutines, 3 Keys | `KeyConservation`, `SendNeverBlocks`, `FailureLeavesNoKey` |
| PoolContract | 3 goroutines, 2 Keys; fairness | `CallsReturn`, `ImplementsContract` |
| Registry | 3 goroutines, 2 paths of one library, one label; fairness | `OneLockPerToken`, `RefusedOnlyAcrossPaths`, `ModulesUsable`, `CallsReturn` |
| Operation | a cipher and the two kinds it has dual functions with; block 2 | `InputOnce`, `OutputComplete`, `FinishedMeansEnded` |
| GCMParams | 3 goroutines, 5 mappings | `MemoryIsListed`, `OperationsKeepMemory`, `IVNeverOlder` |
| Query | a list and two attributes, lengths to 2, two changes per call | `AnswerWasTrue`, `FailsOnlyOnGrowth` |
| Lifecycle | 2 goroutines, 2 Ctxs, 1 wait, 2 loads; fairness; 240 thousand states | `SafeWhenCareful`, `ReferencesAccounted`, `ChannelAnswers`, `WaitersEnd` |
| Pinning | all methods, templates of up to two values | `NoDangling`, `NoPinLeft` |
| Conversions | 2 tokens, labels up to one longer than their field; all structures, hashes, schemes | `LabelsFound`, `FieldsArrive`, `SignsWhatWasAsked` |

Every run but Query, Pinning and Conversions, whose state lasts for one call, also
checks a type invariant. Each property has a variant of one
action, named `Mut...` beside the action, that makes the mistake the property
is there to catch; TLC finds the property violated when the variant is put in.

*Bounds.* Three goroutines on a Key's locks give a holder, a waiter of the other
kind and one more that overtakes; the proofs cover any number. Liveness and
refinement of Key are checked with two, since three take too long. Four
goroutines and three Keys in a Pool are fewer Keys than goroutines, two
Destroys at once and Signs that wait. `MaxInput` and `MaxTotal` of Operation
allow for input that ends within a block, at its end and in the next one.
`Memory` in GCMParams and `Locks` in Registry are used once each, which bounds the
operations of a run; `MaxRefs` bounds how many failed initialisations are
remembered; `MaxChanges` is two, so that something may change and change back
between the passes. `MaxLoads` is two, so that a library may be unloaded and loaded
again under a Ctx that still has its old functions; one wait is enough, because
waits share nothing but the library, and a second goroutine destroys, finalizes
or receives meanwhile. In Conversions `Width` stands for the 32 characters of
a label: what matters is a label shorter than the field, of its length, and longer.
`UintMod` stands for 2^64, `Base` for 256; signatures of up to
`MaxSig` = 4 bytes are empty, odd, or two halves, and `Salts` are the special lengths, one
below them, and both sides of the longest that a key takes. Symmetry is used only in runs whose properties are invariants or
action properties that do not tell the elements apart.

*Fairness.* A goroutine that can take a step does (`WF` of `Step`): the Go
scheduler is fair and every token call is taken to return. Taking a
`sync.Mutex`, or the write lock, is under `SF`: others may overtake a waiter
again and again, but after a millisecond the mutex goes into its starvation mode
and hands itself over. No caller has to make a call, so nothing is assumed of
the actions that begin one. Parked readers and the announced writer need
nothing more than `WF`, because `RWMutex` hands the lock over itself. In Pool the
channel is first come, first served. Of the goroutines of Lifecycle only those of
`WaitForSlotEvent` have fairness, and of the module it is assumed that
`C_WaitForSlotEvent` answers once the library is not initialized, as PKCS #11
demands of it (`CKR_CRYPTOKI_NOT_INITIALIZED`); nobody has to receive, finalize or
destroy anything. Deadlock is checked in the runs of
Registry, Operation, Query, GCMParams, Pinning and Conversions. Key and Pool really may stop: after a
`NewPool` that failed, or when every `New` has failed and the session could not be
closed (each Key of the model is made at most once, and its session is named
after it). That nobody is then in the middle of a call is `NoDeadlock` for Key and
`CallsReturn` for Pool. In Lifecycle the process may have crashed, or have destroyed
all its Ctxs.

## What the properties say

- *The login.* While a setup looks for keys and while a Sign runs, the token is
  logged in, an always-authenticate Sign with the login it made itself; the
  exception is a plain Sign after a re-login that failed (`LoginHeld`,
  `LogoutExclusive`).
- *Sessions and operations.* Nobody calls the token on a closed session, the
  operation a Sign ends is the one it began, and an open session has an owner or
  was refused to close (`NoUseAfterClose`, `OwnOperation`, `NoSessionLeak`). What the
  exemptions leave out no property forbids: a session that the token refused to close
  stays open for good, as `Destroy` drops the handle; and the login after a failed
  re-login is the subject of finding 1 alone.
- *Progress.* Locks are always released and taken in one order: while a call is
  under way somebody is not parked at a lock (`SomebodyRuns`), and who is not parked
  can take a step (`NoDeadlock` is both). Every call returns (`CallsReturn`, for Key, Pool and New).
- *Pools.* A Key is in one place, a send never blocks, a failed NewPool leaves
  nothing open (`KeyConservation`, `SendNeverBlocks`, `FailureLeavesNoKey`).
- *Registries.* However many News run at a time with one path, `C_Initialize` refuses none of
  them because of another; it finds its library initialised only when another path of it
  is in use (`RefusedOnlyAcrossPaths`). All Keys on one token have one login lock,
  also when two paths name the library (`OneLockPerToken`). That a library refuses a
  second `C_Initialize` is not a result but what PKCS #11 demands of it, a guard of the model.
- *Two passes.* The data pass is made exactly once, also for empty output, and
  the bytes returned are those given out (`InputOnce`, `OutputComplete`,
  `FinishedMeansEnded`); a query returns what was true at one instant, save for
  attributes that had been empty (`AnswerWasTrue`).
- *Memory.* Everything mapped is found by `Free`, once, and no operation's memory
  goes early or is shared (`MemoryIsListed`, `OperationsKeepMemory`). A C function
  finds no collected object, however deep in its arguments, and a method leaves
  none pinned, whichever way it returns (`NoDangling`, `NoPinLeft`).
- *A Ctx and its library.* A client that destroys a Ctx only when no method of it
  runs and every channel it got from `WaitForSlotEvent` is closed, and leaves it alone
  then, is safe, whatever is done to other Ctxs of the library; the library stays
  loaded exactly as long as needed (`SafeWhenCareful`, `ReferencesAccounted`). Who
  receives until the channel closes knows what `C_WaitForSlotEvent` answered, and
  after a `Finalize` no waiting goroutine stays, received from or not
  (`ChannelAnswers`, `WaitersEnd`).
- *Conversions.* A label that fits, without a trailing blank, finds its token and no
  other (`LabelsFound`); every field arrives where the other side looks for it
  (`FieldsArrive`); a signature is the one asked for or an error
  (`SignsWhatWasAsked`).

## Findings

1. A re-login that fails leaves the token logged out (`signer.go:315-318`), and
   no other Key logs in again, although `signer/concurrency_test.go:62` wants no
   Key to sign while the token is logged out. A plain Key gets to `SignInit`,
   where the token refuses it. The next `Sign` of an
   always-authenticate Key mends it, or a `New`; a plain Key alone never does.
2. The comment on `NewMechanism` (`types.go:140`) lists `*RSAAESKeyWrapParams`, on
   which the code panics.
3. The layout comment in `GetSlotInfo` (`pkcs11.go:153`) has padding between the
   two versions; the code, rightly, does not; with it, `FieldsArrive` is
   violated.

## What is proved

For every value of the constants that meets the named assumptions of the module,
finite or infinite where nothing else is said. The theorems about Key and Pool are
about `SafeSpec`, which is `Spec` without its fairness, so what they state holds of
`Spec` as well. Hardly any of the invariants is inductive as it stands.

Each `...Proofs` module begins with the inductive invariant `IInv`, then shows in lemmas
that `Init` establishes it and that each step keeps each conjunct, one case per
action, joins them in `NextIInv` and concludes in `InductiveInvariant`. The theorems
read off what they state. TLC has checked each `IInv` on the instances of the runs. In
BoundaryProofs, `IInv` is that of the labels and `PinInv` that of Pinning.

| Module | Theorem | States |
|---|---|---|
| KeyProofs | `TypeCorrect` | `TypeOK` |
| | `LoginIsHeld` | `LoginHeld` |
| | `SessionsAreOpen` | `NoUseAfterClose` |
| | `OperationsAreOwn` | `OwnOperation` |
| | `NothingLeaks` | `NoSessionLeak` |
| | `LogoutIsExclusive` | `LogoutExclusive`, an action property |
| | `LocksDoNotDeadlock` | `SomebodyRuns`, the half of `NoDeadlock` about locks |
| | `KeyImplementsContract` | every behaviour is one of the contract's, fairness aside |
| PoolProofs | `TypeCorrect` | `TypeOK` |
| | `KeysAreConserved` | `KeyConservation` |
| | `SendsDoNotBlock` | `SendNeverBlocks` |
| | `FailedPoolLeavesNothing` | `FailureLeavesNoKey` |
| | `PoolImplementsContract` | every behaviour is one of the contract's, fairness aside |
| RegistryProofs | `TypeCorrect` | `TypeOK` |
| | `TokensHaveOneLock` | `OneLockPerToken` |
| | `OnlyOtherPathsRefuse` | `RefusedOnlyAcrossPaths` |
| | `CachedModulesUsable` | `ModulesUsable` |
| LifecycleProofs | `TypeCorrect` | `TypeOK` |
| | `CarefulIsSafe` | `SafeWhenCareful` |
| | `ReferencesCounted` | `ReferencesAccounted` |
| | `AnswersArrive` | `ChannelAnswers` |
| GCMParamsProofs | `TypeCorrect` | `TypeOK` |
| | `MemoryListed` | `MemoryIsListed` |
| | `MemoryKept` | `OperationsKeepMemory` |
| | `NewerIV` | `IVNeverOlder`, an action property |
| OperationProofs | `TypeCorrect` | `TypeOK` |
| | `InputTakenOnce` | `InputOnce` |
| | `OutputFetched` | `OutputComplete` |
| | `FinishedEnds` | `FinishedMeansEnded` |
| QueryProofs | `AnswersWereTrue` | `AnswerWasTrue` |
| | `FailuresMeanGrowth` | `FailsOnlyOnGrowth` |
| BoundaryProofs | `AddressesStayValid` | `NoDangling` |
| | `PinsAreReleased` | `NoPinLeft` |
| | `LabelsAreFound` | `LabelsFound` |
| | `TokenSignsWhatWasAsked` | `SignsWhatWasAsked` |

**Key**: any goroutines and Keys, any choice of always-authenticate Keys and wrong
PINs, from `NobodyAssumption`, `NoKeyAssumption` (the two are no goroutine and no
Key) and `KeyKindsAssumption`. `IInv` adds what the code's locks mean:

- `LoginLockInv`: a goroutine is a reader, blocked reader, writer or announced
  writer of the login lock according to its `pc` and the kind of its Key, a
  writer excludes every reader, a writer is announced only while there are readers
  to wait for, and readers are blocked only behind a writer.
- `SessionMuInv`: a goroutine owns `sessionMu` of its Key exactly between
  `SignLock` or `DestroyLock` and `UnlockSession`, so two goroutines there have
  different Keys.
- `SetupInv`: a Key under construction belongs to one goroutine.
- `SessionInv`: where a session is open follows from where its Key's goroutine is.
- `LoginInv`: `LoginHeld`, and that a token with a live Key is logged out only during
  a re-login or after one that failed. A writer can end a login only when all
  readers have left; that is the step the lock invariants are for.
- `OwnOperation`, and `ResultInv`, how a call ends, which the refinement needs.

`LogoutStep` and `ContractStep` say of one step what the action property and the
refinement need. `LocksDoNotDeadlock` follows the order of the locks: who waits for
`sessionMu` waits for a goroutine inside `Sign` or `Destroy`, which if parked waits
for the login lock; the login lock is owned by a goroutine that is past its last
lock, or about to be given to one (`LoginWaiterHasRunner`).

**Pool**: any goroutines, any size from one on (`SizeAssumption`; `NewPool` refuses
less). The heart is `PlaceInv`: the channel, the Keys that the running Destroy has
collected and those that goroutines hold never overlap and together are all Keys.
Everything that is about numbers follows by counting, with the lemmas on injective
sequences at the head of the module: a Key outside the channel means room in it, and
a Destroy that has collected N Keys has them all. `QueueInv` (goroutines are
parked only while the channel is empty) makes `Take` and `Give`, what a receive
and a send do, two cases each; `CreateInv` is about `NewPool` before anyone has the Pool,
`DestroyInv` about which Keys are open while a Destroy runs, `ResultInv` about how
calls end. The refinement goes step by step: a Sign takes effect at its Key's Sign, a
Destroy when the last Key is destroyed, everything else is a stutter.

**Registry**: any goroutines, paths, labels and libraries, any table of paths to
libraries. `MuInv` ties the mutexes to `pc`. With `modulesMu` held from the look at the
cache to the insertion, `ModulesInv` is inductive: a library is initialised through
just one path, which is cached and has a reference of its own beside the one that a
failing New is about to give back. That two paths of a library cannot both be in use
is what makes a table keyed by path good enough for `OneLockPerToken` (`LocksInv`).
Assumed: sentinels are no elements, there is a path and a label.

**Lifecycle**: any goroutines, Ctxs, slots, waits and loads; there is a Ctx. `CtxInv` says
what a careful client can rely on: who uses a Ctx finds it open, with functions of
the present load, and who destroys it is alone with it. `RefsInv` counts: the references are those of
the open Ctxs and of the News under way, finitely many, so another Ctx's `Destroy`
cannot take the last one. `ChannelInv` needs no care.

**GCMParams**: any goroutines and memory. `LockInv`: what `append` is about to extend is
the `g.ops` of now, since the mutex is held. `MemInv`: memory belongs to one operation, which
the list has from its append on. `AnswerInv`: what `IV` has answered is in the list while mapped.

**Operation**: any of the kinds, any block length and bounds on the input. `CallInv`: the
call in progress is about active operations, one of which gives out the data, and one
that ends has that one only. `OutputInv`: what an active operation has given out is the
whole blocks of its input and the caller has it, so what is due is never negative
and the last call gives exactly the rest (`DueIsRest`).

**Query**: any lists and attributes of any length, any number of changes. `HistoryInv`:
between the two calls the remembered values begin with those the first call saw and
end with the present ones.

**Pinning**: templates of any size (`MaxValuesAssumption`), for which TLC has only two. What a
method has pinned follows from where it is: its last Pinner is in one of five `States`, and
`Move` says how a step changes it and where a step is out of place, such as a return while
there is still something to unpin. Each method of `Tables` has a run of these states that ends
with nothing pinned (`KeepsMethods`; the rows are joined from parts, so a few lemmas on the
concatenation of runs do for most of them). `PinInv` says that the steps that are left have a
run from the state that the memory is in (`Fits`): outside C nothing reachable is
unpinned unless the addresses are stale, and no call is made then. The one hard step is
`Marshal`: what it builds adds to what C can reach only itself, which it pins
(`MarshalReaches`). `NoDangling` and `NoPinLeft` follow, whatever the collector does and
whichever errors occur.

**Conversions**: labels over any letters, any width, any set of slot numbers. `FieldInv`: a
token shows the label it was given, cut or padded; trimming a padded label that
ends in no blank gives it back, and among the slots that match there is a first one.

For `SignsWhatWasAsked`: any key size (`MaxSaltAssumption`), every salt length an
int can be (`SaltsAssumption`) and signatures of any length over any base. The prefixes are the
DER of a `DigestInfo` and differ, so that just one hash fits each (`PrefixesAreRight`,
`PrefixesDiffer`). A salt length that some key takes survives the conversion to a uint, and one
that does not, a negative one say, comes out too long for every key, which therefore
refuses it: no wrong salt length is ever used (`ModInRange`, `SaltLenRight`). A signature is
split where r ends or refused (`ECDSARight`). Each lemma is about what one call returns, so
here the property is inductive by itself. It is assumed that a key takes no salt
longer than an int can say (`MaxSalt`).

Only model-checked:

- Liveness, which is out of reach of the prover: `CallsReturn` of Key, Pool and
  Registry, `WaitersEnd`, the fairness of the contract in both refinements.
- The half of `NoDeadlock` that is about `ENABLED`.
- `FieldsArrive`: it compares fixed tables that depend on no constant, and TLC goes through
  all of them; a proof would unfold the same offsets one by one and say no more.

## Not modelled

- Error texts, the generated tables of constants and errors, and their generator:
  text in, text out.
- What `NewAttribute` makes of Go values, the object identifiers of curves and the
  final DER encoding of a signature: single calls of the standard library.
- The preloading of system libraries before a second dlopen: it has no effect
  on what the program keeps, only on whether the dlopen succeeds.
- What a token does on object management, key generation, wrapping, `InitPIN` and
  `SetPIN`: the module's business, with no state in Go; their memory is in Pinning.
- That `New` accepts any PIN while the token is logged in (`signer.go:182` says it
  means to): Key has it, as a possible step, and no property forbids it.
- Keys of one token that belong to other processes: to this one they are a token
  that fails. Handles of private objects that change at a Logout.

## Plan

1. *Done*: the contract, Key with its lock and token, Pool, the registries, the
   operations and queries of Ctx, GCMParams; the life cycle of a Ctx, the memory
   passed to C, the conversions.
2. *Done*: the proofs of the safety of Key, Pool, Registry, Lifecycle, GCMParams, Operation,
   Query, Pinning and Conversions, and of the steps of both refinements.
3. *Left*: of the properties the runs check, only those listed as model-checked have no
   proof. A token that finds keys anew after a
   login, with handles that change, would be the next thing to model.
