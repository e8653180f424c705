------------------------------- MODULE Pinning -------------------------------
(***************************************************************************)
(* The Go memory that the methods of Ctx pass to C.  An address in a       *)
(* uintptr, or stored in a C structure, does not keep an object: only a    *)
(* runtime.Pinner does.  The collector runs between any two steps of a     *)
(* method, and while its C function runs.  A method is the sequence of its *)
(* steps, and each table below lists the methods of a part of pkcs11.go.   *)
(***************************************************************************)
EXTENDS Naturals, Sequences

CONSTANT MaxValues \* attributes with a value in one template

ASSUME MaxValuesAssumption == MaxValues \in Nat

VARIABLES todo,     \* the steps of the running method that are left
          phase,    \* "idle", "go", or "C": no method, its Go code, or a C function runs
          made,     \* objects made so far: 1..made
          heap,     \* those the collector has not freed
          holds,    \* <<x, y>>: C structure x holds the address of y
          args,     \* the objects whose addresses are to be passed
          pins,     \* pins[i]: what the i-th Pinner of the method has pinned
          deferred, \* the Pinners whose Unpin is deferred
          failed    \* the last C function has failed

pinVars == <<todo, phase, made, heap, holds, args, pins, deferred, failed>>

-----------------------------------------------------------------------------
(* The methods *)

\* A declared Pinner; memory pinned; the C function; a return if it has failed.
JustCall == <<"call">>
Query == <<"pinner", "var", "defer", "call", "check">>
Input == <<"pinner", "bytes", "defer", "call">>
Inputs == <<"pinner", "bytes", "bytes", "defer", "call">>
Arena == <<"pinner", "defer">>
DataPass == <<"nonNull", "call", "check">>

LibraryMethods ==
  [Initialize |-> <<"pinner", "initArgs", "defer", "call">>,
   Finalize |-> JustCall, GetInfo |-> Query]

MutList == \* Unpin only after the error has been looked at
  <<"pinner", "var", "call", "check", "unpin", "checkCount",
    "anew", "nonNull", "var", "call", "check", "unpin">>

\* The Pinner is emptied after each call, and the addresses are taken anew.
List ==
  <<"pinner", "var", "call", "unpin", "check", "checkCount",
    "anew", "nonNull", "var", "call", "unpin", "check">>

SlotMethods ==
  [GetSlotList |-> List, GetMechanismList |-> List,
   GetSlotInfo |-> Query, GetTokenInfo |-> Query, GetMechanismInfo |-> Query]

SessionMethods ==
  [InitToken |-> <<"pinner", "bytes", "var", "defer", "call">>,
   InitPIN |-> Input, SetPIN |-> Inputs,
   OpenSession |-> Query, GetSessionInfo |-> Query,
   CloseSession |-> JustCall, CloseAllSessions |-> JustCall,
   GetOperationState |->
     <<"pinner", "var", "call", "unpin", "check",
       "anew", "nonNull", "var", "call", "unpin", "check">>,
   SetOperationState |-> Input, Login |-> Input, Logout |-> JustCall]

NewObject == Arena \o <<"attrs", "var", "call", "check">>
GetAttributes ==
  Arena \o <<"query", "call", "check">> \o Arena \o <<"attrs", "call", "check">>
Template == Arena \o <<"attrs", "call">>
ObjectMethods ==
  [CreateObject |-> NewObject, CopyObject |-> NewObject, DestroyObject |-> JustCall,
   GetObjectSize |-> Query, GetAttributeValue |-> GetAttributes,
   SetAttributeValue |-> Template, FindObjectsInit |-> Template,
   FindObjects |-> <<"pinner", "nonNull", "var", "defer", "call", "check">>,
   FindObjectsFinal |-> JustCall]

InitMethod == Arena \o <<"mech", "call">>
TwoPass == Arena \o <<"nonNull", "var", "call", "check">> \o DataPass
TwoPassNoInput == Arena \o <<"var", "call", "check">> \o DataPass

\* One method of each form: Encrypt stands for the other twoPassOutput ones, ...
OperationMethods ==
  [EncryptInit |-> InitMethod, Encrypt |-> TwoPass, EncryptFinal |-> TwoPassNoInput,
   DigestUpdate |-> Input, DigestKey |-> JustCall, Verify |-> Inputs, VerifyFinal |-> Input]

NewKey == Arena \o <<"mech", "attrs", "var", "call", "check">>
NewKeyPair == Arena \o <<"mech", "attrs", "attrs", "var", "var", "call", "check">>
Wrapped == Arena \o <<"mech", "var", "call", "check">> \o DataPass
Unwrapped == Arena \o <<"mech", "attrs", "bytes", "var", "call", "check">>
KeyMethods ==
  [GenerateKey |-> NewKey, DeriveKey |-> NewKey, GenerateKeyPair |-> NewKeyPair,
   WrapKey |-> Wrapped, UnwrapKey |-> Unwrapped]

RandomMethods ==
  [SeedRandom |-> Input,
   GenerateRandom |-> <<"pinner", "nonNull", "defer", "call", "check">>]

WaitMethods == [WaitForSlotEvent |-> <<"pinner", "var", "call", "unpin">>]

Tables ==
  {LibraryMethods, SlotMethods, SessionMethods, ObjectMethods, OperationMethods,
   KeyMethods, RandomMethods, WaitMethods}

-----------------------------------------------------------------------------
(* What a step builds: n objects, of which it passes the first, and the    *)
(* addresses they hold.  NULL is passed if there is none.                  *)

NULL == [n |-> 0, edges |-> {}]
\* A buffer or a structure that holds the addresses of k others.
Struct(k) == [n |-> k + 1, edges |-> {1} \X (2..k + 1)]
\* A mechanism with a parameter that holds the addresses of k others.
Nested(k) == [n |-> k + 2, edges |-> {<<1, 2>>} \cup {2} \X (3..k + 2)]

\* pinBytes; the methods that take input do the same in place.
PinBytes == {NULL, Struct(0)}

\* A variable, or a buffer that is not empty or has a placeholder.
PinNonNull == {Struct(0)}

InitArgs == {Struct(0), Struct(1)}

\* Empty values have no address.  Likewise marshalAttributesWithBuffers.
MarshalAttributes == {NULL} \cup {Struct(k) : k \in 0..MaxValues}

MarshalForQuery == {NULL, Struct(0)}

\* OAEP has one inner slice, ECDH two, any of them empty; the memory of GCM is not Go's.
MarshalMechanism == {NULL, Struct(0)} \cup {Nested(k) : k \in 0..2}

Shapes ==
  [bytes |-> PinBytes, nonNull |-> PinNonNull, var |-> PinNonNull, initArgs |-> InitArgs,
   attrs |-> MarshalAttributes, query |-> MarshalForQuery, mech |-> MarshalMechanism]

-----------------------------------------------------------------------------
Pinned == UNION {pins[i] : i \in DOMAIN pins}

\* What C can reach: structures of two levels.
Follow(X) == X \cup {e[2] : e \in {d \in holds : d[1] \in X}}
Reachable == Follow(Follow(args))

PinInit ==
  /\ todo = << >> /\ phase = "idle"
  /\ made = 0 /\ heap = {} /\ holds = {} /\ args = {}
  /\ pins = << >> /\ deferred = {} /\ failed = FALSE

\* Methods share no memory of this kind: each is looked at on its own.
Begin(method) ==
  /\ phase = "idle"
  /\ todo' = method /\ phase' = "go"
  /\ made' = 0 /\ heap' = {} /\ holds' = {} /\ args' = {}
  /\ pins' = << >> /\ deferred' = {} /\ failed' = FALSE

At(step) == phase = "go" /\ todo # << >> /\ Head(todo) = step
Done == todo' = Tail(todo)

Pinner ==
  /\ At("pinner") /\ Done
  /\ pins' = Append(pins, {})
  /\ UNCHANGED <<phase, made, heap, holds, args, deferred, failed>>

Defer ==
  /\ At("defer") /\ Done
  /\ deferred' = deferred \cup {Len(pins)}
  /\ UNCHANGED <<phase, made, heap, holds, args, pins, failed>>

MutMarshal(step, shape) == \* only what C is passed is pinned, not what that points at
  /\ At(step) /\ Done
  /\ made' = made + shape.n
  /\ heap' = heap \cup (made + 1)..made'
  /\ pins' = [pins EXCEPT ![Len(pins)] = @ \cup {o \in {made + 1} : shape.n > 0}]
  /\ holds' = holds \cup {<<made + e[1], made + e[2]>> : e \in shape.edges}
  /\ args' = args \cup {o \in {made + 1} : shape.n > 0}
  /\ UNCHANGED <<phase, deferred, failed>>

\* Memory is made, and pinned with the last Pinner, before its address is taken.
Marshal(step, shape) ==
  /\ At(step) /\ Done
  /\ made' = made + shape.n
  /\ heap' = heap \cup (made + 1)..made'
  /\ pins' = [pins EXCEPT ![Len(pins)] = @ \cup (made + 1)..made']
  /\ holds' = holds \cup {<<made + e[1], made + e[2]>> : e \in shape.edges}
  /\ args' = args \cup {o \in {made + 1} : shape.n > 0}
  /\ UNCHANGED <<phase, deferred, failed>>

\* The memory for the parameters of GCM cannot be mapped: the method returns.
MarshalFails ==
  /\ At("mech")
  /\ todo' = << >>
  /\ UNCHANGED <<phase, made, heap, holds, args, pins, deferred, failed>>

Call ==
  /\ At("call") /\ Done
  /\ phase' = "C"
  /\ UNCHANGED <<made, heap, holds, args, pins, deferred, failed>>

CReturns ==
  /\ phase = "C"
  /\ phase' = "go" /\ failed' \in BOOLEAN
  /\ UNCHANGED <<todo, made, heap, holds, args, pins, deferred>>

\* toError, and the return when the list is empty.
Check ==
  /\ \/ At("check") /\ todo' = IF failed THEN << >> ELSE Tail(todo)
     \/ At("checkCount") /\ todo' \in {<< >>, Tail(todo)}
  /\ UNCHANGED <<phase, made, heap, holds, args, pins, deferred, failed>>

Unpin ==
  /\ At("unpin") /\ Done
  /\ pins' = [pins EXCEPT ![Len(pins)] = {}]
  /\ UNCHANGED <<phase, made, heap, holds, args, deferred, failed>>

Anew ==
  /\ At("anew") /\ Done
  /\ args' = {}
  /\ UNCHANGED <<phase, made, heap, holds, pins, deferred, failed>>

\* The deferred calls of Unpin, or of arena.free, run.
Return ==
  /\ phase = "go" /\ todo = << >>
  /\ phase' = "idle"
  /\ pins' = [i \in DOMAIN pins |-> IF i \in deferred THEN {} ELSE pins[i]]
  /\ UNCHANGED <<todo, made, heap, holds, args, deferred, failed>>

\* The collector frees all that is not pinned: the method may not use it any more.
Collect ==
  /\ phase # "idle"
  /\ heap' = heap \cap Pinned
  /\ UNCHANGED <<todo, phase, made, holds, args, pins, deferred, failed>>

PinNext ==
  \/ \E table \in Tables : \E name \in DOMAIN table : Begin(table[name])
  \/ Pinner \/ Defer
  \/ \E step \in DOMAIN Shapes : \E shape \in Shapes[step] : Marshal(step, shape)
  \/ MarshalFails
  \/ Call \/ CReturns \/ Check \/ Unpin \/ Anew \/ Return \/ Collect

PinSpec == PinInit /\ [][PinNext]_pinVars

-----------------------------------------------------------------------------
(* Properties *)

\* No C function finds an address, passed to it or stored in a structure it is
\* passed, whose object has been collected: nested parameters, second passes and
\* addresses taken before an Unpin included.  (arena.go, and each method of Ctx.)
NoDangling == phase = "C" => Reachable \subseteq heap

\* However a method returns, with an error of a first or a second pass or before
\* any call, it leaves nothing pinned: Go panics when it finds a Pinner that was
\* dropped before its Unpin.  (defer a.free(), defer pinner.Unpin(), and the
\* Unpins before the error is looked at.)
NoPinLeft == phase = "idle" => Pinned = {}
=============================================================================
