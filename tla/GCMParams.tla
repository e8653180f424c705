------------------------------ MODULE GCMParams ----------------------------
(***************************************************************************)
(* One GCMParams value g shared by goroutines.  Every EncryptInit or       *)
(* DecryptInit with g maps memory of its own, outside the Go heap, for the *)
(* parameters and the IV: the module keeps pointers into it and may write  *)
(* the IV until the operation ends.  Free unmaps all of it.                *)
(*                                                                         *)
(* The caller keeps the rule Free states: no operation using g is active.  *)
(***************************************************************************)
EXTENDS Naturals, SequencesExt

CONSTANTS Procs,  \* goroutines
          Memory, \* mappings, each used once: bounds the operations of a run
          Nobody, None

ASSUME SentinelAssumption == Nobody \notin Procs /\ None \notin Memory

VARIABLES mapped,  \* memory that is mapped
          used,    \* memory that has ever been mapped
          ops,     \* g.ops, newest last
          mu,      \* owner of g.mu
          pc, mem, \* mem[p]: memory of the operation p is making
          seen,    \* seen[p]: ops as p read it under g.mu
          answer   \* answer[p]: whose IV p's call of IV returned last

vars == <<mapped, used, ops, mu, pc, mem, seen, answer>>

PCs == {"idle", "lock", "append", "init", "active"}

TypeOK ==
  /\ mapped \subseteq used
  /\ used \subseteq Memory
  /\ ops \in Seq(Memory)
  /\ mu \in Procs \cup {Nobody}
  /\ pc \in [Procs -> PCs]
  /\ mem \in [Procs -> Memory \cup {None}]
  /\ seen \in [Procs -> Seq(Memory)]
  /\ answer \in [Procs -> Memory \cup {None}]

Init ==
  /\ mapped = {} /\ used = {}
  /\ ops = << >>
  /\ mu = Nobody
  /\ pc = [p \in Procs |-> "idle"]
  /\ mem = [p \in Procs |-> None]
  /\ seen = [p \in Procs |-> << >>]
  /\ answer = [p \in Procs |-> None]

Goto(p, l) == pc' = [pc EXCEPT ![p] = l]

-----------------------------------------------------------------------------
(* marshal, called by marshalMechanism before the C function *)

MutMapFailed(p) == \* the error of mmap is not returned
  /\ pc[p] = "idle"
  /\ Goto(p, "lock")
  /\ UNCHANGED <<mapped, used, ops, mu, mem, seen, answer>>

MutMap(p) == \* operations share the memory of the newest one
  /\ pc[p] = "idle"
  /\ \E m \in IF ops = << >> THEN Memory \ used ELSE {Last(ops)} :
       /\ mapped' = mapped \cup {m}
       /\ used' = used \cup {m}
       /\ mem' = [mem EXCEPT ![p] = m]
  /\ Goto(p, "lock")
  /\ UNCHANGED <<ops, mu, seen, answer>>

\* An mmap that fails makes the whole Init fail; nothing has changed then.
Map(p) ==
  /\ pc[p] = "idle"
  /\ \E m \in Memory \ used :
       /\ mapped' = mapped \cup {m}
       /\ used' = used \cup {m}
       /\ mem' = [mem EXCEPT ![p] = m]
  /\ Goto(p, "lock")
  /\ UNCHANGED <<ops, mu, seen, answer>>

MutLock(p) == \* g.mu is not taken
  /\ pc[p] = "lock"
  /\ seen' = [seen EXCEPT ![p] = ops]
  /\ Goto(p, "append")
  /\ UNCHANGED <<mapped, used, ops, mu, mem, answer>>

Lock(p) ==
  /\ pc[p] = "lock"
  /\ mu = Nobody
  /\ mu' = p
  /\ seen' = [seen EXCEPT ![p] = ops]
  /\ Goto(p, "append")
  /\ UNCHANGED <<mapped, used, ops, mem, answer>>

AppendOp(p) ==
  /\ pc[p] = "append"
  /\ ops' = Append(seen[p], mem[p])
  /\ seen' = [seen EXCEPT ![p] = << >>]
  /\ mu' = Nobody
  /\ Goto(p, "init")
  /\ UNCHANGED <<mapped, used, mem, answer>>

-----------------------------------------------------------------------------
(* The module *)

\* C_EncryptInit succeeds and keeps the pointers, or fails and keeps nothing.
CInit(p) ==
  /\ pc[p] = "init"
  /\ \/ Goto(p, "active") /\ UNCHANGED mem
     \/ Goto(p, "idle") /\ mem' = [mem EXCEPT ![p] = None]
  /\ UNCHANGED <<mapped, used, ops, mu, seen, answer>>

End(p) ==
  /\ pc[p] = "active"
  /\ Goto(p, "idle")
  /\ mem' = [mem EXCEPT ![p] = None]
  /\ UNCHANGED <<mapped, used, ops, mu, seen, answer>>

-----------------------------------------------------------------------------
(* IV and Free, each one critical section of g.mu *)

\* Any goroutine may ask at any time, also while its operation is active.
IV(p) ==
  /\ pc[p] \in {"idle", "active"}
  /\ mu = Nobody
  /\ answer' = [answer EXCEPT ![p] = IF ops = << >> THEN None ELSE Last(ops)]
  /\ UNCHANGED <<mapped, used, ops, mu, pc, mem, seen>>

MutFree == \* g.ops keeps what was unmapped
  /\ \A p \in Procs : pc[p] = "idle"
  /\ mapped' = mapped \ Range(ops)
  /\ UNCHANGED <<used, ops, mu, pc, mem, seen, answer>>

Free ==
  /\ \A p \in Procs : pc[p] = "idle"
  /\ mu = Nobody
  /\ mapped' = mapped \ Range(ops)
  /\ ops' = << >>
  /\ UNCHANGED <<used, mu, pc, mem, seen, answer>>

Next ==
  \/ \E p \in Procs :
       Map(p) \/ Lock(p) \/ AppendOp(p) \/ CInit(p) \/ End(p) \/ IV(p)
  \/ Free

Spec == Init /\ [][Next]_vars

-----------------------------------------------------------------------------
(* Properties *)

Unlisted(p) == pc[p] \in {"lock", "append"}

\* What is mapped is exactly what g.ops lists, each once, and what a marshal has
\* mapped and not yet listed: Free unmaps everything, nothing twice, and IV never
\* reads memory that is gone.  (marshal, Free, g.mu.)
MemoryIsListed ==
  /\ mapped = Range(ops) \cup {mem[p] : p \in {q \in Procs : Unlisted(q)}}
  /\ IsInjective(ops)

\* The memory of an operation in progress is mapped, and no two operations share
\* it, so a module never writes its IV over another operation's.
OperationsKeepMemory ==
  \A p \in Procs : pc[p] \in {"init", "active"} =>
    /\ mem[p] \in mapped
    /\ \A q \in Procs \ {p} : mem[q] # mem[p]

\* A goroutine that asks for the IV again gets the same operation's or a newer
\* one's, until Free: the IV of an operation is not lost to another one that was
\* being listed.  (IV answers from the end of g.ops, marshal's append.)
IVNeverOlder ==
  [][\A p \in Procs : answer'[p] # answer[p] /\ answer[p] \in mapped =>
       \E i, j \in DOMAIN ops : i < j /\ ops[i] = answer[p] /\ ops[j] = answer'[p]]_vars
=============================================================================
