---------------------------- MODULE MCGCMParams ----------------------------
(* Small instances of GCMParams for TLC. *)
EXTENDS GCMParams, TLC

\* Sound for the invariants and for the action property, which name no
\* goroutine and no memory.
Symmetry == Permutations(Procs) \cup Permutations(Memory)
=============================================================================
