------------------------------- MODULE MCKey -------------------------------
(* Small instances of Key for TLC. *)
EXTENDS Key, TLC

\* Goroutines are interchangeable: used for safety only.
Symmetry == Permutations(Procs)
=============================================================================
