------------------------------ MODULE MCQuery ------------------------------
(* Small instances of Query for TLC. *)
EXTENDS Query, TLC

\* Sound: no property names an element or an attribute.
Symmetry == Permutations(Elements) \cup Permutations(Attrs)
=============================================================================
