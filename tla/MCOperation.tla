----------------------------- MODULE MCOperation ---------------------------
(* Small instances of Operation for TLC. *)
EXTENDS Operation
=============================================================================
