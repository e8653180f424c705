------------------------------ MODULE MCPinning ----------------------------
(* Small instances of Pinning for TLC. *)
EXTENDS Pinning
=============================================================================
