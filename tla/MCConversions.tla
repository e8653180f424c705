---------------------------- MODULE MCConversions --------------------------
(* Small instances of Conversions for TLC. *)
EXTENDS Conversions

\* The special lengths, one that no key takes, and both sides of the longest.
MCSalts == {-2, PSSSaltLengthEqualsHash, PSSSaltLengthAuto, 1, MaxSalt, MaxSalt + 1}
=============================================================================
