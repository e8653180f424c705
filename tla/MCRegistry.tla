----------------------------- MODULE MCRegistry ----------------------------
(* Small instances of Registry for TLC. *)
EXTENDS Registry, TLC

CONSTANTS path, link, \* two paths of one library
          lib

OneLibrary == path :> lib @@ link :> lib
=============================================================================
