---------------------------- MODULE MCEventItems ----------------------------
(***************************************************************************)
(* Small instances of EventItems for TLC.                                  *)
(***************************************************************************)
EXTENDS EventItems, TLC

AnyNames == Permutations(Handles) \cup Permutations(Requests)
=============================================================================
