---------------------------- MODULE MCAutoDeploy ----------------------------
(***************************************************************************)
(* Small instances of AutoDeploy for TLC.                                  *)
(***************************************************************************)
EXTENDS AutoDeploy
=============================================================================
