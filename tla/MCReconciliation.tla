-------------------------- MODULE MCReconciliation --------------------------
(***************************************************************************)
(* Small instances of ModelServiceHistory for TLC, with the constants of   *)
(* MCModelService.                                                         *)
(***************************************************************************)
EXTENDS MCModelService, ModelServiceHistory
=============================================================================
