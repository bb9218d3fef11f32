----------------------------- MODULE MCBatchRun -----------------------------
(***************************************************************************)
(* Instances of BatchRun for TLC.                                          *)
(***************************************************************************)
EXTENDS BatchRun
=============================================================================
