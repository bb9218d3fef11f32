--------------------------- MODULE MCOutputCommit ---------------------------
(***************************************************************************)
(* Instances of OutputCommit for TLC.                                      *)
(***************************************************************************)
EXTENDS OutputCommit
=============================================================================
