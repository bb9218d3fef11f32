-------------------------- MODULE MCDecodePipeline --------------------------
(***************************************************************************)
(* An instance of DecodePipeline for TLC: two decode workers, and a last   *)
(* chunk that is shorter than the others.                                  *)
(***************************************************************************)
EXTENDS DecodePipeline

CONSTANTS w1, w2
TwoWorkers == {w1, w2}
=============================================================================
