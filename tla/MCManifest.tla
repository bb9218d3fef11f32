----------------------------- MODULE MCManifest -----------------------------
(***************************************************************************)
(* Instances of Manifest for TLC.                                          *)
(***************************************************************************)
EXTENDS Manifest, TLC

CONSTANTS a, b, x, y, p, q
Permutable == Permutations(Options) \cup Permutations(Schemas)
=============================================================================
