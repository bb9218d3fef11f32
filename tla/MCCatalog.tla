------------------------------ MODULE MCCatalog ------------------------------
(***************************************************************************)
(* An instance of Catalog for TLC: two QVDs, each with a table of its own  *)
(* that has the name of the file, one of them renamed at times.            *)
(***************************************************************************)
EXTENDS Catalog, TLC

CONSTANTS a, b, A
OwnTables == (a :> {a, A}) @@ (b :> {b})
=============================================================================
