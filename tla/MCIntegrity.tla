---------------------------- MODULE MCIntegrity ----------------------------
(***************************************************************************)
(* Instances of Integrity for TLC: four rows in a chunk of three and one   *)
(* of one, which the gate reads in two blocks of two, one selected column  *)
(* of two.                                                                 *)
(***************************************************************************)
EXTENDS Integrity

CONSTANTS w1, w2
TwoWorkers == {w1, w2}
SecondOnly == {2}

Column(s, rows) == [strategy |-> s, rows |-> rows]
\* Two float64 columns keep none of their checks free of the grouping: one with a
\* NaN, and one whose sum is 1 chunk by chunk and 0 block by block, with floats that
\* hold every whole number up to 8.
Every == {Column("float64", <<1, Null, 2, 2>>), Column("exact", <<2, 1, 2, 1>>),
          Column("text", <<1, 1, Null, 2>>),
          Column("float64", <<2, 2, NaN, 1>>), Column("float64", <<16, 0, -16, 1>>)}

\* A NaN in front of the least value of its chunk, and a row group that holds
\* them together with what precedes them.
WithNaN == {Column("float64", <<2, 2, NaN, 1>>)}
=============================================================================
