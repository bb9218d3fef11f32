--------------------------- MODULE ColumnMetrics ---------------------------
(***************************************************************************)
(* What a conversion remembers of one output column, and how two such      *)
(* records are compared: internal/convert/quality.go and compareColumn of  *)
(* internal/convert/qualitygate.go. Pure operators; QualityGate uses them  *)
(* for the chunks of the source and for the spans of the output.           *)
(*                                                                         *)
(* A value is a whole number, Null, or NaN, which only a float64 column    *)
(* can hold. The sums of a float64 column are rounded as a float is, to    *)
(* the nearest number of that many bits; -0 and the infinities are left    *)
(* out. The fingerprint combines one digest per value with a count, a xor  *)
(* and a sum, none of which sees an order; it is the bag of the values it  *)
(* has taken, which assumes that sha256 does not collide.                  *)
(***************************************************************************)
EXTENDS Integers, Bags, Sequences, SequencesExt

CONSTANTS
  Null, NaN,
  Mantissa,      \* up to it a float holds every whole number: 2^53
  RelTolerance,  \* QualityRelTolerance is one in so many
  AbsTolerance   \* QualityAbsTolerance

ASSUME ValueAssumption ==
  /\ Null # NaN /\ Null \notin Int /\ NaN \notin Int
  /\ Mantissa \in Nat \ {0} /\ RelTolerance \in Nat /\ AbsTolerance \in Nat

Number == Int \cup {NaN}
Value == Number \cup {Null}

Strategies == {"text", "exact", "float64"}
Modes == <<"none", "basic", "numeric", "full", "reread">>
AtLeast(mode, floor) == \E i, j \in DOMAIN Modes :
    i >= j /\ Modes[i] = mode /\ Modes[j] = floor

\* A sum, or a square, as a float holds it: beyond Mantissa only the multiples of
\* a power of two are left, the nearest one is taken, and of two the even one.
Abs(x) == IF x < 0 THEN -x ELSE x
Spacing(x) == 2 ^ (CHOOSE k \in 0 .. Abs(x) : /\ Abs(x) <= Mantissa * 2 ^ k
                                             /\ \A j \in 0 .. k - 1 : Abs(x) > Mantissa * 2 ^ j)
Nearest(x) ==
  IF Abs(x) <= Mantissa THEN x
  ELSE LET step == Spacing(x)
           below == x \div step
           twice == 2 * (x % step)
       IN  step * IF twice > step \/ (twice = step /\ below % 2 = 1) THEN below + 1 ELSE below

\* Floating-point comparison and addition: nothing is less than NaN, and NaN
\* is less than nothing, and what is added to NaN is NaN.
Less(a, b) == a # NaN /\ b # NaN /\ a < b
Plus(a, b) == IF NaN \in {a, b} THEN NaN ELSE Nearest(a + b)
Square(a) == IF a = NaN THEN NaN ELSE Nearest(a * a)

\* Null stands for the extrema of a column that has shown no value yet.
Unset == Null
NoMetrics == [rows |-> 0, nulls |-> 0, nonNulls |-> 0, sum |-> 0, floatSum |-> 0, floatSumSq |-> 0,
              min |-> Unset, max |-> Unset, fp |-> EmptyBag]

\* What one extremum becomes when another value, or partial, is folded in.
\* Lowest keeps the older of two values neither of which is less.
Lowest(old, new) == IF new # Unset /\ (old = Unset \/ Less(new, old)) THEN new ELSE old
Highest(old, new) == IF new # Unset /\ (old = Unset \/ Less(old, new)) THEN new ELSE old

\* Merge: another partial of the same column, folded into m.
Merge(m, o) ==
  [rows |-> m.rows + o.rows, nulls |-> m.nulls + o.nulls, nonNulls |-> m.nonNulls + o.nonNulls,
   sum |-> m.sum + o.sum,
   floatSum |-> Plus(m.floatSum, o.floatSum), floatSumSq |-> Plus(m.floatSumSq, o.floatSumSq),
   min |-> Lowest(m.min, o.min), max |-> Highest(m.max, o.max), fp |-> m.fp (+) o.fp]

\* Observe: one value, folded into m. A text column keeps no aggregates, the sums
\* of whole numbers and decimals are exact, and the fingerprint is taken only
\* where the mode will compare it.
Observe(m, v, strategy, hash) ==
  LET counted == v # Null /\ strategy # "text"
      float == v # Null /\ strategy = "float64"
  IN  [rows |-> m.rows + 1,
       nulls |-> m.nulls + (IF v = Null THEN 1 ELSE 0),
       nonNulls |-> m.nonNulls + (IF v = Null THEN 0 ELSE 1),
       sum |-> IF counted /\ ~float THEN m.sum + v ELSE m.sum,
       floatSum |-> IF float THEN Plus(m.floatSum, v) ELSE m.floatSum,
       floatSumSq |-> IF float THEN Plus(m.floatSumSq, Square(v)) ELSE m.floatSumSq,
       min |-> IF counted THEN Lowest(m.min, v) ELSE m.min,
       max |-> IF counted THEN Highest(m.max, v) ELSE m.max,
       fp |-> IF hash THEN m.fp (+) SetToBag({v}) ELSE m.fp]

\* Several values, one after the other, and several partials.
ObserveAll(m, rows, strategy, hash) ==
  LET upTo[n \in 0 .. Len(rows)] == IF n = 0 THEN m ELSE Observe(upTo[n - 1], rows[n], strategy, hash)
  IN  upTo[Len(rows)]
MetricsOf(rows, strategy, hash) == ObserveAll(NoMetrics, rows, strategy, hash)

MergeAll(partials) ==
  LET upTo[n \in 0 .. Len(partials)] == IF n = 0 THEN NoMetrics ELSE Merge(upTo[n - 1], partials[n])
  IN  upTo[Len(partials)]

\* floatsClose: the same, within the absolute tolerance, or within the relative
\* one of the greater of the two, which counts as one if it is less.
Close(a, b) ==
  \/ a = b
  \/ /\ NaN \notin {a, b}
     /\ \/ Abs(a - b) <= AbsTolerance
        \/ RelTolerance * Abs(a - b) <= Max({Abs(a), Abs(b), 1})

\* compareColumn: the checks each mode adds to those of the modes below it.
FloatSums == {"floatSum", "floatSumSq"}
Aggregates(strategy) ==
  CASE strategy = "text"    -> {}
    [] strategy = "exact"   -> {"sum", "min", "max"}
    [] strategy = "float64" -> FloatSums \cup {"min", "max"}
Compared(mode, strategy) ==
  {"nulls", "nonNulls"}
    \cup (IF AtLeast(mode, "numeric") THEN Aggregates(strategy) ELSE {})
    \cup (IF AtLeast(mode, "full") THEN {"fp"} ELSE {})
Differences(src, pq, mode, strategy) ==
  {check \in Compared(mode, strategy) :
     IF check \in FloatSums THEN ~Close(src[check], pq[check]) ELSE src[check] # pq[check]}
=============================================================================
