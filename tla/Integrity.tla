----------------------------- MODULE Integrity -----------------------------
(***************************************************************************)
(* One conversion seen as a chain of copies: the bytes of the QVD, what was*)
(* read of them, the rows decoded from that, the Parquet file they were    *)
(* written to, and what the quality gate reads back before the file is     *)
(* given its name. VerifiedRead is the first link and QualityGate the last;*)
(* this module joins them as convertOne's Run does (internal/convert/      *)
(* converter.go) and says what holds of the two ends.                      *)
(*                                                                         *)
(* The Parquet library in between is external: it may write what it was    *)
(* given, or lose, repeat, alter or reorder rows, or get the schema wrong. *)
(***************************************************************************)
EXTENDS VerifiedRead, QualityGate

CONSTANT Contents  \* the columns converted: [strategy, rows]

ASSUME IntegrityAssumption ==
  \A c \in Contents : /\ c.strategy \in Strategies
                      /\ c.rows \in Seq(Value)
                      /\ c.strategy # "float64" => NaN \notin Range(c.rows)
                      /\ Len(c.rows) > (NumChunks - 1) * BatchRows
                      /\ Len(c.rows) <= NumChunks * BatchRows

VARIABLE content  \* the rows the file holds

vars == <<readerVars, inputVars, canceled, gateVars, content>>

Init ==
  \E c \in Contents, m \in Range(Modes) :
    /\ content = c.rows /\ strategy = c.strategy /\ mode = m
    /\ source = NoMetrics
    /\ out = [rows |-> <<>>, schema |-> TRUE]
    /\ canceled = FALSE
    /\ ReaderInit(m = "reread")
    /\ GateInit

\* The rows of a conversion that read every part right, and those of one that
\* did not: as many, as well formed, and other ones.
Misread(rows) == [i \in DOMAIN rows |-> IF rows[i] = 1 THEN 2 ELSE 1]
Decoded == IF \A p \in Parts : Head(reads[p]) = "right" THEN content ELSE Misread(content)
ChunkRows(c) == SubSeq(Decoded, (c - 1) * BatchRows + 1, LeastOf(c * BatchRows, Len(Decoded)))

\* What the library may make of the rows.
Written(rows) ==
  LET n == Len(rows)
      altered == {rows, <<>>, Front(rows), rows \o ChunkRows(1), Reverse(rows),
                  [rows EXCEPT ![1] = Null], [rows EXCEPT ![n] = IF @ = 1 THEN 2 ELSE 1]}
  IN  [rows : altered, schema : {TRUE}] \cup {[rows |-> rows, schema |-> FALSE]}

Cancel ==
  /\ stage \notin {"failed", "canceled", "committed"}
  /\ canceled = FALSE
  /\ canceled' = TRUE
  /\ UNCHANGED <<readerVars, inputVars, gateVars, content>>

GiveUp(how) ==
  /\ stage' = how
  /\ UNCHANGED <<verifyReads, path, blame, reads, handle, check, used>>

\* The workers and the writer see the context done.
CancelRun ==
  /\ canceled /\ stage \in {"decoding", "decoded"}
  /\ GiveUp("canceled")
  /\ UNCHANGED <<inputVars, canceled, gateVars, content>>

\* The chunks' metrics are merged in the order they are written in, the writer
\* is closed, and with it the file is complete under its temporary name.
CloseWriter ==
  /\ stage = "decoded"
  /\ \/ /\ source' = MergeAll([c \in 1 .. NumChunks |-> MetricsOf(ChunkRows(c), strategy, Hashing)])
        /\ out' \in Written(Decoded)
        /\ GiveUp(IF mode = "none" THEN "checked" ELSE "checking")
     \/ GiveUp("failed") /\ UNCHANGED <<source, out>>
  /\ UNCHANGED <<mode, strategy, canceled, gateVars, content>>

Gate == /\ stage = "checking"
        /\ GateStep
        /\ UNCHANGED <<readerVars, content>>

\* The quality report is written, if one is asked for, whatever it says.
Report ==
  /\ stage = "checking" /\ gate = "over"
  /\ \/ verdict = "passed" /\ GiveUp("checked")
     \/ verdict = "failed" /\ GiveUp("failed")
     \/ verdict = "canceled" /\ GiveUp("canceled")
     \/ verdict \in {"passed", "failed"} /\ GiveUp("failed")
  /\ UNCHANGED <<inputVars, canceled, gateVars, content>>

\* CommitContext looks at the context before it renames the file.
Commit ==
  /\ stage = "checked"
  /\ \/ canceled /\ GiveUp("canceled")
     \/ ~canceled /\ GiveUp("committed")
  /\ UNCHANGED <<inputVars, canceled, gateVars, content>>

Reading == ReaderStep /\ UNCHANGED <<inputVars, canceled, gateVars, content>>

Next == Reading \/ Cancel \/ CancelRun \/ CloseWriter \/ Gate \/ Report \/ Commit

Spec == Init /\ [][Next]_vars

-----------------------------------------------------------------------------
TypeOK ==
  /\ ReaderTypeOK
  /\ GateTypeOK
  /\ mode \in Range(Modes) /\ strategy \in Strategies /\ canceled \in BOOLEAN
  /\ stage \in {"header", "tables", "symbols", "decoding", "decoded", "checking",
                "checked", "committed", "failed", "canceled"}

BagOf(rows) == [v \in Range(rows) |-> Cardinality({i \in DOMAIN rows : rows[i] = v})]
SameRows(a, b) == BagOf(a) = BagOf(b)
Nulls(rows) == Cardinality({i \in DOMAIN rows : rows[i] = Null})
Numbers(rows) == Range(rows) \ {Null}

\* Whatever went wrong on the way, a conversion that checked both its reads and
\* its output and gave the output its name has put the rows of the file in it,
\* unless some part of the file read wrong twice in the same way, which nothing
\* inside one process can tell (README.md:1935). And nothing is built on bytes of
\* another file than the one whose header was read, even when that file takes its
\* path half way through.
EndToEnd ==
  /\ stage = "committed" /\ mode = "reread" /\ ~SameRows(out.rows, content)
       => \E p \in Parts : reads[p] = <<"wrong", "wrong">>
  /\ \A p \in used : "others" \notin Range(reads[p])

\* An error that blames the reading has two readings of one file that differ,
\* or a count that cannot be, to show for it, and one that says the input was
\* replaced is right: reader.go says the first of a replaced file "would be
\* false".
BlameIsTrue ==
  /\ blame = "misread" =>
       \E p \in Parts : \/ "impossible" \in Range(reads[p])
                        \/ Cardinality(Range(reads[p])) = 2 /\ "others" \notin Range(reads[p])
  /\ blame = "replaced" => path = "other"

\* What the gate may find in a file that holds the rows decoded, because the two
\* sides group them differently: nothing, except of a float64 column. If that has a
\* NaN, the extrema; otherwise a sum that has been rounded, which takes a number so
\* large that as many of it as there are rows do not fit the mantissa.
RoundedSums ==
  {sum \in FloatSums : \E x \in Numbers(Decoded) :
     Len(Decoded) * (IF sum = "floatSum" THEN Abs(x) ELSE x * x) > Mantissa}
GroupingMatters ==
  IF strategy # "float64" THEN {}
  ELSE IF NaN \in Range(Decoded) THEN {"min", "max"} ELSE RoundedSums

\* The gate passes a file only if what its mode promises to compare is the same
\* in the file and in the rows decoded, however the rows were grouped into
\* chunks, row groups, blocks and batches, and whatever failed meanwhile. It fails
\* a file only if the file differs from what was decoded, or could not be read back,
\* or all it names is what the grouping alone can change (quality.go:129, :134). And
\* it is cancelled only if the context was done and a goroutine stopped for it: no
\* difference is reported as a stop, and no stop as a difference.
NotReadBack == "open" \in why \/ \E i \in Goroutines : ended[i] = "read"
VerdictTrue ==
  /\ verdict = "passed" =>
       /\ out.schema
       /\ Len(out.rows) = Len(Decoded)
       /\ Nulls(out.rows) = Nulls(Decoded)
       /\ AtLeast(mode, "numeric") /\ strategy # "text" /\ NaN \notin Range(Decoded) =>
            \A x \in Numbers(out.rows) \cup Numbers(Decoded) :
              (\A y \in Numbers(out.rows) : ~Less(y, x)) <=> (\A y \in Numbers(Decoded) : ~Less(y, x))
       /\ AtLeast(mode, "full") => SameRows(out.rows, Decoded)
  /\ verdict = "failed" =>
       \/ ~out.schema \/ ~SameRows(out.rows, Decoded) \/ NotReadBack
       \/ why # {} /\ why \subseteq GroupingMatters
  /\ verdict = "canceled" => canceled /\ \E i \in Goroutines : ended[i] = "canceled"

\* The gate fails no file that holds the very rows, in their order: quality.go:63
\* promises "order-independent per-column statistics over the values actually
\* written". It does not hold of a float64 column with a NaN in it, which a
\* comparison with < neither replaces as an extremum nor lets be replaced; nor of one
\* whose sums are rounded.
FaithfulPasses ==
  verdict = "failed" => ~out.schema \/ out.rows # Decoded \/ NotReadBack
=============================================================================
