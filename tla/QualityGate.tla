---------------------------- MODULE QualityGate ----------------------------
(***************************************************************************)
(* The quality gate: RunQualityGate of internal/convert/qualitygate.go. It *)
(* reads the Parquet file that was just written back, its row groups dealt *)
(* out in contiguous blocks to goroutines that each read theirs batch by   *)
(* batch, merges what they counted, and compares that with what was counted*)
(* as the source was decoded. The run may be cancelled at any time, and a  *)
(* read may fail at any batch.                                             *)
(***************************************************************************)
EXTENDS ColumnMetrics, FiniteSets

CONSTANTS
  BatchRows,     \* rows read back at a time
  RowGroupRows,  \* rows of a row group, the last one excepted
  Workers        \* goroutines the gate may start: WorkerCount caps it

ASSUME GateAssumption ==
    /\ BatchRows \in Nat \ {0}
    /\ RowGroupRows \in Nat \ {0}
    /\ Workers \in Nat \ {0}

VARIABLES
  mode, strategy,  \* --quality-gate, and how the column is stored
  source,          \* the metrics of the decoded rows
  out,             \* the file written: its rows, and whether its schema is right
  canceled,        \* the context is done
  gate,            \* "idle" | "reading" | "over"
  span,            \* the rows each goroutine has yet to read
  partial,         \* and what it has counted
  ended,           \* how each goroutine ended: "no", "eof", "read", "canceled"
  verdict,         \* "none" | "passed" | "failed" | "canceled"
  why              \* what the report of a failed check names

inputVars == <<mode, strategy, source, out>>
gateVars == <<gate, span, partial, ended, verdict, why>>

LeastOf(a, b) == IF a < b THEN a ELSE b

\* The blocks of row groups, as stretches of rows: per groups to each goroutine,
\* and as many goroutines as that takes.
NumGroups(rows) == (Len(rows) + RowGroupRows - 1) \div RowGroupRows
SpansRoundedDown(rows) ==
  LET groups  == NumGroups(rows)
      workers == LeastOf(Workers, groups)
      size    == (groups \div workers) * RowGroupRows
  IN  [i \in 1 .. workers |->
         SubSeq(rows, (i - 1) * size + 1, LeastOf(i * size, Len(rows)))]
Spans(rows) ==
  LET groups  == NumGroups(rows)
      workers == LeastOf(Workers, groups)
      per     == (groups + workers - 1) \div workers
      size    == per * RowGroupRows
  IN  [i \in 1 .. (groups + per - 1) \div per |->
         SubSeq(rows, (i - 1) * size + 1, LeastOf(i * size, Len(rows)))]

Hashing == AtLeast(mode, "full")
Goroutines == DOMAIN span

GateInit ==
  /\ gate = "idle" /\ verdict = "none" /\ why = {}
  /\ span = <<>> /\ partial = <<>> /\ ended = <<>>

Conclude(result, reasons) ==
  /\ gate' = "over" /\ verdict' = result /\ why' = reasons

\* What the comparison finds. A schema that differs ends it: nothing could be
\* compared column by column.
Findings(pq) ==
  (IF pq.rows # source.rows THEN {"rows"} ELSE {})
    \cup (IF out.schema THEN Differences(source, pq, mode, strategy) ELSE {"schema"})
Judge(pq) == Conclude(IF Findings(pq) = {} THEN "passed" ELSE "failed", Findings(pq))

\* readParquetMetrics opens the file; one without a row group has nothing to
\* read. What cannot be opened fails the check.
StartGate ==
  /\ gate = "idle"
  /\ \/ Conclude("failed", {"open"}) /\ UNCHANGED <<span, partial, ended>>
     \/ out.rows = <<>> /\ Judge(NoMetrics) /\ UNCHANGED <<span, partial, ended>>
     \/ /\ out.rows # <<>>
        /\ gate' = "reading"
        /\ span' = Spans(out.rows)
        /\ partial' = [i \in DOMAIN span' |-> NoMetrics]
        /\ ended' = [i \in DOMAIN span' |-> "no"]
        /\ UNCHANGED <<verdict, why>>
  /\ UNCHANGED <<inputVars, canceled>>

\* One turn of readRowGroups: the context first, and then the next batch, the
\* end of the block, or an error, which is not the end.
EndOfBlock(i) == span[i] = <<>>
ReadBatchErrorsAsEnd(i) ==
  /\ gate = "reading" /\ ended[i] = "no"
  /\ \/ canceled /\ ended' = [ended EXCEPT ![i] = "canceled"] /\ UNCHANGED <<span, partial>>
     \/ ~canceled /\ ended' = [ended EXCEPT ![i] = "eof"] /\ UNCHANGED <<span, partial>>
     \/ /\ ~canceled /\ ~EndOfBlock(i)
        /\ LET n == LeastOf(BatchRows, Len(span[i]))
           IN  /\ partial' = [partial EXCEPT ![i] = ObserveAll(@, SubSeq(span[i], 1, n), strategy, Hashing)]
               /\ span' = [span EXCEPT ![i] = SubSeq(@, n + 1, Len(@))]
        /\ UNCHANGED ended
  /\ UNCHANGED <<inputVars, canceled, gate, verdict, why>>
ReadBatch(i) ==
  /\ gate = "reading" /\ ended[i] = "no"
  /\ \/ canceled /\ ended' = [ended EXCEPT ![i] = "canceled"] /\ UNCHANGED <<span, partial>>
     \/ ~canceled /\ ended' = [ended EXCEPT ![i] = "read"] /\ UNCHANGED <<span, partial>>
     \/ /\ ~canceled /\ EndOfBlock(i)
        /\ ended' = [ended EXCEPT ![i] = "eof"] /\ UNCHANGED <<span, partial>>
     \/ /\ ~canceled /\ ~EndOfBlock(i)
        /\ LET n == LeastOf(BatchRows, Len(span[i]))
           IN  /\ partial' = [partial EXCEPT ![i] = ObserveAll(@, SubSeq(span[i], 1, n), strategy, Hashing)]
               /\ span' = [span EXCEPT ![i] = SubSeq(@, n + 1, Len(@))]
        /\ UNCHANGED ended
  /\ UNCHANGED <<inputVars, canceled, gate, verdict, why>>

\* wg.Wait, and then the first error in the order of the blocks, whichever came
\* first; only without one are the partials merged, in that order too.
Erred == {i \in Goroutines : ended[i] \in {"read", "canceled"}}
FirstErred == CHOOSE i \in Erred : \A j \in Erred : i <= j

JudgeCanceled ==
  /\ gate = "reading" /\ \A i \in Goroutines : ended[i] # "no"
  /\ IF Erred = {} THEN Judge(MergeAll(partial)) ELSE Conclude("failed", {ended[FirstErred]})
  /\ UNCHANGED <<inputVars, canceled, span, partial, ended>>
EndGate ==
  /\ gate = "reading" /\ \A i \in Goroutines : ended[i] # "no"
  /\ \/ Erred = {} /\ Judge(MergeAll(partial))
     \/ Erred # {} /\ ended[FirstErred] = "read" /\ Conclude("failed", {"read"})
     \/ Erred # {} /\ ended[FirstErred] = "canceled" /\ Conclude("canceled", {})
  /\ UNCHANGED <<inputVars, canceled, span, partial, ended>>

GateStep == StartGate \/ (\E i \in Goroutines : ReadBatch(i)) \/ EndGate

-----------------------------------------------------------------------------
GateTypeOK ==
  /\ gate \in {"idle", "reading", "over"}
  /\ verdict \in {"none", "passed", "failed", "canceled"}
  /\ DOMAIN partial = Goroutines /\ DOMAIN ended = Goroutines
  /\ \A i \in Goroutines : ended[i] \in {"no", "eof", "read", "canceled"}
  /\ (gate = "over") <=> (verdict # "none")
=============================================================================
