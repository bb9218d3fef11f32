---------------------------- MODULE OrderedSink ----------------------------
(***************************************************************************)
(* What one conversion promises of the rows it writes, with nothing of the *)
(* goroutines that do it: the chunks of the input reach the sink one at a  *)
(* time and in their own order, the run ends with one verdict, the verdict *)
(* "ok" is given only to a complete file, and a verdict is always given.   *)
(* DecodePipeline implements this specification.                           *)
(***************************************************************************)
EXTENDS Integers, Sequences

CONSTANT NumChunks  \* how many chunks the record area is split into

VARIABLES file,     \* the chunks the sink has accepted, in arrival order
          outcome   \* "running", or how Run returned

vars == <<file, outcome>>

\* What Run can return: the metrics, the first error, ErrCanceled.
Verdicts == {"ok", "error", "canceled"}

Init == /\ file = <<>>
        /\ outcome = "running"

Extend == /\ outcome = "running"
          /\ Len(file) < NumChunks
          /\ file' = Append(file, Len(file))
          /\ UNCHANGED outcome

Return == /\ outcome = "running"
          /\ outcome' \in Verdicts
          /\ outcome' = "ok" => Len(file) = NumChunks
          /\ UNCHANGED file

Next == Extend \/ Return

Safety == Init /\ [][Next]_vars

Spec == Safety /\ WF_vars(Return)
=============================================================================
