--------------------------- MODULE DecodePipeline ---------------------------
(***************************************************************************)
(* The decode pipeline of one conversion: Converter.Run of                 *)
(* internal/convert/parallel.go. A feeder goroutine hands chunks to the    *)
(* workers over an unbuffered channel, each worker decodes a chunk into an *)
(* Arrow record and puts it on the buffered results channel, and the       *)
(* writer (the goroutine that called Run) writes the records in chunk      *)
(* order, keeping the ones that came early in the map "pending". A window  *)
(* of slots bounds how far ahead of the writer the feeder may run. Any     *)
(* failure, and the caller at any time, cancels the context they share.    *)
(*                                                                         *)
(* A select whose cases are both ready takes either, so an action that     *)
(* communicates and the action that sees the context done are alternatives *)
(* with no priority. A record is the index of the chunk it was decoded     *)
(* from; refs counts the references held on its Arrow buffers.             *)
(***************************************************************************)
EXTENDS Integers, Sequences, FiniteSets

CONSTANTS Rows,       \* File.NoOfRecords: what the header declares
          BatchRows,  \* rows in a chunk, the last one excepted
          Worker      \* the worker goroutines Run starts

\* How many chunks Chunks makes, and which rows each of them holds.
NumChunks == (Rows + BatchRows - 1) \div BatchRows
Chunk == 0 .. NumChunks - 1
StartRow(c) == c * BatchRows
RowCount(c) == IF StartRow(c) + BatchRows > Rows THEN Rows - StartRow(c)
                                                 ELSE BatchRows

\* WorkerCount leaves at least one worker and at most one per chunk. With no
\* rows at all Run returns before it starts a goroutine.
ASSUME PipelineAssumption ==
    /\ Rows \in Nat \ {0}
    /\ BatchRows \in Nat \ {0}
    /\ IsFiniteSet(Worker)
    /\ Cardinality(Worker) \in 1 .. NumChunks

NumWorkers == Cardinality(Worker)
ReorderWindowFactor == 2
Window == IF NumWorkers * ReorderWindowFactor > NumChunks
          THEN NumChunks ELSE NumWorkers * ReorderWindowFactor

NoChunk == -1

VARIABLES
  feeder,         \* "slot" | "send" | "closed": where the feeder stands
  feed,           \* the chunk the feeder is at in its loop
  slots,          \* how many window slots are taken
  wstate,         \* where each worker stands
  wchunk,         \* the chunk each worker has in hand
  results,        \* the results channel, oldest first
  resultsClosed,
  writer,         \* where the writer stands
  hand,           \* the chunk writeOne is dealing with
  pending,        \* chunks that arrived before their predecessors
  nextChunk,      \* the chunk the file needs next
  written,        \* rows the sink has accepted
  file,           \* chunks the sink has accepted, in order
  firstErr,       \* "nil" | "input" | "sink"
  cancelled,      \* the pipeline called cancel
  callerDone,     \* the context Run was given is done
  refs,           \* references held on each chunk's record
  outcome         \* "running", or how Run returned

feederVars == <<feeder, feed>>
workerVars == <<wstate, wchunk>>
writerVars == <<writer, hand, pending, nextChunk>>
sinkVars   == <<written, file>>
errVars    == <<firstErr, cancelled>>
vars == <<feederVars, slots, workerVars, results, resultsClosed, writerVars,
          sinkVars, errVars, callerDone, refs, outcome>>

CtxDone == callerDone \/ cancelled

\* fail: the first error is kept and cancels the run; later ones are dropped.
Fail(err) == /\ firstErr' = IF firstErr = "nil" THEN err ELSE firstErr
             /\ cancelled' = TRUE

Init ==
  /\ feeder = "slot"
  /\ feed = 0
  /\ slots = 0
  /\ wstate = [w \in Worker |-> "opening"]
  /\ wchunk = [w \in Worker |-> NoChunk]
  /\ results = <<>>
  /\ resultsClosed = FALSE
  /\ writer = "recv"
  /\ hand = NoChunk
  /\ pending = {}
  /\ nextChunk = 0
  /\ written = 0
  /\ file = <<>>
  /\ firstErr = "nil"
  /\ cancelled = FALSE
  /\ callerDone = FALSE
  /\ refs = [c \in Chunk |-> 0]
  /\ outcome = "running"
-----------------------------------------------------------------------------
(* The feeder.                                                             *)


\* Mutant: the window does not hold the feeder back.
FeederTakeSlotUnbounded ==
  /\ feeder = "slot" /\ feed < NumChunks
  /\ slots' = IF slots < Window THEN slots + 1 ELSE slots
  /\ feeder' = "send"
  /\ UNCHANGED <<feed, workerVars, results, resultsClosed, writerVars,
                 sinkVars, errVars, callerDone, refs, outcome>>

FeederTakeSlot ==
  /\ feeder = "slot" /\ feed < NumChunks
  /\ slots < Window
  /\ slots' = slots + 1
  /\ feeder' = "send"
  /\ UNCHANGED <<feed, workerVars, results, resultsClosed, writerVars,
                 sinkVars, errVars, callerDone, refs, outcome>>


\* Mutant: only the first select looks at the context.
FeederStopFirstSelectOnly ==
  /\ feeder = "slot" /\ feed < NumChunks /\ CtxDone
  /\ feeder' = "closed"
  /\ UNCHANGED <<feed, slots, workerVars, results, resultsClosed, writerVars,
                 sinkVars, errVars, callerDone, refs, outcome>>

\* Either select of the loop sees the context done. A slot already taken is
\* never given back.
FeederStop ==
  /\ \/ feeder = "slot" /\ feed < NumChunks
     \/ feeder = "send"
  /\ CtxDone
  /\ feeder' = "closed"
  /\ UNCHANGED <<feed, slots, workerVars, results, resultsClosed, writerVars,
                 sinkVars, errVars, callerDone, refs, outcome>>

FeederFinish ==
  /\ feeder = "slot" /\ feed = NumChunks
  /\ feeder' = "closed"
  /\ UNCHANGED <<feed, slots, workerVars, results, resultsClosed, writerVars,
                 sinkVars, errVars, callerDone, refs, outcome>>
-----------------------------------------------------------------------------
(* A worker.                                                               *)

\* newWorker opens the worker's own handles.
WorkerOpen(w) ==
  /\ wstate[w] = "opening"
  /\ \/ /\ wstate' = [wstate EXCEPT ![w] = "idle"]
        /\ UNCHANGED errVars
     \/ /\ wstate' = [wstate EXCEPT ![w] = "done"]
        /\ Fail("input")
  /\ UNCHANGED <<feederVars, slots, wchunk, results, resultsClosed,
                 writerVars, sinkVars, callerDone, refs, outcome>>

\* The rendezvous on the work channel: feeder and worker step together.
WorkerTake(w) ==
  /\ wstate[w] = "idle" /\ feeder = "send"
  /\ wstate' = [wstate EXCEPT ![w] = "check"]
  /\ wchunk' = [wchunk EXCEPT ![w] = feed]
  /\ feeder' = "slot"
  /\ feed' = feed + 1
  /\ UNCHANGED <<slots, results, resultsClosed, writerVars, sinkVars,
                 errVars, callerDone, refs, outcome>>

WorkerCheck(w) ==
  /\ wstate[w] = "check"
  /\ wstate' = [wstate EXCEPT ![w] = IF CtxDone THEN "done" ELSE "decode"]
  /\ wchunk' = [wchunk EXCEPT ![w] = IF CtxDone THEN NoChunk ELSE @]
  /\ UNCHANGED <<feederVars, slots, results, resultsClosed, writerVars,
                 sinkVars, errVars, callerDone, refs, outcome>>

\* decodeChunk: a failed read, a second read that differs or a value that
\* cannot be converted is an input error; otherwise the worker holds a record.
WorkerDecode(w) ==
  /\ wstate[w] = "decode"
  /\ \/ /\ wstate' = [wstate EXCEPT ![w] = "send"]
        /\ refs' = [refs EXCEPT ![wchunk[w]] = @ + 1]
        /\ UNCHANGED <<wchunk, errVars>>
     \/ /\ wstate' = [wstate EXCEPT ![w] = "done"]
        /\ wchunk' = [wchunk EXCEPT ![w] = NoChunk]
        /\ Fail("input")
        /\ UNCHANGED refs
  /\ UNCHANGED <<feederVars, slots, results, resultsClosed, writerVars,
                 sinkVars, callerDone, outcome>>

WorkerSend(w) ==
  /\ wstate[w] = "send"
  /\ Len(results) < NumWorkers
  /\ results' = Append(results, wchunk[w])
  /\ wstate' = [wstate EXCEPT ![w] = "idle"]
  /\ wchunk' = [wchunk EXCEPT ![w] = NoChunk]
  /\ UNCHANGED <<feederVars, slots, resultsClosed, writerVars, sinkVars,
                 errVars, callerDone, refs, outcome>>


WorkerDrop(w) ==
  /\ wstate[w] = "send" /\ CtxDone
  /\ refs' = [refs EXCEPT ![wchunk[w]] = @ - 1]
  /\ wstate' = [wstate EXCEPT ![w] = "done"]
  /\ wchunk' = [wchunk EXCEPT ![w] = NoChunk]
  /\ UNCHANGED <<feederVars, slots, results, resultsClosed, writerVars,
                 sinkVars, errVars, callerDone, outcome>>

\* The work channel is closed and, being unbuffered, empty.
WorkerEnd(w) ==
  /\ wstate[w] = "idle" /\ feeder = "closed"
  /\ wstate' = [wstate EXCEPT ![w] = "done"]
  /\ UNCHANGED <<feederVars, slots, wchunk, results, resultsClosed,
                 writerVars, sinkVars, errVars, callerDone, refs, outcome>>

\* The goroutine that waits for the workers.
CloseResults ==
  /\ ~resultsClosed
  /\ \A w \in Worker : wstate[w] = "done"
  /\ resultsClosed' = TRUE
  /\ UNCHANGED <<feederVars, slots, workerVars, results, writerVars,
                 sinkVars, errVars, callerDone, refs, outcome>>
-----------------------------------------------------------------------------
(* The writer.                                                             *)


WriterReceive ==
  /\ writer = "recv" /\ results # <<>>
  /\ pending' = pending \cup {Head(results)}
  /\ results' = Tail(results)
  /\ writer' = "drain"
  /\ UNCHANGED <<feederVars, slots, workerVars, resultsClosed, hand,
                 nextChunk, sinkVars, errVars, callerDone, refs, outcome>>


\* Mutant: whatever has arrived is written.
WriterPickAny ==
  /\ writer = "drain" /\ pending # {}
  /\ hand' \in pending
  /\ pending' = pending \ {hand'}
  /\ nextChunk' = nextChunk + 1
  /\ writer' = "check"
  /\ UNCHANGED <<feederVars, slots, workerVars, results, resultsClosed,
                 sinkVars, errVars, callerDone, refs, outcome>>

\* The inner loop: the next chunk of the file, if it has arrived.
WriterPick ==
  /\ writer = "drain" /\ nextChunk \in pending
  /\ hand' = nextChunk
  /\ pending' = pending \ {nextChunk}
  /\ nextChunk' = nextChunk + 1
  /\ writer' = "check"
  /\ UNCHANGED <<feederVars, slots, workerVars, results, resultsClosed,
                 sinkVars, errVars, callerDone, refs, outcome>>

WriterWait ==
  /\ writer = "drain" /\ nextChunk \notin pending
  /\ writer' = "recv"
  /\ UNCHANGED <<feederVars, slots, workerVars, results, resultsClosed, hand,
                 pending, nextChunk, sinkVars, errVars, callerDone, refs,
                 outcome>>


\* failed() is read under the lock, which is let go before the write.
WriterCheckFailed ==
  /\ writer = "check"
  /\ writer' = IF firstErr # "nil" THEN "release" ELSE "write"
  /\ UNCHANGED <<feederVars, slots, workerVars, results, resultsClosed, hand,
                 pending, nextChunk, sinkVars, errVars, callerDone, refs,
                 outcome>>

WriterWrite ==
  /\ writer = "write"
  /\ \/ /\ file' = Append(file, hand)
        /\ written' = written + RowCount(hand)
        /\ UNCHANGED errVars
     \/ /\ Fail("sink")
        /\ UNCHANGED sinkVars
  /\ writer' = "release"
  /\ UNCHANGED <<feederVars, slots, workerVars, results, resultsClosed, hand,
                 pending, nextChunk, callerDone, refs, outcome>>

WriterRelease ==
  /\ writer = "release"
  /\ refs' = [refs EXCEPT ![hand] = @ - 1]
  /\ writer' = "return"
  /\ UNCHANGED <<feederVars, slots, workerVars, results, resultsClosed, hand,
                 pending, nextChunk, sinkVars, errVars, callerDone, outcome>>

\* A receive from slots: it would block with no slot taken.
WriterReturnSlot ==
  /\ writer = "return" /\ slots > 0
  /\ slots' = slots - 1
  /\ hand' = NoChunk
  /\ writer' = "drain"
  /\ UNCHANGED <<feederVars, workerVars, results, resultsClosed, pending,
                 nextChunk, sinkVars, errVars, callerDone, refs, outcome>>


\* Mutant: what is still pending is forgotten.
WriterAbandonLeaking ==
  /\ writer = "recv" /\ results = <<>> /\ resultsClosed
  /\ pending' = {}
  /\ writer' = "finish"
  /\ UNCHANGED <<feederVars, slots, workerVars, results, resultsClosed, hand,
                 nextChunk, sinkVars, errVars, callerDone, refs, outcome>>

\* results is closed and drained: what is still pending is let go.
WriterAbandon ==
  /\ writer = "recv" /\ results = <<>> /\ resultsClosed
  /\ refs' = [c \in Chunk |-> IF c \in pending THEN refs[c] - 1 ELSE refs[c]]
  /\ pending' = {}
  /\ writer' = "finish"
  /\ UNCHANGED <<feederVars, slots, workerVars, results, resultsClosed, hand,
                 nextChunk, sinkVars, errVars, callerDone, outcome>>


\* Run's last steps with the given verdict; the deferred cancel among them.
Return(verdict) ==
  /\ writer = "finish"
  /\ outcome' = verdict
  /\ writer' = "returned"
  /\ cancelled' = TRUE
  /\ UNCHANGED <<feederVars, slots, workerVars, results, resultsClosed, hand,
                 pending, nextChunk, sinkVars, firstErr, callerDone, refs>>

\* Mutants of the verdict: the context looked at first, the context cancelled
\* before it is looked at.
WriterReturnContextFirst ==
  Return(CASE CtxDone -> "canceled"
           [] ~CtxDone /\ written # Rows -> "mismatch"
           [] OTHER -> "ok")
WriterReturnCancelFirst ==
  Return(IF firstErr # "nil" THEN "error" ELSE "canceled")

\* The verdict, in the order the code looks for it.
WriterReturn ==
  Return(CASE firstErr # "nil" -> "error"
           [] firstErr = "nil" /\ CtxDone -> "canceled"
           [] firstErr = "nil" /\ ~CtxDone /\ written # Rows -> "mismatch"
           [] OTHER -> "ok")
-----------------------------------------------------------------------------
\* Ctrl-C, a stall elsewhere in the batch, or a stopped batch.
CallerCancel ==
  /\ outcome = "running" /\ ~callerDone
  /\ callerDone' = TRUE
  /\ UNCHANGED <<feederVars, slots, workerVars, results, resultsClosed,
                 writerVars, sinkVars, errVars, refs, outcome>>

Feeder == FeederTakeSlot \/ FeederStop \/ FeederFinish

WorkerStep(w) ==
  \/ WorkerOpen(w) \/ WorkerTake(w) \/ WorkerCheck(w) \/ WorkerDecode(w)
  \/ WorkerSend(w) \/ WorkerDrop(w) \/ WorkerEnd(w)

Writer ==
  \/ WriterReceive \/ WriterPick \/ WriterWait \/ WriterCheckFailed
  \/ WriterWrite \/ WriterRelease \/ WriterReturnSlot
  \/ WriterAbandon \/ WriterReturn

\* Every goroutine has ended: the only states the system may stop in.
AllEnded ==
  /\ writer = "returned" /\ feeder = "closed" /\ resultsClosed
  /\ \A w \in Worker : wstate[w] = "done"

Terminated == AllEnded /\ UNCHANGED vars

Next ==
  \/ Feeder
  \/ \E w \in Worker : WorkerStep(w)
  \/ CloseResults
  \/ Writer
  \/ CallerCancel
  \/ Terminated

Spec == Init /\ [][Next]_vars

\* The Go scheduler runs every goroutine that can run, and every read and
\* write answers (StallWatch is about the ones that do not). Nobody has to
\* cancel, and nothing promises that a decode or a write succeeds.
Fairness == /\ WF_vars(Feeder)
            /\ \A w \in Worker : WF_vars(WorkerStep(w))
            /\ WF_vars(CloseResults)
            /\ WF_vars(Writer)

FairSpec == Spec /\ Fairness
-----------------------------------------------------------------------------
WorkerStates == {"opening", "idle", "check", "decode", "send", "done"}
WriterStates == {"recv", "drain", "check", "write", "release", "return",
                 "finish", "returned"}
Outcomes == {"running", "ok", "error", "canceled", "mismatch"}

\* The type of every variable.
TypeOK ==
  /\ feeder \in {"slot", "send", "closed"}
  /\ feed \in 0 .. NumChunks
  /\ slots \in 0 .. Window
  /\ wstate \in [Worker -> WorkerStates]
  /\ wchunk \in [Worker -> Chunk \cup {NoChunk}]
  /\ results \in Seq(Chunk)
  /\ Len(results) \in 0 .. NumWorkers
  /\ resultsClosed \in BOOLEAN
  /\ writer \in WriterStates
  /\ hand \in Chunk \cup {NoChunk}
  /\ pending \in SUBSET Chunk
  /\ nextChunk \in 0 .. NumChunks
  /\ written \in Nat
  /\ file \in Seq(Chunk)
  /\ firstErr \in {"nil", "input", "sink"}
  /\ cancelled \in BOOLEAN
  /\ callerDone \in BOOLEAN
  /\ refs \in [Chunk -> Int]
  /\ outcome \in Outcomes

\* The rows reach the Parquet writer in the order the QVD holds them, whatever
\* order the workers finish in and wherever a failure or a cancel falls: the
\* file is at every moment the first chunks of the input, each of them once.
RowsInOrder == file = [i \in 1 .. Len(file) |-> i - 1]

\* Run reports success only for a file that holds every chunk, and so every
\* row the header declares.
SuccessIsComplete ==
  outcome = "ok" => Len(file) = NumChunks /\ written = Rows

\* A run that was stopped, or that failed, is not reported as an input that
\* has fewer rows than its header declares: the row count check is a net no
\* run falls into.
NeverMismatch == outcome # "mismatch"

\* A failure of the pipeline's own is never reported as a cancellation (it
\* cancels the same context), nor a cancellation as a failure.
VerdictHonest ==
  /\ outcome = "canceled" => callerDone /\ firstErr = "nil"
  /\ outcome = "error" => firstErr # "nil"

\* Once Run has returned no record's buffers are still referenced, whichever
\* worker was stopped at whichever step.
NothingLeaked == outcome # "running" => \A c \in Chunk : refs[c] = 0

\* The memory the pipeline holds is bounded: at no moment are more records
\* alive than the window allows, counting those being handed over and the one
\* being written, however long chunk 0 takes.
WindowBound == Cardinality({c \in Chunk : refs[c] > 0}) =< Window

\* The writer never waits for a slot that nobody took.
SlotAlwaysThere == writer = "return" => slots > 0

\* Run returns and leaves no goroutine behind, whatever fails and whenever it
\* is cancelled.
EverythingEnds == <>[]AllEnded

\* Without a failure and without a cancel the conversion succeeds: nothing in
\* the pipeline stops of itself.
SucceedsUndisturbed ==
  [](firstErr = "nil" /\ ~callerDone) => <>(outcome = "ok")

\* The pipeline implements the ordered sink.
Abstract == INSTANCE OrderedSink
              WITH NumChunks <- NumChunks, file <- file, outcome <- outcome
ImplementsOrderedSink == Abstract!Spec
-----------------------------------------------------------------------------
(* The inductive invariant behind the theorems of DecodePipelineProofs, in *)
(* layers: each is inductive given the ones above it.                      *)

\* writeOne is at work on the chunk it took, so nextChunk is already past it.
Busy == writer \in {"check", "write", "release", "return"}

\* How many slots the writer has given back.
Returned == IF Busy THEN nextChunk - 1 ELSE nextChunk

\* What each goroutine has in hand.
Shape ==
  /\ TypeOK
  /\ Busy => nextChunk > 0
  /\ hand = IF Busy THEN nextChunk - 1 ELSE NoChunk
  /\ feeder = "send" => feed < NumChunks
  /\ \A w \in Worker :
       wchunk[w] \in Chunk <=> wstate[w] \in {"check", "decode", "send"}

\* The writer leaves its loop only when every worker has ended and the channel
\* is drained, so nobody can fail or hand anything over after that.
EndInv ==
  /\ resultsClosed => \A w \in Worker : wstate[w] = "done"
  /\ writer \in {"finish", "returned"} =>
       resultsClosed /\ results = <<>> /\ pending = {}

\* How far the file is, given how far the writer is.
FileInv ==
  /\ RowsInOrder
  /\ Len(file) =< NumChunks
  /\ written = IF Len(file) = NumChunks THEN Rows ELSE StartRow(Len(file))
  /\ writer = "write" => Len(file) = hand
  /\ firstErr = "nil" => Len(file) = IF writer \in {"check", "write"}
                                     THEN nextChunk - 1 ELSE nextChunk
  /\ cancelled <=> (firstErr # "nil" \/ writer = "returned")
  /\ outcome # "running" <=> writer = "returned"
  /\ SuccessIsComplete
  /\ VerdictHonest

InResults == {results[i] : i \in 1 .. Len(results)}
InWorkers == {wchunk[w] : w \in Worker} \ {NoChunk}

\* Each chunk the feeder has handed out and the writer has not taken is in at
\* most one place, and no other chunk is anywhere.
PlaceInv ==
  /\ pending \cup InResults \cup InWorkers \subseteq nextChunk .. feed - 1
  /\ pending \cap InResults = {}
  /\ (pending \cup InResults) \cap InWorkers = {}
  /\ \A i, j \in 1 .. Len(results) : results[i] = results[j] => i = j
  /\ \A v, w \in Worker : wchunk[v] \in Chunk /\ wchunk[v] = wchunk[w] => v = w
  /\ nextChunk =< feed
  /\ feed + (IF feeder = "send" THEN 1 ELSE 0) - Returned =< slots

\* A record is referenced, once, exactly in the places that own it.
InSending == {wchunk[w] : w \in {v \in Worker : wstate[v] = "send"}}
InWriting == IF writer \in {"check", "write", "release"} THEN {hand} ELSE {}
Alive == pending \cup InResults \cup InSending \cup InWriting
RefsInv == refs = [c \in Chunk |-> IF c \in Alive THEN 1 ELSE 0]

\* Until something is cancelled no chunk is lost.
ConserveInv ==
  /\ writer = "recv" => nextChunk \notin pending
  /\ ~CtxDone =>
       /\ feeder = "closed" => feed = NumChunks
       /\ \A w \in Worker : wstate[w] = "done" => feeder = "closed"
       /\ writer # "finish" =>
            nextChunk .. feed - 1 \subseteq pending \cup InResults \cup InWorkers
       /\ writer = "finish" => nextChunk = NumChunks
  /\ outcome # "mismatch"

Inductive == Shape /\ EndInv /\ FileInv /\ PlaceInv /\ RefsInv /\ ConserveInv
=============================================================================
