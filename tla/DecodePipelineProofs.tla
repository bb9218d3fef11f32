------------------------ MODULE DecodePipelineProofs ------------------------
(***************************************************************************)
(* Machine-checked proofs about DecodePipeline, for every number of rows,  *)
(* batch size and set of workers.                                          *)
(***************************************************************************)
EXTENDS DecodePipeline, FiniteSetTheorems, TLAPS

(***************************************************************************)
(* The chunk plan: Chunks covers every row once.                           *)
(***************************************************************************)

\* Every product of the plan is one of these two facts about multiples of the
\* batch size.
LEMMA Product ==
  ASSUME NEW a \in Nat, NEW b \in Nat, NEW k \in Nat, a =< b
  PROVE  a * k \in Nat /\ a * k =< b * k
<1>1. PICK d \in Nat : b = a + d
  <2>1. b - a \in Nat /\ b = a + (b - a)
    OBVIOUS
  <2> QED BY <2>1
<1>2. b * k = a * k + d * k
  BY <1>1
<1>3. a * k \in Nat /\ d * k \in Nat
  OBVIOUS
<1> QED BY <1>2, <1>3

\* The last chunk starts inside the record area and ends with it or past it.
LEMMA PlanBounds ==
  /\ NumChunks \in Nat \ {0}
  /\ (NumChunks - 1) * BatchRows < Rows
  /\ Rows =< NumChunks * BatchRows
<1> DEFINE m == Rows + BatchRows - 1
           q == m \div BatchRows
<1>0. /\ Rows \in Nat /\ Rows >= 1
      /\ BatchRows \in Nat /\ BatchRows >= 1
  BY PipelineAssumption
<1>1. m \in Nat /\ m >= BatchRows
  BY <1>0
<1>2. q \in Int /\ m = BatchRows * q + (m % BatchRows) /\ m % BatchRows \in 0 .. BatchRows - 1
  BY <1>0, <1>1
<1>m. m = Rows + BatchRows - 1
  OBVIOUS
<1> HIDE DEF m, q
<1>3. q >= 1
  <2> SUFFICES ASSUME q =< 0 PROVE FALSE
    BY <1>2
  <2>1. BatchRows * q =< 0 /\ BatchRows * q \in Int
    BY <1>0, <1>2
  <2> QED BY <2>1, <1>0, <1>1, <1>2
<1>4. q * BatchRows = BatchRows * q /\ (q - 1) * BatchRows = BatchRows * q - BatchRows
  BY <1>0, <1>2
<1>5. BatchRows * q \in Int
  BY <1>0, <1>2
<1>6. Rows =< BatchRows * q /\ BatchRows * q - BatchRows < Rows
  BY <1>0, <1>2, <1>5, <1>m
<1>7. NumChunks = q
  BY DEF NumChunks, q, m
<1> QED BY <1>2, <1>3, <1>4, <1>6, <1>7

\* The chunks are contiguous: each holds at least one row, all but the last
\* hold a whole batch, and the last ends where the record area ends.
LEMMA ChunkRows ==
  ASSUME NEW c \in Chunk
  PROVE  /\ StartRow(c) \in Nat
         /\ RowCount(c) \in 1 .. BatchRows
         /\ c < NumChunks - 1 => StartRow(c + 1) = StartRow(c) + RowCount(c)
         /\ c = NumChunks - 1 => StartRow(c) + RowCount(c) = Rows
<1>0. Rows \in Nat \ {0} /\ BatchRows \in Nat \ {0}
  BY PipelineAssumption
<1>1. c \in Nat /\ c =< NumChunks - 1 /\ NumChunks - 1 \in Nat
  BY PlanBounds DEF Chunk
<1>2. c * BatchRows \in Nat /\ c * BatchRows =< (NumChunks - 1) * BatchRows
  BY <1>0, <1>1, Product
<1>3. (NumChunks - 1) * BatchRows \in Int
  BY <1>0, <1>1
<1>4. c * BatchRows < Rows
  BY <1>0, <1>2, <1>3, PlanBounds
<1>5. (c + 1) * BatchRows = c * BatchRows + BatchRows
  BY <1>0, <1>1
<1>6. c < NumChunks - 1 => c * BatchRows + BatchRows =< Rows
  <2> SUFFICES ASSUME c < NumChunks - 1 PROVE c * BatchRows + BatchRows =< Rows
    OBVIOUS
  <2>1. (c + 1) * BatchRows =< (NumChunks - 1) * BatchRows
    <3>1. c + 1 \in Nat /\ c + 1 =< NumChunks - 1 /\ BatchRows \in Nat
      BY <1>0, <1>1
    <3> QED BY <3>1, <1>1, Product
  <2> QED BY <2>1, <1>0, <1>2, <1>3, <1>5, PlanBounds
<1>7. c = NumChunks - 1 => Rows =< c * BatchRows + BatchRows
  <2> SUFFICES ASSUME c = NumChunks - 1 PROVE Rows =< c * BatchRows + BatchRows
    OBVIOUS
  <2>1. c + 1 = NumChunks
    BY PlanBounds
  <2> QED BY <2>1, <1>5, PlanBounds
<1> QED BY <1>0, <1>1, <1>2, <1>4, <1>5, <1>6, <1>7 DEF StartRow, RowCount

\* Every chunk starts before the record area ends.
LEMMA StartBeforeEnd ==
  ASSUME NEW c \in Chunk
  PROVE  StartRow(c) < Rows /\ StartRow(c) # Rows
<1>1. /\ Rows \in Nat /\ BatchRows \in Nat \ {0}
  BY PipelineAssumption
<1>2. StartRow(c) \in Nat /\ RowCount(c) \in 1 .. BatchRows
  BY ChunkRows
<1>3. Rows - StartRow(c) \in 1 .. BatchRows \/ StartRow(c) + BatchRows =< Rows
  BY <1>1, <1>2 DEF RowCount
<1> QED BY <1>1, <1>2, <1>3

\* The constants the invariants mention.
LEMMA Constants ==
  /\ NumChunks \in Nat \ {0} /\ NumWorkers \in Nat \ {0} /\ Window \in Nat \ {0}
  /\ Chunk = 0 .. NumChunks - 1 /\ NoChunk \notin Chunk /\ NoChunk = -1
<1>1. NumChunks \in Nat \ {0} /\ NumWorkers \in Nat \ {0}
  BY PlanBounds, PipelineAssumption DEF NumWorkers
<1> QED BY <1>1 DEF Window, ReorderWindowFactor, Chunk, NoChunk

\* The two updates whose type needs arithmetic: a reference taken or dropped,
\* and the rows of a chunk counted.
LEMMA RefsType ==
  ASSUME NEW r \in [Chunk -> Int], NEW c \in Chunk
  PROVE  /\ [r EXCEPT ![c] = @ + 1] \in [Chunk -> Int]
         /\ [r EXCEPT ![c] = @ - 1] \in [Chunk -> Int]
OBVIOUS

LEMMA WrittenType ==
  ASSUME NEW n \in Nat, NEW c \in Chunk
  PROVE  n + RowCount(c) \in Nat
<1>1. BatchRows \in Nat /\ RowCount(c) \in 1 .. BatchRows
  BY ChunkRows, PipelineAssumption
<1>2. RowCount(c) \in Nat
  BY <1>1
<1> QED BY <1>2

\* The values Shape gives the variables, with the definitions it uses.
LEMMA ShapeInit == Init => Shape
BY Constants DEF Init, Shape, TypeOK, Busy, WorkerStates, WriterStates, Outcomes

(***************************************************************************)
(* Layer 1: the type of every variable, and what each goroutine has in     *)
(* hand where it stands.                                                   *)
(***************************************************************************)
LEMMA ShapeStep == Shape /\ [Next]_vars => Shape'
<1> SUFFICES ASSUME Shape, [Next]_vars PROVE Shape'
  OBVIOUS
<1> USE Constants DEF Shape, TypeOK, Busy, WorkerStates, WriterStates, Outcomes,
    feederVars, workerVars, writerVars, sinkVars, errVars
<1>1. ASSUME FeederTakeSlot PROVE Shape'
  BY <1>1 DEF FeederTakeSlot, Fail, CtxDone, Return
<1>2. ASSUME FeederStop PROVE Shape'
  BY <1>2 DEF FeederStop, Fail, CtxDone, Return
<1>3. ASSUME FeederFinish PROVE Shape'
  BY <1>3 DEF FeederFinish, Fail, CtxDone, Return
<1>4. ASSUME NEW w \in Worker, WorkerOpen(w) PROVE Shape'
  <2>1. CASE wstate' = [wstate EXCEPT ![w] = "idle"] /\ UNCHANGED errVars
    BY <1>4, <2>1 DEF WorkerOpen
  <2>2. CASE wstate' = [wstate EXCEPT ![w] = "done"] /\ Fail("input")
    BY <1>4, <2>2 DEF WorkerOpen, Fail
  <2> QED BY <1>4, <2>1, <2>2 DEF WorkerOpen
<1>5. ASSUME NEW w \in Worker, WorkerTake(w) PROVE Shape'
  BY <1>5 DEF WorkerTake, Fail, CtxDone
<1>6. ASSUME NEW w \in Worker, WorkerCheck(w) PROVE Shape'
  BY <1>6 DEF WorkerCheck, Fail, CtxDone
<1>7. ASSUME NEW w \in Worker, WorkerDecode(w) PROVE Shape'
  <2>1. CASE wstate' = [wstate EXCEPT ![w] = "send"]
    <3>1. refs' = [refs EXCEPT ![wchunk[w]] = @ + 1] /\ UNCHANGED <<wchunk, errVars>>
      BY <1>7, <2>1 DEF WorkerDecode
    <3>2. refs' \in [Chunk -> Int]
      <4>1. wchunk[w] \in Chunk /\ refs \in [Chunk -> Int]
        BY <1>7 DEF WorkerDecode
      <4> QED BY <3>1, <4>1, RefsType
    <3> QED BY <1>7, <2>1, <3>1, <3>2 DEF WorkerDecode
  <2>2. CASE wstate' = [wstate EXCEPT ![w] = "done"]
    <3>1. /\ wchunk' = [wchunk EXCEPT ![w] = NoChunk]
          /\ Fail("input") /\ UNCHANGED refs
      BY <1>7, <2>2 DEF WorkerDecode
    <3> QED BY <1>7, <2>2, <3>1 DEF WorkerDecode, Fail
  <2> QED BY <1>7, <2>1, <2>2 DEF WorkerDecode
<1>8. ASSUME NEW w \in Worker, WorkerSend(w) PROVE Shape'
  BY <1>8 DEF WorkerSend, Fail, CtxDone
<1>9. ASSUME NEW w \in Worker, WorkerDrop(w) PROVE Shape'
  BY <1>9 DEF WorkerDrop, Fail, CtxDone
<1>10. ASSUME NEW w \in Worker, WorkerEnd(w) PROVE Shape'
  BY <1>10 DEF WorkerEnd, Fail, CtxDone
<1>11. ASSUME CloseResults PROVE Shape'
  BY <1>11 DEF CloseResults, Fail, CtxDone, Return
<1>12. ASSUME WriterReceive PROVE Shape'
  <2>1. Head(results) \in Chunk /\ results' \in Seq(Chunk)
        /\ Len(results') = Len(results) - 1 /\ Len(results) >= 1
    BY <1>12 DEF WriterReceive
  <2>2. /\ pending' = pending \cup {Head(results)}
        /\ writer' = "drain" /\ writer = "recv"
        /\ UNCHANGED <<feederVars, slots, workerVars, resultsClosed, hand,
                       nextChunk, sinkVars, errVars, callerDone, refs, outcome>>
    BY <1>12 DEF WriterReceive
  <2>3. pending' \in SUBSET Chunk
    BY <2>1, <2>2
  <2>4. Len(results') \in 0 .. NumWorkers
    BY <2>1
  <2> QED BY <2>1, <2>2, <2>3, <2>4, SMTT(20)
<1>13. ASSUME WriterPick PROVE Shape'
  BY <1>13 DEF WriterPick, Fail, CtxDone, Return
<1>14. ASSUME WriterWait PROVE Shape'
  BY <1>14 DEF WriterWait, Fail, CtxDone, Return
<1>15. ASSUME WriterCheckFailed PROVE Shape'
  BY <1>15 DEF WriterCheckFailed, Fail, CtxDone, Return
<1>16. ASSUME WriterWrite PROVE Shape'
  <2>0. hand \in Chunk
    BY <1>16 DEF WriterWrite
  <2>1. CASE UNCHANGED errVars /\ file' = Append(file, hand)
             /\ written' = written + RowCount(hand)
    <3>1. written + RowCount(hand) \in Nat
      BY <2>0, WrittenType
    <3>2. writer' = "release" /\ writer = "write"
      BY <1>16 DEF WriterWrite
    <3>3. UNCHANGED <<feederVars, slots, workerVars, results, resultsClosed, hand,
                      pending, nextChunk, callerDone, refs, outcome>>
      BY <1>16 DEF WriterWrite
    <3>4. written' \in Nat /\ file' \in Seq(Chunk)
      BY <2>0, <2>1, <3>1
    <3> QED BY <2>0, <2>1, <3>2, <3>3, <3>4
  <2>2. CASE Fail("sink") /\ UNCHANGED sinkVars
    BY <1>16, <2>2 DEF WriterWrite, Fail
  <2> QED BY <1>16, <2>1, <2>2 DEF WriterWrite, sinkVars
<1>17. ASSUME WriterRelease PROVE Shape'
  BY <1>17 DEF WriterRelease, Fail, CtxDone, Return
<1>18. ASSUME WriterReturnSlot PROVE Shape'
  BY <1>18 DEF WriterReturnSlot, Fail, CtxDone, Return
<1>19. ASSUME WriterAbandon PROVE Shape'
  BY <1>19 DEF WriterAbandon, Fail, CtxDone, Return
<1>20. ASSUME WriterReturn PROVE Shape'
  BY <1>20 DEF WriterReturn, Fail, CtxDone, Return
<1>21. ASSUME CallerCancel PROVE Shape'
  BY <1>21 DEF CallerCancel, Fail, CtxDone, Return
<1>22. ASSUME UNCHANGED vars PROVE Shape'
  BY <1>22 DEF vars
<1> QED
  BY <1>1, <1>2, <1>3, <1>4, <1>5, <1>6, <1>7, <1>8, <1>9, <1>10, <1>11, <1>12, <1>13, <1>14, <1>15, <1>16, <1>17, <1>18, <1>19, <1>20, <1>21, <1>22
  DEF Next, Feeder, WorkerStep, Writer, Terminated

\* Every variable has a value of its type, always.
THEOREM TypeCorrect == Spec => []TypeOK
<1>1. Shape => TypeOK
  BY DEF Shape
<1> QED BY ShapeInit, ShapeStep, <1>1, PTL DEF Spec

(***************************************************************************)
(* Layer 2: the writer ends last, and the file is the first chunks of the  *)
(* input.                                                                  *)
(***************************************************************************)
LEMMA EndStep == Shape /\ EndInv /\ [Next]_vars => EndInv'
<1> SUFFICES ASSUME Shape, EndInv, [Next]_vars PROVE EndInv'
  OBVIOUS
<1> USE DEF EndInv, feederVars, workerVars, writerVars, sinkVars, errVars
<1>0. /\ wstate \in [Worker -> WorkerStates] /\ results \in Seq(Chunk)
      /\ pending \subseteq Chunk
  BY DEF Shape, TypeOK
<1>1. ASSUME FeederTakeSlot PROVE EndInv'
  BY <1>0, <1>1 DEF FeederTakeSlot, Return
<1>2. ASSUME FeederStop PROVE EndInv'
  BY <1>0, <1>2 DEF FeederStop, Return
<1>3. ASSUME FeederFinish PROVE EndInv'
  BY <1>0, <1>3 DEF FeederFinish, Return
<1>4. ASSUME NEW w \in Worker, WorkerOpen(w) PROVE EndInv'
  BY <1>0, <1>4 DEF WorkerOpen
<1>5. ASSUME NEW w \in Worker, WorkerTake(w) PROVE EndInv'
  BY <1>0, <1>5 DEF WorkerTake
<1>6. ASSUME NEW w \in Worker, WorkerCheck(w) PROVE EndInv'
  BY <1>0, <1>6 DEF WorkerCheck
<1>7. ASSUME NEW w \in Worker, WorkerDecode(w) PROVE EndInv'
  BY <1>0, <1>7 DEF WorkerDecode
<1>8. ASSUME NEW w \in Worker, WorkerSend(w) PROVE EndInv'
  BY <1>0, <1>8 DEF WorkerSend
<1>9. ASSUME NEW w \in Worker, WorkerDrop(w) PROVE EndInv'
  BY <1>0, <1>9 DEF WorkerDrop
<1>10. ASSUME NEW w \in Worker, WorkerEnd(w) PROVE EndInv'
  BY <1>0, <1>10 DEF WorkerEnd
<1>11. ASSUME CloseResults PROVE EndInv'
  BY <1>0, <1>11 DEF CloseResults, Return
<1>12. ASSUME WriterReceive PROVE EndInv'
  BY <1>0, <1>12 DEF WriterReceive, Return
<1>13. ASSUME WriterPick PROVE EndInv'
  BY <1>0, <1>13 DEF WriterPick, Return
<1>14. ASSUME WriterWait PROVE EndInv'
  BY <1>0, <1>14 DEF WriterWait, Return
<1>15. ASSUME WriterCheckFailed PROVE EndInv'
  BY <1>0, <1>15 DEF WriterCheckFailed, Return
<1>16. ASSUME WriterWrite PROVE EndInv'
  BY <1>0, <1>16 DEF WriterWrite, Return
<1>17. ASSUME WriterRelease PROVE EndInv'
  BY <1>0, <1>17 DEF WriterRelease, Return
<1>18. ASSUME WriterReturnSlot PROVE EndInv'
  BY <1>0, <1>18 DEF WriterReturnSlot, Return
<1>19. ASSUME WriterAbandon PROVE EndInv'
  BY <1>0, <1>19 DEF WriterAbandon, Return
<1>20. ASSUME WriterReturn PROVE EndInv'
  BY <1>0, <1>20 DEF WriterReturn, Return
<1>21. ASSUME CallerCancel PROVE EndInv'
  BY <1>0, <1>21 DEF CallerCancel, Return
<1>22. ASSUME UNCHANGED vars PROVE EndInv'
  BY <1>22 DEF vars
<1> QED
  BY <1>1, <1>2, <1>3, <1>4, <1>5, <1>6, <1>7, <1>8, <1>9, <1>10, <1>11, <1>12, <1>13, <1>14, <1>15, <1>16, <1>17, <1>18, <1>19, <1>20, <1>21, <1>22
  DEF Next, Feeder, WorkerStep, Writer, Terminated

\* FileInv speaks only of these variables.
LEMMA FileStutter ==
  FileInv /\ UNCHANGED <<sinkVars, errVars, writer, hand, nextChunk, outcome, callerDone>>
    => FileInv'
BY DEF FileInv, RowsInOrder, SuccessIsComplete, VerdictHonest, sinkVars, errVars

\* What fail leaves true: it may set the error and the cancel, nothing else.
LEMMA FileFail ==
  ASSUME Shape, FileInv, EndInv, NEW err \in {"input", "sink"}, Fail(err),
         UNCHANGED <<sinkVars, hand, nextChunk, outcome, callerDone>>,
         \/ UNCHANGED writer /\ \E w \in Worker : wstate[w] # "done"
         \/ writer = "write" /\ writer' = "release"
  PROVE  FileInv'
<1>1. firstErr' # "nil" /\ cancelled'
  BY DEF Fail, Shape, TypeOK
<1>2. writer \notin {"finish", "returned"} /\ writer' \notin {"finish", "returned"}
  BY DEF EndInv
<1>3. outcome = "running" /\ outcome' = "running"
  BY <1>2 DEF FileInv, sinkVars
<1> QED
  BY <1>1, <1>2, <1>3
  DEF FileInv, RowsInOrder, SuccessIsComplete, VerdictHonest, sinkVars

LEMMA FileStep == Shape /\ EndInv /\ FileInv /\ [Next]_vars => FileInv'
<1> SUFFICES ASSUME Shape, EndInv, FileInv, [Next]_vars PROVE FileInv'
  OBVIOUS
<1> USE DEF feederVars, workerVars, writerVars, sinkVars, errVars
<1>1. ASSUME FeederTakeSlot PROVE FileInv'
  BY <1>1, FileStutter DEF FeederTakeSlot
<1>2. ASSUME FeederStop PROVE FileInv'
  BY <1>2, FileStutter DEF FeederStop
<1>3. ASSUME FeederFinish PROVE FileInv'
  BY <1>3, FileStutter DEF FeederFinish
<1>4. ASSUME NEW w \in Worker, WorkerOpen(w) PROVE FileInv'
  <2>1. CASE UNCHANGED errVars
    BY <1>4, <2>1, FileStutter DEF WorkerOpen
  <2>2. CASE Fail("input")
    <3>1. wstate[w] # "done"
      BY <1>4 DEF WorkerOpen
    <3> QED BY <1>4, <2>2, <3>1, FileFail DEF WorkerOpen
  <2> QED BY <1>4, <2>1, <2>2 DEF WorkerOpen
<1>5. ASSUME NEW w \in Worker, WorkerTake(w) PROVE FileInv'
  BY <1>5, FileStutter DEF WorkerTake
<1>6. ASSUME NEW w \in Worker, WorkerCheck(w) PROVE FileInv'
  BY <1>6, FileStutter DEF WorkerCheck
<1>7. ASSUME NEW w \in Worker, WorkerDecode(w) PROVE FileInv'
  <2>1. CASE UNCHANGED errVars
    BY <1>7, <2>1, FileStutter DEF WorkerDecode
  <2>2. CASE Fail("input")
    <3>1. wstate[w] # "done"
      BY <1>7 DEF WorkerDecode
    <3> QED BY <1>7, <2>2, <3>1, FileFail DEF WorkerDecode
  <2> QED BY <1>7, <2>1, <2>2 DEF WorkerDecode
<1>8. ASSUME NEW w \in Worker, WorkerSend(w) PROVE FileInv'
  BY <1>8, FileStutter DEF WorkerSend
<1>9. ASSUME NEW w \in Worker, WorkerDrop(w) PROVE FileInv'
  BY <1>9, FileStutter DEF WorkerDrop
<1>10. ASSUME NEW w \in Worker, WorkerEnd(w) PROVE FileInv'
  BY <1>10, FileStutter DEF WorkerEnd
<1>11. ASSUME CloseResults PROVE FileInv'
  BY <1>11, FileStutter DEF CloseResults
<1>12. ASSUME WriterReceive PROVE FileInv'
  BY <1>12, Constants DEF WriterReceive, FileInv, RowsInOrder, SuccessIsComplete, VerdictHonest, Shape, TypeOK, Busy
<1>13. ASSUME WriterPick PROVE FileInv'
  <2>1. /\ writer = "drain" /\ writer' = "check" /\ nextChunk' = nextChunk + 1
        /\ UNCHANGED <<sinkVars, errVars, outcome, callerDone>>
    BY <1>13 DEF WriterPick
  <2>2. nextChunk \in Nat /\ nextChunk' - 1 = nextChunk
    BY <2>1, Constants DEF Shape, TypeOK
  <2>3. firstErr' = "nil" => Len(file') = nextChunk' - 1
    BY <2>1, <2>2 DEF FileInv
  <2> QED
    BY <2>1, <2>3 DEF FileInv, RowsInOrder, SuccessIsComplete, VerdictHonest
<1>14. ASSUME WriterWait PROVE FileInv'
  BY <1>14, Constants DEF WriterWait, FileInv, RowsInOrder, SuccessIsComplete, VerdictHonest, Shape, TypeOK, Busy
<1>15. ASSUME WriterCheckFailed PROVE FileInv'
  BY <1>15, Constants DEF WriterCheckFailed, FileInv, RowsInOrder, SuccessIsComplete, VerdictHonest, Shape, TypeOK, Busy
<1>16. ASSUME WriterWrite PROVE FileInv'
  <2>0. writer = "write" /\ writer' = "release"
        /\ UNCHANGED <<hand, nextChunk, callerDone, outcome>>
    BY <1>16 DEF WriterWrite
  <2>1. CASE Fail("sink") /\ UNCHANGED sinkVars
    BY <2>0, <2>1, FileFail
  <2>2. CASE /\ file' = Append(file, hand) /\ UNCHANGED errVars
             /\ written' = written + RowCount(hand)
    <3>1. /\ hand \in Chunk /\ hand = nextChunk - 1 /\ nextChunk \in Nat
          /\ file \in Seq(Chunk) /\ Len(file) = hand /\ outcome = "running"
      BY <2>0, Constants DEF Shape, TypeOK, Busy, FileInv
    <3>2. Len(file') = hand + 1 /\ RowsInOrder'
      BY <2>2, <3>1, Constants DEF FileInv, RowsInOrder
    <3>3. written' = IF Len(file') = NumChunks THEN Rows ELSE StartRow(Len(file'))
      <4>1. written = StartRow(hand)
        BY <3>1, Constants DEF FileInv
      <4>2. written' = StartRow(hand) + RowCount(hand) /\ Len(file') = hand + 1
        BY <2>2, <3>2, <4>1
      <4>3. /\ hand < NumChunks - 1 => StartRow(hand + 1) = StartRow(hand) + RowCount(hand)
            /\ hand = NumChunks - 1 => StartRow(hand) + RowCount(hand) = Rows
        BY <3>1, ChunkRows
      <4>4. hand \in Nat /\ NumChunks \in Nat /\ hand <= NumChunks - 1
        BY <3>1, Constants
      <4> QED BY <4>2, <4>3, <4>4
    <3> QED
      BY <2>0, <2>2, <3>1, <3>2, <3>3, Constants
      DEF FileInv, SuccessIsComplete, VerdictHonest
  <2> QED BY <1>16, <2>1, <2>2 DEF WriterWrite
<1>17. ASSUME WriterRelease PROVE FileInv'
  BY <1>17, Constants DEF WriterRelease, FileInv, RowsInOrder, SuccessIsComplete, VerdictHonest, Shape, TypeOK, Busy
<1>18. ASSUME WriterReturnSlot PROVE FileInv'
  BY <1>18, Constants DEF WriterReturnSlot, FileInv, RowsInOrder, SuccessIsComplete, VerdictHonest, Shape, TypeOK, Busy
<1>19. ASSUME WriterAbandon PROVE FileInv'
  BY <1>19, Constants DEF WriterAbandon, FileInv, RowsInOrder, SuccessIsComplete, VerdictHonest, Shape, TypeOK, Busy
<1>20. ASSUME WriterReturn PROVE FileInv'
  <2>1. /\ writer = "finish" /\ writer' = "returned" /\ cancelled' = TRUE
        /\ UNCHANGED <<file, written, firstErr, callerDone, nextChunk>>
    BY <1>20 DEF WriterReturn, Return
  <2>2. /\ outcome' # "running"
        /\ outcome' = "error" => firstErr # "nil"
        /\ outcome' = "canceled" => firstErr = "nil" /\ CtxDone
        /\ outcome' = "ok" => firstErr = "nil" /\ written = Rows
    BY <1>20 DEF WriterReturn, Return
  <2>3. outcome' = "canceled" => callerDone
    BY <2>1, <2>2 DEF CtxDone, FileInv
  <2>4. written = Rows => Len(file) = NumChunks
    <3> SUFFICES ASSUME Len(file) # NumChunks PROVE written # Rows
      OBVIOUS
    <3>1. Len(file) \in Chunk
      BY Constants DEF FileInv, Shape, TypeOK
    <3>2. StartRow(Len(file)) # Rows
      BY <3>1, StartBeforeEnd
    <3> QED BY <3>2 DEF FileInv
  <2>5. file' = [i \in 1 .. Len(file') |-> i - 1]
    BY <2>1 DEF FileInv, RowsInOrder
  <2>6. firstErr = "nil" => Len(file) = nextChunk
    BY <2>1 DEF FileInv
  <2> QED
    BY <2>1, <2>2, <2>3, <2>4, <2>5, <2>6
    DEF FileInv, RowsInOrder, SuccessIsComplete, VerdictHonest
<1>21. ASSUME CallerCancel PROVE FileInv'
  BY <1>21 DEF CallerCancel, FileInv, RowsInOrder, SuccessIsComplete, VerdictHonest
<1>22. ASSUME UNCHANGED vars PROVE FileInv'
  BY <1>22, FileStutter DEF vars
<1> QED
  BY <1>1, <1>2, <1>3, <1>4, <1>5, <1>6, <1>7, <1>8, <1>9, <1>10, <1>11, <1>12, <1>13, <1>14, <1>15, <1>16, <1>17, <1>18, <1>19, <1>20, <1>21, <1>22
  DEF Next, Feeder, WorkerStep, Writer, Terminated

LEMMA FileCorrect == Spec => [](Shape /\ EndInv /\ FileInv)
<1>1. Init => EndInv
  BY DEF Init, EndInv
<1>2. Init => FileInv
  BY Constants, PipelineAssumption
  DEF Init, FileInv, RowsInOrder, SuccessIsComplete, VerdictHonest, StartRow
<1> QED BY <1>1, <1>2, ShapeInit, ShapeStep, EndStep, FileStep, PTL DEF Spec

\* The rows reach the sink in the order of the input, whatever the workers do.
THEOREM OrderCorrect == Spec => []RowsInOrder
<1>1. FileInv => RowsInOrder
  BY DEF FileInv
<1> QED BY <1>1, FileCorrect, PTL

\* Run reports success only when the sink has every chunk and every row.
THEOREM SuccessCorrect == Spec => []SuccessIsComplete
<1>1. FileInv => SuccessIsComplete
  BY DEF FileInv
<1> QED BY <1>1, FileCorrect, PTL

\* A failure is not reported as a cancellation, nor the reverse.
THEOREM VerdictCorrect == Spec => []VerdictHonest
<1>1. FileInv => VerdictHonest
  BY DEF FileInv
<1> QED BY <1>1, FileCorrect, PTL

(***************************************************************************)
(* Layer 3: every chunk under way is in one place.                         *)
(***************************************************************************)
\* What a channel holds after a send.
LEMMA AfterSend ==
  ASSUME NEW s \in Seq(Chunk), NEW c \in Chunk,
         \A i, j \in 1 .. Len(s) : s[i] = s[j] => i = j,
         \A i \in 1 .. Len(s) : s[i] # c
  PROVE  LET t == Append(s, c)
         IN  /\ {t[i] : i \in 1 .. Len(t)} = {s[i] : i \in 1 .. Len(s)} \cup {c}
             /\ \A i, j \in 1 .. Len(t) : t[i] = t[j] => i = j
<1> DEFINE t == Append(s, c)
<1>1. /\ Len(t) = Len(s) + 1 /\ t[Len(t)] = c
      /\ \A i \in 1 .. Len(s) : t[i] = s[i]
      /\ Len(s) \in Nat
  OBVIOUS
<1> HIDE DEF t
<1>2. {t[i] : i \in 1 .. Len(t)} = {s[i] : i \in 1 .. Len(s)} \cup {c}
  BY <1>1
<1>3. \A i, j \in 1 .. Len(t) : t[i] = t[j] => i = j
  BY <1>1
<1> QED BY <1>2, <1>3 DEF t

\* What a channel holds after a receive.
LEMMA AfterReceive ==
  ASSUME NEW s \in Seq(Chunk), s # <<>>,
         \A i, j \in 1 .. Len(s) : s[i] = s[j] => i = j
  PROVE  LET t == Tail(s)
         IN  /\ Head(s) \in {s[i] : i \in 1 .. Len(s)}
             /\ {t[i] : i \in 1 .. Len(t)} = {s[i] : i \in 1 .. Len(s)} \ {Head(s)}
             /\ \A i, j \in 1 .. Len(t) : t[i] = t[j] => i = j
<1> DEFINE t == Tail(s)
<1>1. /\ Len(s) \in Nat /\ Len(s) >= 1
      /\ Len(t) = Len(s) - 1
      /\ \A i \in 1 .. Len(t) : t[i] = s[i + 1]
      /\ Head(s) = s[1]
  OBVIOUS
<1> HIDE DEF t
<1>2. Head(s) \in {s[i] : i \in 1 .. Len(s)}
  BY <1>1
<1>3. ASSUME NEW x \in {t[i] : i \in 1 .. Len(t)}
      PROVE  x \in {s[i] : i \in 1 .. Len(s)} \ {Head(s)}
  <2>1. PICK i \in 1 .. Len(t) : x = t[i]
    BY <1>3
  <2>2. x = s[i + 1] /\ i + 1 \in 1 .. Len(s) /\ i + 1 # 1 /\ 1 \in 1 .. Len(s)
    BY <2>1, <1>1
  <2>3. s[i + 1] # s[1]
    BY <2>2
  <2> QED BY <2>2, <2>3, <1>1
<1>4. ASSUME NEW x \in {s[i] : i \in 1 .. Len(s)} \ {Head(s)}
      PROVE  x \in {t[i] : i \in 1 .. Len(t)}
  <2>1. PICK i \in 1 .. Len(s) : x = s[i]
    BY <1>4
  <2>2. i # 1
    BY <2>1, <1>1
  <2>3. i - 1 \in 1 .. Len(t) /\ t[i - 1] = s[i]
    BY <2>1, <2>2, <1>1
  <2> QED BY <2>1, <2>3
<1>5. {t[i] : i \in 1 .. Len(t)} = {s[i] : i \in 1 .. Len(s)} \ {Head(s)}
  BY <1>3, <1>4
<1>6. \A i, j \in 1 .. Len(t) : t[i] = t[j] => i = j
  BY <1>1
<1> QED BY <1>2, <1>5, <1>6 DEF t

\* The chunks in the workers' hands when one of them takes a chunk.
LEMMA WorkerPuts ==
  ASSUME TypeOK, NEW w \in Worker, NEW c \in Chunk, wchunk[w] = NoChunk,
         wchunk' = [wchunk EXCEPT ![w] = c]
  PROVE  InWorkers' = InWorkers \cup {c}
<1>1. NoChunk \notin Chunk
  BY Constants
<1>2. ASSUME NEW x PROVE x \in InWorkers' <=> x \in InWorkers \cup {c}
  BY <1>1 DEF InWorkers, TypeOK
<1> QED BY <1>2

\* The chunks in the workers' hands when one of them lets its chunk go.
LEMMA WorkerClears ==
  ASSUME TypeOK, NEW w \in Worker, wchunk[w] \in Chunk,
         \A u, v \in Worker : wchunk[u] \in Chunk /\ wchunk[u] = wchunk[v] => u = v,
         wchunk' = [wchunk EXCEPT ![w] = NoChunk]
  PROVE  InWorkers' = InWorkers \ {wchunk[w]}
<1>1. NoChunk \notin Chunk
  BY Constants
<1>2. ASSUME NEW x PROVE x \in InWorkers' <=> x \in InWorkers \ {wchunk[w]}
  BY <1>1 DEF InWorkers, TypeOK
<1> QED BY <1>2

\* PlaceInv when no chunk moves.
LEMMA PlaceStutter ==
  PlaceInv /\ UNCHANGED <<wchunk, results, pending, nextChunk, feed, feeder, slots>>
    /\ Returned' = Returned
  => PlaceInv'
<1> SUFFICES ASSUME PlaceInv, Returned' = Returned,
                    UNCHANGED <<wchunk, results, pending, nextChunk, feed, feeder, slots>>
             PROVE  PlaceInv'
  OBVIOUS
<1>1. InResults' = InResults /\ InWorkers' = InWorkers
  BY DEF InResults, InWorkers
<1> QED BY <1>1 DEF PlaceInv

LEMMA PlaceInit == Init => PlaceInv
<1> SUFFICES ASSUME Init PROVE PlaceInv
  OBVIOUS
<1>1. InResults = {} /\ InWorkers = {} /\ pending = {}
  BY DEF Init, InResults, InWorkers
<1>2. \A v \in Worker : wchunk[v] \notin Chunk
  BY Constants DEF Init
<1>3. Returned = 0 /\ nextChunk = 0 /\ feed = 0 /\ slots = 0 /\ feeder = "slot"
      /\ results = <<>>
  BY DEF Init, Returned, Busy
<1> QED BY <1>1, <1>2, <1>3 DEF PlaceInv

LEMMA PlaceStep == Shape /\ PlaceInv /\ [Next]_vars => PlaceInv'
<1> SUFFICES ASSUME Shape, PlaceInv, [Next]_vars PROVE PlaceInv'
  OBVIOUS
<1> USE DEF feederVars, workerVars, writerVars, sinkVars, errVars
<1>0. /\ TypeOK /\ NoChunk \notin Chunk
      /\ nextChunk \in Nat /\ feed \in Nat /\ slots \in Nat
  BY Constants DEF Shape, TypeOK
<1>u. \A u, v \in Worker : wchunk[u] \in Chunk /\ wchunk[u] = wchunk[v] => u = v
  BY DEF PlaceInv
<1>1. ASSUME FeederTakeSlot PROVE PlaceInv'
  <2>1. /\ feeder = "slot" /\ feeder' = "send" /\ slots' = slots + 1
        /\ UNCHANGED <<wchunk, results, pending, nextChunk, feed>>
        /\ InResults' = InResults /\ InWorkers' = InWorkers
        /\ Returned' = Returned /\ Returned \in Int
    BY <1>0, <1>1 DEF FeederTakeSlot, InResults, InWorkers, Returned, Busy
  <2> QED BY <1>0, <2>1 DEF PlaceInv
<1>2. ASSUME FeederStop PROVE PlaceInv'
  <2>1. /\ feeder' = "closed"
        /\ UNCHANGED <<wchunk, results, pending, nextChunk, feed, slots>>
        /\ InResults' = InResults /\ InWorkers' = InWorkers
        /\ Returned' = Returned /\ Returned \in Int
    BY <1>0, <1>2 DEF FeederStop, InResults, InWorkers, Returned, Busy
  <2> QED BY <1>0, <2>1 DEF PlaceInv
<1>3. ASSUME FeederFinish PROVE PlaceInv'
  <2>1. /\ feeder' = "closed"
        /\ UNCHANGED <<wchunk, results, pending, nextChunk, feed, slots>>
        /\ InResults' = InResults /\ InWorkers' = InWorkers
        /\ Returned' = Returned /\ Returned \in Int
    BY <1>0, <1>3 DEF FeederFinish, InResults, InWorkers, Returned, Busy
  <2> QED BY <1>0, <2>1 DEF PlaceInv
<1>4. ASSUME NEW w \in Worker, WorkerOpen(w) PROVE PlaceInv'
  BY <1>4, PlaceStutter DEF WorkerOpen, Returned, Busy
<1>5. ASSUME NEW w \in Worker, WorkerTake(w) PROVE PlaceInv'
  <2>1. /\ feeder = "send" /\ feeder' = "slot" /\ feed' = feed + 1
        /\ wchunk' = [wchunk EXCEPT ![w] = feed]
        /\ UNCHANGED <<slots, results, pending, nextChunk>>
        /\ Returned' = Returned
    BY <1>5 DEF WorkerTake, Returned, Busy
  <2>2. feed \in Chunk /\ wchunk[w] = NoChunk
    <3>1. feed < NumChunks /\ feed \in Nat /\ NumChunks \in Nat
      BY <1>0, <2>1, Constants DEF Shape
    <3>2. wchunk[w] \notin Chunk
      BY <1>5 DEF WorkerTake, Shape
    <3> QED BY <1>0, <3>1, <3>2, Constants DEF TypeOK
  <2>3. InWorkers' = InWorkers \cup {feed} /\ InResults' = InResults
    BY <1>0, <2>1, <2>2, WorkerPuts DEF InResults
  <2>4. pending' \cup InResults' \cup InWorkers' \subseteq nextChunk' .. feed' - 1
    BY <1>0, <2>1, <2>3 DEF PlaceInv
  <2>5. feed \notin pending \cup InResults \cup InWorkers
    BY <1>0 DEF PlaceInv
  <2>6. \A u, v \in Worker : wchunk'[u] \in Chunk /\ wchunk'[u] = wchunk'[v] => u = v
    <3>1. \A u \in Worker : wchunk[u] # feed
      BY <1>0, <2>2, <2>5 DEF InWorkers
    <3> QED BY <1>0, <1>u, <2>1, <3>1 DEF TypeOK
  <2>7. (pending' \cup InResults') \cap InWorkers' = {} /\ nextChunk' =< feed'
    BY <1>0, <2>1, <2>3, <2>5 DEF PlaceInv
  <2>8. feed' + (IF feeder' = "send" THEN 1 ELSE 0) - Returned' =< slots'
    BY <1>0, <2>1 DEF PlaceInv, Returned
  <2>9. \A i, j \in 1 .. Len(results') : results'[i] = results'[j] => i = j
    BY <2>1 DEF PlaceInv
  <2> HIDE DEF feederVars, workerVars, writerVars, sinkVars, errVars
  <2> QED BY <2>1, <2>3, <2>4, <2>6, <2>7, <2>8, <2>9 DEF PlaceInv
\* A worker that lets its chunk go without handing it over.
<1>c. ASSUME NEW w \in Worker, wchunk[w] \in Chunk,
             wchunk' = [wchunk EXCEPT ![w] = NoChunk],
             UNCHANGED <<results, pending, nextChunk, feed, feeder, slots, writer>>
      PROVE  PlaceInv'
  <2>1. InWorkers' = InWorkers \ {wchunk[w]} /\ InResults' = InResults
    BY <1>0, <1>u, <1>c, WorkerClears DEF InResults
  <2>2. \A u, v \in Worker : wchunk'[u] \in Chunk /\ wchunk'[u] = wchunk'[v] => u = v
    BY <1>0, <1>u, <1>c DEF TypeOK
  <2> QED BY <1>c, <2>1, <2>2 DEF PlaceInv, Returned, Busy
<1>6. ASSUME NEW w \in Worker, WorkerCheck(w) PROVE PlaceInv'
  <2>1. wchunk[w] \in Chunk
    BY <1>6 DEF WorkerCheck, Shape
  <2>2. CASE CtxDone
    <3>1. wchunk' = [wchunk EXCEPT ![w] = NoChunk]
      BY <1>6, <2>2 DEF WorkerCheck
    <3> QED BY <1>6, <1>c, <2>1, <3>1 DEF WorkerCheck
  <2>3. CASE ~CtxDone
    <3>1. wchunk' = wchunk
      BY <1>0, <1>6, <2>3 DEF WorkerCheck, TypeOK
    <3> QED BY <1>6, <3>1, PlaceStutter DEF WorkerCheck, Returned, Busy
  <2> QED BY <2>2, <2>3
<1>7. ASSUME NEW w \in Worker, WorkerDecode(w) PROVE PlaceInv'
  <2>1. wchunk[w] \in Chunk
    BY <1>7 DEF WorkerDecode, Shape
  <2>2. CASE wchunk' = [wchunk EXCEPT ![w] = NoChunk]
    BY <1>7, <1>c, <2>1, <2>2 DEF WorkerDecode
  <2>3. CASE UNCHANGED wchunk
    BY <1>7, <2>3, PlaceStutter DEF WorkerDecode, Returned, Busy
  <2> QED BY <1>7, <2>2, <2>3 DEF WorkerDecode
<1>8. ASSUME NEW w \in Worker, WorkerSend(w) PROVE PlaceInv'
  <2>1. /\ results' = Append(results, wchunk[w])
        /\ wchunk' = [wchunk EXCEPT ![w] = NoChunk]
        /\ UNCHANGED <<pending, nextChunk, feed, feeder, slots, writer>>
    BY <1>8 DEF WorkerSend
  <2>2. wchunk[w] \in Chunk /\ wchunk[w] \in InWorkers
    BY <1>0, <1>8 DEF WorkerSend, Shape, InWorkers
  <2>3. wchunk[w] \notin pending \cup InResults
    BY <2>2 DEF PlaceInv
  <2>4. InWorkers' = InWorkers \ {wchunk[w]}
    BY <1>0, <1>u, <2>1, <2>2, WorkerClears
  <2>5. /\ InResults' = InResults \cup {wchunk[w]}
        /\ \A i, j \in 1 .. Len(results') : results'[i] = results'[j] => i = j
    <3>1. results \in Seq(Chunk)
      BY <1>0 DEF TypeOK
    <3>2. \A i, j \in 1 .. Len(results) : results[i] = results[j] => i = j
      BY DEF PlaceInv
    <3>3. \A i \in 1 .. Len(results) : results[i] # wchunk[w]
      BY <2>3 DEF InResults
    <3> QED BY <2>1, <2>2, <3>1, <3>2, <3>3, AfterSend DEF InResults
  <2>6. \A u, v \in Worker : wchunk'[u] \in Chunk /\ wchunk'[u] = wchunk'[v] => u = v
    BY <1>0, <1>u, <2>1, <2>2 DEF TypeOK
  <2>7. Returned' = Returned
    BY <2>1 DEF Returned, Busy
  <2> HIDE DEF feederVars, workerVars, writerVars, sinkVars, errVars
  <2> QED BY <2>1, <2>2, <2>3, <2>4, <2>5, <2>6, <2>7 DEF PlaceInv
<1>9. ASSUME NEW w \in Worker, WorkerDrop(w) PROVE PlaceInv'
  <2>1. wchunk[w] \in Chunk
    BY <1>9 DEF WorkerDrop, Shape
  <2> QED BY <1>9, <1>c, <2>1 DEF WorkerDrop
<1>10. ASSUME NEW w \in Worker, WorkerEnd(w) PROVE PlaceInv'
  BY <1>10, PlaceStutter DEF WorkerEnd, Returned, Busy
<1>11. ASSUME CloseResults PROVE PlaceInv'
  BY <1>11, PlaceStutter DEF CloseResults, Returned, Busy
<1>12. ASSUME WriterReceive PROVE PlaceInv'
  <2>1. /\ results # <<>> /\ results' = Tail(results)
        /\ pending' = pending \cup {Head(results)}
        /\ UNCHANGED <<wchunk, nextChunk, feed, feeder, slots>>
        /\ Returned' = Returned /\ InWorkers' = InWorkers
    BY <1>12 DEF WriterReceive, Returned, Busy, InWorkers
  <2>2. /\ Head(results) \in InResults
        /\ InResults' = InResults \ {Head(results)}
        /\ \A i, j \in 1 .. Len(results') : results'[i] = results'[j] => i = j
    <3>1. results \in Seq(Chunk)
      BY <1>0 DEF TypeOK
    <3>2. \A i, j \in 1 .. Len(results) : results[i] = results[j] => i = j
      BY DEF PlaceInv
    <3>3. LET t == Tail(results)
          IN  /\ Head(results) \in {results[i] : i \in 1 .. Len(results)}
              /\ {t[i] : i \in 1 .. Len(t)}
                   = {results[i] : i \in 1 .. Len(results)} \ {Head(results)}
              /\ \A i, j \in 1 .. Len(t) : t[i] = t[j] => i = j
      BY <2>1, <3>1, <3>2, AfterReceive
    <3> DEFINE t == Tail(results)
    <3>4. results' = t
      BY <2>1
    <3> HIDE DEF t
    <3>5. /\ Head(results) \in {results[i] : i \in 1 .. Len(results)}
          /\ {t[i] : i \in 1 .. Len(t)}
               = {results[i] : i \in 1 .. Len(results)} \ {Head(results)}
          /\ \A i, j \in 1 .. Len(t) : t[i] = t[j] => i = j
      BY <3>3 DEF t
    <3>6. InResults' = {t[i] : i \in 1 .. Len(t)} /\ InResults = {results[i] : i \in 1 .. Len(results)}
      BY <3>4 DEF InResults
    <3> QED BY <3>4, <3>5, <3>6
  <2> QED BY <2>1, <2>2 DEF PlaceInv
<1>13. ASSUME WriterPick PROVE PlaceInv'
  <2>1. /\ nextChunk \in pending /\ pending' = pending \ {nextChunk}
        /\ nextChunk' = nextChunk + 1
        /\ UNCHANGED <<wchunk, results, feed, feeder, slots>>
        /\ InWorkers' = InWorkers /\ InResults' = InResults
    BY <1>13 DEF WriterPick, InWorkers, InResults
  <2>2. Returned = nextChunk /\ Returned' = nextChunk
    BY <1>0, <1>13 DEF WriterPick, Returned, Busy
  <2>3. nextChunk \notin InResults \cup InWorkers
    BY <2>1 DEF PlaceInv
  <2>4. nextChunk \in nextChunk .. feed - 1
    BY <2>1 DEF PlaceInv
  <2>5. pending' \cup InResults' \cup InWorkers' \subseteq nextChunk' .. feed' - 1
    BY <1>0, <2>1, <2>3 DEF PlaceInv
  <2> QED BY <1>0, <2>1, <2>2, <2>4, <2>5 DEF PlaceInv
<1>14. ASSUME WriterWait PROVE PlaceInv'
  BY <1>14, PlaceStutter DEF WriterWait, Returned, Busy
<1>15. ASSUME WriterCheckFailed PROVE PlaceInv'
  BY <1>15, PlaceStutter DEF WriterCheckFailed, Returned, Busy
<1>16. ASSUME WriterWrite PROVE PlaceInv'
  BY <1>16, PlaceStutter DEF WriterWrite, Returned, Busy
<1>17. ASSUME WriterRelease PROVE PlaceInv'
  BY <1>17, PlaceStutter DEF WriterRelease, Returned, Busy
<1>18. ASSUME WriterReturnSlot PROVE PlaceInv'
  <2>1. /\ slots' = slots - 1
        /\ UNCHANGED <<wchunk, results, pending, nextChunk, feed, feeder>>
        /\ InWorkers' = InWorkers /\ InResults' = InResults
    BY <1>18 DEF WriterReturnSlot, InWorkers, InResults
  <2>2. Returned = nextChunk - 1 /\ Returned' = nextChunk
    BY <1>0, <1>18 DEF WriterReturnSlot, Returned, Busy
  <2> QED BY <1>0, <2>1, <2>2 DEF PlaceInv
<1>19. ASSUME WriterAbandon PROVE PlaceInv'
  <2>1. /\ pending' = {} /\ UNCHANGED <<wchunk, results, nextChunk, feed, feeder, slots>>
        /\ InWorkers' = InWorkers /\ InResults' = InResults /\ Returned' = Returned
    BY <1>19 DEF WriterAbandon, InWorkers, InResults, Returned, Busy
  <2> QED BY <2>1 DEF PlaceInv
<1>20. ASSUME WriterReturn PROVE PlaceInv'
  BY <1>20, PlaceStutter DEF WriterReturn, Return, Returned, Busy
<1>21. ASSUME CallerCancel PROVE PlaceInv'
  BY <1>21, PlaceStutter DEF CallerCancel, Returned, Busy
<1>22. ASSUME UNCHANGED vars PROVE PlaceInv'
  BY <1>22, PlaceStutter DEF vars, Returned, Busy
<1> QED
  BY <1>1, <1>2, <1>3, <1>4, <1>5, <1>6, <1>7, <1>8, <1>9, <1>10, <1>11, <1>12,
     <1>13, <1>14, <1>15, <1>16, <1>17, <1>18, <1>19, <1>20, <1>21, <1>22
  DEF Next, Feeder, WorkerStep, Writer, Terminated


(***************************************************************************)
(* Layer 4: a record is referenced exactly as long as somebody owns it.    *)
(***************************************************************************)
LEMMA RefsStutter ==
  RefsInv /\ UNCHANGED refs /\ Alive' = Alive => RefsInv'
BY DEF RefsInv

LEMMA RefsTaken ==
  ASSUME RefsInv, NEW c \in Chunk, c \notin Alive, Alive' = Alive \cup {c},
         refs' = [refs EXCEPT ![c] = @ + 1]
  PROVE  RefsInv'
BY DEF RefsInv

LEMMA RefsDropped ==
  ASSUME RefsInv, NEW c \in Chunk, c \in Alive, Alive' = Alive \ {c},
         refs' = [refs EXCEPT ![c] = @ - 1]
  PROVE  RefsInv'
BY DEF RefsInv

\* The owners do not overlap.
LEMMA Owners ==
  ASSUME Shape, PlaceInv
  PROVE  /\ InSending \subseteq InWorkers
         /\ InWriting \subseteq {nextChunk - 1}
         /\ pending \cup InResults \cup InWorkers \subseteq nextChunk .. feed - 1
         /\ nextChunk \in Nat /\ feed \in Nat
<1>1. InSending \subseteq InWorkers
  BY Constants DEF InSending, InWorkers, Shape
<1>2. InWriting \subseteq {nextChunk - 1}
  BY DEF InWriting, Shape, Busy
<1> QED BY <1>1, <1>2, Constants DEF PlaceInv, Shape, TypeOK

\* A step of a worker that is not sending before or after it.
LEMMA SendingSame ==
  ASSUME TypeOK, NEW w \in Worker, wstate[w] # "send", wstate'[w] # "send",
         \A v \in Worker \ {w} : wstate'[v] = wstate[v] /\ wchunk'[v] = wchunk[v]
  PROVE  InSending' = InSending
BY DEF InSending

\* A worker that stops sending: its chunk has no other owner among them.
LEMMA SendingEnds ==
  ASSUME Shape, PlaceInv, NEW w \in Worker, wstate[w] = "send",
         NEW st \in WorkerStates, st # "send",
         wstate' = [wstate EXCEPT ![w] = st],
         wchunk' = [wchunk EXCEPT ![w] = NoChunk]
  PROVE  /\ InSending' = InSending \ {wchunk[w]}
         /\ wchunk[w] \in Chunk /\ wchunk[w] \in InSending
<1>1. wchunk[w] \in Chunk /\ TypeOK
  BY DEF Shape
<1>2. \A v \in Worker : wchunk[v] = wchunk[w] => v = w
  BY <1>1 DEF PlaceInv
<1>3. ASSUME NEW x PROVE x \in InSending' <=> x \in InSending \ {wchunk[w]}
  BY <1>1, <1>2 DEF InSending, TypeOK
<1>4. wchunk[w] \in InSending
  BY DEF InSending
<1> QED BY <1>1, <1>3, <1>4

LEMMA RefsStep == Shape /\ EndInv /\ PlaceInv /\ RefsInv /\ [Next]_vars => RefsInv'
<1> SUFFICES ASSUME Shape, EndInv, PlaceInv, RefsInv, [Next]_vars PROVE RefsInv'
  OBVIOUS
<1> USE DEF feederVars, workerVars, writerVars, sinkVars, errVars
<1>0. TypeOK
  BY DEF Shape
<1>s. ASSUME UNCHANGED <<refs, pending, results, wstate, wchunk, hand>>,
             writer \in {"check", "write", "release"} <=> writer' \in {"check", "write", "release"}
      PROVE  RefsInv'
  <2>1. Alive' = Alive
    BY <1>s DEF Alive, InResults, InSending, InWriting
  <2> QED BY <1>s, <2>1, RefsStutter
\* A worker that has no record before or after its step.
<1>w. ASSUME NEW w \in Worker, wstate[w] # "send", wstate'[w] # "send",
             \A v \in Worker \ {w} : wstate'[v] = wstate[v] /\ wchunk'[v] = wchunk[v],
             UNCHANGED <<refs, pending, results, writer, hand>>
      PROVE  RefsInv'
  <2>1. InSending' = InSending
    BY <1>0, <1>w, SendingSame
  <2>2. Alive' = Alive
    BY <1>w, <2>1 DEF Alive, InResults, InWriting
  <2> QED BY <1>w, <2>2, RefsStutter
<1>1. ASSUME Feeder PROVE RefsInv'
  BY <1>1, <1>s DEF Feeder, FeederTakeSlot, FeederStop, FeederFinish
<1>4. ASSUME NEW w \in Worker, WorkerOpen(w) PROVE RefsInv'
  BY <1>0, <1>4, <1>w DEF WorkerOpen, TypeOK
<1>5. ASSUME NEW w \in Worker, WorkerTake(w) PROVE RefsInv'
  BY <1>0, <1>5, <1>w DEF WorkerTake, TypeOK
<1>6. ASSUME NEW w \in Worker, WorkerCheck(w) PROVE RefsInv'
  BY <1>0, <1>6, <1>w DEF WorkerCheck, TypeOK
<1>7. ASSUME NEW w \in Worker, WorkerDecode(w) PROVE RefsInv'
  <2>1. CASE wstate' = [wstate EXCEPT ![w] = "done"]
    <3>1. /\ wchunk' = [wchunk EXCEPT ![w] = NoChunk] /\ UNCHANGED refs
          /\ wstate[w] = "decode"
          /\ UNCHANGED <<pending, results, writer, hand>>
      BY <1>0, <1>7, <2>1 DEF WorkerDecode, TypeOK
    <3> QED BY <1>0, <1>w, <2>1, <3>1 DEF TypeOK
  <2>2. CASE wstate' = [wstate EXCEPT ![w] = "send"]
    <3>1. /\ refs' = [refs EXCEPT ![wchunk[w]] = @ + 1]
          /\ wstate[w] = "decode" /\ wchunk[w] \in Chunk
          /\ UNCHANGED <<wchunk, pending, results, writer, hand>>
      BY <1>0, <1>7, <2>2 DEF WorkerDecode, TypeOK, Shape
    <3>2. InSending' = InSending \cup {wchunk[w]}
      <4>1. ASSUME NEW x PROVE x \in InSending' <=> x \in InSending \cup {wchunk[w]}
        BY <1>0, <2>2, <3>1 DEF InSending, TypeOK
      <4> QED BY <4>1
    <3>3. wchunk[w] \notin Alive
      <4>1. wchunk[w] \in InWorkers
        BY <3>1, Constants DEF InWorkers
      <4>2. wchunk[w] \notin pending \cup InResults
        BY <4>1 DEF PlaceInv
      <4>3. wchunk[w] \notin InWriting
        BY <4>1, Owners
      <4>4. wchunk[w] \notin InSending
        BY <3>1 DEF InSending, PlaceInv
      <4> QED BY <4>2, <4>3, <4>4 DEF Alive
    <3>4. Alive' = Alive \cup {wchunk[w]}
      BY <3>1, <3>2 DEF Alive, InResults, InWriting
    <3> QED BY <3>1, <3>3, <3>4, RefsTaken
  <2> QED BY <1>7, <2>1, <2>2 DEF WorkerDecode
<1>8. ASSUME NEW w \in Worker, WorkerSend(w) PROVE RefsInv'
  <2>1. /\ wstate[w] = "send" /\ wstate' = [wstate EXCEPT ![w] = "idle"]
        /\ wchunk' = [wchunk EXCEPT ![w] = NoChunk]
        /\ results' = Append(results, wchunk[w])
        /\ UNCHANGED <<refs, pending, writer, hand>>
    BY <1>8 DEF WorkerSend
  <2>2. /\ InSending' = InSending \ {wchunk[w]}
        /\ wchunk[w] \in Chunk /\ wchunk[w] \in InSending
    BY <2>1, SendingEnds DEF WorkerStates
  <2>3. InResults' = InResults \cup {wchunk[w]}
    <3>1. results \in Seq(Chunk) /\ \A i, j \in 1 .. Len(results) : results[i] = results[j] => i = j
      BY <1>0 DEF TypeOK, PlaceInv
    <3>2. \A i \in 1 .. Len(results) : results[i] # wchunk[w]
      BY <2>2, Owners DEF PlaceInv, InResults
    <3> QED BY <2>1, <2>2, <3>1, <3>2, AfterSend DEF InResults
  <2>4. Alive' = Alive
    BY <2>1, <2>2, <2>3 DEF Alive, InWriting
  <2> QED BY <2>1, <2>4, RefsStutter
<1>9. ASSUME NEW w \in Worker, WorkerDrop(w) PROVE RefsInv'
  <2>1. /\ wstate[w] = "send" /\ wstate' = [wstate EXCEPT ![w] = "done"]
        /\ wchunk' = [wchunk EXCEPT ![w] = NoChunk]
        /\ refs' = [refs EXCEPT ![wchunk[w]] = @ - 1]
        /\ UNCHANGED <<results, pending, writer, hand>>
    BY <1>9 DEF WorkerDrop
  <2>2. /\ InSending' = InSending \ {wchunk[w]}
        /\ wchunk[w] \in Chunk /\ wchunk[w] \in InSending
    BY <2>1, SendingEnds DEF WorkerStates
  <2>3. wchunk[w] \notin pending \cup InResults \cup InWriting
    BY <2>2, Owners DEF PlaceInv
  <2>4. Alive' = Alive \ {wchunk[w]} /\ wchunk[w] \in Alive
    BY <2>1, <2>2, <2>3 DEF Alive, InResults, InWriting
  <2> QED BY <2>1, <2>2, <2>4, RefsDropped
<1>10. ASSUME NEW w \in Worker, WorkerEnd(w) PROVE RefsInv'
  BY <1>0, <1>10, <1>w DEF WorkerEnd, TypeOK
<1>11. ASSUME CloseResults PROVE RefsInv'
  BY <1>11, <1>s DEF CloseResults
<1>12. ASSUME WriterReceive PROVE RefsInv'
  <2>1. /\ results # <<>> /\ results' = Tail(results)
        /\ pending' = pending \cup {Head(results)}
        /\ writer = "recv" /\ writer' = "drain"
        /\ UNCHANGED <<refs, wstate, wchunk, hand>>
    BY <1>12 DEF WriterReceive
  <2>2. InResults' \cup {Head(results)} = InResults
    <3>1. results \in Seq(Chunk) /\ \A i, j \in 1 .. Len(results) : results[i] = results[j] => i = j
      BY <1>0 DEF TypeOK, PlaceInv
    <3> DEFINE t == Tail(results)
    <3>2. /\ Head(results) \in {results[i] : i \in 1 .. Len(results)}
          /\ {t[i] : i \in 1 .. Len(t)}
               = {results[i] : i \in 1 .. Len(results)} \ {Head(results)}
      BY <2>1, <3>1, AfterReceive
    <3>3. results' = t
      BY <2>1
    <3> HIDE DEF t
    <3> QED BY <3>2, <3>3 DEF InResults
  <2>3. Alive' = Alive
    BY <2>1, <2>2 DEF Alive, InSending, InWriting
  <2> QED BY <2>1, <2>3, RefsStutter
<1>13. ASSUME WriterPick PROVE RefsInv'
  <2>1. /\ nextChunk \in pending /\ pending' = pending \ {nextChunk}
        /\ hand' = nextChunk /\ writer = "drain" /\ writer' = "check"
        /\ UNCHANGED <<refs, results, wstate, wchunk>>
    BY <1>13 DEF WriterPick
  <2>2. Alive' = Alive
    BY <2>1 DEF Alive, InResults, InSending, InWriting
  <2> QED BY <2>1, <2>2, RefsStutter
<1>14. ASSUME WriterWait \/ WriterCheckFailed \/ WriterWrite \/ WriterReturnSlot \/ WriterReturn
       PROVE  RefsInv'
  <2>1. UNCHANGED <<refs, pending, results, wstate, wchunk>>
    BY <1>14 DEF WriterWait, WriterCheckFailed, WriterWrite, WriterReturnSlot,
                 WriterReturn, Return
  <2>2. InWriting' = InWriting
    BY <1>14 DEF WriterWait, WriterCheckFailed, WriterWrite, WriterReturnSlot,
                 WriterReturn, Return, InWriting
  <2>3. Alive' = Alive
    BY <2>1, <2>2 DEF Alive, InResults, InSending
  <2> QED BY <2>1, <2>3, RefsStutter
<1>17. ASSUME WriterRelease PROVE RefsInv'
  <2>1. /\ writer = "release" /\ writer' = "return"
        /\ refs' = [refs EXCEPT ![hand] = @ - 1]
        /\ UNCHANGED <<pending, results, wstate, wchunk, hand>>
    BY <1>17 DEF WriterRelease
  <2>2. hand = nextChunk - 1 /\ hand \in Chunk /\ InWriting = {hand} /\ InWriting' = {}
    BY <1>0, <2>1, Constants DEF Shape, TypeOK, Busy, InWriting
  <2>3. hand \notin pending \cup InResults \cup InSending
    BY <2>2, Owners
  <2>4. Alive' = Alive \ {hand} /\ hand \in Alive
    BY <2>1, <2>2, <2>3 DEF Alive, InResults, InSending
  <2> QED BY <2>1, <2>2, <2>4, RefsDropped
<1>19. ASSUME WriterAbandon PROVE RefsInv'
  <2>1. /\ pending' = {} /\ writer = "recv" /\ writer' = "finish"
        /\ refs' = [c \in Chunk |-> IF c \in pending THEN refs[c] - 1 ELSE refs[c]]
        /\ results = <<>> /\ resultsClosed
        /\ UNCHANGED <<results, wstate, wchunk, hand>>
    BY <1>19 DEF WriterAbandon
  <2>2. InResults = {} /\ InSending = {} /\ InWriting = {}
    BY <2>1 DEF InResults, InSending, InWriting, EndInv
  <2>3. InResults' = {} /\ InSending' = {} /\ InWriting' = {}
    BY <2>1, <2>2 DEF InResults, InSending, InWriting
  <2>4. Alive = pending /\ Alive' = {}
    BY <2>1, <2>2, <2>3 DEF Alive
  <2> QED BY <2>1, <2>4 DEF RefsInv
<1>21. ASSUME CallerCancel PROVE RefsInv'
  BY <1>21, <1>s DEF CallerCancel
<1>22. ASSUME UNCHANGED vars PROVE RefsInv'
  BY <1>22, <1>s DEF vars
<1> QED
  BY <1>1, <1>4, <1>5, <1>6, <1>7, <1>8, <1>9, <1>10, <1>11, <1>12, <1>13, <1>14,
     <1>17, <1>19, <1>21, <1>22
  DEF Next, WorkerStep, Writer, Terminated

LEMMA RefsCorrect == Spec => [](Shape /\ EndInv /\ FileInv /\ PlaceInv /\ RefsInv)
<1>1. Init => RefsInv
  BY DEF Init, RefsInv, Alive, InResults, InSending, InWriting
<1> QED BY <1>1, FileCorrect, PlaceInit, PlaceStep, RefsStep, PTL DEF Spec

\* When Run has returned, every record has been released.
THEOREM LeakFree == Spec => []NothingLeaked
<1>1. EndInv /\ FileInv /\ RefsInv => NothingLeaked
  <2> SUFFICES ASSUME EndInv, FileInv, RefsInv, outcome # "running"
               PROVE  \A c \in Chunk : refs[c] = 0
    BY DEF NothingLeaked
  <2>1. writer = "returned"
    BY DEF FileInv
  <2>2. Alive = {}
    BY <2>1 DEF EndInv, Alive, InResults, InSending, InWriting
  <2> QED BY <2>2 DEF RefsInv
<1> QED BY <1>1, RefsCorrect, PTL

\* At no moment are more records alive than the window allows.
THEOREM WindowCorrect == Spec => []WindowBound
<1>1. Shape /\ PlaceInv /\ RefsInv => WindowBound
  <2> SUFFICES ASSUME Shape, PlaceInv, RefsInv PROVE WindowBound
    OBVIOUS
  <2> DEFINE live == {c \in Chunk : refs[c] > 0}
             span == Returned .. feed - 1
  <2>1. /\ nextChunk \in Nat /\ feed \in Nat /\ slots \in Nat /\ slots =< Window
        /\ Window \in Nat /\ nextChunk =< feed /\ feed - Returned =< slots
        /\ Returned \in Int /\ Returned =< nextChunk /\ Returned =< feed
        /\ InWriting \subseteq {Returned}
    <3>1. /\ nextChunk \in Nat /\ feed \in Nat /\ slots \in Nat /\ slots =< Window
          /\ Window \in Nat /\ nextChunk =< feed
      BY Constants DEF Shape, TypeOK, PlaceInv
    <3>2. Returned \in Int /\ Returned =< nextChunk
      BY <3>1 DEF Returned
    <3>3. feed - Returned =< slots
      BY <3>1, <3>2 DEF PlaceInv
    <3>4. InWriting \subseteq {Returned}
      BY DEF InWriting, Shape, Busy, Returned
    <3> QED BY <3>1, <3>2, <3>3, <3>4
  <2>2. InWriting \subseteq span
    <3>1. InWriting # {} => nextChunk > 0 /\ Returned = nextChunk - 1
      BY DEF InWriting, Shape, Busy, Returned
    <3> QED BY <2>1, <3>1
  <2>3. live \subseteq span
    <3>1. live \subseteq Alive
      BY DEF RefsInv
    <3>2. pending \cup InResults \cup InSending \subseteq span
      BY <2>1, Owners
    <3> QED BY <2>2, <3>1, <3>2 DEF Alive
  <2>4. IsFiniteSet(span) /\ Cardinality(span) =< Window
    <3>1. Returned \in Int /\ feed - 1 \in Int
      BY <2>1
    <3>2. IsFiniteSet(span)
          /\ Cardinality(span) = IF Returned > feed - 1 THEN 0 ELSE (feed - 1) - Returned + 1
      BY <3>1, FS_Interval
    <3> HIDE DEF span
    <3> QED BY <2>1, <3>2
  <2>5. IsFiniteSet(live) /\ Cardinality(live) =< Cardinality(span)
    BY <2>3, <2>4, FS_Subset
  <2>6. Cardinality(live) \in Nat /\ Cardinality(span) \in Nat
    BY <2>4, <2>5, FS_CardinalityType
  <2> HIDE DEF span
  <2> QED BY <2>1, <2>4, <2>5, <2>6 DEF WindowBound
<1> QED BY <1>1, RefsCorrect, PTL

\* The writer never waits for a slot nobody took.
THEOREM SlotCorrect == Spec => []SlotAlwaysThere
<1>1. Shape /\ PlaceInv => SlotAlwaysThere
  <2> SUFFICES ASSUME Shape, PlaceInv, writer = "return" PROVE slots > 0
    BY DEF SlotAlwaysThere
  <2>1. nextChunk \in Nat /\ feed \in Nat /\ slots \in Nat /\ nextChunk =< feed
    BY Constants DEF Shape, TypeOK, PlaceInv
  <2>2. Returned = nextChunk - 1
    BY DEF Returned, Busy
  <2>3. feed + (IF feeder = "send" THEN 1 ELSE 0) - Returned =< slots
    BY DEF PlaceInv
  <2> QED BY <2>1, <2>2, <2>3
<1> QED BY <1>1, RefsCorrect, PTL

(***************************************************************************)
(* Layer 5: no chunk is lost while nothing is cancelled.                   *)
(***************************************************************************)
LEMMA ConserveStep ==
  Shape /\ EndInv /\ FileInv /\ PlaceInv /\ ConserveInv /\ [Next]_vars => ConserveInv'
<1> SUFFICES ASSUME Shape, EndInv, FileInv, PlaceInv, ConserveInv, [Next]_vars
             PROVE  ConserveInv'
  OBVIOUS
<1> USE DEF feederVars, workerVars, writerVars, sinkVars, errVars
<1>0. /\ TypeOK /\ NoChunk \notin Chunk
      /\ nextChunk \in Nat /\ feed \in Nat /\ NumChunks \in Nat \ {0}
      /\ feed =< NumChunks /\ nextChunk =< feed
  BY Constants DEF Shape, TypeOK, PlaceInv
\* A step that cancels leaves only the first and the last conjunct to show.
<1>f. ASSUME CtxDone', UNCHANGED <<pending, nextChunk, outcome>>,
             writer' = "recv" => writer = "recv"
      PROVE  ConserveInv'
  BY <1>f DEF ConserveInv
\* A step that moves nothing.
<1>s. ASSUME UNCHANGED <<feeder, feed, wchunk, results, pending, nextChunk, outcome>>,
             CtxDone => CtxDone',
             \A w \in Worker : wstate'[w] = "done" => wstate[w] = "done" \/ feeder = "closed",
             writer' = "finish" <=> writer = "finish",
             writer' = "recv" => nextChunk \notin pending
      PROVE  ConserveInv'
  <2>1. InResults' = InResults /\ InWorkers' = InWorkers
    BY <1>s DEF InResults, InWorkers
  <2> QED BY <1>s, <2>1 DEF ConserveInv
<1>1. ASSUME FeederTakeSlot PROVE ConserveInv'
  <2>1. /\ feeder = "slot" /\ feeder' = "send"
        /\ UNCHANGED <<feed, wstate, wchunk, results, pending, nextChunk, writer, outcome>>
        /\ CtxDone' = CtxDone
        /\ InResults' = InResults /\ InWorkers' = InWorkers
    BY <1>1 DEF FeederTakeSlot, CtxDone, InResults, InWorkers
  <2> QED BY <2>1 DEF ConserveInv
<1>2. ASSUME FeederStop PROVE ConserveInv'
  <2>1. CtxDone' /\ UNCHANGED <<pending, nextChunk, outcome, writer>>
    BY <1>2 DEF FeederStop, CtxDone
  <2> QED BY <1>f, <2>1
<1>3. ASSUME FeederFinish PROVE ConserveInv'
  <2>1. /\ feeder' = "closed" /\ feed = NumChunks
        /\ UNCHANGED <<feed, wstate, wchunk, results, pending, nextChunk, writer, outcome>>
        /\ CtxDone' = CtxDone
        /\ InResults' = InResults /\ InWorkers' = InWorkers
    BY <1>3 DEF FeederFinish, CtxDone, InResults, InWorkers
  <2> QED BY <2>1 DEF ConserveInv
<1>4. ASSUME NEW w \in Worker, WorkerOpen(w) PROVE ConserveInv'
  <2>1. CASE wstate' = [wstate EXCEPT ![w] = "idle"]
    <3>1. CtxDone => CtxDone'
      BY <1>4 DEF WorkerOpen, CtxDone, Fail
    <3>2. \A v \in Worker : wstate'[v] = "done" => wstate[v] = "done"
      BY <1>0, <2>1 DEF TypeOK
    <3> QED BY <1>4, <1>s, <3>1, <3>2 DEF WorkerOpen, ConserveInv
  <2>2. CASE Fail("input")
    BY <1>4, <1>f, <2>2 DEF WorkerOpen, Fail, CtxDone
  <2> QED BY <1>4, <2>1, <2>2 DEF WorkerOpen
<1>5. ASSUME NEW w \in Worker, WorkerTake(w) PROVE ConserveInv'
  <2>1. /\ feeder = "send" /\ feeder' = "slot" /\ feed' = feed + 1
        /\ wstate' = [wstate EXCEPT ![w] = "check"]
        /\ wchunk' = [wchunk EXCEPT ![w] = feed]
        /\ UNCHANGED <<results, pending, nextChunk, writer, outcome>>
        /\ CtxDone' = CtxDone /\ wstate[w] = "idle" /\ InResults' = InResults
    BY <1>5 DEF WorkerTake, CtxDone, InResults
  <2>2. feed \in Chunk /\ wchunk[w] = NoChunk
    <3>1. feed < NumChunks
      BY <2>1 DEF Shape
    <3>2. wchunk[w] \notin Chunk
      BY <2>1 DEF Shape
    <3> QED BY <1>0, <3>1, <3>2, Constants DEF TypeOK
  <2>3. InWorkers' = InWorkers \cup {feed}
    BY <1>0, <2>1, <2>2, WorkerPuts
  <2>4. writer # "finish"
    BY <2>1 DEF EndInv
  <2>5. nextChunk .. feed' - 1 = (nextChunk .. feed - 1) \cup {feed}
    BY <1>0, <2>1
  <2>6. ~CtxDone' => \A v \in Worker : wstate'[v] # "done"
    BY <1>0, <2>1 DEF TypeOK, ConserveInv
  <2> QED BY <2>1, <2>3, <2>4, <2>5, <2>6 DEF ConserveInv
<1>6. ASSUME NEW w \in Worker, WorkerCheck(w) PROVE ConserveInv'
  <2>1. CASE CtxDone
    BY <1>6, <1>f, <2>1 DEF WorkerCheck, CtxDone
  <2>2. CASE ~CtxDone
    <3>1. UNCHANGED wchunk /\ \A v \in Worker : wstate'[v] = "done" => wstate[v] = "done"
      BY <1>0, <1>6, <2>2 DEF WorkerCheck, TypeOK
    <3> QED BY <1>6, <1>s, <2>2, <3>1 DEF WorkerCheck, ConserveInv
  <2> QED BY <2>1, <2>2
<1>7. ASSUME NEW w \in Worker, WorkerDecode(w) PROVE ConserveInv'
  <2>1. CASE Fail("input")
    BY <1>7, <1>f, <2>1 DEF WorkerDecode, Fail, CtxDone
  <2>2. CASE wstate' = [wstate EXCEPT ![w] = "send"] /\ UNCHANGED <<wchunk, errVars>>
    <3>1. \A v \in Worker : wstate'[v] = "done" => wstate[v] = "done"
      BY <1>0, <2>2 DEF TypeOK
    <3>2. CtxDone' = CtxDone
      BY <1>7, <2>2 DEF WorkerDecode, CtxDone
    <3> QED BY <1>7, <1>s, <2>2, <3>1, <3>2 DEF WorkerDecode, ConserveInv
  <2> QED BY <1>7, <2>1, <2>2 DEF WorkerDecode
<1>8. ASSUME NEW w \in Worker, WorkerSend(w) PROVE ConserveInv'
  <2>1. /\ wstate[w] = "send" /\ wstate' = [wstate EXCEPT ![w] = "idle"]
        /\ wchunk' = [wchunk EXCEPT ![w] = NoChunk]
        /\ results' = Append(results, wchunk[w])
        /\ UNCHANGED <<feeder, feed, pending, nextChunk, writer, outcome>>
        /\ CtxDone' = CtxDone
    BY <1>8 DEF WorkerSend, CtxDone
  <2>2. wchunk[w] \in Chunk /\ wchunk[w] \in InWorkers
    BY <1>0, <2>1 DEF Shape, InWorkers
  <2>3. InWorkers' = InWorkers \ {wchunk[w]}
    BY <1>0, <2>1, <2>2, WorkerClears DEF PlaceInv
  <2>4. InResults' = InResults \cup {wchunk[w]}
    <3>1. results \in Seq(Chunk) /\ \A i, j \in 1 .. Len(results) : results[i] = results[j] => i = j
      BY <1>0 DEF TypeOK, PlaceInv
    <3>2. \A i \in 1 .. Len(results) : results[i] # wchunk[w]
      BY <2>2 DEF PlaceInv, InResults
    <3> QED BY <2>1, <2>2, <3>1, <3>2, AfterSend DEF InResults
  <2>5. \A v \in Worker : wstate'[v] = "done" => wstate[v] = "done"
    BY <1>0, <2>1 DEF TypeOK
  <2>6. InResults' \cup InWorkers' = InResults \cup InWorkers
    BY <2>2, <2>3, <2>4
  <2> QED BY <2>1, <2>5, <2>6 DEF ConserveInv
<1>9. ASSUME NEW w \in Worker, WorkerDrop(w) PROVE ConserveInv'
  BY <1>9, <1>f DEF WorkerDrop, CtxDone
<1>10. ASSUME NEW w \in Worker, WorkerEnd(w) PROVE ConserveInv'
  <2>1. CtxDone' = CtxDone /\ feeder = "closed"
    BY <1>10 DEF WorkerEnd, CtxDone
  <2> QED BY <1>10, <1>s, <2>1 DEF WorkerEnd, ConserveInv
<1>11. ASSUME CloseResults PROVE ConserveInv'
  <2>1. CtxDone' = CtxDone
    BY <1>11 DEF CloseResults, CtxDone
  <2> QED BY <1>11, <1>s, <2>1 DEF CloseResults, ConserveInv
<1>12. ASSUME WriterReceive PROVE ConserveInv'
  <2>1. /\ results # <<>> /\ results' = Tail(results)
        /\ pending' = pending \cup {Head(results)}
        /\ writer = "recv" /\ writer' = "drain"
        /\ UNCHANGED <<feeder, feed, wstate, wchunk, nextChunk, outcome>>
        /\ CtxDone' = CtxDone /\ InWorkers' = InWorkers
    BY <1>12 DEF WriterReceive, CtxDone, InWorkers
  <2>2. InResults' = InResults \ {Head(results)} /\ Head(results) \in InResults
    <3>1. results \in Seq(Chunk) /\ \A i, j \in 1 .. Len(results) : results[i] = results[j] => i = j
      BY <1>0 DEF TypeOK, PlaceInv
    <3> DEFINE t == Tail(results)
    <3>2. /\ Head(results) \in {results[i] : i \in 1 .. Len(results)}
          /\ {t[i] : i \in 1 .. Len(t)}
               = {results[i] : i \in 1 .. Len(results)} \ {Head(results)}
      BY <2>1, <3>1, AfterReceive
    <3>3. results' = t
      BY <2>1
    <3> HIDE DEF t
    <3> QED BY <3>2, <3>3 DEF InResults
  <2>3. pending' \cup InResults' = pending \cup InResults
    BY <2>1, <2>2
  <2> QED BY <2>1, <2>3 DEF ConserveInv
<1>13. ASSUME WriterPick PROVE ConserveInv'
  <2>1. /\ nextChunk \in pending /\ pending' = pending \ {nextChunk}
        /\ nextChunk' = nextChunk + 1 /\ writer = "drain" /\ writer' = "check"
        /\ UNCHANGED <<feeder, feed, wstate, wchunk, results, outcome>>
        /\ CtxDone' = CtxDone /\ InResults' = InResults /\ InWorkers' = InWorkers
    BY <1>13 DEF WriterPick, CtxDone, InResults, InWorkers
  <2>2. nextChunk' .. feed - 1 = (nextChunk .. feed - 1) \ {nextChunk}
    BY <1>0, <2>1
  <2> QED BY <2>1, <2>2 DEF ConserveInv
<1>14. ASSUME WriterWait PROVE ConserveInv'
  <2>1. CtxDone' = CtxDone
    BY <1>14 DEF WriterWait, CtxDone
  <2> QED BY <1>14, <1>s, <2>1 DEF WriterWait, ConserveInv
<1>15. ASSUME WriterCheckFailed \/ WriterRelease \/ WriterReturnSlot PROVE ConserveInv'
  <2>1. CtxDone' = CtxDone
    BY <1>15 DEF WriterCheckFailed, WriterRelease, WriterReturnSlot, CtxDone
  <2> QED BY <1>15, <1>s, <2>1
          DEF WriterCheckFailed, WriterRelease, WriterReturnSlot, ConserveInv
<1>16. ASSUME WriterWrite PROVE ConserveInv'
  <2>1. CtxDone => CtxDone'
    BY <1>16 DEF WriterWrite, CtxDone, Fail
  <2> QED BY <1>16, <1>s, <2>1 DEF WriterWrite, ConserveInv
<1>19. ASSUME WriterAbandon PROVE ConserveInv'
  <2>1. /\ writer = "recv" /\ writer' = "finish" /\ pending' = {}
        /\ results = <<>> /\ resultsClosed
        /\ UNCHANGED <<feeder, feed, wstate, wchunk, nextChunk, results, outcome>>
        /\ CtxDone' = CtxDone
    BY <1>19 DEF WriterAbandon, CtxDone
  <2>2. \A w \in Worker : wstate[w] = "done" /\ wchunk[w] = NoChunk
    BY <1>0, <2>1, Constants DEF EndInv, Shape, TypeOK
  <2>3. InResults = {} /\ InWorkers = {}
    BY <2>1, <2>2 DEF InResults, InWorkers
  <2>4. PICK w \in Worker : TRUE
    <3>1. Worker # {}
      BY PipelineAssumption, FS_EmptySet
    <3> QED BY <3>1
  <2>5. ~CtxDone => feed = NumChunks /\ nextChunk .. feed - 1 \subseteq pending
    BY <2>1, <2>2, <2>3, <2>4 DEF ConserveInv
  <2>6. nextChunk \notin pending
    BY <2>1 DEF ConserveInv
  <2>7. ~CtxDone => nextChunk = NumChunks
    BY <1>0, <2>5, <2>6
  <2> QED BY <2>1, <2>7 DEF ConserveInv
<1>20. ASSUME WriterReturn PROVE ConserveInv'
  <2>1. writer = "finish" /\ writer' = "returned" /\ CtxDone' /\ UNCHANGED <<pending, nextChunk>>
    BY <1>20 DEF WriterReturn, Return, CtxDone
  <2>2. outcome' = "mismatch" => firstErr = "nil" /\ ~CtxDone /\ written # Rows
    BY <1>20 DEF WriterReturn, Return
  <2>3. firstErr = "nil" /\ ~CtxDone => written = Rows
    BY <2>1 DEF ConserveInv, FileInv
  <2> QED BY <2>1, <2>2, <2>3 DEF ConserveInv
<1>21. ASSUME CallerCancel PROVE ConserveInv'
  BY <1>21, <1>f DEF CallerCancel, CtxDone
<1>22. ASSUME UNCHANGED vars PROVE ConserveInv'
  <2>1. CtxDone' = CtxDone
    BY <1>22 DEF vars, CtxDone
  <2> QED BY <1>22, <1>s, <2>1 DEF vars, ConserveInv
<1> QED
  BY <1>1, <1>2, <1>3, <1>4, <1>5, <1>6, <1>7, <1>8, <1>9, <1>10, <1>11, <1>12,
     <1>13, <1>14, <1>15, <1>16, <1>19, <1>20, <1>21, <1>22
  DEF Next, Feeder, WorkerStep, Writer, Terminated

\* All the layers together are an invariant of the pipeline.
THEOREM InductiveCorrect == Spec => []Inductive
<1>1. Init => ConserveInv
  BY Constants DEF Init, ConserveInv
<1> QED
  BY <1>1, ShapeInit, RefsCorrect, ConserveStep, PTL DEF Spec, Inductive

\* A stopped or failed run is never taken for a truncated input.
THEOREM MismatchUnreachable == Spec => []NeverMismatch
<1>1. Inductive => NeverMismatch
  BY DEF Inductive, ConserveInv, NeverMismatch
<1> QED BY <1>1, InductiveCorrect, PTL

(***************************************************************************)
(* The pipeline implements the safety part of the ordered sink.            *)
(***************************************************************************)
LEMMA SinkStep ==
  Inductive /\ Inductive' /\ [Next]_vars => [Abstract!Next]_(Abstract!vars)
<1> SUFFICES ASSUME Inductive, Inductive', [Next]_vars
             PROVE  [Abstract!Next]_(Abstract!vars)
  OBVIOUS
<1> USE DEF Abstract!vars, feederVars, workerVars, writerVars, sinkVars, errVars
<1>1. CASE UNCHANGED <<file, outcome>>
  BY <1>1
<1>2. ASSUME WriterWrite, file' = Append(file, hand) PROVE Abstract!Extend
  <2>1. writer = "write" /\ UNCHANGED outcome
    BY <1>2 DEF WriterWrite
  <2>2. Len(file) = hand /\ hand \in Chunk /\ outcome = "running"
    BY <2>1, Constants DEF Inductive, FileInv, Shape, TypeOK, Busy
  <2> QED BY <1>2, <2>1, <2>2, Constants DEF Abstract!Extend
<1>3. ASSUME WriterReturn PROVE Abstract!Return
  <2>1. /\ writer = "finish" /\ UNCHANGED file
        /\ outcome' \in {"ok", "error", "canceled", "mismatch"}
    BY <1>3 DEF WriterReturn, Return
  <2>2. outcome = "running" /\ outcome' # "mismatch"
    BY <2>1 DEF Inductive, FileInv, ConserveInv
  <2>3. outcome' = "ok" => Len(file') = NumChunks
    BY DEF Inductive, FileInv, SuccessIsComplete
  <2> QED BY <2>1, <2>2, <2>3 DEF Abstract!Return, Abstract!Verdicts
<1>4. ASSUME ~UNCHANGED <<file, outcome>>
      PROVE  WriterReturn \/ (WriterWrite /\ file' = Append(file, hand))
  BY <1>4 DEF Next, Feeder, WorkerStep, Writer, Terminated, vars,
     FeederTakeSlot, FeederStop, FeederFinish, WorkerOpen, WorkerTake,
     WorkerCheck, WorkerDecode, WorkerSend, WorkerDrop, WorkerEnd, CloseResults,
     WriterReceive, WriterPick, WriterWait, WriterCheckFailed, WriterWrite,
     WriterRelease, WriterReturnSlot, WriterAbandon, CallerCancel
<1> QED BY <1>1, <1>2, <1>3, <1>4 DEF Abstract!Next

\* Every step of the pipeline is a step of the ordered sink or changes nothing
\* the sink specification speaks of.
THEOREM Refinement == Spec => Abstract!Safety
<1>1. Init => Abstract!Init
  BY DEF Init, Abstract!Init
<1> QED BY <1>1, InductiveCorrect, SinkStep, PTL DEF Spec, Abstract!Safety
=============================================================================
