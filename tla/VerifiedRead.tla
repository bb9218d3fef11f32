---------------------------- MODULE VerifiedRead ----------------------------
(***************************************************************************)
(* Reading one QVD, and what stands between the reading and a conversion   *)
(* built on bytes that were not in the file: Open, readHeaderVerified and  *)
(* ReadSymbols of internal/qvd/reader.go, newWorker, verifyChunk and       *)
(* decodeChunk of internal/convert/parallel.go.                            *)
(*                                                                         *)
(* The file is read in parts: the header, twice always; the symbol tables  *)
(* of the selected columns, in order, and the record chunks, in any order, *)
(* once, and in the quality mode "reread" twice. Every part is read        *)
(* through a handle, and a handle is on the file the first one opened or,  *)
(* when the path was given another file meanwhile, on that one.            *)
(*                                                                         *)
(* How the workers and the writer take turns, and what one failure does to *)
(* the chunks in flight, is DecodePipeline's: a chunk here is read, checked*)
(* and decoded in one step, of a worker that may run at any time.          *)
(***************************************************************************)
EXTENDS Integers, Sequences, FiniteSets

CONSTANTS
  NumTables,   \* fields of the QVD
  Selected,    \* the columns the conversion takes
  NumChunks,   \* chunks the records are decoded in
  Worker,      \* decode workers
  MaxMisreads  \* bound: reads that return bytes the file does not hold

ASSUME ReadAssumption ==
    /\ NumTables \in Nat \ {0}
    /\ Selected \subseteq 1 .. NumTables
    /\ NumChunks \in Nat
    /\ IsFiniteSet(Worker) /\ Worker # {}
    /\ MaxMisreads \in Nat

Header == <<"header", 0>>
Tables == {<<"table", i>> : i \in Selected}
Chunks == {<<"chunk", c>> : c \in 1 .. NumChunks}
Parts == {Header} \cup Tables \cup Chunks

File == {"orig", "other"}
None == "none"

VARIABLES
  verifyReads,  \* File.VerifyReads
  path,         \* which file the path names now
  stage,        \* where the conversion stands
  blame,        \* what the error that ended it says went wrong
  reads,        \* what the reads of each part have returned, in order
  handle,       \* the file each worker reads from, None before newWorker
  check,        \* and the one the second reads come from; "tables" is ReadSymbols
  used          \* the parts something has been built on

readerVars == <<verifyReads, path, stage, blame, reads, handle, check, used>>

\* How many reads have gone wrong, with those of pending not recorded yet.
IsWrong(r) == r \in {"wrong", "wrong2"}
Misreads(pending) ==
  LET recorded == {r \in Parts \X {1, 2} : r[2] \in DOMAIN reads[r[1]] /\ IsWrong(reads[r[1]][r[2]])}
  IN  Cardinality(recorded) + Len(SelectSeq(pending, IsWrong))

\* What a read can return: the bytes as the file holds them, other bytes that
\* are as well formed ("wrong", and "wrong2" for a second reading that is wrong
\* in another way), or an error. A replacement has bytes of its own. The
\* sequential reads, of the header and of the tables, can also come back with a
\* count that cannot be ("impossible"); ReadAt panics on one.
Outcomes(f, pending) ==
  IF f = "other" THEN {"others", "error"}
  ELSE {"right", "error"}
         \cup (IF Misreads(pending) < MaxMisreads THEN {"wrong", "wrong2"} ELSE {})
Sequential(f) == Outcomes(f, <<>>) \cup {"impossible"}
Failures == {"error", "impossible"}

ReaderInit(verify) ==
  /\ verifyReads = verify
  /\ path = "orig"
  /\ stage = "header"
  /\ blame = None
  /\ reads = [p \in Parts |-> <<>>]
  /\ handle = [w \in Worker |-> None]
  /\ check = [x \in Worker \cup {"tables"} |-> None]
  /\ used = {}

\* sameOpenFile and its like: a handle just opened at the path is on the file
\* the first handle is on.
SameFileUnasked(f) == TRUE
SameFile(f) == f = "orig"

Stop(why) == blame' = why /\ stage' = "failed"
Saw(p, results) == reads' = [reads EXCEPT ![p] = @ \o results]
UseOf(p) == used' = used \cup {p}

\* Another process puts another file where the input was. The handles that are
\* open stay on the file they were opened on.
Replaced ==
  /\ path = "orig"
  /\ path' = "other"
  /\ UNCHANGED <<verifyReads, stage, blame, reads, handle, check, used>>

\* Open, and the first reading of the header. Nothing is made of it yet, an
\* error included.
ReadHeader ==
  /\ stage = "header" /\ reads[Header] = <<>>
  /\ \/ Stop("unreadable") /\ UNCHANGED reads
     \/ /\ \E r \in Sequential("orig") \ {"wrong2"} : Saw(Header, <<r>>)
        /\ UNCHANGED <<stage, blame>>
  /\ UNCHANGED <<verifyReads, path, handle, check, used>>

\* What two readings of the header come to. Two that fail are reported as the
\* first one stands; otherwise they must be the same bytes.
HeaderFaultLenient(r1, r2) ==
  CASE {r1, r2} \subseteq Failures -> IF r1 = "impossible" THEN "misread" ELSE "unreadable"
    [] r1 \in Failures \/ r2 \in Failures -> "misread"
    [] OTHER -> None
HeaderFault(r1, r2) ==
  CASE {r1, r2} \subseteq Failures -> IF r1 = "impossible" THEN "misread" ELSE "unreadable"
    [] ~({r1, r2} \subseteq Failures) /\ r1 # r2 -> "misread"
    [] OTHER -> None

\* The second reading, through a handle of its own; and, of a header that read
\* the same twice, ParseHeaderXML and Validate.
VerifyHeader ==
  /\ stage = "header" /\ Len(reads[Header]) = 1
  /\ \/ Stop("unreadable") /\ UNCHANGED <<reads, used>>
     \/ ~SameFile(path) /\ Stop("replaced") /\ UNCHANGED <<reads, used>>
     \/ /\ SameFile(path)
        /\ \E r \in Sequential(path) :
             LET fault == HeaderFault(reads[Header][1], r)
             IN  /\ Saw(Header, <<r>>)
                 /\ \/ fault # None /\ Stop(fault) /\ UNCHANGED used
                    \/ fault = None /\ r # "right" /\ Stop("invalid") /\ UNCHANGED used
                    \/ /\ fault = None /\ stage' = "tables"
                       /\ UseOf(Header) /\ UNCHANGED blame
  /\ UNCHANGED <<verifyReads, path, handle, check>>

\* A second handle on the input, for x to read a range again through.
OpenCheck(x) ==
  \/ verifyReads /\ Stop("unreadable") /\ UNCHANGED check
  \/ verifyReads /\ ~SameFile(path) /\ Stop("replaced") /\ UNCHANGED check
  \/ /\ verifyReads => SameFile(path)
     /\ check' = [check EXCEPT ![x] = IF verifyReads THEN path ELSE None]
     /\ UNCHANGED blame

\* ReadSymbols opens its own before it reads the first table.
OpenTables ==
  /\ stage = "tables"
  /\ OpenCheck("tables")
  /\ stage' = IF blame' = None THEN "symbols" ELSE "failed"
  /\ UNCHANGED <<verifyReads, path, reads, handle, used>>

\* What a part read as r1, and read again as r2 where reads are verified, comes
\* to: verifyChunk, and the digests of ReadSymbols.
FaultUnverified(r1, r2) ==
  CASE r1 = "error" -> "unreadable"
    [] r1 = "impossible" -> "misread"
    [] OTHER -> None
Fault(r1, r2) ==
  CASE r1 = "error" -> "unreadable"
    [] r1 = "impossible" -> "misread"
    [] r1 \notin Failures /\ verifyReads /\ r2 = "error" -> "unreadable"
    [] r1 \notin Failures /\ verifyReads /\ r2 \notin {"error", r1} -> "misread"
    [] OTHER -> None

\* The two reads of a part p that x makes, the first on the file f, and what
\* follows. Bytes the file does not hold may fail to decode: a table before it
\* is read a second time, a chunk only after.
ReadPart(p, firsts, x) ==
  \E r1 \in firsts \ {"wrong2"} :
    LET again == verifyReads /\ r1 \notin Failures
    IN  \/ \E r2 \in IF again THEN Outcomes(check[x], <<r1>>) ELSE {r1} :
             /\ Saw(p, IF again THEN <<r1, r2>> ELSE <<r1>>)
             /\ \/ Fault(r1, r2) # None /\ Stop(Fault(r1, r2)) /\ UNCHANGED used
                \/ Fault(r1, r2) = None /\ UseOf(p) /\ UNCHANGED <<blame, stage>>
                \/ /\ Fault(r1, r2) = None /\ r1 # "right"
                   /\ Stop("invalid") /\ UNCHANGED used
        \/ /\ p \in Tables /\ r1 \notin Failures \cup {"right"}
           /\ Saw(p, <<r1>>) /\ Stop("invalid") /\ UNCHANGED used

\* ReadSymbols: the tables of the selected columns, in the order of the header.
ReadTable(i) ==
  /\ stage = "symbols"
  /\ i \in Selected /\ <<"table", i>> \notin used
  /\ \A j \in Selected : j < i => <<"table", j>> \in used
  /\ ReadPart(<<"table", i>>, Sequential("orig"), "tables")
  /\ UNCHANGED <<verifyReads, path, handle, check>>

\* checkRecordArea: the file may be too short for the records it declares.
CheckRecordArea ==
  /\ stage = "symbols" /\ Tables \subseteq used
  /\ \/ stage' = "decoding" /\ UNCHANGED blame
     \/ Stop("invalid")
  /\ UNCHANGED <<verifyReads, path, reads, handle, check, used>>

\* openWorkerFile: a handle of the worker's own, or File's where the path can
\* not be opened or names another file by now.
WorkerFileUnasked == path
WorkerFile == IF SameFile(path) THEN path ELSE "orig"

NewWorker(w) ==
  /\ stage = "decoding" /\ handle[w] = None
  /\ handle' = [handle EXCEPT ![w] = WorkerFile]
  /\ OpenCheck(w)
  /\ stage' = IF blame' = None THEN stage ELSE "failed"
  /\ UNCHANGED <<verifyReads, path, reads, used>>

\* decodeChunk, of a chunk no worker has taken yet.
DecodeChunk(w, c) ==
  /\ stage = "decoding" /\ handle[w] # None
  /\ <<"chunk", c>> \notin used
  /\ ReadPart(<<"chunk", c>>, Outcomes(handle[w], <<>>), w)
  /\ UNCHANGED <<verifyReads, path, handle, check>>

\* All chunks are written and the workers have gone, each having had its turn
\* at newWorker, and with them the handles on the input. With no records Run
\* returns before it starts a worker. Nothing looks at the input from here on.
EndRun ==
  /\ stage = "decoding" /\ Chunks \subseteq used
  /\ Chunks # {} => \A w \in Worker : handle[w] # None
  /\ stage' = "decoded"
  /\ handle' = [w \in Worker |-> None]
  /\ check' = [x \in Worker \cup {"tables"} |-> None]
  /\ UNCHANGED <<verifyReads, path, blame, reads, used>>

ReaderStep ==
  \/ stage \in {"header", "tables", "symbols", "decoding"} /\ Replaced
  \/ ReadHeader
  \/ VerifyHeader
  \/ OpenTables
  \/ \E i \in 1 .. NumTables : ReadTable(i)
  \/ CheckRecordArea
  \/ \E w \in Worker : NewWorker(w)
  \/ \E w \in Worker, c \in 1 .. NumChunks : DecodeChunk(w, c)
  \/ EndRun

-----------------------------------------------------------------------------
ReaderTypeOK ==
  /\ verifyReads \in BOOLEAN
  /\ path \in File
  /\ blame \in {None, "unreadable", "misread", "replaced", "invalid"}
  /\ \A p \in Parts : /\ Len(reads[p]) <= 2
                      /\ \A i \in DOMAIN reads[p] :
                           reads[p][i] \in {"right", "wrong", "wrong2", "others"} \cup Failures
  /\ handle \in [Worker -> File \cup {None}]
  /\ check \in [Worker \cup {"tables"} -> File \cup {None}]
  /\ used \subseteq Parts
=============================================================================
