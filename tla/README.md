# qvd2parquet in TLA+

qvd2parquet reads QVD files (Qlik's table format), infers a Parquet schema from
their symbol tables, decodes the rows in parallel and writes Parquet, one file
or a whole folder at a time. This directory holds TLA+ models of its logic, the
TLC configurations that check them on small instances, and theorems about them
that the TLA+ proof system checks for every value of the constants.

Line numbers are those of the sources these modules were written from;
`PROJECT.json` gives the lines behind every definition (`map`), the mutation of
the code that each property catches (`mutants`), the disagreements found
(`findings`), and the places where this code is hard to test (`hazards`).

    tlc -config MCDecodePipeline.cfg MCDecodePipeline     # one run
    tlapm DecodePipelineProofs.tla                        # one module of proofs

## 1. The system

### Components

| component | code | state | operations | what makes it correct |
|---|---|---|---|---|
| decode pipeline | `convert/parallel.go` | channels `work`, `results`, `slots`; `pending`, `nextChunk`, `rowsWritten`; first error; reference counts of Arrow records | feeder, decode workers, in-order writer, `fail` | rows arrive in order, each once; every record is released; memory is bounded; `Run` always returns, with the right verdict |
| output writer | `parquetwrite/writer.go`, `convert/converter.go` | temporary file, output path | `Create`, `WriteRecord`, `Close`, `CommitContext`, `replaceByDelete`, `Abort`, `removeTemp` | an existing output survives or is replaced whole; never without `--force`; the caller is told the truth |
| batch run | `convert/many.go` | results, slots, retries, cancel cause, log and manifest | `RunMany`, `convertOne`, `retryReads`, `summarize` | every file has its result; a lost output stops the rest; it returns even if calls hang |
| stall watch | `convert/stall.go`, `iowatch` | outstanding calls, the call it found | fire, give up on a conversion, a log write or a manifest write | an abandoned conversion is not run again beside itself |
| manifest | `convert/uptodate.go` | entries in memory and on disk, pending deletions | `Stale`, `Record`, `Save`, `MarkDeleted`, the deletions of `--delete-older-than` | nothing is skipped that would come out differently; nothing is deleted that is not recorded |
| catalog | `catalog/*.go`, `convert/catalog.go` | rows stored and rows of this run | conversion rows, scanned rows, `reconcile`, `Close` | nothing is lost, and a row describes the file that is there |
| console log | `cmd/qvd2parquet/console.go` | held lines, file, flags | write, attach, discard, close | the file holds what the screen held |
| schema resolution | `convert/schema.go`, `dual.go`, `decimal.go`, `policy.go`, `rename.go` | resolved columns, reserved names | profile symbols, infer, pin, decide on text columns, settle names | what resolves converts; nothing is lost silently; names differ |
| value conversion | `convert/batch.go`, `qvd/types.go`, `qvd/time.go` | none | symbol to value under a strategy | agrees with what the schema assumed |
| QVD reader | `qvd/reader.go`, `qvd/checkedread.go` | file handles, symbol tables | `Open`, `readHeaderVerified`, `ReadSymbols`, `verifyChunk` | rows come from one file, read right |
| quality gate | `convert/qualitygate.go`, `convert/quality.go` | metrics per column, per goroutine | observe, merge, read back, compare | it passes what is the same and fails what is not |
| header | `qvd/header.go` | none | `Validate`, `checkBitRanges` | two fields never share a bit, none lies outside its record |
| symbols and bits | `qvd/symbols.go`, `bitpack.go` | none | `symbolReader.next`, `readBitsLE`, `DecodeRecord` | what was written is what is decoded |
| folder schema | `convert/folderschema.go` | one schema per folder, with its error | `FolderSchemas.For`, `folderFingerprint` | check, conversion and record are of one version |
| command line | `cmd/qvd2parquet/main.go` | what is open, the exit code | path guards, `startConsoleLog`, `openCatalog`, the deferred closing, `ExitCode` | a refusal touches nothing; writers have files of their own; the exit code is true; it exits |
| others | header repair, encoding trials, value ranges, progress, what `inspect` prints | | | see section 8 |

### How they interact

`RunMany` starts a goroutine per file (`many.go:696`), limited by a semaphore.
That goroutine runs the conversion on another goroutine and waits for it under
the stall watch (`stall.go:186`). A conversion (`convert.Run`) opens the QVD,
resolves a schema from its symbols, creates the temporary output, and runs the
pipeline: chunks are read, decoded into Arrow records by workers and written in
order by the calling goroutine. The writer is closed, the quality gate reads the
temporary file back on several goroutines and compares its metrics with those
merged from the chunks, and the commit renames it. The catalog is told, then the
batch goroutine logs the result and records it in the manifest, under the
manifest's lock. After the last file failed reads are retried one at a time, the
manifest is saved, and outputs that are due are deleted. Around all of it the
command checks every path against every other, opens the console log, the catalog
and the log, and closes them by deferred calls that may change its exit code. A
context runs through all of this; a Ctrl-C, an output lost on a share and a stall all cancel it, each
with its cause.

### What is hard

* **Interleaving.** Feeder, workers and writer; file goroutines, loop and watch;
  the goroutines of the gate; the signal handler that prints while the run does.
* **Cancellation between a check and what it guards**: in the loop of the batch,
  between the commit's check and its rename, in every wait of the pipeline.
* **Calls that never return.** A dead share hangs a read, a write or a rename;
  the watch gives up on it, and it may still come back later and act.
* **A share that refuses to overwrite**, where replacing is deleting and renaming.
* **Kills**: between two renames, between the output and its record, between a
  record of a deletion and the deletion.
* **Files that change while they are used**: inputs that are re-extracted, outputs
  that are replaced, a path that names another file at the second open.
* **Rules that must agree**: the profile, the inference, the decimals, the text
  decision and the conversion all classify the same symbols, each on its own.
* **Data grouped differently on the two sides of a comparison**: metrics by chunk
  and metrics by row group.
* **Bits at boundaries**: an index across nine bytes at the end of a buffer, a null
  that shifts all indices, a number of the header that is off and still valid.
* **Calls that fail and were done**: a rename reported as failed by a share that made it.
* **Paths that are one file**: by a link, by capital letters, by being derived from one another.

`PROJECT.json` lists them one by one under `hazards`.

## 2. The modules

| module | models | checked by | proofs |
|---|---|---|---|
| `OrderedSink` | what the pipeline promises: chunks accepted in order, then one verdict | | |
| `DecodePipeline` | `Converter.Run` | `MCDecodePipeline` | `DecodePipelineProofs` |
| `OutputCommit` | one output, the run that writes it, and the run after that | `MCOutputCommit` | `OutputCommitProofs` |
| `BatchRun` | `RunMany`, the watch, log and manifest as records | `MCBatchRun`, three configurations | `BatchRunProofs` |
| `Manifest` | `--skip-up-to-date` and `--delete-older-than` over several runs | `MCManifest`, two configurations | `ManifestProofs` |
| `Catalog` | `--catalog-out`, `--catalog-scan` and `--catalog-force` over several runs | `MCCatalog` | `CatalogProofs` |
| `ConsoleLog` | `--console-log` | through `Command` | through `CommandProofs` |
| `Paths` | what arguments find, where things go, when two paths are one: pure operators | through `Command` | through `CommandProofs` |
| `Command` | the four kinds of command, from their guards to their exit codes | `MCCommand` | `CommandProofs` |
| `QvdHeader` | the numbers of a header, `Validate` | through `ValuePath` | `ValuePathProofs` |
| `QvdFile` | the bytes of a QVD: the encoder, damages, the decoder; pure operators | through `ValuePath` | through `ValuePathProofs` |
| `Column` | the type of one column and the conversion of its symbols, pure operators | through `ValuePath` | through `ValuePathProofs` |
| `SchemaResolution` | `ResolveSchema` and `resolveNameCollisions` | through `ValuePath` | `ValuePathProofs` |
| `ValuePath` | composes `QvdFile`, `SchemaResolution` and `Column`: a value from its bytes to its builder | `MCValuePath` | `ValuePathProofs` |
| `ColumnMetrics` | the metrics of one column: observe, merge, compare, pure operators | through `Integrity` | |
| `VerifiedRead` | the reads of one QVD, their second reads, their handles | through `Integrity` | through `IntegrityProofs` |
| `QualityGate` | `RunQualityGate` | through `Integrity` | through `IntegrityProofs` |
| `Integrity` | composes `VerifiedRead` and `QualityGate`: from the first byte read to the rename | `MCIntegrity`, two configurations | `IntegrityProofs` |

How they fit: `OutputCommit` is one conversion seen from the share, with the
pipeline and the gate as one step each. `DecodePipeline` is that pipeline step,
`Integrity` is what is read before it and checked after it, and `ValuePath` is what
becomes of a value in it when every read returns what the file holds. `BatchRun` runs
many conversions, each as a few steps with the outcomes `OutputCommit` and `Manifest`
justify. `Manifest` and `Catalog` look at several runs in a row, where a whole
conversion is one or two steps. `Command` is what is around all of these in one
process, with `ConsoleLog` as a part of it.

`DecodePipeline` instantiates `OrderedSink` with its own chunks, its file and its
outcome (`Abstract`, an `INSTANCE ... WITH`): that the pipeline implements the sink
is a property of the run `pipeline` and, for its safety part, the theorem `Refinement`.

### State and actions against the code

**DecodePipeline.** `feeder`/`feed` stand for the feeder goroutine
(`parallel.go:180-196`), `wstate`/`wchunk` for each worker, `results` for the
buffered channel, `slots` for the window, `writer`/`hand` for the place in
`writeOne`, `pending` for the map and `nextChunk` for the counter. A `select`
whose cases are both ready may take either one, so sending and noticing a cancel
are alternatives. `refs` counts the references on each chunk's record; the
actions that release are those with a `Release` in the code. Failures of a read
or decode and of a write are choices of the action that makes the call.

**OutputCommit.** `pc` is the place in `convert.Run`, `Create`, `Close`,
`CommitContext`, `replaceByDelete` and `Abort`; `final` and `tmp` are the two
names on the share. Every call on the share may succeed, fail, be refused, or
simply not be taken, which is a call that hangs. A rename may also be made by the
share and reported as failed (`tmp = "moved"`): what follows then is what the code
does, which looks at the target and deletes it. `Cancel`, `StallFires`,
`GiveUp` and `Kill` may happen between any two of them, and `NextRun` starts
another run, with the same process ID (whose stale temporary file `Create`
removes) or another. `removeTemp` keeps its five attempts.

**BatchRun.** `mpc` is the loop of `RunMany` and what follows it, `thread[f]` the
goroutine of a file, `conv[f]` the goroutine `await` starts for its conversion.
`Select` and `Check` are the two looks at the context (`many.go:588`, `604`).
`WatchStops` and `WatchFires` are the two things the watch does, in this order: it stops the
batch, and then tells those that wait for it (`stall.go:90`, `91`).
`rec` and `mu` are the bookkeeping goroutines that wait for the manifest's lock.
`upToDate` is what `live.Stale` finds. `cause` is the context's cause, of which
the first one stays.

**Manifest.** `Examine` is `Stale` with the marking for deletion; `Open`,
`Commit` and `Record` are the three moments of a conversion at which the input's
size and time matter; `SaveRename`/`SaveRetry` are the two ways `ReplaceFile`
puts a manifest in place; `CheckAgain` and `Delete` are the deletion and the look
before it. `Reextract`, `Replace`, `RemoveOutput` and `EditSchema` are other people. A
version stands for a size and a timestamp, an option fingerprint for the options.
`folder` is the schema in the folder, `held` what `FolderSchemas` keeps of it
from the first look on, an error included; `Fingerprint` is the fingerprint made of both.

**Catalog.** A row keeps its key, where its facts come from (which conversion of
which input) and what a scan can see (the run that wrote the file). `Merge`
follows `reconcile` in `merge.go`: which stored row a new row takes its facts
from. `Close` writes the merged rows or nothing.

**ConsoleLog.** A message is its number and length; `pending`, `settled`,
`dropped` and the file are the fields of the Go type. Writing and attaching are
atomic because they hold one lock.

**Paths, Command.** A path is its folders, the dotted parts of its name and its
extension; `FileOf` is what the disk makes of it, with links resolved and, on a disk
that folds case, letters folded; `SamePath` is what the code takes for one file.
`at` is the place in `runSingle`, `runBatch`, `runInspect` or `runCatalogScan`,
whose common course is `Order`: guards, console log, catalog, log, the work, and the
deferred calls in reverse. `disk` says what is in each file, `wrote` who opened which.
A conversion is its reports, its output or a failure with its exit code; `stuck` is a
share whose calls stop returning, and `Returns` says where `afterRun` limits the
time. `Console!` is `ConsoleLog`, whose actions happen at their place in the run.

**QvdHeader, QvdFile.** A header is the numbers that place tables and bits. A record
is its bits, in bytes of `ByteBits` and words of `WordBytes`: 8 and 8 in the program,
parameters here, so that a range that crosses a word is a small one. A byte and a word are
functions of their bits: `ReadBitsLE` loads a word or what is left of the buffer, shifts it,
ors the byte above in and masks, as `readBitsLE` does, and what is shifted out of a word is lost.
A symbol table is a sequence of tags, payloads, texts and end bytes. `Build` is the
encoder of the test fixtures, which the repository's tests take for Qlik's.

**Column, SchemaResolution.** A symbol is the kind of its entry, a class of
numbers and a class of display strings: thirty of them, chosen so that every
test in the source tells some two apart. A column is a *set* of symbols; every
rule asks only whether some or all symbols are of a class. `ResolveField`
takes the fields in order and fails with the first that fails; `Claim` and
`Rename` settle the names one column at a time, as `resolveNameCollisions` does.

**ValuePath.** The steps are those of `convert.Run`: `Open` with `Validate`,
`SelectColumns`, one `ReadSymbols` per selected table, `CheckRecordArea`, the
steps of `SchemaResolution`, one `DecodeRow` per row, which decodes every field and
converts the selected ones. The schema is resolved from the symbols that were *read*,
so what is claimed of it is claimed of columns as they come out of a file.

**VerifiedRead, QualityGate, Integrity.** A part of the file (header, symbol
table, chunk) is read into `reads`, a sequence of what each read returned:
right, wrong, wrong in another way, impossible, another file's. Wrong bytes become rows nobody
questions. The gate deals row groups to goroutines in blocks, each reads batch
by batch and may fail or see the cancel at any batch, and metrics are merged and
compared as `quality.go` does it, for the strategies `exact`, `float64` and `text`.

## 3. What each run checks

| run | instance | shows |
|---|---|---|
| `pipeline` | 2 workers, 5 chunks (the last one short), window 4 | `VerdictHonest`: a failure is not reported as a cancel nor the reverse. `NothingLeaked`: every Arrow record is released. `WindowBound`: records alive never exceed the window. `EverythingEnds`, `SucceedsUndisturbed`: it terminates, and succeeds if left alone. `ImplementsOrderedSink`: refinement of `OrderedSink` with its liveness |
| `output_commit` | 2 runs in a row | `OutputSurvives`, `ForceOnly`, `ReportTrue`, `OnlyFinishedOutputs`; `AlwaysTold`: the caller hears something however long a timed call hangs |
| `batch_safety` | 3 files, 2 at a time, with a manifest | `LossIsContained`, `ResultTrue`, `BooksAgree`: results, log and manifest agree with the outputs. `OneWriter` |
| `batch_ends` | 2 files, 2 at a time, fair | `Returns`, `StallEnds` |
| `batch_dropped` | 2 files | *violation*: `AllAccounted` |
| `manifest` | 2 files, 2 fingerprints, 2 schemas and a broken one, 3 runs, 2 interferences, one file left alone while a run is at it | `DeletesAreRecorded`, `DeletedStaysDeleted`, `SkipSound`, `DeletesOurs` |
| `manifest_stat_late` | 1 file anybody may touch at any time | *violation*: `SkipAlwaysSound` |
| `catalog` | 2 QVDs whose tables have the names of the files, one renamed, 2 columns, 3 runs | `FactsTrue`: a row tells of the conversion that wrote the file. `Complete`: every file described, nothing removed |
| `command` | 463 command lines of four kinds, 2 disks | `WritersApart`, `RefusedTouchesNothing`, `ZeroMeansAll` and `ExitTells`: what 0, 7, 8 and the others say is so. `HoldsTheScreen`, `Exits` |
| `value_path` | two fields in every layout, each of seven header numbers off by one; every pair of thirty classes of symbols under types, pins and policies; files of three fields | `DecodedAsWritten`, `DamageStaysInColumn`, `ResolutionSufficient`, `NothingVanishes`, `TextKept`, `DecimalsExact`, `AbsentIsNoEvidence`, `NamesUnique` |
| `integrity` | 4 rows in chunks of 3 and 1, read back in 2 blocks of 2; whole numbers, text, floats with a NaN and with sums that round; 2 misreads | `EndToEnd`: the rows are the file's, of one file. `BlameIsTrue`. `VerdictTrue`: the gate passes only what is the same and fails only what is not, or what the grouping alone can change |
| `gate_nan` | a float64 column with a NaN, 4 rows | *violation*: `FaithfulPasses` |

The largest are `batch_safety` (5.8 million states), `manifest` (5.4 million up to
symmetry), `catalog` (1.8 million), `value_path` (1.3 million), `command` (0.8 million, with
liveness) and `integrity` (0.7 million), each within three minutes on two cores.

Every module with variables states a type invariant: `TypeOK`, or with the name of its
part in front where it is composed with another (`ReaderTypeOK`, `GateTypeOK`,
`PathTypeOK`). It is proved for the pipeline, the output, the batch, the manifest, the
catalog, the command and the reader with the gate (`TypeCorrect`), and for the way of a value
(`PathTypeCorrect`).

### Bounds, and why they are enough

* *Pipeline*: one worker more than one is what makes chunks overtake each other; five
  chunks over a window of four make the window fill, empty and bind at both ends; a short
  last chunk tells rows from chunks.
* *Output*: two runs are enough for the second to meet anything the first leaves (an
  output, no output, a kept or an abandoned temporary file, with its process ID or another).
* *Batch*: three files over two slots make a file wait for a slot while two are
  at work, so that a stop can fall before, during and after its start. The liveness
  run has two files: what a file can wait for is a slot, a goroutine and the lock,
  and two contenders are enough for each.
* *Manifest*: three runs are convert, delete, and look again; two files are two
  files under one lock and one save; `MaxVersion`, `MaxWrites` and `MaxTouches`
  bound what others do. Options and schemas are symmetric (nothing compares them but for
  equality). One edit of the schema can fall between any two of the check, the conversion
  and the record.
* *Catalog*: three runs are convert, scan, and convert again; tables are renamed and
  columns gained and lost between any two. Both QVDs can carry a table of the name of the
  file, as the outputs of a batch do (`scan.go:112`). Which of two rows of one run is the
  newer, `Newest` leaves open.
* *Command*: each command line differs in one path from one that is in order, because a
  clash is between two paths; that path is each of the others, its alias by a link and
  by capital letters, and each file the run derives (a folder schema, a report, the
  manifest). Messages of length 1 and 2 against a limit of 2 hit the limit exactly and
  overshoot it.
* *Value path*: bytes of three bits and words of two bytes make an index lie across two
  and three bytes, in and past the word, at the end of a record and at the end of the
  file; 17 symbols need all the bits of such a range, and with a null one more. Each
  of the numbers that place something (`BitOffset`, `BitWidth`, `Bias`, `NoOfSymbols`, `Length`,
  `RecordByteSize`, `NoOfRecords`) is off by one each way: what Validate compares, it compares
  with a neighbour or a length. A decimal is pinned with nine digits and with more.
* *Schema*, in the same run: a rule asks whether some symbol or every symbol is of a
  class, and so compares at most two symbols of a column; three fields with names from four
  make a suffix meet a name, a generated name meet a field, and a suffix meet a suffix.
* *Integrity*: two misreads are enough to make both reads of a part wrong, in the same
  way or in two; four rows in chunks of three and one against blocks of two group the rows
  differently on the two sides, which is what a NaN and a rounded sum need to show. A mantissa
  of 8 instead of 2^53 and a tolerance of a quarter make rounding a matter of small numbers.

### Deadlock

Deadlock is checked for the batch and for the output. The other configurations
say `CHECK_DEADLOCK FALSE`: a pipeline, a command or a conversion that
has ended has nothing left to do, and the runs over a manifest or a catalog end
at their bound. In the pipeline `EverythingEnds` says that it stops nowhere else, and
`Exits` says so of a command.

### Fairness, and why the code justifies it

* `DecodePipeline!Fairness`: the Go scheduler runs each goroutine that can run; reads
  and writes return. Nothing promises that they succeed, and no one has to cancel.
* `OutputCommit!FairSpec`: only steps that wait for nothing, calls for metadata
  (`Stat`, `Lstat`, `MkdirAll`), the watch and its giving up are fair. No call that
  `iowatch` times has to return. That metadata calls return is an assumption: nothing
  times them (`writer.go:440`), and a hang there does hang the program.
* `BatchRun!FairSpec`: the loop, the file goroutines and the watch's clock go on; a
  conversion's calls need not return, nor the writes of log and manifest. `Returns` names the
  return of log and manifest writes as its premise; `StallEnds` needs only that of
  manifest saves, because `live.Stale` takes the manifest's lock without a deadline.
* `Command!FairSpec`: a command that can go on does. A call on a share that is stuck never
  returns; `afterRun` gives up on the log and the catalog after a stall, and only then.
  No Ctrl-C and no message has to come.

## 4. What is proved

For every value of the constants that satisfies the named `ASSUME` of the module.

**DecodePipeline** (`PipelineAssumption`: at least one row, a positive batch,
1 to NumChunks workers). The invariant is layered, each layer inductive given
the ones before:

1. `Shape`: types, and which goroutine has a chunk in hand.
2. `EndInv`: the results channel is closed only behind the last worker, and the
   writer leaves its loop only when nothing is left in it.
3. `FileInv`: how far the file is, given how far the writer is. From it follow
   `OrderCorrect`, `SuccessCorrect` and `VerdictCorrect`.
4. `PlaceInv`: a chunk is in at most one of workers, results and pending, and
   slots cover what is in flight.
5. `RefsInv`: a record is referenced once, exactly in the places that own it. From
   4 and 5 follow `LeakFree`, `WindowCorrect` and `SlotCorrect`.
6. `ConserveInv`: without a cancel no chunk is lost. From it follows
   `MismatchUnreachable`.

None of the properties is inductive by itself: that all references are gone at
the end needs to know where each chunk can be at each place of the writer, which
is layers 2 and 4. `Refinement` maps each step to a step of `OrderedSink` or a
stutter (the safety part; the liveness part is TLC's). `ChunkRows` is the
arithmetic of the chunk plan.

**OutputCommit** (`RunsAssumption`). `Inductive` says that the place of the run in
`convert.Run` determines what is on the share: before the rename the output is
untouched, from `rm-stale` on without `--force` there was none, at the
commit the temporary file is whole, synced and gated, and between the two renames
of `replaceByDelete` it is kept; or the first rename was made and reported as failed, and
the output is there under its name, or deleted. `OutputAlwaysSurvives`, `NoForceNoTouch`,
`ReportsTruly` and `OnlyFinished` follow for any number of runs. The
invariant says nothing of the moment of a kill, because `Kill` may come in any state.

**Manifest** (`ManifestAssumption`, `SchemaAssumption`), for any files, options, schemas,
runs and interferences, along three invariants:

1. `DueInv`: while outputs are deleted the manifest on disk is the one in memory, and
   what is due is marked in it; the marks of pending files survive `Record` of other files
   and every save. From it follows `DeletionsRecorded`.
2. `QuietInv`, of the files nobody touches while a run is at work on them. `BookInv`:
   numbers of outputs are given out once, so that an entry and an output that agree on one are
   of the same conversion. `WorkInv`: a conversion has read the input as it is, and
   what it put there has the fingerprint of this run, which `HeldInv` keeps the same
   from the first look at the schema on. From it follow `SkipsSoundly` and `DeletesOnlyOurs`.
3. `KeptInv`: the entry an output was deleted under is the one in memory and on disk, or
   there is none, and no entry has the fingerprint of a broken schema. From it follows
   `DeletedForGood`: a file that comes out stale has another input or fingerprint.

**BatchRun** (`BatchAssumption`: some files, at most as many workers), for any number of
files, any interleaving of the loop, the file goroutines and the conversions, and any
moment of a Ctrl-C or a stall. `BatchInv` is the conjunction that is inductive:

1. `LoopInv`: the loop has come to the files before `next` and to no other, and the
   retries begin when every goroutine has ended. `SlotInv`: the semaphore counts exactly
   the goroutines that hold a slot (`Holders`), so none is handed out twice and none is kept.
2. `FilesInv`: the place of a goroutine, its conversion and the two results of its file go
   together. `CauseInv`: what stopped the batch stays and is what the files it stopped name.
   `ResultsTrue` and `OneWriterAlways` follow.
3. `LossInv`: a file whose output is lost, or may be in a moment (`Losers`), still holds its
   slot or is the one that is retried, until the batch is stopped. `LossIsContained` is not
   inductive without it: when an output is lost nothing has been said yet of the
   conversions beside it that are at their rename. `LossContained` follows from it and `SlotInv`.
4. `BooksInv`: the log record of a file is written before its entry, and the manifest
   on disk is what some save put there. `BooksAgreed` follows.

**Catalog** (`CatalogAssumption`), for any QVDs, tables, columns and number of runs.
`CatalogInv`: `WorldInv` (an output that is there was made by a run), `RunInv` (a run that
goes on has read the catalog and not written it), `RowsInv` (what it has added is one row
for each column of a file, from the conversion or from a scan), `TablesInv` (a row is filed
under a table of its file), and `Complete` itself. `AlwaysComplete` follows. `FactsAlwaysTrue`
needs `ToldInv` as well: of a file whose conversion the catalog was told of it holds that
conversion's row for every column, and of other tables the file once was only older ones, so
that `reconcile`, which takes the newest row, finds the right one. Its hypothesis is
`TablesApart`: no two QVDs carry one table name, and none the name of the other's output
(see section 5). `ReconcileFiles` is the lemma about `reconcile` all this rests on.

**Command** (`CommandAssumption`, `PathsAssumption`), for any set of command lines, disks,
links and capital letters. `OneFileIsSamePath`: what the disk takes for one file
`samePath` takes for one, whether the disk folds case or not. `GuardInv` then carries
what the guards let pass to everything that is opened: every file that is written
belongs to one of the paths the guards compared (`Owns`), and nothing is opened before the
last guard of the command, the console's included. From it follow `RefusalIsClean`
and `WritersStayApart`. The rest is about any inputs, any results and any failures with the
codes 1 to 6:

* `CodeInv`: the results and the reason of a stop determine the exit code. `rank` gives each
  code a place of its own and a stall the highest (`CodeRanks`), so the one that is chosen
  among any set of them exists. `ExitCodeTells` follows.
* `MadeInv`: what has been made so far. A file that nobody opened is as it was
  (`UnwrittenStay`); the console log and the log are on the disk from their opening on, and
  the catalog from its closing on, while nothing has failed (`SidecarsHeld`); how far an
  input got says which of its products are there (`ProductsHeld`), and an input that became
  OK was there and is in the catalog (`ProgressInv`). Each of these survives the others' writes
  because of `GuardInv`, and the products survive each other because they are apart.
  `ZeroIsAll` follows: `ZeroMeansAll` where the manifest is none of the inputs and none of what
  is made of them (`ManifestApart`, which holds in every state of the run `command`; no guard
  of the code ensures it).
* `ConsoleInPlace`: the command's steps are steps of `ConsoleLog` or leave it alone.
  `ScreenInv` says that the file and what is held are lines of the screen, each once and in
  order (`LinesInv`), that one of the two is empty (`HeldInv`), and that a file that has its
  start is a prefix of the screen (`FileInv`). `ScreenIsHeld` follows, for any messages and any buffer.
  `HeldIsBounded`: what is held in memory never takes more than `Limit`. `Size` adds up a sequence, so
  it rests on `SizeGrows`, that one message more adds its own bytes.

**QvdHeader** (`WordAssumption`), for every header. `checkBitRanges` compares only
neighbours in the order of their offsets; `OrderedApart` shows that this suffices for
every two fields, whichever order those with the same offset come in, and
`AcceptedApart` that a header that passes lets no two fields decode from one bit.
`AcceptedInRecord`: every bit of every field lies in the record.

**SchemaResolution** (`InputsAssumption`: what options, fields and columns there
can be). `NamesAreUnique` and `FieldsKeepTheirNames` for any number of fields, any options and any typing of columns.
The invariant: a settled name is its own or one that no column at all asks for
(`OwnershipInv`), and the reserved names are finitely many (`ReservedInv`),
which is why `nextFreeName` ends (`NextFreeNameIsFree`).

**Column**, in `SchemaResolution`. `ColumnsAreResolved`: in every state the columns are what
`Resolve` makes of the fields. The rest is a case analysis over the ways a column is typed
(pinned, numeric, text, mixed; `ResolveCases`, `ResolveSuits`), for *any* set of the symbols: the type a column
gets suits every symbol in it (`TypeSuits`). A decimal needs that the scale taken
from all numbers is enough for each one. From it follow `ResolutionSuffices`,
`ValuesAreKept`, `TextsAreKept`, `DecimalsAreExact` and `AbsenceIsNoEvidence`.

**QvdFile, ValuePath** (`LayoutAssumption`: a layout is of the file's fields, its rows are as
many in each and point at its symbols, and no field takes more bits than a word has;
`InputsAssumption`, `WordAssumption`), for any number of fields, symbols and rows, any gap and
slack between the fields, and bytes and words of any size. First the bytes:

* `BuiltIsValid`: the header `Build` writes is one `Validate` accepts.
* `TableIsRead`: `ReadSymbolTable` returns the symbols that were encoded, as many as it is asked
  for, and fails where it is asked for more. `TableIsReadBack` finds each table among the others,
  where the lengths before it add up to its start.
* `IndexIsRead`: the index `ReadBitsLE` takes out of a record is the one that was written. Bit by
  bit: the word loaded, the byte above it and the mask each contribute the bits they should, no
  other field's range holds any of them, and a number is given by its bits.
* `HeaderIsKept`, `TableIsKept`, `BytesAreKept`: what a damage leaves as it was.
  `RecordsAreThere`: where `checkRecordArea` lets a header pass and neither the record area nor
  the records in it are moved (`Moved`), every row it counts was written. `MovedDisplaces`: where
  they are moved and the file is still read, it is one of the two damages `Displaces` names. A Length too
  large, or too small of a column that is read, ends in a truncated file or in a table that ends
  too early, and a RecordByteSize off by one in `Validate` or in a truncated file.

The definitions recurse over rows, symbols and bits. Each recursive function is unfolded by one lemma
(`Recursion`, `Unfolds`), and what holds at every place is proved from the least place where it
would not (`LeastExists`), so no induction theorem is needed.

Then the steps. `PathInv` is inductive, and has one part for what each stage leaves to the next:
the file at the path is the one written with its damage (`FileInv`); the tables read are those
written, as many symbols of each as its header counts (`TablesInv`); `ResolveSchema` is
called once, with the columns selected and the symbols read (`CallInv`), so that the two
invariants of the schema hold in its course (`IInv`, `FieldsInv`); every row decoded is
as it was written, or the damage is of the column (`RowsInv`); and a file without a damage is refused
only for the request or the policy (`NoRefusal`). `DecodedAsWritten` is not inductive without the
others: it speaks of rows, and what they will be is settled by the header, the tables
and the types chosen stages before. From it follow `WrittenIsDecoded`, `DamageIsOfItsColumn` and
`SchemaOnItsWay`, which carries the theorems about `SchemaResolution`, whose own specification
begins with any columns, over to the columns that were read from a file. TLC has checked
`PathInv`, too, in every state of the instance of `value_path`, but for `given \in Inputs`,
which no step touches.

**Integrity** (`IntegrityAssumption`), for any number of parts, workers and misreads.
`Invariant`: every handle in use is on the file that was opened first (`HandlesInv`), a part that
is used was read as the mode asks, once or twice with one result, and all parts are used
before the rows count as decoded (`ReadsInv`); who is blamed has the readings to show
for it (`BlameInv`); nothing is committed that the gate did not pass (`PassedInv`).
From it follow `BlameAlwaysTrue`, `OneFile` (no byte of another file is ever built on) and
`CommittedReadTwice`.

`VerdictAlwaysTrue`: the gate's verdict is true, of any rows, dealt out in any chunks, row
groups, blocks and batches, and what the grouping alone can change is named: the extrema of
a float64 column with a NaN, and a float sum that is rounded (`GroupingMatters`, the two
sides of finding 3). `Counts` says that metrics count the rows in a set of places: the sum
is the rows' `Total` weight (of floats as long as it fits the mantissa, where `PlusExact`
and `SumFits` say that nothing is rounded; with a NaN it is NaN), the bag of hashes has each
value as often as it stands there, an extremum is a least or greatest number there. `Total`
of the places that hold one value is their number, so one lemma about weights serves sums,
bags and nulls: totals of disjoint sets add up (`MergeCounts`), and rows in another order
weigh the same (`SameRowsTotal`). `ObserveAll` and `MergeAll` are functions defined by
recursion; that they count all they are given (`ObserveAllCounts`, `MergeAllCounts`) is
proved by a least counterexample (`LeastNumber`), without an induction theorem. The blocks
the gate deals out cover the rows once each (`SpansCover`, `BlockBounds`: the arithmetic of
`readParquetMetrics`). The invariant is `GateInv`: the source's metrics count all rows
decoded (`SourceRight`), each goroutine has counted its block up to some place and holds the
rows behind it (`BlocksRead`), and a verdict given is right. With a NaN, `VerdictTrue` says
nothing of extrema, because of finding 3. `EndsAgree` follows: the output of `reread` has
the rows of the QVD, each as often, unless a part read wrong twice in the same way; it holds
with a NaN too. It assumes a NULL and a NaN that are no numbers (`ValueAssumption`) and rows
that are values (`IntegrityAssumption`), beside `GateAssumption` and `ReadAssumption`.

**Only model-checked**:

* liveness under fairness, for which there is no prover here: `EverythingEnds`, `SucceedsUndisturbed`,
  `AlwaysTold`, `Returns`, `StallEnds`, `Exits`, and that half of `ImplementsOrderedSink`;
* which inputs `FindInputs` gathers from a list of arguments (the theorems about `Command` hold
  whatever it finds);
* in `Command`, whether the products of the inputs are apart is a hypothesis, as in the code.

## 5. Findings

1. **Files dropped from the summary** (`many.go:604`, run `batch_dropped`). A
   cancel between the `select` and the check behind it leaves the loop through a
   plain `break`; the remaining files keep an empty result, which the summary
   counts as converted. `many.go:589` says they are recorded.
2. **A re-extracted input is skipped** (`uptodate.go:499`, run
   `manifest_stat_late`). `Record` takes the size and time of the input when the
   conversion is over, so one that was replaced meanwhile is recorded as converted.
   `README.md:481` says a file is skipped only when this exact run already produced it.
3. **The gate fails a faithful file with a NaN** (`quality.go:134`, run
   `gate_nan`). The extrema depend on how values were grouped as soon as one is NaN,
   and source and output group them differently. `quality.go:63` and `README.md:1849` say
   the metrics do not depend on order. Float sums depend on it, too, without a NaN
   (`quality.go:129`, `226`): 1e16, 0, -1e16, 1 has the sum 0 in chunks of two and 1 in one
   block, and the tolerance (`quality.go:398`) is relative to the sum and not to what was
   added. `VerdictTrue` names both as its exception (`GroupingMatters`), and both are in the
   instance of the run `integrity`.

Noticed while modelling, and kept in the models as the code does it:

* `many.go:609`: a manifest save that hangs keeps the lock `live.Stale` waits for, so
  the batch waits too, against `stall.go:137`. It is the premise of `StallEnds`.
* `writer.go:346`, `README.md:807`: a conversion given up on can still commit later; its
  result says stalled. `ResultTrue` allows it.
* `writer.go:227`, `README.md:1864`: a temporary file that cannot be removed after
  `Create` fails is left without being named.
* `writer.go:443`, `README.md:556`: on a share that refuses to overwrite, a kill between
  deleting and renaming the manifest loses it. `DeletedStaysDeleted` asks for an entry.
* `uptodate.go:463`: the mark is saved before the deletion, so after a kill an output
  can be there and marked as deleted.
* `merge.go:126`, `merge.go:146`: after a run that converted but did not write the catalog,
  a scan can give a row the facts of an older conversion. `FactsTrue` speaks of outputs
  whose conversion the catalog was told of (`Known`).
* `merge.go:138`, `merge.go:146`: two QVDs with one table name share the rows of its columns, as `keyOf`
  means it, so a scan of the one can take the facts of the other's conversion, although
  the comment there says that facts come from the conversion the identity came from.
  `FactsAlwaysTrue` is proved where no two QVDs carry one table name (`TablesApart`); in the
  instance `MCCatalog` each has its own, or the name of its file.
* `console.go:83`: the error of replaying held lines is ignored. `HoldsTheScreen` excepts it.
* `dual.go:60` with `time.go:42`: a field typed as a date with fractional serials becomes
  a date32, and the clock of its display strings goes. `TextKept` excepts such fields.
* `dual.go:611`, `README.md:1418`: a zero-padded display string beside a promoted decimal loses
  its padding. `TextKept` excepts it.
* `writer.go:344`, `442`: with `--force` a rename that was made and reported as failed makes
  `replaceByDelete` delete the run's own output, and the error then names a temporary
  file that is gone. `OutputSurvives` and `ReportTrue` state it as their exception.
* `uptodate.go:646`, `folderschema.go:108`: `--schema` is hashed once and read again for every
  file; edited in between, entries carry a fingerprint of pins that were not used.
* `reader.go:433`: the record area begins where the header's table lengths end, and the `Offset` a
  field gives is not looked at. A Length too small of a column that is not converted moves every
  row unnoticed. So does a `RecordByteSize` too small by bytes that no field has a bit in
  (`header.go:220`). `DamageStaysInColumn` states both as its exceptions (`Displaces`), and no other.
* `encodingtrial.go:354` asks for null *symbols* where the comment above it speaks of columns
  that can hold nulls; a null that is a biased index is not seen. Only the size of the output depends on it.
* `main.go:673`: the manifest's path is kept off the sidecars and not off inputs, outputs and
  reports; only an argument spelled like it could meet it. `ZeroIsAll` has it as its hypothesis.
* `many.go:938`, `README.md:356`: of two inputs whose outputs differ only in case, on a disk that folds it, one
  replaces the other with `--force`. `ZeroMeansAll` asks for products that are apart.
* `console.go:102`: a message printed to a console log on a stuck share waits for it, and the
  exit with it. `Exits` excepts it.
* `main.go:852`: a batch creates its output directory before its path guards, so a run that
  is refused can leave an empty directory behind. `RefusedTouchesNothing` speaks of files.
* `main.go:104`: the usage text lists the exit codes 0 to 7 and leaves out 8, that of a stall.
* `decimal.go:454`: a number such as 1e300 is refused as a decimal and never falls back.
* `README.md:1506` says dates are from 1900 to 2200; the code starts at 1600. `README.md:1512`
  and `1329` say different things of names that collide.

## 6. Abstractions

Formats, messages and wording are left out, and bytes everywhere but in the records of
`QvdFile`. A record is its chunk; a file is who wrote it and how far; a symbol is its
classes; a float is a whole number, rounded beyond a mantissa, or NaN: -0 and the
infinities are left out. The model of a misread does not say which bytes were wrong: any
other decoding may come of it. A file operation that fails has not happened, but for the
rename of an output. A unit of a symbol table counts as one byte where a wrong length
makes records of it; a table that is looked for elsewhere ends with the tables, and what
is no symbol there counts as a failure. An input is given another name or replaced by
another file, as a reload does, and not rewritten in place under the handles that are
open (`parallel.go:484` speaks of it as truncated or modified); what such a read returns
is no different from a misread, of which `VerifiedRead` has all kinds. Two processes
that work on one output, manifest or catalog at a time are outside the models, except
for `Manifest`, where others touch inputs, outputs and the schema at any time. Hard
links, which `os.SameFile` would find, are outside `Paths`, and so is what is printed
without `--console-log`.

## 7. Plan

Order of work, the most important behaviour first:

1. Done: the pipeline, the output, the batch, the manifest with the folder's schema, the
   catalog, the console log, schema resolution, the reader and the gate composed
   end to end; bits and symbols composed with schema and conversion; the command around
   all of it. Proved of each: its safety properties, but for those listed at the end of section 4.
   Every invariant the runs check is also proved, with the hypotheses named there.
2. Next, models: `BatchRun` shown to implement an abstract batch (each file gets one
   result, once); `--schema` read per file.

## 8. Not modelled

* Parsing the header's XML and mending it (`qvd/header.go`, `headerrepair.go`): text
  processing of one buffer, without state; table tests serve it better.
* Encoding trials and encodings (`convert/encodingtrial.go`, `encoding.go`): a size estimate
  that chooses between encodings, any of which is correct.
* Value ranges, progress, what `inspect` prints: display.
* Reading and writing the catalog's Parquet file, the manifest's JSON, the log's
  CSV: encodings of what the models keep as sets and functions.
* Which pin wins where both `--schema` and the folder's schema name a column, renaming by a
  pattern (`rename.go`), matching of wildcards against letters (`glob.go`): pure functions over text.
* Flag parsing and the split of workers over files (`many.go`): the one is a library's and the
  other changes only how fast a batch is.
* Arrow and Parquet encoding: a library's. What it may do wrong is in `Integrity`, where
  the written rows may be fewer, doubled, altered or reordered.
