------------------------------ MODULE Command ------------------------------
(***************************************************************************)
(* One command from its arguments to its exit code (cmd/qvd2parquet/       *)
(* main.go): runSingle, runBatch, runInspect and runCatalogScan. Each      *)
(* checks the paths it was given, opens the console log, the catalog and   *)
(* the log, in that order, does its work, and closes them again with the   *)
(* exit code at hand.                                                      *)
(*                                                                         *)
(* The console is ConsoleLog; here it has its place in the run. What one   *)
(* conversion, a batch and the catalog do in detail is OutputCommit's,     *)
(* BatchRun's and Catalog's: a conversion here writes its reports and its  *)
(* output, or fails with an exit code of its own.                          *)
(***************************************************************************)
EXTENDS Paths

CONSTANTS
  Requests,               \* the command lines
  Disks,                  \* the files there can be at the start, as sets of paths
  Failures,               \* the codes a conversion can fail with, beside OutputCode and a stop
  Sizes, Limit, MaxLines  \* those of ConsoleLog

ASSUME CommandAssumption ==
  /\ Sizes \subseteq Nat \ {0} /\ Sizes # {}
  /\ Limit \in Nat /\ MaxLines \in Nat
  /\ Failures \subseteq 1 .. 6
  /\ \A p \in UNION Disks :
       Given(p) /\ p \in [dir : Seq(STRING), stem : Seq(STRING), ext : STRING]
  /\ \A r \in Requests :
       /\ r.shape \in {"single", "batch", "inspect", "scan"}
       /\ r.shape = "scan" => ~Given(r.log)
       /\ r.shape = "single" => Given(r.output)

VARIABLES
  req,       \* the command line
  there,     \* the files there were when the command began
  tree,      \* the inputs, and the folder of each one's output
  disk,      \* the files there are, and what is in them
  at,        \* how far the command is
  refused,   \* it was refused for its paths
  done,      \* how far each input is
  result,    \* what became of each input: None, OK, Dropped or another exit code
  described, \* the inputs the catalog was told of
  stop,      \* "none", or why the conversions are stopped: "canceled" or "stalled"
  merging,   \* the catalog holds rows of earlier runs
  stuck,     \* the share whose calls do not return any more, or "none"
  code,      \* the exit code so far
  wrote      \* history: who has opened which file for writing

request == <<req, there, tree>>
run == <<request, disk, at, refused, done, result, described, stop, merging, stuck, code, wrote>>

VARIABLES stage, screen, text, open, pending, settled, dropped, told, unplayed
console == <<stage, screen, text, open, pending, settled, dropped, told, unplayed>>

Console == INSTANCE ConsoleLog WITH file <- text

vars == <<run, console>>

None == -1
Dropped == -2
OK == 0
Usage == 1
Unsupported == 2
Schema == 3
Input == 4
OutputCode == 5
Quality == 6
Canceled == 7
Stalled == 8
-----------------------------------------------------------------------------
(* The request, and the files it names.                                    *)

Batch == req.shape = "batch"
Scanning == req.shape = "scan"
Converting == req.shape \in {"single", "batch"}

\* The inputs of a request, and the folder of each one's output: without --keep-tree,
\* --out-dir itself.
Found(r, files) ==
  CASE r.shape = "batch" ->
         LET found == FindInputs(r.args, r.sel, files)
         IN  IF r.keepTree THEN found ELSE [in \in DOMAIN found |-> <<>>]
    [] r.shape = "scan" -> [in \in FindParquet(r.args, r.sel.recursive, files) |-> <<>>]
    [] OTHER -> r.args[1].path :> <<>>

Inputs == DOMAIN tree
OutputOf(in) == IF Batch THEN Output(in, tree, req.outDir) ELSE req.output
ReportOf(path, in) == IF Batch THEN Report(path, in, tree, req.outDir) ELSE path
Missing == IF Batch THEN Problems(req.args, there) ELSE {}
Manifest == IF Batch /\ req.skip THEN {ManifestPath(req.outDir)} ELSE {}

SchemaFiles ==
  IF Scanning THEN {} ELSE {req.schema} \cup {FolderSchemaPath(in) : in \in Inputs}
Reports == IF Scanning THEN {}
           ELSE {ReportOf(req.sreport, in) : in \in Inputs} \cup {ReportOf(req.qreport, in) : in \in Inputs}
Outputs == IF Converting THEN {OutputOf(in) : in \in Inputs} ELSE {}

\* Everything the run reads or derives from what it reads, and what it writes.
Named == Inputs \cup Missing \cup SchemaFiles \cup Reports \cup Outputs

Clash(path, others) == Given(path) /\ \E p \in others : Given(p) /\ SamePath(path, p)

\* CheckOutputCollisions compares the paths as they are.
OutputsCollide == \E a, b \in Inputs : a # b /\ OutputOf(a) = OutputOf(b)

\* Mutant: the reports are not looked at.
PathsRefusedButReports ==
  IF Scanning THEN Clash(req.catalog, Inputs)
  ELSE \/ Clash(req.catalog, Named \cup {req.log} \cup Manifest)
       \/ Clash(req.log, Named \cup Manifest)
       \/ Clash(req.console, Named)

\* The guards of a conversion and of inspect: the reports are kept off the schema
\* files, and each writer that truncates off everything. A scan guards its catalog.
PathsRefused ==
  IF Scanning THEN Clash(req.catalog, Inputs)
  ELSE \/ \E p \in Reports : Clash(p, SchemaFiles)
       \/ Clash(req.catalog, Named \cup {req.log} \cup Manifest)
       \/ Clash(req.log, Named \cup Manifest)
       \/ Clash(req.console, Named)

\* startConsoleLog: the writers it knows of, the manifest, and the files of a scan.
ConsoleRefused ==
  Clash(req.console, {req.log, req.catalog} \cup Manifest \cup (IF Scanning THEN Inputs ELSE {}))
-----------------------------------------------------------------------------
Init ==
  /\ req \in Requests
  /\ there \in Disks
  /\ disk = [f \in {FileOf(p) : p \in there} |-> <<"before">>]
  /\ at = "guards" /\ refused = FALSE
  /\ tree = Found(req, there)
  /\ done = [in \in Inputs |-> "todo"]
  /\ result = [in \in Inputs |-> None]
  /\ described = {} /\ stop = "none"
  /\ merging = FALSE /\ stuck = "none" /\ code = OK /\ wrote = {}
  /\ Console!Init

Exists(p) == FileOf(p) \in DOMAIN disk
Holds(p, what) == Exists(p) /\ disk[FileOf(p)] = what
Opened(who, p) == wrote' = wrote \cup {<<who, FileOf(p)>>}
Create(p, what) ==
  /\ disk' = [f \in DOMAIN disk \cup {FileOf(p)} |-> IF f = FileOf(p) THEN what ELSE disk[f]]
  /\ Opened(what[1], p)

\* A file that cannot be created: as it was, or, where the share refuses to open it
\* for writing, deleted for a second attempt that failed.
CreateFailed(p, who) ==
  /\ disk' \in {disk, Restrict(disk, DOMAIN disk \ {FileOf(p)})}
  /\ Opened(who, p)

\* Mutant: the log is opened before the console log and the catalog.
LogFirst == <<"guards", "log", "console", "attaching", "catalog", "running">>

\* What is opened in which order.
Order == <<"guards", "console", "attaching", "catalog", "log", "running">>
After(where) == Order[(CHOOSE n \in DOMAIN Order : Order[n] = where) + 1]

Go == at' = After(at)
Goto(where) == at' = where
End(with, where) == at' = where /\ code' = with
Exit(with) == End(with, "exited")
Refuse(with) == Exit(with) /\ refused' = TRUE

\* The run prints, and so does the goroutine of the signal handler. Without
\* --console-log that reaches the screen only, and is left out.
Say == at # "exited" /\ Given(req.console) /\ Console!Write /\ UNCHANGED run

Prepared == UNCHANGED <<request, done, result, described, stop, merging, stuck>>

\* Everything that refuses a command looks at the disk and changes nothing.
Guards ==
  /\ at = "guards"
  /\ \/ /\ Scanning /\ \E n \in DOMAIN req.args : IsProblem(req.args[n], there)
        /\ Refuse(Input)
     \/ /\ Scanning => \A n \in DOMAIN req.args : ~IsProblem(req.args[n], there)
        /\ \/ Inputs \cup Missing = {} /\ Refuse(Usage)
           \/ Batch /\ Inputs \cup Missing # {} /\ Refuse(OutputCode)  \* no --out-dir
           \/ Batch /\ OutputsCollide /\ Refuse(OutputCode)
           \/ Inputs \cup Missing # {} /\ ~(Batch /\ OutputsCollide) /\ PathsRefused /\ Refuse(Usage)
           \/ /\ Inputs \cup Missing # {} /\ ~(Batch /\ OutputsCollide) /\ ~PathsRefused
              /\ Go /\ UNCHANGED <<code, refused>>
  /\ Prepared /\ UNCHANGED <<disk, wrote, console>>

NoConsole ==
  /\ at = "console" /\ ~Given(req.console)
  /\ Console!Discard
  /\ at' = After("attaching")
  /\ Prepared /\ UNCHANGED <<disk, wrote, code, refused>>

RefuseConsole ==
  /\ at = "console" /\ ConsoleRefused
  /\ Console!Discard
  /\ Refuse(Usage)
  /\ Prepared /\ UNCHANGED <<disk, wrote>>

CreateConsole ==
  /\ at = "console" /\ Given(req.console) /\ ~ConsoleRefused
  /\ \/ Create(req.console, <<"console">>) /\ Console!CreateFile /\ Go /\ UNCHANGED code
     \/ CreateFailed(req.console, "console") /\ Console!Discard /\ Exit(OutputCode)
  /\ Prepared /\ UNCHANGED refused

AttachConsole ==
  /\ at = "attaching"
  /\ Console!Attach
  /\ Go
  /\ Prepared /\ UNCHANGED <<disk, wrote, code, refused>>

\* NewWriter reads the catalog that is there, unless --force replaces it, and a catalog
\* that it cannot read ends the run; it creates nothing.
OpenCatalog ==
  /\ at = "catalog"
  /\ LET stored == Given(req.catalog) /\ ~req.force /\ Exists(req.catalog) IN
     \/ merging' = stored /\ Go /\ UNCHANGED code
     \/ stored /\ End(Input, "closing console") /\ UNCHANGED merging
  /\ UNCHANGED <<request, disk, refused, done, result, described, stop, stuck, wrote, console>>

OpenLog ==
  /\ at = "log"
  /\ \/ ~Given(req.log) /\ Go /\ UNCHANGED <<code, disk, wrote>>
     \/ Given(req.log) /\ Create(req.log, <<"log">>) /\ Go /\ UNCHANGED code
     \/ Given(req.log) /\ CreateFailed(req.log, "log") /\ End(OutputCode, "closing catalog")
  /\ Prepared /\ UNCHANGED <<refused, console>>
-----------------------------------------------------------------------------
(* The work, of one input each.                                            *)

Working(in, stage_) == at = "running" /\ result[in] = None /\ done[in] = stage_
To(in, stage_) == done' = [done EXCEPT ![in] = stage_]
Became(in, what) == result' = [result EXCEPT ![in] = what]
Failed(in, with) == Became(in, with) /\ To(in, "over")
Described(in) == described' = IF Given(req.catalog) THEN described \cup {in} ELSE described
AtWork == UNCHANGED <<request, at, refused, merging, code, console>>

\* An input that is not there cannot be opened.
Present(in) == FileOf(in) \in {FileOf(p) : p \in there}

\* Only --force writes over an output that is there.
MayWrite(in) == ~Exists(OutputOf(in)) \/ req.force

\* The schema report is written before the output is begun.
ReportSchema(in) ==
  /\ Converting /\ Working(in, "todo") /\ Present(in)
  /\ MayWrite(in)
  /\ To(in, "reported")
  /\ IF Given(req.sreport) THEN Create(ReportOf(req.sreport, in), <<"schema report", in>>)
     ELSE UNCHANGED <<disk, wrote>>
  /\ AtWork /\ UNCHANGED <<result, described, stop, stuck>>

\* Whether the output may be written is looked up again as it is begun. The quality
\* report is written whatever the gate says.
CheckOutput(in) ==
  /\ Converting /\ Working(in, "reported")
  /\ MayWrite(in)
  /\ To(in, "checked")
  /\ IF Given(req.qreport) THEN Create(ReportOf(req.qreport, in), <<"quality report", in>>)
     ELSE UNCHANGED <<disk, wrote>>
  /\ AtWork /\ UNCHANGED <<result, described, stop, stuck>>

Commit(in) ==
  /\ Converting /\ Working(in, "checked")
  /\ Create(OutputOf(in), <<"output", in>>)
  /\ Became(in, OK) /\ Described(in)
  /\ AtWork /\ UNCHANGED <<done, stop, stuck>>

\* --skip-up-to-date: input and output are as they were, and the output's columns are
\* read for the catalog.
SkipInput(in) ==
  /\ Batch /\ req.skip /\ Working(in, "todo") /\ Present(in)
  /\ Holds(OutputOf(in), <<"before">>)
  /\ Became(in, OK) /\ Described(in)
  /\ AtWork /\ UNCHANGED <<disk, wrote, done, stop, stuck>>

\* It fails: by itself at any moment, or because an output is in the way.
Fail(in) ==
  /\ Converting /\ at = "running" /\ result[in] = None
  /\ \E c \in Failures \cup {OutputCode} : Failed(in, c)
  /\ AtWork /\ UNCHANGED <<disk, wrote, described, stop, stuck>>

\* A Ctrl-C, and what becomes of the others then or after a stall: the batch also leaves
\* out some it had not begun (BatchRun.AllAccounted).
Cancel ==
  /\ at = "running" /\ Converting /\ stop = "none"
  /\ stop' = "canceled"
  /\ AtWork /\ UNCHANGED <<disk, wrote, done, result, described, stuck>>

Stopped(in) ==
  /\ Converting /\ at = "running" /\ result[in] = None /\ stop # "none"
  /\ \/ Failed(in, IF stop = "canceled" THEN Canceled ELSE Stalled)
     \/ Batch /\ done[in] = "todo" /\ Failed(in, Dropped)
  /\ AtWork /\ UNCHANGED <<disk, wrote, described, stop, stuck>>

\* A call on the input or on the output does not return, and the watch fires.
Share(p) == RealDir(p.dir)[1]
Stall(in) ==
  /\ Converting /\ at = "running" /\ result[in] = None /\ stuck = "none"
  /\ stuck' \in {Share(in), Share(OutputOf(in))}
  /\ stop' = IF stop = "none" THEN "stalled" ELSE stop
  /\ Failed(in, Stalled)
  /\ AtWork /\ UNCHANGED <<disk, wrote, described>>

\* Inspect: the report and the catalog rows are those of a schema that resolved; an
\* encoding that cannot be used is an error after both.
Inspect(in) ==
  /\ req.shape = "inspect" /\ Working(in, "todo")
  /\ \/ \E c \in Failures : Became(in, c) /\ UNCHANGED <<disk, wrote, described>>
     \/ /\ Present(in)
        /\ Described(in)
        /\ \/ Given(req.sreport) /\ Became(in, OutputCode) /\ UNCHANGED <<disk, wrote>>
           \/ /\ \/ Given(req.sreport) /\ Create(req.sreport, <<"schema report", in>>)
                 \/ ~Given(req.sreport) /\ UNCHANGED <<disk, wrote>>
              /\ \E c \in {OK, Schema} : Became(in, c)
  /\ AtWork /\ UNCHANGED <<done, stop, stuck>>

\* ScanFile; a file that cannot be read is counted.
Scan(in) ==
  /\ Scanning /\ Working(in, "todo")
  /\ \/ Present(in) /\ Became(in, OK) /\ Described(in)
     \/ Became(in, Input) /\ UNCHANGED described
  /\ AtWork /\ UNCHANGED <<disk, wrote, done, stop, stuck>>
-----------------------------------------------------------------------------
(* The exit code, and the end.                                             *)

Ranks == <<Input, OutputCode, Unsupported, Quality, Schema, Usage, Canceled, Stalled>>

\* Mutant: a stall has no rank of its own.
RankNoStall(c) == IF c = Stalled THEN 6 ELSE SelectInSeq(Ranks, LAMBDA d : d = c)

\* rank: a stop outranks what the files did, a stall outranks a Ctrl-C, and of the rest
\* the failure counts that says most.
Rank(c) == SelectInSeq(Ranks, LAMBDA d : d = c)

\* Those of the results that are errors. An input left out has none.
Errors == {result[in] : in \in Inputs} \ {OK, Dropped}

\* BatchResult.ExitCode, exitCodeFor, and the count of a scan.
CodeOfRun ==
  LET all == Errors \cup (IF Missing # {} THEN {Input} ELSE {})
  IN IF all = {} THEN OK ELSE CHOOSE c \in all : \A d \in all : Rank(d) <= Rank(c)

\* A call on the share that is stuck does not return.
Hangs(p) == Given(p) /\ stuck # "none" /\ Share(p) = stuck

\* Mutant: work done as the run ends is waited for.
ReturnsByItself(p) == ~Hangs(p)

\* afterRun: after a stall such work is limited in time, and only then.
Returns(p) == Hangs(p) => code = Stalled

\* The summary is printed, to the console log as well; a batch that skips has saved
\* its manifest, or said that it could not.
EndRun ==
  /\ at = "running" /\ \A in \in Inputs : result[in] # None
  /\ ~(open /\ Hangs(req.console))
  /\ End(CodeOfRun, "closing log")
  /\ \/ \E p \in Manifest : Create(p, <<"manifest">>)
     \/ UNCHANGED <<disk, wrote>>
  /\ Prepared /\ UNCHANGED <<refused, console>>

CloseLog ==
  /\ at = "closing log" /\ Returns(req.log)
  /\ Goto("closing catalog")
  /\ Prepared /\ UNCHANGED <<disk, refused, wrote, code, console>>

\* Mutant: the catalog is a side document, and its failure is not one of the run.
KeepCode == UNCHANGED code

\* closeCatalogInto: a catalog that could not be written fails a run that did not fail;
\* a scan has nothing else to do.
CatalogFailed == code' = IF code = OK \/ Scanning THEN OutputCode ELSE code

\* Close writes a catalog once something was described, beside the path and then over
\* it; given up on after a stall it may have done so or not.
CloseCatalog ==
  /\ at = "closing catalog" /\ Returns(req.catalog)
  /\ IF described = {} THEN UNCHANGED <<disk, wrote, code>>
     ELSE \/ /\ ~Exists(req.catalog) \/ req.force \/ merging
             /\ Create(req.catalog, <<"catalog", described>>) /\ UNCHANGED code
          \/ CatalogFailed /\ UNCHANGED <<disk, wrote>>
  /\ Goto("closing console")
  /\ Prepared /\ UNCHANGED <<refused, console>>

CloseConsole ==
  /\ at = "closing console"
  /\ ~(open /\ Hangs(req.console))
  /\ Console!Close
  /\ Goto("exited")
  /\ Prepared /\ UNCHANGED <<disk, refused, wrote, code>>

Opening == Guards \/ NoConsole \/ RefuseConsole \/ CreateConsole \/ AttachConsole \/ OpenCatalog \/ OpenLog
Work(in) ==
  \/ ReportSchema(in) \/ CheckOutput(in) \/ Commit(in) \/ SkipInput(in) \/ Fail(in)
  \/ Stopped(in) \/ Stall(in) \/ Inspect(in) \/ Scan(in)
Finish == EndRun \/ CloseLog \/ CloseCatalog \/ CloseConsole

Step == Opening \/ (\E in \in Inputs : Work(in)) \/ Finish
Next == Step \/ Cancel \/ Say

Spec == Init /\ [][Next]_vars

\* A command that can go on does; calls return, but for those on a stuck share.
FairSpec == Spec /\ WF_vars(Step)
-----------------------------------------------------------------------------
\* The types of a command. An input that has become something stays as far as it was.
TypeOK ==
  /\ there \in Disks
  /\ at \in Range(Order) \cup {"closing log", "closing catalog", "closing console", "exited"}
  /\ refused \in BOOLEAN /\ merging \in BOOLEAN
  /\ done \in [Inputs -> {"todo", "reported", "checked", "over"}]
  /\ \A in \in Inputs : result[in] \in Failures \cup (Dropped .. Stalled)
  /\ described \subseteq Inputs
  /\ stop \in {"none", "canceled", "stalled"}
  /\ code \in Failures \cup (OK .. Stalled)
  /\ \A v \in wrote : v[1] \in {"console", "catalog", "log", "manifest", "output",
                                "schema report", "quality report"}
  /\ Console!TypeOK

\* "So the file holds what the screen held": ConsoleLog's promise, for a console log
\* that is created, refused or given up at its place in the run.
HoldsTheScreen == Console!HoldsTheScreen

\* "The log and the catalog are written by truncating" and must each be a file of their
\* own: whatever links and capital letters make of the paths, none of them and not the
\* console log is opened over a file that the run reads or that another part of it
\* writes, and no report over a schema file.
WritersApart ==
  LET Sidecars == {"log", "catalog", "console"}
      Files(paths) == {FileOf(p) : p \in {q \in paths : Given(q)}}
  IN \A v, w \in wrote :
       /\ v[1] \in Sidecars /\ v[2] = w[2] => v[1] = w[1]
       /\ v[1] \in Sidecars => v[2] \notin Files(Inputs \cup Missing \cup SchemaFiles)
       /\ v[1] \in {"schema report", "quality report"} => v[2] \notin Files(SchemaFiles)

\* "A run correctly refused for any reason must not destroy a file on its way out":
\* whatever refuses a command comes before the first file that it opens.
RefusedTouchesNothing ==
  refused => wrote = {} /\ disk = [f \in {FileOf(p) : p \in there} |-> <<"before">>]

\* The files that an input is turned into.
Products(in) ==
  {<<"output", OutputOf(in)>>, <<"schema report", ReportOf(req.sreport, in)>>,
   <<"quality report", ReportOf(req.qreport, in)>>} 

\* Nothing compares the outputs and the reports with each other, nor with the inputs, but
\* for outputs that are spelled alike.
ProductsApart ==
  LET all == {<<in, p>> : in \in Inputs, p \in UNION {Products(i) : i \in Inputs}}
      made == {m \in all : m[2] \in Products(m[1]) /\ Given(m[2][2])}
  IN /\ \A m, n \in made : m # n => FileOf(m[2][2]) # FileOf(n[2][2])
     /\ \A m \in made, in \in Inputs : FileOf(m[2][2]) # FileOf(in)

\* "Exiting 0 would tell the job otherwise": a command that ends with 0, and left no
\* input out after a Ctrl-C, has made everything it was asked for, each of it is there
\* at the end, and so is every file that it read.
ZeroMeansAll ==
  at = "exited" /\ code = OK /\ Dropped \notin {result[in] : in \in Inputs} /\ ProductsApart =>
    /\ \A in \in Inputs :
         /\ Holds(in, <<"before">>)
         /\ Converting /\ done[in] = "checked" =>
              \A p \in Products(in) : Given(p[2]) => Holds(p[2], <<p[1], in>>)
         /\ Converting => Holds(OutputOf(in), <<"output", in>>) \/ Holds(OutputOf(in), <<"before">>)
    /\ Given(req.log) => Holds(req.log, <<"log">>)
    /\ Given(req.console) => Holds(req.console, <<"console">>)
    /\ Given(req.catalog) => Holds(req.catalog, <<"catalog", Inputs>>)
    /\ Missing = {}

\* What a job learns from the exit code is so: 8 says that a call did not return, and
\* nothing hides it; 7 that there was a Ctrl-C; and what an
\* input failed for otherwise is named only where one did, and 0 where none has failed.
ExitTells ==
  at = "exited" /\ ~refused =>
    /\ code = Stalled <=> Stalled \in Errors
    /\ code = Canceled => stop = "canceled" /\ Stalled \notin Errors
    /\ code \notin {OK, Input, OutputCode} => code \in Errors
    /\ code = OK => Errors = {} /\ Missing = {}

\* "The process still has to exit": a command that works on its inputs exits, also when
\* a call of its log or of its catalog does not return. The console log is not looked
\* after: what is printed to a share that is stuck waits for it.
Exits == (at = "running") ~> (at = "exited" \/ (open /\ Hangs(req.console)))
=============================================================================
