---------------------------- MODULE OutputCommit ----------------------------
(***************************************************************************)
(* One output file and the run that writes it: convert.Run from its        *)
(* preflight to the commit, with parquetwrite.Create, Close, CommitContext,*)
(* Abort, replaceByDelete and removeTemp step by step, and the stall watch *)
(* that may give the run up (RunWatched). Every call on the share can      *)
(* fail, can be refused while the target exists, and can hang: a call that *)
(* hangs is a step that is not taken. A rename can also be made and be     *)
(* reported as failed, when the answer of the share is lost. The caller    *)
(* can cancel at any moment, the process can be killed at any moment, and  *)
(* another run can follow, with the same process ID or a new one.          *)
(*                                                                         *)
(* A file is the number of the run that wrote it: 0 is the output an       *)
(* earlier conversion left.                                                *)
(***************************************************************************)
EXTENDS Integers

CONSTANT MaxRuns     \* bound: how many runs follow one another

ASSUME RunsAssumption == MaxRuns \in Nat \ {0}

Runs == 1 .. MaxRuns
Absent == -1         \* nothing at the output path
NotAFile == -2       \* a directory at the output path, which no rename replaces
Broken == -3         \* a file without its footer

Attempts == 5        \* removeTemp's attempts

VARIABLES
  final,     \* what is at the output path
  tmp,       \* "none" | "partial" | "whole" | "synced": this run's temporary;
             \* "moved": a rename that was reported as failed has taken it away
  tmpRun,    \* the run that wrote it
  run,       \* the current run
  base,      \* what was at the output path when the current run started
  force,     \* --force
  pc,        \* where convert.Run stands
  attempt,   \* removals tried so far in this removeTemp
  gated,     \* the quality gate has passed, or was not asked for
  ctxDone,   \* the context is done
  stalled,   \* the stall watch has fired
  warned,    \* the run has named the temporary it leaves behind
  reported   \* what the caller was told: "none" while it waits

disk == <<final, tmp, tmpRun>>
options == <<run, base, force>>
signals == <<ctxDone, stalled>>
vars == <<disk, options, pc, attempt, gated, signals, warned, reported>>

\* The steps that wait for the share inside a call iowatch times. The decode
\* pipeline and the quality gate are one step each here.
WatchedSteps == {"input", "symbols", "rm-stale", "open", "rm-open", "rows", "close",
                 "gate", "rename", "rm-room", "rename2", "rm-abort"}

\* The steps that ask the share for metadata, which iowatch does not time.
StatSteps == {"preflight", "create", "lstat"}

CPUSteps == {"commit", "refused", "report-ok", "report-failed", "report-lost"}
Running == WatchedSteps \cup StatSteps \cup CPUSteps

TypeOK ==
  /\ final \in {Absent, NotAFile, Broken, 0} \cup Runs
  /\ tmp \in {"none", "partial", "whole", "synced", "moved"}
  /\ tmpRun \in Runs \cup {0}
  /\ run \in Runs
  /\ base \in {Absent, NotAFile, Broken, 0} \cup Runs
  /\ force \in BOOLEAN
  /\ pc \in Running \cup {"ended"}
  /\ attempt \in 0 .. Attempts - 1
  /\ gated \in BOOLEAN
  /\ ctxDone \in BOOLEAN
  /\ stalled \in BOOLEAN
  /\ warned \in BOOLEAN
  /\ reported \in {"none", "ok", "failed", "lost", "stalled"}

Init ==
  /\ final \in {Absent, NotAFile, 0}
  /\ base = final
  /\ tmp = "none"
  /\ tmpRun = 0
  /\ run = 1
  /\ force \in BOOLEAN
  /\ pc = "input"
  /\ attempt = 0
  /\ gated = FALSE
  /\ ctxDone = FALSE
  /\ stalled = FALSE
  /\ warned = FALSE
  /\ reported = "none"
-----------------------------------------------------------------------------
(* Steps that change nothing on the share.                                 *)

Goto(from, to) ==
  /\ pc = from
  /\ pc' = to
  /\ attempt' = 0
  /\ UNCHANGED <<options, signals, reported>>

\* A step that goes on or fails the run before there is a temporary file.
Stage(from, to, allowed) ==
  /\ \/ allowed /\ Goto(from, to)
     \/ Goto(from, "report-failed")
  /\ UNCHANGED <<disk, gated, warned>>

\* The input is opened and its header read. Run looks at the context before it
\* does that and not after, so that a run stopped meanwhile goes on.
OpenInput == Stage("input", "preflight", TRUE)

\* Mutant: only what is not a file is in the way.
OutputAllowedFiles == force \/ final # NotAFile

\* CheckOutput, which both Run and Create apply: --force, or nothing there. A
\* stat that fails for another reason refuses the output too.
OutputAllowed == force \/ final = Absent

Preflight == Stage("preflight", "symbols", OutputAllowed)

\* The symbol tables are read, the schema resolved, encodings measured and the
\* schema report written: any of it can fail.
ReadSymbols == Stage("symbols", "create", TRUE)

\* Create checks the output again and makes its directory.
Create == Stage("create", "rm-stale", OutputAllowed)
-----------------------------------------------------------------------------
(* removeTemp: five attempts, each of which the share may refuse.          *)

\* What a removal is for, and where Run goes after it succeeded or gave up.
\* Only the temporary of a writer that could not be set up is given up on
\* without a word.
Removal(step, afterDone, afterFailed, gone, warns) ==
  /\ pc = step
  /\ UNCHANGED <<options, signals, reported, gated>>
  /\ \/ gone /\ pc' = afterDone /\ attempt' = 0 /\ UNCHANGED warned
     \/ /\ ~gone /\ attempt + 1 < Attempts
        /\ attempt' = attempt + 1
        /\ UNCHANGED <<pc, warned>>
     \/ /\ ~gone /\ attempt + 1 = Attempts
        /\ pc' = afterFailed /\ attempt' = 0
        /\ warned' = (warned \/ warns)

RemoveTmp(step, afterDone, afterFailed, warns) ==
  \E gone \in BOOLEAN :
    /\ tmp \in {"none", "moved"} => gone    \* os.ErrNotExist counts as removed
    /\ Removal(step, afterDone, afterFailed, gone, warns)
    /\ tmp' = IF gone /\ tmp # "moved" THEN "none" ELSE tmp
    /\ UNCHANGED <<final, tmpRun>>

\* Create removes the temporary of a killed run that had the same process ID.
RemoveStale == RemoveTmp("rm-stale", "open", "report-failed", TRUE)

RemoveUnopened == RemoveTmp("rm-open", "report-failed", "report-failed", FALSE)

RemoveAborted == RemoveTmp("rm-abort", "report-failed", "report-failed", TRUE)

\* Making room: the existing output is deleted, if it is a regular file.
RemoveFinal ==
  \E gone \in BOOLEAN :
    /\ Removal("rm-room", "rename2", "rm-abort", gone, FALSE)
    /\ final' = IF gone THEN Absent ELSE final
    /\ UNCHANGED <<tmp, tmpRun>>
-----------------------------------------------------------------------------
(* Writing the temporary file.                                             *)

OpenTemp ==
  /\ \/ /\ tmp' = "partial" /\ tmpRun' = run
        /\ Goto("open", "rows") \/ Goto("open", "rm-open")
     \/ /\ UNCHANGED <<tmp, tmpRun>>
        /\ Goto("open", "report-failed")
  /\ UNCHANGED <<final, gated, warned>>

\* The decode pipeline, which can fail, and fails if it finds the context done. A
\* file without rows it is through with before it looks, so that a context that is
\* done rules out neither end.
WriteRows ==
  /\ Goto("rows", "close") \/ Goto("rows", "rm-abort")
  /\ UNCHANGED <<disk, gated, warned>>

\* Mutant: a failed sync is only logged.
CloseFileUnsynced ==
  /\ \/ tmp' \in {"whole", "synced"} /\ Goto("close", "gate")
     \/ tmp' = "partial" /\ Goto("close", "rm-abort")
  /\ UNCHANGED <<final, tmpRun, gated, warned>>

\* Close: the footer, then the sync on the handle that wrote the file.
CloseFile ==
  /\ \/ tmp' = "synced" /\ Goto("close", "gate")
     \/ tmp' \in {"partial", "whole"} /\ Goto("close", "rm-abort")
  /\ UNCHANGED <<final, tmpRun, gated, warned>>

\* The gate reads the temporary file; a report that cannot be written fails
\* the run as a failed gate does.
QualityGate ==
  /\ \/ gated' = TRUE /\ Goto("gate", "commit")
     \/ UNCHANGED gated /\ Goto("gate", "rm-abort")
  /\ UNCHANGED <<disk, warned>>
-----------------------------------------------------------------------------
(* CommitContext.                                                          *)

CommitCheck ==
  /\ Goto("commit", IF ctxDone THEN "rm-abort" ELSE "rename")
  /\ UNCHANGED <<disk, gated, warned>>

\* A rename that takes effect, and what it leaves of the temporary name: the
\* temporary file is the output.
TakeName(left) ==
  /\ tmp # "moved" /\ final # NotAFile
  /\ final' = IF tmp \in {"whole", "synced"} THEN tmpRun ELSE Broken
  /\ tmp' = left
  /\ UNCHANGED <<tmpRun, gated, warned>>

Rename ==
  \/ /\ TakeName("none")
     /\ Goto("rename", "report-ok")
  \/ /\ TakeName("moved")
     /\ Goto("rename", "refused")
  \/ /\ Goto("rename", "refused")
     /\ UNCHANGED <<disk, gated, warned>>

\* Only a forced run that was not stopped goes on to replaceByDelete.
Refused ==
  /\ Goto("refused", IF force /\ ~ctxDone THEN "lstat" ELSE "rm-abort")
  /\ UNCHANGED <<disk, gated, warned>>

\* Mutant: os.Remove may take what is not a regular file.
LstatFinalAny ==
  /\ \/ final # Absent /\ Goto("lstat", "rm-room")
     \/ Goto("lstat", "rm-abort")
  /\ UNCHANGED <<disk, gated, warned>>

LstatFinal ==
  /\ \/ final \notin {Absent, NotAFile} /\ Goto("lstat", "rm-room")
     \/ Goto("lstat", "rm-abort")
  /\ UNCHANGED <<disk, gated, warned>>

\* Mutant: Abort removes the temporary file after a lost output as well.
RenameAgainAborting ==
  \/ /\ TakeName("none")
     /\ Goto("rename2", "report-ok")
  \/ /\ Goto("rename2", "rm-abort")
     /\ UNCHANGED <<disk, gated, warned>>

\* The second rename. Its failure is ErrOutputLost, and Abort keeps the
\* temporary file.
RenameAgain ==
  \/ /\ TakeName("none")
     /\ Goto("rename2", "report-ok")
  \/ /\ TakeName("moved")
     /\ Goto("rename2", "report-lost")
  \/ /\ Goto("rename2", "report-lost")
     /\ UNCHANGED <<disk, gated, warned>>
-----------------------------------------------------------------------------
(* What the caller is told, unless it stopped waiting.                     *)

Verdict(step, word) ==
  /\ pc = step
  /\ pc' = "ended"
  /\ reported' = IF reported = "none" THEN word ELSE reported
  /\ UNCHANGED <<disk, options, attempt, gated, signals, warned>>

Report == \/ Verdict("report-ok", "ok")
          \/ Verdict("report-failed", "failed")
          \/ Verdict("report-lost", "lost")

\* Ctrl-C, or the end of the batch.
Cancel ==
  /\ reported = "none" /\ pc \in Running /\ ~ctxDone
  /\ ctxDone' = TRUE
  /\ UNCHANGED <<disk, options, pc, attempt, gated, stalled, warned, reported>>

\* Mutant: the watch ends with the run's context, so that Ctrl-C switches it off.
StallFiresUncancelled ==
  /\ reported = "none" /\ pc \in WatchedSteps /\ ~stalled /\ ~ctxDone
  /\ stalled' = TRUE
  /\ ctxDone' = TRUE
  /\ UNCHANGED <<disk, options, pc, attempt, gated, warned, reported>>

\* The watch: a call has not returned in time, and the run is cancelled.
StallFires ==
  /\ reported = "none" /\ pc \in WatchedSteps /\ ~stalled
  /\ stalled' = TRUE
  /\ ctxDone' = TRUE
  /\ UNCHANGED <<disk, options, pc, attempt, gated, warned, reported>>

\* await gives up after the grace period. The conversion stays where it is and
\* goes on if its call ever returns.
GiveUp ==
  /\ stalled /\ reported = "none" /\ pc \in Running
  /\ reported' = "stalled"
  /\ UNCHANGED <<disk, options, pc, attempt, gated, signals, warned>>

\* The process is killed, or exits after it gave the run up.
Kill ==
  /\ pc \in Running
  /\ pc' = "ended"
  /\ UNCHANGED <<disk, options, attempt, gated, signals, warned, reported>>

\* Another run of the same conversion. With a new process ID it has a
\* temporary of its own, and leaves the old one alone.
NextRun ==
  /\ pc = "ended" /\ run < MaxRuns
  /\ run' = run + 1
  /\ base' = final
  /\ force' \in BOOLEAN
  /\ tmp' \in {tmp, "none"} \ {"moved"}
  /\ pc' = "input"
  /\ attempt' = 0
  /\ gated' = FALSE
  /\ ctxDone' = FALSE
  /\ stalled' = FALSE
  /\ warned' = FALSE
  /\ reported' = "none"
  /\ UNCHANGED <<final, tmpRun>>

WatchedStep ==
  \/ OpenInput \/ ReadSymbols
  \/ RemoveStale \/ OpenTemp \/ RemoveUnopened \/ WriteRows \/ CloseFile
  \/ QualityGate \/ Rename \/ RemoveFinal \/ RenameAgain \/ RemoveAborted

StatStep == Preflight \/ Create \/ LstatFinal

CPUStep == CommitCheck \/ Refused \/ Report

Finished == pc = "ended" /\ run = MaxRuns /\ UNCHANGED vars

Next == \/ WatchedStep \/ StatStep \/ CPUStep
        \/ Cancel \/ StallFires \/ GiveUp \/ Kill \/ NextRun
        \/ Finished

Spec == Init /\ [][Next]_vars

\* A timed call need never return; the program's own steps and the watch's clock
\* go on, and a call for metadata, which nothing times, is taken to return.
FairSpec ==
  Spec /\ WF_vars(CPUStep) /\ WF_vars(StatStep)
       /\ WF_vars(StallFires) /\ WF_vars(GiveUp)
-----------------------------------------------------------------------------
\* Only a conversion that was written whole, synced and passed its gate ever
\* gets the output's name, by whichever of the two renames.
OnlyFinishedOutputs ==
  [][final' # final /\ final' # Absent => tmp = "synced" /\ gated /\ final' = run]_vars

\* At every moment, and so after a kill at any moment, what the run found at
\* the output path is still there, or the run's whole output has its place, or
\* the whole output waits beside it under its temporary name. One case is left
\* out, and only with --force: a first rename that is made and reported as failed
\* has replaceByDelete delete the run's own output, and nothing is left to rename.
OutputSurvives ==
  base # Absent =>
    \/ final = base
    \/ final = run
    \/ final = Absent /\ tmp = "synced" /\ tmpRun = run /\ gated /\ base # NotAFile
    \/ final = Absent /\ tmp = "moved" /\ force

\* Without --force an existing output is never replaced and never deleted.
ForceOnly == ~force /\ base # Absent => final = base

\* What the caller is told is what happened: a failed run left the output as
\* it was, a lost output is kept whole at its temporary name, a run that
\* succeeded is the output. Where a rename was made and reported as failed, the
\* run that fails is the output all the same, and success is still the truth.
ReportTrue ==
  /\ reported = "ok" => final = run
  /\ reported = "failed" => final = base \/ (tmp = "moved" /\ final = run)
  /\ reported = "lost" => (final = Absent /\ tmp = "synced" /\ tmpRun = run) \/ tmp = "moved"

-----------------------------------------------------------------------------
(* Why they hold: where the run stands says what is on the share.          *)

BeforeCheck == {"input", "preflight", "symbols", "create"}
BeforeRename == {"rm-stale", "open", "rm-open", "rows", "close", "gate",
                 "commit", "rename", "refused", "lstat", "rm-room"}
Doubted == {"refused", "lstat", "rm-room"}
Failing == {"rm-abort", "report-failed"}

\* The whole output, gated, under its temporary name.
Complete == tmp = "synced" /\ tmpRun = run /\ gated

\* The old output has been deleted and the new one waits.
Kept == Complete /\ final = Absent /\ force /\ base \notin {Absent, NotAFile}

\* The first rename was made and reported as failed; and after that the output
\* itself was deleted to make room.
Moved == tmp = "moved" /\ final = run
Deleted == tmp = "moved" /\ final = Absent /\ force

PlaceInv ==
  /\ pc \in BeforeCheck \cup (BeforeRename \ Doubted) => final = base
  /\ pc \in Doubted \cup Failing => final = base \/ Moved
  /\ pc = "rename2" => Kept \/ Deleted
  /\ pc = "report-lost" => Kept \/ Deleted \/ Moved
  /\ pc = "report-ok" => final = run
  /\ pc = "ended" => final = base \/ final = run \/ Kept \/ Deleted

ForceInv ==
  /\ pc \in BeforeRename => force \/ base = Absent
  /\ final # base => force \/ base = Absent
  /\ pc \in {"lstat", "rm-room"} => force
  /\ pc = "rm-room" => base \notin {Absent, NotAFile} \/ Moved

TempInv ==
  /\ pc \in {"rows", "close", "gate"} => tmpRun = run
  /\ pc = "gate" => tmp = "synced"
  /\ pc \in {"commit", "rename"} => Complete
  /\ pc \in Doubted => Complete \/ Moved

ToldInv == pc \in Running => reported \in {"none", "stalled"}

\* The invariant that steps preserve, from which the three above follow: the
\* run's place in Run fixes what is at the output path, who may still replace
\* it and what the temporary file is worth.
Inductive == PlaceInv /\ ForceInv /\ TempInv /\ ToldInv /\ ReportTrue
-----------------------------------------------------------------------------
\* However long a timed call hangs, Ctrl-C pressed or not, the caller is told something.
AlwaysTold == []<>(reported # "none" \/ pc = "ended")
=============================================================================
