------------------------------ MODULE BatchRun ------------------------------
(***************************************************************************)
(* RunMany: one batch over a list of files. The main loop hands each file  *)
(* to a goroutine of its own when a slot is free; the goroutine runs the   *)
(* conversion on yet another goroutine, so that it can be given up on once *)
(* the stall watch has fired, then logs the result and records it in the   *)
(* manifest under the manifest's lock. Failed reads are retried one at a   *)
(* time at the end, the manifest is saved a last time and the summary      *)
(* written.                                                                *)
(*                                                                         *)
(* A call that hangs is a step that is not taken. What one conversion does *)
(* to its output is OutputCommit; deletion of old outputs is Manifest.     *)
(***************************************************************************)
EXTENDS Integers, FiniteSets, FiniteSetsExt

CONSTANTS
  NumFiles,        \* how many inputs the batch was given
  FileWorkers,     \* how many convert at once
  SkipUpToDate     \* --skip-up-to-date: there is a manifest

ASSUME BatchAssumption ==
  /\ NumFiles \in Nat \ {0}
  /\ FileWorkers \in 1 .. NumFiles
  /\ SkipUpToDate \in BOOLEAN

Files == 1 .. NumFiles
Main == 0                      \* RunMany's own goroutine

VARIABLES
  mpc,        \* where RunMany's loop stands
  next,       \* the file it has come to
  slots,      \* how many slots of the semaphore are taken
  thread,     \* where each file's goroutine stands
  conv,       \* where each file's conversion stands
  outcome,    \* what the last conversion of a file returned
  attempts,   \* conversions of a file begun
  result,     \* results[i], as the summary will count it
  committed,  \* files whose output this run has replaced or created
  upToDate,   \* files the manifest says are up to date
  cause,      \* why the context is done: "none", "user", "lost" or "stall"
  fired,      \* the watch has fired
  stuck,      \* the file whose call it found
  rec,        \* where each manifest update stands
  mu,         \* who holds the manifest's lock; -1 if nobody
  mem, disk,  \* files recorded in the manifest, in memory and on disk
  logged,     \* log records of a file
  gaveUp      \* kinds of bookkeeping given up on

loop == <<mpc, next, slots>>
work == <<thread, conv, outcome, attempts, result, committed>>
watch == <<cause, fired, stuck>>
books == <<rec, mu, mem, disk, logged, gaveUp>>
vars == <<loop, work, upToDate, watch, books>>

Nobody == -1

\* Results. A retry is only made after "readfail"; "lost" is ErrOutputLost.
Errors == {"readfail", "failed", "lost", "canceled", "stopped", "stalled"}
Results == Errors \cup {"none", "ok", "skipped"}

TypeOK ==
  /\ mpc \in {"select", "check", "stale", "spawn", "aside", "rest", "restlog",
              "wait", "retry", "retrying", "save", "saving", "summary", "returned"}
  /\ next \in 1 .. NumFiles + 1
  /\ slots \in 0 .. FileWorkers
  /\ thread \in [Files -> {"none", "start", "await", "after", "log", "record",
                           "recording", "done"}]
  /\ conv \in [Files -> {"none", "begin", "work", "commit", "done"}]
  /\ outcome \in [Files -> Results]
  /\ attempts \in [Files -> 0 .. 2]
  /\ result \in [Files -> Results]
  /\ committed \subseteq Files
  /\ upToDate \subseteq Files
  /\ cause \in {"none", "user", "lost", "stall"}
  /\ fired \in BOOLEAN
  /\ stuck \in Files \cup {Nobody}
  /\ rec \in [Files \cup {Main} -> {"none", "lock", "save", "done"}]
  /\ mu \in Files \cup {Main, Nobody}
  /\ mem \subseteq Files
  /\ disk \subseteq Files
  /\ logged \in [Files -> 0 .. 2]
  /\ gaveUp \subseteq {"log", "manifest"}

Init ==
  /\ mpc = "select" /\ next = 1 /\ slots = 0
  /\ thread = [f \in Files |-> "none"]
  /\ conv = [f \in Files |-> "none"]
  /\ outcome = [f \in Files |-> "none"]
  /\ attempts = [f \in Files |-> 0]
  /\ result = [f \in Files |-> "none"]
  /\ committed = {}
  /\ upToDate \in IF SkipUpToDate THEN SUBSET Files ELSE {{}}
  /\ cause = "none" /\ fired = FALSE /\ stuck = Nobody
  /\ rec = [w \in Files \cup {Main} |-> "none"]
  /\ mu = Nobody
  /\ mem = {} /\ disk = {}
  /\ logged = [f \in Files |-> 0]
  /\ gaveUp = {}
-----------------------------------------------------------------------------
(* What stops a batch.                                                     *)

ctxDone == cause # "none"

\* context.WithCancelCause: the first cause stays.
Stop(why) == cause' = IF ctxDone THEN cause ELSE why

\* stoppedErr: a file that was not converted is named after what stopped the
\* batch.
StoppedErr == CASE cause = "lost" -> "stopped"
                [] cause = "stall" -> "stalled"
                [] OTHER -> "canceled"

UserCancel ==
  /\ mpc # "returned" /\ ~ctxDone
  /\ cause' = "user"
  /\ UNCHANGED <<loop, work, upToDate, fired, stuck, books>>

\* The watch finds a call that has not returned in time. It fires once: the batch
\* is stopped first, and then those that wait for the watch are told.
WatchStops ==
  /\ mpc # "returned" /\ stuck = Nobody
  /\ \E f \in Files : conv[f] \in {"work", "commit"} /\ stuck' = f
  /\ Stop("stall")
  /\ UNCHANGED <<loop, work, upToDate, fired, books>>

WatchFires ==
  /\ mpc # "returned" /\ stuck # Nobody /\ ~fired
  /\ fired' = TRUE
  /\ UNCHANGED <<loop, work, upToDate, cause, stuck, books>>

Watch == WatchStops \/ WatchFires
-----------------------------------------------------------------------------
(* A conversion, on the goroutine await starts for it.                     *)

Return(f, r) ==
  /\ conv' = [conv EXCEPT ![f] = "done"]
  /\ outcome' = [outcome EXCEPT ![f] = r]

\* Run looks at the context before anything else.
ConvBegin(f) ==
  /\ conv[f] = "begin"
  /\ \/ ctxDone /\ Return(f, StoppedErr)
     \/ ~ctxDone /\ conv' = [conv EXCEPT ![f] = "work"] /\ UNCHANGED outcome
  /\ UNCHANGED <<loop, thread, attempts, result, committed, upToDate, watch, books>>

\* The rows are read, decoded and written. The commit looks at the context once
\* more before it renames.
ConvWork(f) ==
  /\ conv[f] = "work"
  /\ \/ \E r \in {"readfail", "failed"} : Return(f, r)
     \/ ctxDone /\ Return(f, StoppedErr)
     \/ ~ctxDone /\ conv' = [conv EXCEPT ![f] = "commit"] /\ UNCHANGED outcome
  /\ UNCHANGED <<loop, thread, attempts, result, committed, upToDate, watch, books>>

ConvCommit(f) ==
  /\ conv[f] = "commit"
  /\ \/ Return(f, "ok") /\ committed' = committed \cup {f}
     \/ \E r \in {"failed", "lost"} : Return(f, r) /\ UNCHANGED committed
  /\ UNCHANGED <<loop, thread, attempts, result, upToDate, watch, books>>
-----------------------------------------------------------------------------
(* The goroutine of a file.                                                *)

Go(f, to) == thread' = [thread EXCEPT ![f] = to]

Retrying(f) == attempts[f] = 2

ThreadStart(f) ==
  /\ thread[f] = "start"
  /\ \/ /\ ctxDone
        /\ Go(f, "after")
        /\ result' = [result EXCEPT ![f] = StoppedErr]
        /\ UNCHANGED <<conv, attempts>>
     \/ /\ ~ctxDone
        /\ Go(f, "await")
        /\ conv' = [conv EXCEPT ![f] = "begin"]
        /\ attempts' = [attempts EXCEPT ![f] = 1]
        /\ UNCHANGED result
  /\ UNCHANGED <<loop, outcome, committed, upToDate, watch, books>>

\* Mutant: a stopped batch reports everything still under way as stopped.
KeptUnlessStopped(f) == IF ctxDone THEN StoppedErr ELSE outcome[f]

\* keepStall: the file whose call stalled is reported as stalled even if the
\* call returned in the end and the conversion failed some other way.
Kept(f) ==
  IF fired /\ stuck = f /\ outcome[f] \in Errors THEN "stalled" ELSE outcome[f]

\* A first attempt that returned.
Finish(f) ==
  /\ thread[f] = "await" /\ ~Retrying(f) /\ conv[f] = "done"
  /\ result' = [result EXCEPT ![f] = Kept(f)]
  /\ Go(f, "after")
  /\ UNCHANGED <<loop, conv, outcome, attempts, committed, upToDate, watch, books>>

\* A retry that returned. One that was stopped leaves the first failure as it
\* was; any other answer replaces it.
FinishRetry(f) ==
  /\ thread[f] = "await" /\ Retrying(f) /\ conv[f] = "done"
  /\ \/ /\ ctxDone /\ Kept(f) = "canceled"
        /\ Go(f, "done")
        /\ UNCHANGED result
     \/ /\ ~(ctxDone /\ Kept(f) = "canceled")
        /\ Go(f, "log")
        /\ result' = [result EXCEPT ![f] = Kept(f)]
  /\ UNCHANGED <<loop, conv, outcome, attempts, committed, upToDate, watch, books>>

\* Mutant: only the file whose call was found is given up on.
GiveUpConversionOwn(f) ==
  /\ thread[f] = "await" /\ fired /\ stuck = f /\ conv[f] # "done"
  /\ result' = [result EXCEPT ![f] = "stalled"]
  /\ Go(f, IF Retrying(f) THEN "log" ELSE "after")
  /\ UNCHANGED <<loop, conv, outcome, attempts, committed, upToDate, watch, books>>

\* The grace period is over: the conversion is left where it is.
GiveUpConversion(f) ==
  /\ thread[f] = "await" /\ fired /\ conv[f] # "done"
  /\ result' = [result EXCEPT ![f] = "stalled"]
  /\ Go(f, IF Retrying(f) THEN "log" ELSE "after")
  /\ UNCHANGED <<loop, conv, outcome, attempts, committed, upToDate, watch, books>>

\* Mutant: a lost output does not stop the batch.
AfterContinuing(f) ==
  /\ thread[f] = "after"
  /\ Go(f, "log")
  /\ UNCHANGED <<loop, conv, outcome, attempts, result, committed, upToDate, watch,
                 books>>

\* A lost output stops the batch before anything else is done.
After(f) ==
  /\ thread[f] = "after"
  /\ IF result[f] = "lost" THEN Stop("lost") ELSE UNCHANGED cause
  /\ Go(f, "log")
  /\ UNCHANGED <<loop, conv, outcome, attempts, result, committed, upToDate,
                 fired, stuck, books>>

\* What the loop sets aside itself is only logged.
SetAside(f) == mpc \in {"aside", "restlog"} /\ f = next

AfterLog(f) == IF SetAside(f) THEN "done" ELSE "record"

WriteLog(f) ==
  /\ thread[f] = "log"
  /\ logged' = IF "log" \in gaveUp THEN logged ELSE [logged EXCEPT ![f] = @ + 1]
  /\ Go(f, AfterLog(f))
  /\ UNCHANGED <<loop, conv, outcome, attempts, result, committed, upToDate, watch,
                 rec, mu, mem, disk, gaveUp>>

\* Mutant: the records the goroutines write are not under the watch.
GiveUpLogAside(f) ==
  /\ thread[f] = "log" /\ SetAside(f) /\ fired /\ "log" \notin gaveUp
  /\ gaveUp' = gaveUp \cup {"log"}
  /\ Go(f, AfterLog(f))
  /\ UNCHANGED <<loop, conv, outcome, attempts, result, committed, upToDate, watch,
                 rec, mu, mem, disk, logged>>

GiveUpLog(f) ==
  /\ thread[f] = "log" /\ fired /\ "log" \notin gaveUp
  /\ gaveUp' = gaveUp \cup {"log"}
  /\ Go(f, AfterLog(f))
  /\ UNCHANGED <<loop, conv, outcome, attempts, result, committed, upToDate, watch,
                 rec, mu, mem, disk, logged>>

\* The goroutine ends and releases its slot. A retry holds none.
Leave(f) ==
  /\ Go(f, "done")
  /\ slots' = IF Retrying(f) THEN slots ELSE slots - 1

\* Mutant: a failed file is recorded as well.
RecordFailed(f) ==
  /\ thread[f] = "record"
  /\ \/ /\ SkipUpToDate /\ "manifest" \notin gaveUp
        /\ rec' = [rec EXCEPT ![f] = "lock"]
        /\ Go(f, "recording") /\ UNCHANGED slots
     \/ /\ ~SkipUpToDate \/ "manifest" \in gaveUp
        /\ UNCHANGED rec
        /\ Leave(f)
  /\ UNCHANGED <<mpc, next, conv, outcome, attempts, result, committed, upToDate,
                 watch, mu, mem, disk, logged, gaveUp>>

\* Only a file that converted is recorded.
Record(f) ==
  /\ thread[f] = "record"
  /\ \/ /\ SkipUpToDate /\ result[f] = "ok" /\ "manifest" \notin gaveUp
        /\ rec' = [rec EXCEPT ![f] = "lock"]
        /\ Go(f, "recording") /\ UNCHANGED slots
     \/ /\ ~SkipUpToDate \/ result[f] # "ok" \/ "manifest" \in gaveUp
        /\ UNCHANGED rec
        /\ Leave(f)
  /\ UNCHANGED <<mpc, next, conv, outcome, attempts, result, committed, upToDate,
                 watch, mu, mem, disk, logged, gaveUp>>

Recorded(f) ==
  /\ thread[f] = "recording" /\ rec[f] = "done"
  /\ Leave(f)
  /\ UNCHANGED <<mpc, next, conv, outcome, attempts, result, committed, upToDate,
                 watch, books>>

\* The lock stays with the update that was given up on.
GiveUpRecord(f) ==
  /\ thread[f] = "recording" /\ fired /\ rec[f] # "done"
  /\ gaveUp' = gaveUp \cup {"manifest"}
  /\ Leave(f)
  /\ UNCHANGED <<mpc, next, conv, outcome, attempts, result, committed, upToDate,
                 watch, rec, mu, mem, disk, logged>>
-----------------------------------------------------------------------------
(* The manifest, under its lock.                                           *)

\* liveManifest.Record and Save take the lock; the saves during the run are
\* throttled, the last one is not. A file that cannot be looked at afterwards
\* is left out.
TakeLock(w) ==
  /\ rec[w] = "lock" /\ mu = Nobody
  /\ mem' \in IF w = Main THEN {mem} ELSE {mem, mem \cup {w}}
  /\ \/ mu' = w /\ rec' = [rec EXCEPT ![w] = "save"]
     \/ w # Main /\ UNCHANGED mu /\ rec' = [rec EXCEPT ![w] = "done"]
  /\ UNCHANGED <<loop, work, upToDate, watch, disk, logged, gaveUp>>

\* The file is written and takes the manifest's name, or the save fails.
SaveManifest(w) ==
  /\ rec[w] = "save"
  /\ disk' \in {disk, mem}
  /\ mu' = Nobody
  /\ rec' = [rec EXCEPT ![w] = "done"]
  /\ UNCHANGED <<loop, work, upToDate, watch, mem, logged, gaveUp>>
-----------------------------------------------------------------------------
(* RunMany's own goroutine.                                                *)

At(from, to) == mpc = from /\ mpc' = to

\* The select at the top of the loop.
Select ==
  /\ mpc = "select"
  /\ mpc' = IF next > NumFiles THEN "wait" ELSE IF ctxDone THEN "rest" ELSE "check"
  /\ UNCHANGED <<next, slots, work, upToDate, watch, books>>

\* Mutant: the files that are left are only counted.
RestUnlogged ==
  /\ mpc = "rest"
  /\ \/ next > NumFiles /\ mpc' = "wait" /\ UNCHANGED <<thread, result>>
     \/ /\ next <= NumFiles /\ mpc' = "restlog"
        /\ result' = [result EXCEPT ![next] = StoppedErr]
        /\ Go(next, "done")
  /\ UNCHANGED <<next, slots, conv, outcome, attempts, committed, upToDate, watch, books>>

\* The files that are left are recorded as not converted, one by one.
Rest ==
  /\ mpc = "rest"
  /\ \/ next > NumFiles /\ mpc' = "wait" /\ UNCHANGED <<thread, result>>
     \/ /\ next <= NumFiles /\ mpc' = "restlog"
        /\ result' = [result EXCEPT ![next] = StoppedErr]
        /\ Go(next, "log")
  /\ UNCHANGED <<next, slots, conv, outcome, attempts, committed, upToDate, watch, books>>

RestLogged ==
  /\ At("restlog", "rest")
  /\ thread[next] = "done"
  /\ next' = next + 1
  /\ UNCHANGED <<slots, work, upToDate, watch, books>>

\* The second look at the context, which leaves the loop.
Check ==
  /\ At("check", IF ctxDone THEN "wait" ELSE "stale")
  /\ UNCHANGED <<next, slots, work, upToDate, watch, books>>

\* live.Stale, on the loop's own goroutine: it needs the manifest's lock. A
\* file that is up to date is logged as skipped, or as failed when its output
\* cannot be read for the catalog.
Stale ==
  /\ mpc = "stale" /\ mu = Nobody
  /\ \/ /\ next \notin upToDate
        /\ mpc' = "spawn" /\ UNCHANGED <<thread, result>>
     \/ /\ next \in upToDate
        /\ mpc' = "aside"
        /\ \E r \in {"skipped", "failed"} : result' = [result EXCEPT ![next] = r]
        /\ Go(next, "log")
  /\ UNCHANGED <<next, slots, conv, outcome, attempts, committed, upToDate, watch, books>>

Aside ==
  /\ At("aside", "select")
  /\ thread[next] = "done"
  /\ next' = next + 1
  /\ UNCHANGED <<slots, work, upToDate, watch, books>>

Spawn ==
  /\ At("spawn", "select") /\ slots < FileWorkers
  /\ slots' = slots + 1
  /\ Go(next, "start")
  /\ next' = next + 1
  /\ UNCHANGED <<conv, outcome, attempts, result, committed, upToDate, watch, books>>

WaitAll ==
  /\ At("wait", "retry")
  /\ \A f \in Files : thread[f] \in {"none", "done"}
  /\ UNCHANGED <<next, slots, work, upToDate, watch, books>>

Again == {f \in Files : attempts[f] = 1 /\ result[f] = "readfail"}

\* Mutant: whatever failed is retried, stopped or not.
RetryAnything ==
  /\ mpc = "retry"
  /\ LET again == {f \in Files : attempts[f] = 1 /\ result[f] \in Errors} IN
       \/ /\ again = {}
          /\ mpc' = "save"
          /\ UNCHANGED <<thread, conv, attempts>>
       \/ /\ again # {}
          /\ LET f == Min(again) IN
               /\ attempts' = [attempts EXCEPT ![f] = 2]
               /\ conv' = [conv EXCEPT ![f] = "begin"]
               /\ Go(f, "await")
          /\ mpc' = "retrying"
  /\ UNCHANGED <<next, slots, outcome, result, committed, upToDate, watch, books>>

\* The next retry, unless the batch was stopped, an output was lost or the last
\* retry was cut short.
Retry ==
  /\ mpc = "retry"
  /\ \/ /\ Again = {} \/ ctxDone
        /\ mpc' = "save"
        /\ UNCHANGED <<thread, conv, attempts>>
     \/ /\ Again # {} /\ ~ctxDone
        /\ LET f == Min(Again) IN
             /\ attempts' = [attempts EXCEPT ![f] = 2]
             /\ conv' = [conv EXCEPT ![f] = "begin"]
             /\ Go(f, "await")
        /\ mpc' = "retrying"
  /\ UNCHANGED <<next, slots, outcome, result, committed, upToDate, watch, books>>

Retried ==
  /\ mpc = "retrying"
  /\ \A f \in Files : thread[f] \in {"none", "done"}
  /\ mpc' = IF \E f \in Files : Retrying(f) /\ result[f] = "lost" THEN "save" ELSE "retry"
  /\ UNCHANGED <<next, slots, work, upToDate, watch, books>>

\* The last save, unless the manifest has been given up on.
LastSave ==
  /\ mpc = "save"
  /\ \/ /\ SkipUpToDate /\ "manifest" \notin gaveUp
        /\ rec' = [rec EXCEPT ![Main] = "lock"]
        /\ mpc' = "saving"
     \/ /\ ~SkipUpToDate \/ "manifest" \in gaveUp
        /\ UNCHANGED rec
        /\ mpc' = "summary"
  /\ UNCHANGED <<next, slots, work, upToDate, watch, mu, mem, disk, logged, gaveUp>>

LastSaved ==
  /\ At("saving", "summary")
  /\ \/ rec[Main] = "done" /\ UNCHANGED gaveUp
     \/ fired /\ gaveUp' = gaveUp \cup {"manifest"}
  /\ UNCHANGED <<next, slots, work, upToDate, watch, rec, mu, mem, disk, logged>>

Summary ==
  /\ At("summary", "returned")
  /\ UNCHANGED <<next, slots, work, upToDate, watch, books>>
-----------------------------------------------------------------------------
ConvStep(f) == ConvBegin(f) \/ ConvWork(f) \/ ConvCommit(f)

\* The steps that only compute, or wait for a goroutine that does.
ThreadStep(f) ==
  \/ ThreadStart(f) \/ Finish(f) \/ FinishRetry(f) \/ After(f)
  \/ Record(f) \/ Recorded(f)

GiveUp(f) == GiveUpConversion(f) \/ GiveUpLog(f) \/ GiveUpRecord(f)

MainStep ==
  \/ Select \/ Rest \/ RestLogged \/ Check \/ Stale \/ Aside \/ Spawn
  \/ WaitAll \/ Retry \/ Retried \/ LastSave \/ LastSaved \/ Summary

Returned == mpc = "returned" /\ UNCHANGED vars

Next ==
  \/ \E f \in Files : ConvStep(f) \/ ThreadStep(f) \/ GiveUp(f) \/ WriteLog(f)
  \/ \E w \in Files \cup {Main} : TakeLock(w) \/ SaveManifest(w)
  \/ MainStep
  \/ UserCancel \/ Watch
  \/ Returned

Spec == Init /\ [][Next]_vars

\* The program's own steps and the watch's clock go on. A call of a conversion
\* and a write of the log or the manifest need never return.
FairSpec ==
  /\ Spec
  /\ WF_vars(MainStep) /\ WF_vars(Watch)
  /\ \A f \in Files :
       /\ WF_vars(ThreadStep(f)) /\ WF_vars(GiveUp(f))
       /\ WF_vars(ConvBegin(f))
       /\ WF_vars("log" \in gaveUp /\ WriteLog(f))
  /\ \A w \in Files \cup {Main} : WF_vars(TakeLock(w))

-----------------------------------------------------------------------------
ended == mpc = "returned"

\* An output lost on a share that will not be written over stops the batch: at
\* most the files that were being converted at that moment lose theirs too.
LossIsContained ==
  Cardinality({f \in Files : outcome[f] = "lost"}) <= FileWorkers

\* A file whose conversion was given up on is never converted again while that
\* conversion may still be writing: one output has one writer.
OneWriter ==
  [][\A f \in Files :
       conv'[f] = "begin" /\ conv[f] # "begin" => conv[f] \in {"none", "done"}]_vars

\* A file is reported as converted exactly when its output is this run's; only
\* one given up on as stalled may have been committed behind the report. Exit 7
\* says that somebody pressed Ctrl-C, and "stopped" that an output was lost: no
\* other cause is reported as one of these.
ResultTrue ==
  \A f \in Files :
    /\ ended /\ result[f] = "ok" => f \in committed
    /\ ended /\ f \in committed => result[f] \in {"ok", "stalled"}
    /\ result[f] = "canceled" => cause = "user"
    /\ result[f] = "stopped" => \E g \in Files : outcome[g] = "lost"

\* What the manifest on disk says was converted was, and the log said so first,
\* unless the log had been given up on: a kill at any moment leaves no output
\* without either record that the manifest alone could skip. And every file the
\* summary counts has its log record, and two only if it was retried.
BooksAgree ==
  /\ \A f \in disk : f \in committed
  /\ "log" \notin gaveUp =>
       /\ \A f \in disk : logged[f] > 0
       /\ ended => \A f \in Files : result[f] # "none" =>
            logged[f] > 0 /\ (logged[f] = 2 => Retrying(f))

\* Where log and manifest sit on a disk that answers, RunMany returns whichever
\* conversion hangs: nobody waits for ever for a slot, for a goroutine or for
\* the manifest's lock.
LogAnswers == \A f \in Files : WF_vars(WriteLog(f))
ManifestAnswers == \A w \in Files \cup {Main} : WF_vars(SaveManifest(w))
Returns == LogAnswers /\ ManifestAnswers => <>ended

\* Once the watch has fired RunMany returns even if the log sits on the share
\* that hangs. The manifest's lock is another matter: live.Stale takes it
\* without a deadline, so a save that hangs has to come back first.
StallEnds == ManifestAnswers => (fired ~> ended)

\* "Record the remaining files as cancelled rather than silently dropping them
\* from the summary."
AllAccounted == ended => \A f \in Files : result[f] # "none"
=============================================================================
