------------------------- MODULE OutputCommitProofs -------------------------
(***************************************************************************)
(* Theorems about OutputCommit, for every number of runs. The invariant    *)
(* Inductive says, for each place convert.Run can stand at, what is at the *)
(* output path and under the temporary name. It is preserved by every step *)
(* of the run, by the watch, by a kill and by the next run, and what the   *)
(* documentation promises of an output follows from it.                    *)
(***************************************************************************)
EXTENDS OutputCommit, TLAPS

\* Every variable keeps its type, whichever calls fail, hang or are refused.
THEOREM TypeCorrect == Spec => []TypeOK
<1>1. Init => TypeOK
  <2> SUFFICES ASSUME Init PROVE TypeOK
    OBVIOUS
  <2>1. /\ force \in BOOLEAN /\ gated \in BOOLEAN /\ ctxDone \in BOOLEAN
        /\ stalled \in BOOLEAN /\ warned \in BOOLEAN
    BY Zenon DEF Init
  <2>2. run \in Runs
    BY RunsAssumption DEF Init, Runs
  <2>3. attempt \in 0 .. Attempts - 1
    BY DEF Init, Attempts
  <2> QED
    BY <2>1, <2>2, <2>3
       DEF Init, TypeOK, Running, WatchedSteps, StatSteps, CPUSteps
<1>2. TypeOK /\ [Next]_vars => TypeOK'
  <2> SUFFICES ASSUME TypeOK, [Next]_vars PROVE TypeOK'
    OBVIOUS
  <2>0. /\ 0 \in 0 .. Attempts - 1
        /\ \A n \in 0 .. Attempts - 1 : n + 1 < Attempts => n + 1 \in 0 .. Attempts - 1
    BY DEF Attempts
  <2> USE DEF TypeOK, Running, WatchedSteps, StatSteps, CPUSteps,
              disk, options, signals
  <2>1. CASE WatchedStep
    <3>1. CASE OpenInput \/ ReadSymbols
      BY <2>0, <3>1 DEF OpenInput, ReadSymbols, Stage, Goto
    <3>2. CASE RemoveStale \/ RemoveUnopened \/ RemoveAborted
      <4>1. warned' \in BOOLEAN
        BY <3>2, Zenon DEF RemoveStale, RemoveUnopened, RemoveAborted, RemoveTmp, Removal
      <4> QED
        BY <2>0, <3>2, <4>1
           DEF RemoveStale, RemoveUnopened, RemoveAborted, RemoveTmp, Removal
    <3>3. CASE OpenTemp
      BY <2>0, <3>3 DEF OpenTemp, Goto
    <3>31. CASE WriteRows
      BY <2>0, <3>31 DEF WriteRows, Goto
    <3>32. CASE CloseFile
      BY <2>0, <3>32 DEF CloseFile, Goto
    <3>33. CASE QualityGate
      <4>1. gated' \in BOOLEAN
        BY <3>33, Zenon DEF QualityGate, Goto
      <4> QED
        BY <2>0, <3>33, <4>1 DEF QualityGate, Goto
    <3>4. CASE Rename \/ RenameAgain
      BY <2>0, <3>4 DEF Rename, RenameAgain, TakeName, Goto
    <3>5. CASE RemoveFinal
      BY <2>0, <3>5 DEF RemoveFinal, Removal
    <3> QED
      BY <2>1, <3>1, <3>2, <3>3, <3>31, <3>32, <3>33, <3>4, <3>5 DEF WatchedStep
  <2>2. CASE StatStep
    BY <2>0, <2>2 DEF StatStep, Preflight, Create, LstatFinal, Stage, Goto
  <2>3. CASE CPUStep
    BY <2>0, <2>3 DEF CPUStep, CommitCheck, Refused, Report, Verdict, Goto
  <2>4. CASE Cancel
    BY <2>4 DEF Cancel
  <2>41. CASE StallFires
    BY <2>41 DEF StallFires
  <2>42. CASE GiveUp
    BY <2>42 DEF GiveUp
  <2>43. CASE Kill
    BY <2>43 DEF Kill
  <2>5. CASE NextRun
    <3>1. force' \in BOOLEAN /\ gated' \in BOOLEAN /\ ctxDone' \in BOOLEAN
          /\ stalled' \in BOOLEAN /\ warned' \in BOOLEAN
      BY <2>5, Zenon DEF NextRun
    <3>2. run' \in Runs
      BY <2>5, RunsAssumption DEF NextRun, Runs
    <3> QED
      BY <2>0, <2>5, <3>1, <3>2 DEF NextRun
  <2>6. CASE UNCHANGED vars \/ Finished
    BY <2>6 DEF vars, Finished
  <2> QED
    BY <2>1, <2>2, <2>3, <2>4, <2>41, <2>42, <2>43, <2>5, <2>6 DEF Next
<1> QED
  BY <1>1, <1>2, PTL DEF Spec

-----------------------------------------------------------------------------
\* The steps of the run that leave both files and the options alone and go from
\* one place to another whose requirements are no stronger.
LEMMA InductiveStep ==
  ASSUME TypeOK, Inductive, [Next]_vars
  PROVE  Inductive'
<1> USE DEF Inductive, PlaceInv, ForceInv, TempInv, ToldInv, ReportTrue,
            Kept, Moved, Deleted, Complete, BeforeCheck, BeforeRename, Doubted, Failing,
            Running, WatchedSteps, StatSteps, CPUSteps, disk, options, signals
<1>1. CASE OpenInput \/ ReadSymbols \/ Preflight \/ Create
  BY <1>1 DEF OpenInput, ReadSymbols, Preflight, Create, Stage, Goto, OutputAllowed
<1>2. CASE RemoveStale \/ RemoveUnopened \/ RemoveAborted
  BY <1>2 DEF RemoveStale, RemoveUnopened, RemoveAborted, RemoveTmp, Removal
<1>3. CASE OpenTemp \/ WriteRows
  BY <1>3 DEF OpenTemp, WriteRows, Goto
<1>31. CASE CloseFile
  BY <1>31 DEF CloseFile, Goto
<1>32. CASE QualityGate
  BY <1>32 DEF QualityGate, Goto
<1>4. CASE CommitCheck \/ Refused \/ LstatFinal
  BY <1>4 DEF CommitCheck, Refused, LstatFinal, Goto
<1>5. CASE Rename \/ RenameAgain
  BY <1>5 DEF Rename, RenameAgain, TakeName, Goto
<1>6. CASE RemoveFinal
  BY <1>6 DEF RemoveFinal, Removal, Attempts, TypeOK
<1>7. CASE Report
  BY <1>7 DEF Report, Verdict
<1>8. CASE Cancel \/ StallFires \/ GiveUp \/ Kill
  BY <1>8 DEF Cancel, StallFires, GiveUp, Kill
<1>9. CASE NextRun
  BY <1>9 DEF NextRun
<1>10. CASE UNCHANGED vars \/ Finished
  BY <1>10 DEF vars, Finished
<1> QED
  BY <1>1, <1>2, <1>3, <1>31, <1>32, <1>4, <1>5, <1>6, <1>7, <1>8, <1>9, <1>10
     DEF Next, WatchedStep, StatStep, CPUStep

\* The place of the run fixes what is on the share, in every reachable state.
THEOREM InductiveCorrect == Spec => []Inductive
<1>1. Init => Inductive
  BY DEF Init, Inductive, PlaceInv, ForceInv, TempInv, ToldInv, ReportTrue,
         BeforeCheck, BeforeRename, Doubted, Failing, Running, WatchedSteps, StatSteps,
         CPUSteps
<1>2. TypeOK /\ Inductive /\ [Next]_vars => Inductive'
  BY InductiveStep
<1> QED
  BY <1>1, <1>2, TypeCorrect, PTL DEF Spec

\* writer.go: an output that was there before the run is there after it, or has
\* been replaced by the run's whole output, or that output waits beside it.
THEOREM OutputAlwaysSurvives == Spec => []OutputSurvives
<1>1. TypeOK /\ Inductive => OutputSurvives
  BY DEF Inductive, PlaceInv, Kept, Moved, Deleted, Complete, OutputSurvives, TypeOK, BeforeCheck,
         BeforeRename, Doubted, Failing, Running, WatchedSteps, StatSteps, CPUSteps
<1> QED
  BY <1>1, TypeCorrect, InductiveCorrect, PTL

\* CheckOutput: without --force, no run replaces or deletes an existing output.
THEOREM NoForceNoTouch == Spec => []ForceOnly
<1>1. Inductive => ForceOnly
  BY DEF Inductive, ForceInv, ForceOnly
<1> QED
  BY <1>1, InductiveCorrect, PTL

\* The error a run returns says what happened to the output.
THEOREM ReportsTruly == Spec => []ReportTrue
<1>1. Inductive => ReportTrue
  BY DEF Inductive
<1> QED
  BY <1>1, InductiveCorrect, PTL

\* The output's name is only ever given to this run's file, synced and gated.
THEOREM OnlyFinished == Spec => OnlyFinishedOutputs
<1>1. TypeOK /\ Inductive /\ [Next]_vars =>
        [final' # final /\ final' # Absent =>
           tmp = "synced" /\ gated /\ final' = run]_vars
  <2> SUFFICES ASSUME TypeOK, Inductive, [Next]_vars,
                      final' # final, final' # Absent
               PROVE  tmp = "synced" /\ gated /\ final' = run
    OBVIOUS
  <2> USE DEF Inductive, PlaceInv, TempInv, Kept, Deleted, Complete, disk
  <2>1. CASE Rename \/ RenameAgain
    BY <2>1 DEF Rename, RenameAgain, TakeName, Goto
  <2>2. CASE RemoveFinal
    BY <2>2 DEF RemoveFinal
  <2>3. CASE WatchedStep /\ ~Rename /\ ~RenameAgain /\ ~RemoveFinal
    BY <2>3 DEF WatchedStep, OpenInput, ReadSymbols, RemoveStale, OpenTemp,
                RemoveUnopened, WriteRows, CloseFile, QualityGate, RemoveAborted,
                Stage, RemoveTmp
  <2>4. CASE StatStep \/ CPUStep
    BY <2>4 DEF StatStep, CPUStep, Preflight, Create, LstatFinal, CommitCheck,
                Refused, Report, Verdict, Stage
  <2>5. CASE Cancel \/ StallFires \/ GiveUp \/ Kill \/ NextRun \/ Finished
    BY <2>5 DEF Cancel, StallFires, GiveUp, Kill, NextRun, Finished, vars
  <2>6. CASE UNCHANGED vars
    BY <2>6 DEF vars
  <2> QED
    BY <2>1, <2>2, <2>3, <2>4, <2>5, <2>6 DEF Next
<1> QED
  BY <1>1, TypeCorrect, InductiveCorrect, PTL DEF Spec, OnlyFinishedOutputs
=============================================================================
