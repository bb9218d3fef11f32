--------------------------- MODULE BatchRunProofs ---------------------------
(***************************************************************************)
(* What holds of BatchRun for any number of files and of conversions at    *)
(* once: how the slots are held, that a lost output stops the others, and  *)
(* that results, log and manifest agree with what became of the outputs.   *)
(***************************************************************************)
EXTENDS BatchRun, FiniteSetTheorems, WellFoundedInduction, TLAPS

-----------------------------------------------------------------------------
(* The inductive invariant.                                                *)

Resting == {"none", "done"}
OnFile == {"check", "stale", "spawn", "aside", "restlog"}
AllDone == {"retry", "save", "saving", "summary", "returned"}

\* The files the loop has not come to are untouched; the one it is at has a
\* goroutine of the loop's own only while it is set aside. The retries begin when
\* everything has ended, and there is one at a time.
LoopInv ==
  /\ mpc \in OnFile => next <= NumFiles
  /\ mpc \in {"rest", "restlog"} => ctxDone
  /\ \A f \in Files : f > next => thread[f] = "none"
  /\ next \in Files /\ mpc \notin {"aside", "restlog"} => thread[next] = "none"
  /\ mpc \in {"aside", "restlog"} => thread[next] \in {"log", "done"} /\ attempts[next] = 0
  /\ mpc \in AllDone => \A f \in Files : thread[f] \in Resting
  /\ mpc \notin AllDone \cup {"retrying"} => \A f \in Files : attempts[f] # 2
  /\ mpc = "retrying" => \A f \in Files : thread[f] \notin Resting =>
                           attempts[f] = 2 /\ \A g \in Files \ {f} : thread[g] \in Resting

\* The goroutines that hold a slot of the semaphore.
Holders == {f \in Files : f < next /\ thread[f] \notin Resting /\ attempts[f] # 2}
SlotInv == slots = Cardinality(Holders)

\* How a goroutine, its conversion and the two results of a file go together.
FileOK(f) ==
  /\ attempts[f] = 0 <=> conv[f] = "none"
  /\ thread[f] \in {"none", "start"} => attempts[f] = 0 /\ logged[f] = 0 /\ result[f] = "none"
  /\ thread[f] = "await" =>
       attempts[f] # 0 /\ result[f] = IF attempts[f] = 2 THEN "readfail" ELSE "none"
  /\ attempts[f] = 2 => thread[f] \notin {"none", "start", "after"}
  /\ conv[f] # "done" => outcome[f] \in {"none", "readfail"}
  /\ attempts[f] = 1 /\ result[f] = "readfail" => conv[f] = "done" /\ outcome[f] = "readfail"
  /\ conv[f] \notin Resting /\ thread[f] # "await" => result[f] = "stalled"
  /\ f \in committed <=> outcome[f] = "ok"
  /\ result[f] \in {"ok", "lost"} => outcome[f] = result[f]
  /\ outcome[f] \in {"ok", "lost"} /\ thread[f] # "await" => result[f] \in {outcome[f], "stalled"}

\* What stopped the batch is told as it is.
CauseOK(f) ==
  \A r \in {result[f], outcome[f]} :
    /\ r = "canceled" => cause = "user"
    /\ r = "stopped" => cause = "lost"
    /\ r = "stalled" => ctxDone
CauseInv ==
  /\ fired => stuck # Nobody
  /\ stuck # Nobody => ctxDone
  /\ cause = "lost" => \E g \in Files : outcome[g] = "lost"
  /\ \A f \in Files : CauseOK(f)

\* Those whose output is lost, or may be in a moment.
Losers == {f \in Files : outcome[f] = "lost" \/ conv[f] = "commit"}

\* Until the batch is stopped each of them still holds its slot, or is the one that is
\* retried, after which nothing is begun.
LoserOK(f) ==
  IF attempts[f] = 2
    THEN /\ mpc # "retry"
         /\ thread[f] = "await" \/ result[f] = "lost"
         /\ \A g \in Files \ {f} : thread[g] \in Resting /\ g \notin Losers
    ELSE thread[f] \in {"await", "after"}
LossInv ==
  /\ ~ctxDone => \A f \in Losers : LoserOK(f)
  /\ Cardinality(Losers) <= FileWorkers

\* The log record comes before the entry of the manifest, and there is one for each
\* time a file was reported.
BooksOK(f) ==
  /\ thread[f] \in {"start", "await", "after", "log"} =>
       logged[f] <= IF attempts[f] = 2 THEN 1 ELSE 0
  /\ thread[f] \in {"record", "recording", "done"} =>
       logged[f] <= IF attempts[f] = 2 THEN 2 ELSE 1
  /\ "log" \notin gaveUp =>
       (thread[f] \in {"record", "recording", "done"} \/ attempts[f] = 2 => logged[f] > 0)
  /\ thread[f] = "none" => rec[f] = "none"
  /\ rec[f] # "none" => f \in committed /\ ("log" \notin gaveUp => logged[f] > 0)
  /\ f \in mem \cup disk => rec[f] # "none"

BooksInv == \A f \in Files : BooksOK(f)
FilesInv == \A f \in Files : FileOK(f)

IInv == TypeOK /\ LoopInv /\ SlotInv /\ FilesInv /\ CauseInv /\ LossInv /\ BooksInv
-----------------------------------------------------------------------------
(* Lemmas.                                                                 *)

\* The retry is of the first of the files that failed to be read.
LEMMA FirstAgain ==
  ASSUME Again # {}
  PROVE  Min(Again) \in Again
<1> DEFINE R == OpToRel(<, Nat)
<1>1. Again \subseteq Nat
  BY BatchAssumption DEF Again, Files
<1>2. \A x, y \in Again : y < x => <<y, x>> \in R
  BY <1>1 DEF OpToRel
<1>3. IsWellFoundedOn(R, Nat)
  BY NatLessThanWellFounded
<1> HIDE DEF R
<1>4. PICK x \in Again : \A y \in Again : ~(<<y, x>> \in R)
  BY <1>1, <1>3, WFMin
<1>5. \A y \in Again : ~(y < x)
  BY <1>2, <1>4
<1>6. \A y \in Again : x <= y
  BY <1>1, <1>5
<1> QED
  BY <1>6 DEF Min

LEMMA InitIInv == Init => IInv
<1> SUFFICES ASSUME Init PROVE IInv
  OBVIOUS
<1> USE BatchAssumption DEF Init, Files, Main, Nobody
<1>1. TypeOK
  <2>1. upToDate \subseteq Files
    OBVIOUS
  <2>2. fired \in BOOLEAN
    BY Zenon
  <2>3. next \in 1 .. NumFiles + 1 /\ slots \in 0 .. FileWorkers
    OBVIOUS
  <2> QED
    BY <2>1, <2>2, <2>3 DEF TypeOK, Results
<1>2. LoopInv
  BY DEF LoopInv, OnFile, AllDone, Resting, ctxDone
<1>3. SlotInv
  <2>1. Holders = {}
    BY DEF Holders, Resting
  <2> QED
    BY <2>1, FS_EmptySet DEF SlotInv
<1>4. FilesInv /\ CauseInv /\ BooksInv
  BY DEF FilesInv, FileOK, CauseInv, CauseOK, BooksInv, BooksOK, ctxDone, Resting
<1>5. LossInv
  <2>1. Losers = {}
    BY DEF Losers
  <2> QED
    BY <2>1, FS_EmptySet DEF LossInv
<1> QED
  BY <1>1, <1>2, <1>3, <1>4, <1>5 DEF IInv

LEMMA SetsFinite ==
  ASSUME IInv
  PROVE  /\ IsFiniteSet(Files) /\ IsFiniteSet(Holders) /\ IsFiniteSet(Losers)
         /\ Cardinality(Holders) \in Nat /\ Cardinality(Losers) \in Nat
<1>1. IsFiniteSet(Files)
  BY BatchAssumption, FS_Interval DEF Files
<1>2. Holders \subseteq Files /\ Losers \subseteq Files
  BY DEF Holders, Losers
<1> QED
  BY <1>1, <1>2, FS_Subset, FS_CardinalityType

\* Who still runs: a file that was set aside, one that holds a slot, or the retry.
LEMMA Running ==
  ASSUME IInv, NEW f \in Files, thread[f] \notin Resting
  PROVE  /\ mpc \notin AllDone
         /\ mpc = "retrying" =>
              attempts[f] = 2 /\ \A g \in Files \ {f} : thread[g] \in Resting
         /\ mpc # "retrying" => attempts[f] # 2
         /\ f < next \/ (f = next /\ SetAside(f) /\ thread[f] = "log" /\ attempts[f] = 0)
<1> USE BatchAssumption DEF IInv, LoopInv, Resting
<1>1. mpc \notin AllDone
  OBVIOUS
<1>2. f < next \/ (f = next /\ SetAside(f) /\ thread[f] = "log" /\ attempts[f] = 0)
  <2>1. ~(f > next) /\ f \in Int /\ next \in Int
    BY DEF TypeOK, Files
  <2>2. f = next => SetAside(f) /\ thread[f] = "log" /\ attempts[f] = 0
    BY DEF SetAside
  <2> QED
    BY <2>1, <2>2
<1>3. mpc # "retrying" => attempts[f] # 2
  BY <1>1
<1> QED
  BY <1>1, <1>2, <1>3

\* A goroutine at the manifest is past the loop, and one that is not a retry holds a
\* slot to give back.
LEMMA HeldSlot ==
  ASSUME IInv, NEW f \in Files, thread[f] \in {"record", "recording"}
  PROVE  /\ f < next
         /\ attempts[f] # 2 => f \in Holders /\ slots >= 1
<1> USE BatchAssumption DEF IInv
<1>1. f < next
  BY Running DEF Resting
<1>2. attempts[f] # 2 => f \in Holders
  BY <1>1 DEF Holders, Resting
<1>3. f \in Holders => slots # 0
  BY SetsFinite, FS_EmptySet DEF SlotInv
<1> QED
  BY <1>1, <1>2, <1>3 DEF TypeOK

LEMMA TypeStep == IInv /\ [Next]_vars => TypeOK'
<1> SUFFICES ASSUME IInv, [Next]_vars PROVE TypeOK'
  OBVIOUS
<1> USE BatchAssumption DEF TypeOK, loop, work, watch, books, Results, Errors, Go, At, Main
<1>0. TypeOK /\ Files \subseteq Int
  BY DEF IInv, Files
<1>a. mpc \in OnFile => next \in Files /\ next + 1 \in 1 .. NumFiles + 1
  BY DEF IInv, LoopInv, Files
<1>b. \A f \in Files : thread[f] = "log" => logged[f] + 1 \in 0 .. 2
  BY DEF IInv, BooksInv, BooksOK
<1>c. \A f \in Files : /\ thread[f] \in {"record", "recording"} /\ ~Retrying(f)
                       => slots - 1 \in 0 .. FileWorkers
  BY HeldSlot DEF IInv, Retrying
<1>1. ASSUME NEW f \in Files, ConvStep(f) PROVE TypeOK'
  BY <1>0, <1>1 DEF ConvStep, ConvBegin, ConvWork, ConvCommit, Return, StoppedErr
<1>2. ASSUME NEW f \in Files, ThreadStart(f) PROVE TypeOK'
  BY <1>0, <1>2 DEF ThreadStart, StoppedErr
<1>3. ASSUME NEW f \in Files, Finish(f) PROVE TypeOK'
  BY <1>0, <1>3 DEF Finish, Kept
<1>4. ASSUME NEW f \in Files, FinishRetry(f) PROVE TypeOK'
  BY <1>0, <1>4 DEF FinishRetry, Kept
<1>5. ASSUME NEW f \in Files, GiveUpConversion(f) PROVE TypeOK'
  BY <1>0, <1>5 DEF GiveUpConversion
<1>6. ASSUME NEW f \in Files, After(f) PROVE TypeOK'
  BY <1>0, <1>6 DEF After, Stop
<1>7. ASSUME NEW f \in Files, WriteLog(f) PROVE TypeOK'
  BY <1>0, <1>b, <1>7 DEF WriteLog, AfterLog
<1>8. ASSUME NEW f \in Files, GiveUpLog(f) PROVE TypeOK'
  BY <1>0, <1>8 DEF GiveUpLog, AfterLog
<1>9. ASSUME NEW f \in Files, Record(f) PROVE TypeOK'
  BY <1>0, <1>c, <1>9 DEF Record, Leave
<1>10. ASSUME NEW f \in Files, Recorded(f) PROVE TypeOK'
  BY <1>0, <1>c, <1>10 DEF Recorded, Leave
<1>11. ASSUME NEW f \in Files, GiveUpRecord(f) PROVE TypeOK'
  BY <1>0, <1>c, <1>11 DEF GiveUpRecord, Leave
<1>12. ASSUME NEW w \in Files \cup {Main}, TakeLock(w) PROVE TypeOK'
  BY <1>0, <1>12 DEF TakeLock
<1>13. ASSUME NEW w \in Files \cup {Main}, SaveManifest(w) PROVE TypeOK'
  BY <1>0, <1>13 DEF SaveManifest
<1>14. CASE Select
  BY <1>0, <1>14 DEF Select
<1>15. CASE Rest
  BY <1>0, <1>15 DEF Rest, StoppedErr
<1>16. CASE RestLogged
  BY <1>0, <1>a, <1>16 DEF RestLogged, OnFile
<1>17. CASE Check
  BY <1>0, <1>17 DEF Check
<1>18. CASE Stale
  BY <1>0, <1>18 DEF Stale
<1>19. CASE Aside
  BY <1>0, <1>a, <1>19 DEF Aside, OnFile
<1>20. CASE Spawn
  BY <1>0, <1>a, <1>20 DEF Spawn, OnFile
<1>21. CASE WaitAll
  BY <1>0, <1>21 DEF WaitAll
<1>22. CASE Retry
  BY <1>0, <1>22 DEF Retry, Again
<1>23. CASE Retried
  BY <1>0, <1>23 DEF Retried
<1>24. CASE LastSave
  BY <1>0, <1>24 DEF LastSave
<1>25. CASE LastSaved
  BY <1>0, <1>25 DEF LastSaved
<1>26. CASE Summary
  BY <1>0, <1>26 DEF Summary
<1>27. CASE UserCancel
  BY <1>0, <1>27 DEF UserCancel
<1>28. CASE Watch
  BY <1>0, <1>28, ZenonT(30) DEF Watch, WatchStops, WatchFires, Stop
<1>29. CASE UNCHANGED vars
  BY <1>0, <1>29 DEF vars
<1>30. CASE Returned
  BY <1>29, <1>30 DEF Returned
<1> QED
  BY <1>1, <1>2, <1>3, <1>4, <1>5, <1>6, <1>7, <1>8, <1>9, <1>10, <1>11, <1>12, <1>13, <1>14, <1>15, <1>16, <1>17, <1>18, <1>19, <1>20, <1>21, <1>22, <1>23, <1>24, <1>25, <1>26, <1>27, <1>28, <1>29, <1>30 DEF Next, ThreadStep, GiveUp, MainStep

\* A goroutine that moves on, or ends, leaves the loop as it is.
LEMMA LoopGo ==
  ASSUME IInv, NEW f \in Files, thread[f] \notin Resting, NEW to,
         thread' = [thread EXCEPT ![f] = to],
         f = next => to = "done",
         mpc' = mpc, next' = next, attempts' = attempts, ctxDone => ctxDone'
  PROVE  LoopInv'
<1> USE BatchAssumption DEF LoopInv, OnFile, AllDone, Resting
<1>1. TypeOK /\ LoopInv /\ Files = 1 .. NumFiles
  BY DEF IInv, Files
<1>2. /\ mpc \notin AllDone
      /\ mpc = "retrying" =>
           attempts[f] = 2 /\ \A g \in Files \ {f} : thread[g] \in Resting
      /\ f < next \/ (f = next /\ SetAside(f) /\ thread[f] = "log" /\ attempts[f] = 0)
  BY Running
<1>3. /\ next \in Int
      /\ \A g \in Files : thread'[g] = IF g = f THEN to ELSE thread[g]
  BY <1>1 DEF TypeOK
<1>4. \A g \in Files : g > next => thread'[g] = "none"
  BY <1>1, <1>2, <1>3
<1>5. next \in Files /\ mpc \notin {"aside", "restlog"} => thread'[next] = "none"
  BY <1>1, <1>2, <1>3 DEF SetAside
<1>6. mpc \in {"aside", "restlog"} => thread'[next] \in {"log", "done"} /\ attempts[next] = 0
  BY <1>1, <1>2, <1>3
<1>7. mpc = "retrying" => \A g \in Files : thread'[g] \notin Resting =>
         attempts[g] = 2 /\ \A h \in Files \ {g} : thread'[h] \in Resting
  BY <1>1, <1>2, <1>3
<1> QED
  BY <1>1, <1>2, <1>4, <1>5, <1>6, <1>7

\* The loop passes every file once, in order, and what it has not come to is untouched.
LEMMA LoopStep == IInv /\ [Next]_vars => LoopInv'
<1> SUFFICES ASSUME IInv, [Next]_vars PROVE LoopInv'
  OBVIOUS
<1> USE BatchAssumption DEF LoopInv, loop, work, watch, books, Go, At, OnFile, AllDone, Resting,
        Retrying, ctxDone
<1>a. \A f \in Files : thread[f] \notin Resting =>
        /\ mpc \notin AllDone
        /\ mpc = "retrying" =>
             attempts[f] = 2 /\ \A g \in Files \ {f} : thread[g] \in Resting
        /\ f < next \/ (f = next /\ SetAside(f) /\ thread[f] = "log" /\ attempts[f] = 0)
  BY Running
<1>b. \A f \in Files : thread[f] = "start" => attempts[f] = 0
  BY DEF IInv, FilesInv, FileOK
<1>0. TypeOK /\ LoopInv /\ Files = 1 .. NumFiles
  BY DEF IInv, Files
<1>1. ASSUME NEW f \in Files, ConvStep(f) PROVE LoopInv'
  BY <1>0, <1>1 DEF TypeOK, ConvStep, ConvBegin, ConvWork, ConvCommit, Return
<1>2. ASSUME NEW f \in Files, ThreadStart(f) PROVE LoopInv'
  <2>0. thread[f] = "start" /\ UNCHANGED <<mpc, next, cause>>
    BY <1>2 DEF ThreadStart
  <2>1. thread[f] \notin Resting /\ attempts[f] = 0 /\ f # next
    <3>1. thread[f] \notin Resting /\ thread[f] # "log"
      BY <2>0
    <3> QED
      BY <1>0, <1>a, <1>b, <2>0, <3>1 DEF TypeOK
  <2>2. CASE thread' = [thread EXCEPT ![f] = "after"] /\ UNCHANGED attempts
    BY <2>0, <2>1, <2>2, LoopGo
  <2>3. CASE thread' = [thread EXCEPT ![f] = "await"] /\ attempts' = [attempts EXCEPT ![f] = 1]
    <3>1. mpc \notin AllDone \cup {"retrying"} /\ f <= next
      BY <1>0, <1>a, <2>0, <2>1 DEF TypeOK
    <3>2. /\ \A g \in Files \ {f} : thread'[g] = thread[g] /\ attempts'[g] = attempts[g]
          /\ thread'[f] = "await" /\ attempts'[f] = 1
      BY <1>0, <2>3 DEF TypeOK
    <3> QED
      BY <1>0, <2>0, <2>1, <3>1, <3>2 DEF TypeOK
  <2> QED
    BY <1>2, <2>2, <2>3 DEF ThreadStart
<1>3. ASSUME NEW f \in Files, Finish(f) PROVE LoopInv'
  BY <1>0, <1>a, <1>3 DEF TypeOK, Finish
<1>4. ASSUME NEW f \in Files, FinishRetry(f) PROVE LoopInv'
  <2>1. ASSUME NEW to, thread' = [thread EXCEPT ![f] = to] PROVE LoopInv'
    BY <1>0, <1>a, <1>4, <2>1, LoopGo DEF FinishRetry
  <2> QED
    BY <1>4, <2>1 DEF FinishRetry
<1>5. ASSUME NEW f \in Files, GiveUpConversion(f) PROVE LoopInv'
  BY <1>0, <1>5 DEF TypeOK, GiveUpConversion
<1>6. ASSUME NEW f \in Files, After(f) PROVE LoopInv'
  BY <1>0, <1>6 DEF TypeOK, After, Stop
<1>7. ASSUME NEW f \in Files, WriteLog(f) PROVE LoopInv'
  BY <1>0, <1>7 DEF TypeOK, WriteLog, AfterLog, SetAside
<1>8. ASSUME NEW f \in Files, GiveUpLog(f) PROVE LoopInv'
  BY <1>0, <1>8 DEF TypeOK, GiveUpLog, AfterLog, SetAside
<1>9. ASSUME NEW f \in Files, Record(f) PROVE LoopInv'
  <2>1. ASSUME NEW to, thread' = [thread EXCEPT ![f] = to] PROVE LoopInv'
    BY <1>0, <1>a, <1>9, <2>1, LoopGo DEF Record, Leave
  <2> QED
    BY <1>9, <2>1 DEF Record, Leave
<1>10. ASSUME NEW f \in Files, Recorded(f) PROVE LoopInv'
  BY <1>0, <1>10 DEF TypeOK, Recorded, Leave
<1>11. ASSUME NEW f \in Files, GiveUpRecord(f) PROVE LoopInv'
  BY <1>0, <1>11 DEF TypeOK, GiveUpRecord, Leave
<1>12. ASSUME NEW w \in Files \cup {Main}, TakeLock(w) PROVE LoopInv'
  BY <1>0, <1>12 DEF TypeOK, TakeLock
<1>13. ASSUME NEW w \in Files \cup {Main}, SaveManifest(w) PROVE LoopInv'
  BY <1>0, <1>13 DEF TypeOK, SaveManifest
<1>14. CASE Select
  BY <1>0, <1>14 DEF TypeOK, Select
<1>15. CASE Rest
  <2>1. CASE next > NumFiles /\ mpc' = "wait" /\ UNCHANGED <<thread, result>>
    BY <1>0, <1>15, <2>1 DEF TypeOK, Rest
  <2>2. CASE next <= NumFiles /\ mpc' = "restlog" /\ Go(next, "log")
    <3>1. next \in Files /\ \A g \in Files : thread'[g] = IF g = next THEN "log" ELSE thread[g]
      BY <1>0, <2>2 DEF TypeOK
    <3>2. attempts[next] = 0
      BY <1>0, <1>15, <3>1 DEF Rest, IInv, FilesInv, FileOK
    <3> QED
      BY <1>0, <1>15, <2>2, <3>1, <3>2 DEF TypeOK, Rest
  <2> QED
    BY <1>15, <2>1, <2>2 DEF Rest
<1>16. CASE RestLogged
  BY <1>0, <1>16 DEF TypeOK, RestLogged
<1>17. CASE Check
  BY <1>0, <1>17 DEF TypeOK, Check
<1>18. CASE Stale
  <2>1. CASE mpc' = "spawn" /\ UNCHANGED <<thread, result>>
    BY <1>0, <1>18, <2>1 DEF TypeOK, Stale
  <2>2. CASE mpc' = "aside" /\ Go(next, "log")
    <3>1. next \in Files /\ \A g \in Files : thread'[g] = IF g = next THEN "log" ELSE thread[g]
      BY <1>0, <1>18, <2>2 DEF TypeOK, Stale
    <3>2. attempts[next] = 0
      BY <1>0, <1>18, <3>1 DEF Stale, IInv, FilesInv, FileOK
    <3> QED
      BY <1>0, <1>18, <2>2, <3>1, <3>2 DEF TypeOK, Stale
  <2> QED
    BY <1>18, <2>1, <2>2 DEF Stale
<1>19. CASE Aside
  BY <1>0, <1>19 DEF TypeOK, Aside
<1>20. CASE Spawn
  BY <1>0, <1>20 DEF TypeOK, Spawn
<1>21. CASE WaitAll
  BY <1>0, <1>21 DEF TypeOK, WaitAll
<1>22. CASE Retry
  <2>1. CASE mpc' = "save" /\ UNCHANGED <<thread, conv, attempts>>
    BY <1>0, <1>22, <2>1 DEF TypeOK, Retry
  <2>2. CASE ~(mpc' = "save" /\ UNCHANGED <<thread, conv, attempts>>)
    <3>1. PICK f \in Again : /\ attempts' = [attempts EXCEPT ![f] = 2]
                             /\ thread' = [thread EXCEPT ![f] = "await"]
                             /\ mpc' = "retrying"
      BY <1>22, <2>2, FirstAgain DEF Retry
    <3>2. \A g \in Files : thread[g] \in Resting /\ f \in Files
      BY <1>0, <1>22, <3>1 DEF Retry, Again
    <3>3. /\ \A g \in Files : thread'[g] = IF g = f THEN "await" ELSE thread[g]
          /\ attempts'[f] = 2
      BY <1>0, <3>1, <3>2 DEF TypeOK
    <3>4. thread[f] # "none"
      BY <1>0, <3>1, <3>2 DEF Again, IInv, FilesInv, FileOK
    <3>5. f < next /\ next \in Int /\ next' = next
      BY <1>0, <1>22, <3>1, <3>2, <3>4 DEF TypeOK, Retry
    <3>6. \A g \in Files : thread'[g] \notin Resting => g = f
      BY <3>2, <3>3
    <3>7. \A g \in Files : g > next => thread'[g] = "none"
      BY <1>0, <3>3, <3>5
    <3>8. next \in Files => thread'[next] = "none"
      BY <1>0, <1>22, <3>3, <3>5 DEF Retry
    <3> QED
      BY <3>1, <3>2, <3>3, <3>5, <3>6, <3>7, <3>8
  <2> QED
    BY <2>1, <2>2
<1>23. CASE Retried
  BY <1>0, <1>23 DEF TypeOK, Retried
<1>24. CASE LastSave
  BY <1>0, <1>24 DEF TypeOK, LastSave
<1>25. CASE LastSaved
  BY <1>0, <1>25 DEF TypeOK, LastSaved
<1>26. CASE Summary
  BY <1>0, <1>26 DEF TypeOK, Summary
<1>27. CASE UserCancel
  BY <1>0, <1>27 DEF TypeOK, UserCancel
<1>28. CASE Watch
  BY <1>0, <1>28 DEF TypeOK, Watch, WatchStops, WatchFires, Stop
<1>29. CASE Returned \/ UNCHANGED vars
  BY <1>0, <1>29 DEF TypeOK, Returned, vars
<1> QED
  BY <1>1, <1>2, <1>3, <1>4, <1>5, <1>6, <1>7, <1>8, <1>9, <1>10, <1>11, <1>12, <1>13, <1>14, <1>15, <1>16, <1>17, <1>18, <1>19, <1>20, <1>21, <1>22, <1>23, <1>24, <1>25, <1>26, <1>27, <1>28, <1>29 DEF Next, ThreadStep, GiveUp, MainStep

\* A slot is taken for each goroutine the loop starts and comes back when it ends.
LEMMA SlotStep == IInv /\ [Next]_vars => SlotInv'
<1> SUFFICES ASSUME IInv, [Next]_vars PROVE SlotInv'
  OBVIOUS
<1> USE BatchAssumption DEF loop, work, watch, books, Go, At, Resting, Retrying
<1>0. TypeOK /\ LoopInv /\ SlotInv /\ Files = 1 .. NumFiles
  BY DEF IInv, Files
<1>a. \A f \in Files : thread[f] \notin Resting =>
        f < next \/ (f = next /\ SetAside(f) /\ thread[f] = "log" /\ attempts[f] = 0)
  BY Running
<1>b. \A f \in Files : thread[f] = "start" => attempts[f] = 0
  BY DEF IInv, FilesInv, FileOK
<1>c. slots' = slots /\ Holders' = Holders => SlotInv'
  BY <1>0 DEF SlotInv
<1>d. ASSUME NEW f \in Files, thread[f] \in {"record", "recording"}, Leave(f),
             next' = next, attempts' = attempts
      PROVE  SlotInv'
  <2>1. f < next /\ (attempts[f] # 2 => f \in Holders /\ slots >= 1)
    BY <1>d, HeldSlot
  <2>2. \A g \in Files : thread'[g] = IF g = f THEN "done" ELSE thread[g]
    BY <1>0, <1>d DEF TypeOK, Leave
  <2>3. CASE attempts[f] = 2
    <3>1. Holders' = Holders
      BY <1>d, <2>2, <2>3 DEF Holders
    <3> QED
      BY <1>c, <1>d, <2>3, <3>1 DEF Leave
  <2>4. CASE attempts[f] # 2
    <3>1. Holders' = Holders \ {f}
      BY <1>d, <2>2 DEF Holders
    <3>2. Cardinality(Holders \ {f}) = Cardinality(Holders) - 1
      BY <2>1, <2>4, SetsFinite, FS_RemoveElement
    <3> QED
      BY <1>0, <1>d, <2>4, <3>1, <3>2 DEF Leave, SlotInv
  <2> QED
    BY <2>3, <2>4
<1>e. ASSUME NEW f \in Files, thread[f] \notin Resting, f < next,
             NEW to, to \notin Resting, thread' = [thread EXCEPT ![f] = to],
             next' = next, slots' = slots,
             attempts' = attempts \/ (attempts[f] # 2 /\ attempts' = [attempts EXCEPT ![f] = 1])
      PROVE  SlotInv'
  <2>1. \A g \in Files : thread'[g] = IF g = f THEN to ELSE thread[g]
    BY <1>0, <1>e DEF TypeOK
  <2>2. \A g \in Files : attempts'[g] = 2 <=> attempts[g] = 2
    BY <1>0, <1>e DEF TypeOK
  <2>3. Holders' = Holders
    BY <1>e, <2>1, <2>2 DEF Holders
  <2> QED
    BY <1>c, <1>e, <2>3
<1>f. ASSUME next' = next, slots' = slots, attempts' = attempts,
             NEW f \in Files, NEW to, thread' = [thread EXCEPT ![f] = to], 
             attempts[f] = 2 \/ ~(f < next)
      PROVE  SlotInv'
  <2>1. \A g \in Files : thread'[g] = IF g = f THEN to ELSE thread[g]
    BY <1>0, <1>f DEF TypeOK
  <2>2. Holders' = Holders
    BY <1>f, <2>1 DEF Holders
  <2> QED
    BY <1>c, <1>f, <2>2
<1>g. ASSUME next \in Files, next' = next + 1, slots' = slots, thread' = thread, attempts' = attempts,
             thread[next] = "done"
      PROVE  SlotInv'
  <2>1. Holders' = Holders
    BY <1>0, <1>g DEF Holders, TypeOK
  <2> QED
    BY <1>c, <1>g, <2>1
<1>h. next' = next /\ slots' = slots /\ thread' = thread /\ attempts' = attempts => SlotInv'
  BY <1>c DEF Holders
<1>1. ASSUME NEW f \in Files, ConvStep(f) PROVE SlotInv'
  BY <1>h, <1>1 DEF ConvStep, ConvBegin, ConvWork, ConvCommit, Return
<1>2. ASSUME NEW f \in Files, ThreadStart(f) PROVE SlotInv'
  BY <1>a, <1>b, <1>e, <1>2 DEF ThreadStart
<1>3. ASSUME NEW f \in Files, Finish(f) PROVE SlotInv'
  BY <1>a, <1>e, <1>3 DEF Finish
<1>4. ASSUME NEW f \in Files, FinishRetry(f) PROVE SlotInv'
  BY <1>f, <1>4 DEF FinishRetry
<1>5. ASSUME NEW f \in Files, GiveUpConversion(f) PROVE SlotInv'
  BY <1>a, <1>e, <1>5 DEF GiveUpConversion
<1>6. ASSUME NEW f \in Files, After(f) PROVE SlotInv'
  BY <1>a, <1>e, <1>6 DEF After
<1>7. ASSUME NEW f \in Files, WriteLog(f) PROVE SlotInv'
  <2>1. CASE f < next
    <3>1. AfterLog(f) = "record"
      BY <1>0, <2>1 DEF AfterLog, SetAside, TypeOK
    <3> QED
      BY <1>e, <1>7, <2>1, <3>1 DEF WriteLog
  <2>2. CASE ~(f < next)
    BY <1>f, <1>7, <2>2 DEF WriteLog
  <2> QED
    BY <2>1, <2>2
<1>8. ASSUME NEW f \in Files, GiveUpLog(f) PROVE SlotInv'
  <2>1. CASE f < next
    <3>1. AfterLog(f) = "record"
      BY <1>0, <2>1 DEF AfterLog, SetAside, TypeOK
    <3> QED
      BY <1>e, <1>8, <2>1, <3>1 DEF GiveUpLog
  <2>2. CASE ~(f < next)
    BY <1>f, <1>8, <2>2 DEF GiveUpLog
  <2> QED
    BY <2>1, <2>2
<1>9. ASSUME NEW f \in Files, Record(f) PROVE SlotInv'
  <2>1. CASE Leave(f)
    BY <1>d, <1>9, <2>1 DEF Record
  <2>2. CASE Go(f, "recording") /\ UNCHANGED slots
    BY <1>a, <1>e, <1>9, <2>2 DEF Record
  <2> QED
    BY <1>9, <2>1, <2>2 DEF Record
<1>10. ASSUME NEW f \in Files, Recorded(f) PROVE SlotInv'
  BY <1>d, <1>10 DEF Recorded, books
<1>11. ASSUME NEW f \in Files, GiveUpRecord(f) PROVE SlotInv'
  BY <1>d, <1>11 DEF GiveUpRecord, books
<1>12. ASSUME NEW w \in Files \cup {Main}, TakeLock(w) PROVE SlotInv'
  BY <1>h, <1>12 DEF TakeLock
<1>13. ASSUME NEW w \in Files \cup {Main}, SaveManifest(w) PROVE SlotInv'
  BY <1>h, <1>13 DEF SaveManifest
<1>14. CASE Select
  BY <1>h, <1>14 DEF Select
<1>15. CASE Rest
  <2>1. CASE thread' = thread
    BY <1>h, <1>15, <2>1 DEF Rest
  <2>2. CASE next \in Files /\ Go(next, "log")
    <3>1. ~(next < next)
      BY <1>0 DEF TypeOK
    <3> QED
      BY <1>f, <1>15, <2>2, <3>1 DEF Rest
  <2> QED
    BY <1>0, <1>15, <2>1, <2>2 DEF Rest, TypeOK, LoopInv, OnFile
<1>16. CASE RestLogged
  BY <1>0, <1>g, <1>16 DEF RestLogged, TypeOK, LoopInv, OnFile
<1>17. CASE Check
  BY <1>h, <1>17 DEF Check
<1>18. CASE Stale
  <2>1. CASE thread' = thread
    BY <1>h, <1>18, <2>1 DEF Stale
  <2>2. CASE next \in Files /\ Go(next, "log")
    <3>1. ~(next < next)
      BY <1>0 DEF TypeOK
    <3> QED
      BY <1>f, <1>18, <2>2, <3>1 DEF Stale
  <2> QED
    BY <1>0, <1>18, <2>1, <2>2 DEF Stale, TypeOK, LoopInv, OnFile
<1>19. CASE Aside
  BY <1>0, <1>g, <1>19 DEF Aside, TypeOK, LoopInv, OnFile
<1>20. CASE Spawn
  <2>1. next \in Files /\ thread[next] = "none"
    BY <1>0, <1>20 DEF Spawn, TypeOK, LoopInv, OnFile
  <2>2. attempts[next] = 0
    BY <2>1 DEF IInv, FilesInv, FileOK
  <2>3. \A g \in Files : thread'[g] = IF g = next THEN "start" ELSE thread[g]
    BY <1>0, <1>20 DEF Spawn, TypeOK
  <2>4. Holders' = Holders \cup {next}
    BY <1>0, <1>20, <2>1, <2>2, <2>3 DEF Spawn, Holders, TypeOK
  <2>5. next \notin Holders
    BY <1>0 DEF Holders, TypeOK
  <2>6. Cardinality(Holders \cup {next}) = Cardinality(Holders) + 1
    BY <2>5, SetsFinite, FS_AddElement
  <2> QED
    BY <1>0, <1>20, <2>4, <2>6 DEF Spawn, SlotInv
<1>21. CASE WaitAll
  BY <1>h, <1>21 DEF WaitAll
<1>22. CASE Retry
  <2>1. CASE thread' = thread /\ attempts' = attempts
    BY <1>h, <1>22, <2>1 DEF Retry
  <2>2. CASE ~(thread' = thread /\ attempts' = attempts)
    <3>1. PICK f \in Again : /\ attempts' = [attempts EXCEPT ![f] = 2]
                             /\ thread' = [thread EXCEPT ![f] = "await"]
      BY <1>22, <2>2, FirstAgain DEF Retry
    <3>2. thread[f] \in Resting /\ f \in Files
      BY <1>0, <1>22, <3>1 DEF Retry, Again, LoopInv, AllDone
    <3>3. /\ \A g \in Files : thread'[g] = IF g = f THEN "await" ELSE thread[g]
          /\ \A g \in Files : attempts'[g] = IF g = f THEN 2 ELSE attempts[g]
      BY <1>0, <3>1 DEF TypeOK
    <3>4. Holders' = Holders
      BY <1>22, <3>2, <3>3 DEF Holders, Retry
    <3> QED
      BY <1>c, <1>22, <3>4 DEF Retry
  <2> QED
    BY <2>1, <2>2
<1>23. CASE Retried
  BY <1>h, <1>23 DEF Retried
<1>24. CASE LastSave
  BY <1>h, <1>24 DEF LastSave
<1>25. CASE LastSaved
  BY <1>h, <1>25 DEF LastSaved
<1>26. CASE Summary
  BY <1>h, <1>26 DEF Summary
<1>27. CASE UserCancel
  BY <1>h, <1>27 DEF UserCancel
<1>28. CASE Watch
  BY <1>h, <1>28 DEF Watch, WatchStops, WatchFires
<1>29. CASE Returned \/ UNCHANGED vars
  BY <1>h, <1>29 DEF Returned, vars
<1> QED
  BY <1>1, <1>2, <1>3, <1>4, <1>5, <1>6, <1>7, <1>8, <1>9, <1>10, <1>11, <1>12, <1>13, <1>14, <1>15, <1>16, <1>17, <1>18, <1>19, <1>20, <1>21, <1>22, <1>23, <1>24, <1>25, <1>26, <1>27, <1>28, <1>29 DEF Next, ThreadStep, GiveUp, MainStep

\* What stopped the batch never reads as an answer of a conversion.
LEMMA StoppedErrs == StoppedErr \in {"stopped", "stalled", "canceled"}
BY DEF StoppedErr

\* The goroutine of each file and its conversion stay in step, and the result tells
\* what the conversion returned.
LEMMA FilesStep == IInv /\ [Next]_vars => FilesInv'
<1> SUFFICES ASSUME IInv, [Next]_vars, NEW g \in Files PROVE FileOK(g)'
  BY DEF FilesInv, Files
<1> USE DEF loop, work, watch, books, Go, At, Resting, Retrying, FileOK
<1>0. TypeOK /\ FileOK(g)
  BY DEF IInv, FilesInv
<1>a. next \in Files /\ mpc \notin {"aside", "restlog"} => thread[next] = "none"
  BY DEF IInv, LoopInv
<1>b. mpc \in OnFile \ {"aside", "restlog"} => next \in Files
  BY BatchAssumption DEF IInv, TypeOK, LoopInv, OnFile, Files
<1>1. ASSUME NEW f \in Files, ConvStep(f) PROVE FileOK(g)'
  <2>1. CASE ConvBegin(f)
    BY <1>0, <2>1, StoppedErrs DEF TypeOK, ConvBegin, Return
  <2>2. CASE ConvWork(f)
    BY <1>0, <2>2, StoppedErrs DEF TypeOK, ConvWork, Return
  <2>3. CASE ConvCommit(f)
    BY <1>0, <2>3 DEF TypeOK, ConvCommit, Return
  <2> QED
    BY <1>1, <2>1, <2>2, <2>3 DEF ConvStep
<1>2. ASSUME NEW f \in Files, ThreadStart(f) PROVE FileOK(g)'
  BY <1>0, StoppedErrs, <1>2 DEF TypeOK, ThreadStart
<1>3. ASSUME NEW f \in Files, Finish(f) PROVE FileOK(g)'
  BY <1>0, <1>3 DEF TypeOK, Finish, Kept, Errors
<1>4. ASSUME NEW f \in Files, FinishRetry(f) PROVE FileOK(g)'
  BY <1>0, <1>4 DEF TypeOK, FinishRetry, Kept, Errors
<1>5. ASSUME NEW f \in Files, GiveUpConversion(f) PROVE FileOK(g)'
  BY <1>0, <1>5 DEF TypeOK, GiveUpConversion
<1>6. ASSUME NEW f \in Files, After(f) PROVE FileOK(g)'
  BY <1>0, <1>6 DEF TypeOK, After, Stop
<1>7. ASSUME NEW f \in Files, WriteLog(f) PROVE FileOK(g)'
  BY <1>0, <1>7 DEF TypeOK, WriteLog, AfterLog
<1>8. ASSUME NEW f \in Files, GiveUpLog(f) PROVE FileOK(g)'
  BY <1>0, <1>8 DEF TypeOK, GiveUpLog, AfterLog
<1>9. ASSUME NEW f \in Files, Record(f) PROVE FileOK(g)'
  BY <1>0, <1>9 DEF TypeOK, Record, Leave
<1>10. ASSUME NEW f \in Files, Recorded(f) PROVE FileOK(g)'
  BY <1>0, <1>10 DEF TypeOK, Recorded, Leave
<1>11. ASSUME NEW f \in Files, GiveUpRecord(f) PROVE FileOK(g)'
  BY <1>0, <1>11 DEF TypeOK, GiveUpRecord, Leave
<1>12. ASSUME NEW w \in Files \cup {Main}, TakeLock(w) PROVE FileOK(g)'
  BY <1>0, <1>12 DEF TypeOK, TakeLock
<1>13. ASSUME NEW w \in Files \cup {Main}, SaveManifest(w) PROVE FileOK(g)'
  BY <1>0, <1>13 DEF TypeOK, SaveManifest
<1>14. CASE Select
  BY <1>0, <1>14 DEF TypeOK, Select
<1>15. CASE Rest
  BY <1>0, <1>a, <1>b, StoppedErrs, <1>15 DEF TypeOK, Rest, OnFile
<1>16. CASE RestLogged
  BY <1>0, <1>16 DEF TypeOK, RestLogged
<1>17. CASE Check
  BY <1>0, <1>17 DEF TypeOK, Check
<1>18. CASE Stale
  BY <1>0, <1>a, <1>b, <1>18 DEF TypeOK, Stale, OnFile
<1>19. CASE Aside
  BY <1>0, <1>19 DEF TypeOK, Aside
<1>20. CASE Spawn
  BY <1>0, <1>a, <1>b, <1>20 DEF TypeOK, Spawn, OnFile
<1>21. CASE WaitAll
  BY <1>0, <1>21 DEF TypeOK, WaitAll
<1>22. CASE Retry
  BY <1>0, FirstAgain, <1>22 DEF TypeOK, Retry, Again
<1>23. CASE Retried
  BY <1>0, <1>23 DEF TypeOK, Retried
<1>24. CASE LastSave
  BY <1>0, <1>24 DEF TypeOK, LastSave
<1>25. CASE LastSaved
  BY <1>0, <1>25 DEF TypeOK, LastSaved
<1>26. CASE Summary
  BY <1>0, <1>26 DEF TypeOK, Summary
<1>27. CASE UserCancel
  BY <1>0, <1>27 DEF TypeOK, UserCancel
<1>28. CASE Watch
  BY <1>0, <1>28 DEF TypeOK, Watch, WatchStops, WatchFires, Stop
<1>29. CASE Returned \/ UNCHANGED vars
  BY <1>0, <1>29 DEF TypeOK, Returned, vars
<1> QED
  BY <1>1, <1>2, <1>3, <1>4, <1>5, <1>6, <1>7, <1>8, <1>9, <1>10, <1>11, <1>12, <1>13, <1>14, <1>15, <1>16, <1>17, <1>18, <1>19, <1>20, <1>21, <1>22, <1>23, <1>24, <1>25, <1>26, <1>27, <1>28, <1>29 DEF Next, ThreadStep, GiveUp, MainStep

\* A result other than a failed read is final: no conversion of that file is begun
\* again.
LEMMA FinalOutcome ==
  ASSUME IInv, [Next]_vars, NEW f \in Files, outcome[f] \notin {"none", "readfail"}
  PROVE  outcome'[f] = outcome[f]
<1> USE DEF loop, work, watch, books
<1>1. outcome \in [Files -> Results] /\ (conv[f] # "done" => outcome[f] \in {"none", "readfail"})
  BY DEF IInv, TypeOK, FilesInv, FileOK
<1>2. ASSUME NEW g \in Files, ConvStep(g) PROVE outcome'[f] = outcome[f]
  BY <1>1, <1>2 DEF ConvStep, ConvBegin, ConvWork, ConvCommit, Return
<1>3. ASSUME NEW g \in Files, ThreadStep(g) \/ GiveUp(g) \/ WriteLog(g)
      PROVE  outcome' = outcome
  BY <1>3 DEF ThreadStep, ThreadStart, Finish, FinishRetry, After, Record, Recorded,
       GiveUp, GiveUpConversion, GiveUpLog, GiveUpRecord, WriteLog
<1>4. ASSUME NEW w \in Files \cup {Main}, TakeLock(w) \/ SaveManifest(w)
      PROVE  outcome' = outcome
  BY <1>4 DEF TakeLock, SaveManifest
<1>5. MainStep => outcome' = outcome
  BY DEF MainStep, Select, Rest, RestLogged, Check, Stale, Aside, Spawn, WaitAll, Retry,
       Retried, LastSave, LastSaved, Summary
<1>6. UserCancel \/ Watch \/ Returned \/ UNCHANGED vars => outcome' = outcome
  BY DEF UserCancel, Watch, WatchStops, WatchFires, Returned, vars
<1> QED
  BY <1>2, <1>3, <1>4, <1>5, <1>6 DEF Next

\* What stopped the batch stays what it was, and every file it stopped is named after it.
LEMMA CauseStep == IInv /\ [Next]_vars => CauseInv'
<1> SUFFICES ASSUME IInv, [Next]_vars PROVE CauseInv'
  OBVIOUS
<1> USE DEF loop, work, watch, books, Go, At, Resting, Retrying, CauseInv, CauseOK, ctxDone
<1>0. TypeOK /\ CauseInv
  BY DEF IInv
<1>a. \A f \in Files : outcome[f] = "lost" => outcome'[f] = "lost"
  BY FinalOutcome
<1>b. (cause = "lost") \/ (cause' # "lost") => (cause' = "lost" => \E f \in Files : outcome'[f] = "lost")
  BY <1>0, <1>a
<1>c. ctxDone => /\ StoppedErr = "canceled" => cause = "user"
                 /\ StoppedErr = "stopped" => cause = "lost"
                 /\ StoppedErr \in {"stopped", "stalled", "canceled"}
  BY <1>0 DEF StoppedErr, TypeOK
<1>d. mpc = "rest" => ctxDone
  BY DEF IInv, LoopInv
<1>e. \A f \in Files : result[f] = "lost" => outcome[f] = "lost"
  BY DEF IInv, FilesInv, FileOK
<1>1. ASSUME NEW f \in Files, ConvStep(f) PROVE CauseInv'
  <2>1. CASE ConvBegin(f)
    BY <1>0, <1>b, <1>c, <2>1 DEF TypeOK, ConvBegin, Return
  <2>2. CASE ConvWork(f)
    BY <1>0, <1>b, <1>c, <2>2 DEF TypeOK, ConvWork, Return
  <2>3. CASE ConvCommit(f)
    BY <1>0, <1>b, <2>3 DEF TypeOK, ConvCommit, Return
  <2> QED
    BY <1>1, <2>1, <2>2, <2>3 DEF ConvStep
<1>2. ASSUME NEW f \in Files, ThreadStart(f) PROVE CauseInv'
  BY <1>0, <1>b, <1>c, <1>2 DEF TypeOK, ThreadStart
<1>3. ASSUME NEW f \in Files, Finish(f) PROVE CauseInv'
  BY <1>0, <1>b, <1>3 DEF TypeOK, Finish, Kept
<1>4. ASSUME NEW f \in Files, FinishRetry(f) PROVE CauseInv'
  BY <1>0, <1>b, <1>4 DEF TypeOK, FinishRetry, Kept
<1>5. ASSUME NEW f \in Files, GiveUpConversion(f) PROVE CauseInv'
  BY <1>0, <1>b, <1>5 DEF TypeOK, GiveUpConversion
<1>6. ASSUME NEW f \in Files, After(f) PROVE CauseInv'
  BY <1>0, <1>b, <1>e, <1>6 DEF TypeOK, After, Stop
<1>7. ASSUME NEW f \in Files, WriteLog(f) PROVE CauseInv'
  BY <1>0, <1>7 DEF TypeOK, WriteLog
<1>8. ASSUME NEW f \in Files, GiveUpLog(f) PROVE CauseInv'
  BY <1>0, <1>8 DEF TypeOK, GiveUpLog
<1>9. ASSUME NEW f \in Files, Record(f) PROVE CauseInv'
  BY <1>0, <1>9 DEF TypeOK, Record, Leave
<1>10. ASSUME NEW f \in Files, Recorded(f) PROVE CauseInv'
  BY <1>0, <1>10 DEF TypeOK, Recorded, Leave
<1>11. ASSUME NEW f \in Files, GiveUpRecord(f) PROVE CauseInv'
  BY <1>0, <1>11 DEF TypeOK, GiveUpRecord, Leave
<1>12. ASSUME NEW w \in Files \cup {Main}, TakeLock(w) PROVE CauseInv'
  BY <1>0, <1>12 DEF TypeOK, TakeLock
<1>13. ASSUME NEW w \in Files \cup {Main}, SaveManifest(w) PROVE CauseInv'
  BY <1>0, <1>13 DEF TypeOK, SaveManifest
<1>14. CASE Select
  BY <1>0, <1>14 DEF TypeOK, Select
<1>15. CASE Rest
  BY <1>0, <1>b, <1>c, <1>d, <1>15 DEF TypeOK, Rest
<1>16. CASE RestLogged
  BY <1>0, <1>16 DEF TypeOK, RestLogged
<1>17. CASE Check
  BY <1>0, <1>17 DEF TypeOK, Check
<1>18. CASE Stale
  BY <1>0, <1>18 DEF TypeOK, Stale
<1>19. CASE Aside
  BY <1>0, <1>19 DEF TypeOK, Aside
<1>20. CASE Spawn
  BY <1>0, <1>20 DEF TypeOK, Spawn
<1>21. CASE WaitAll
  BY <1>0, <1>21 DEF TypeOK, WaitAll
<1>22. CASE Retry
  BY <1>0, <1>22 DEF TypeOK, Retry
<1>23. CASE Retried
  BY <1>0, <1>23 DEF TypeOK, Retried
<1>24. CASE LastSave
  BY <1>0, <1>24 DEF TypeOK, LastSave
<1>25. CASE LastSaved
  BY <1>0, <1>25 DEF TypeOK, LastSaved
<1>26. CASE Summary
  BY <1>0, <1>26 DEF TypeOK, Summary
<1>27. CASE UserCancel
  BY <1>0, <1>27 DEF TypeOK, UserCancel
<1>28. CASE Watch
  BY <1>0, <1>b, <1>28 DEF TypeOK, Watch, WatchStops, WatchFires, Stop
<1>29. CASE Returned \/ UNCHANGED vars
  BY <1>0, <1>29 DEF TypeOK, Returned, vars
<1> QED
  BY <1>1, <1>2, <1>3, <1>4, <1>5, <1>6, <1>7, <1>8, <1>9, <1>10, <1>11, <1>12, <1>13, <1>14, <1>15, <1>16, <1>17, <1>18, <1>19, <1>20, <1>21, <1>22, <1>23, <1>24, <1>25, <1>26, <1>27, <1>28, <1>29 DEF Next, ThreadStep, GiveUp, MainStep

\* A batch that has been stopped stays stopped.
LEMMA StaysDone ==
  ASSUME IInv, [Next]_vars, ctxDone
  PROVE  ctxDone'
<1> USE DEF loop, work, watch, books, ctxDone
<1>1. ASSUME NEW f \in Files, ConvStep(f) PROVE ctxDone'
  BY <1>1 DEF ConvStep, ConvBegin, ConvWork, ConvCommit
<1>2. ASSUME NEW f \in Files, ThreadStep(f) \/ GiveUp(f) \/ WriteLog(f) PROVE ctxDone'
  BY <1>2 DEF ThreadStep, ThreadStart, Finish, FinishRetry, After, Stop, Record, Recorded,
       GiveUp, GiveUpConversion, GiveUpLog, GiveUpRecord, WriteLog
<1>3. ASSUME NEW w \in Files \cup {Main}, TakeLock(w) \/ SaveManifest(w) PROVE ctxDone'
  BY <1>3 DEF TakeLock, SaveManifest
<1>4. MainStep => ctxDone'
  BY DEF MainStep, Select, Rest, RestLogged, Check, Stale, Aside, Spawn, WaitAll, Retry,
       Retried, LastSave, LastSaved, Summary
<1>5. UserCancel \/ Watch \/ Returned \/ UNCHANGED vars => ctxDone'
  BY DEF UserCancel, Watch, WatchStops, WatchFires, Stop, Returned, vars
<1> QED
  BY <1>1, <1>2, <1>3, <1>4, <1>5 DEF Next

\* Nobody comes to the commit once the batch has been stopped.
LEMMA NoNewLosers ==
  ASSUME IInv, [Next]_vars, ctxDone \/ ctxDone'
  PROVE  Losers' \subseteq Losers
<1> SUFFICES ASSUME NEW g \in Files, g \in Losers' PROVE g \in Losers
  BY DEF Losers, Files
<1> USE DEF loop, work, watch, books, Losers
<1>1. TypeOK
  BY DEF IInv
<1>2. ASSUME NEW f \in Files, ConvStep(f) PROVE g \in Losers
  BY <1>1, <1>2 DEF TypeOK, ConvStep, ConvBegin, ConvWork, ConvCommit, Return, StoppedErr, ctxDone
<1>3. ASSUME NEW f \in Files, ThreadStep(f) \/ GiveUp(f) \/ WriteLog(f) PROVE g \in Losers
  BY <1>1, <1>3 DEF TypeOK, ThreadStep, ThreadStart, Finish, FinishRetry, After, Record, Recorded,
       GiveUp, GiveUpConversion, GiveUpLog, GiveUpRecord, WriteLog
<1>4. ASSUME NEW w \in Files \cup {Main}, TakeLock(w) \/ SaveManifest(w) PROVE g \in Losers
  BY <1>4 DEF TakeLock, SaveManifest
<1>5. CASE Retry
  <2>1. conv' = conv \/ \E f \in Files : conv' = [conv EXCEPT ![f] = "begin"]
    BY <1>5, FirstAgain DEF Retry, Again
  <2> QED
    BY <1>1, <1>5, <2>1 DEF TypeOK, Retry
<1>6. MainStep /\ ~Retry => g \in Losers
  BY DEF MainStep, Select, Rest, RestLogged, Check, Stale, Aside, Spawn, WaitAll,
       Retried, LastSave, LastSaved, Summary
<1>7. UserCancel \/ Watch \/ Returned \/ UNCHANGED vars => g \in Losers
  BY DEF UserCancel, Watch, WatchStops, WatchFires, Returned, vars
<1> QED
  BY <1>2, <1>3, <1>4, <1>5, <1>6, <1>7 DEF Next, MainStep

\* While the batch runs on, those that may lose their output hold the slots, or there is
\* only the retry. (Of the state after a step.)
LEMMA FewLosers ==
  ASSUME (TypeOK /\ LoopInv /\ SlotInv)', (\A f \in Losers : LoserOK(f))'
  PROVE  (Cardinality(Losers) <= FileWorkers)'
<1> USE BatchAssumption
<1>0. IsFiniteSet(Files)
  BY FS_Interval DEF Files
<1>1. CASE \E f \in Losers' : attempts'[f] = 2
  <2>1. PICK f \in Losers' : attempts'[f] = 2
    BY <1>1
  <2>2. Losers' \subseteq {f}
    BY <2>1 DEF LoserOK, Losers
  <2>3. IsFiniteSet({f}) /\ Cardinality({f}) = 1
    BY FS_Singleton
  <2>4. IsFiniteSet(Losers') /\ Cardinality(Losers') <= 1
    BY <2>2, <2>3, FS_Subset
  <2>5. Cardinality(Losers') \in Nat
    BY <2>4, FS_CardinalityType
  <2> QED
    BY <2>4, <2>5
<1>2. CASE \A f \in Losers' : attempts'[f] # 2
  <2>1. ASSUME NEW f \in Losers' PROVE f \in Holders'
    <3>1. f \in Files /\ thread'[f] \in {"await", "after"}
      BY <1>2, <2>1 DEF LoserOK, Losers
    <3>2. f \in Int /\ next' \in Int
      BY <3>1 DEF TypeOK, Files
    <3>3. f < next'
      BY <3>1, <3>2 DEF LoopInv
    <3> QED
      BY <1>2, <2>1, <3>1, <3>3 DEF Holders, Resting
  <2>2. IsFiniteSet(Holders')
    BY <1>0, FS_Subset DEF Holders, Files
  <2>3. IsFiniteSet(Losers') /\ Cardinality(Losers') <= Cardinality(Holders')
    BY <2>1, <2>2, FS_Subset
  <2>4. Cardinality(Losers') \in Nat
    BY <2>3, FS_CardinalityType
  <2> QED
    BY <2>3, <2>4 DEF SlotInv, TypeOK
<1> QED
  BY <1>1, <1>2

\* Each of those that may lose their output holds its slot, or is the only one, until
\* the batch is stopped.
LEMMA LosersHold ==
  ASSUME IInv, [Next]_vars, ~ctxDone, ~ctxDone'
  PROVE  \A g \in Losers' : LoserOK(g)'
<1> SUFFICES ASSUME NEW g \in Files, g \in Losers' PROVE LoserOK(g)'
  BY DEF Losers, Files
<1> USE BatchAssumption DEF loop, work, watch, books, Go, At, Resting, Retrying
<1>0. TypeOK /\ LoopInv /\ (g \in Losers => LoserOK(g))
  BY DEF IInv, LossInv
<1>1. \A f \in Files : thread[f] \notin Resting =>
        \A h \in Losers \ {f} : attempts[h] # 2 /\ thread[h] \in {"await", "after"}
  BY DEF IInv, LossInv, LoserOK, Losers
<1>2. ~fired /\ stuck = Nobody /\ \A f \in Files : result[f] # "stalled" /\ outcome[f] # "stalled"
  BY DEF IInv, CauseInv, CauseOK
<1>3. \A f \in Files : FileOK(f)
  BY DEF IInv, FilesInv
<1>4. (\A f \in Files : thread[f] \in Resting) => \A h \in Losers : attempts[h] = 2 /\ result[h] = "lost"
  BY DEF IInv, LossInv, LoserOK, Losers
<1>5. ASSUME NEW f \in Files, thread[f] \notin Resting, f # g, g \in Losers,
             thread'[g] = thread[g], attempts'[g] = attempts[g]
      PROVE  LoserOK(g)'
  BY <1>1, <1>5 DEF LoserOK
<1>6. conv' = conv /\ outcome' = outcome => Losers' = Losers
  BY DEF Losers
<1>7. ASSUME g \in Losers, Losers' \subseteq Losers, thread' = thread, attempts' = attempts,
             result' = result, mpc' = mpc \/ mpc' # "retry"
      PROVE  LoserOK(g)'
  BY <1>0, <1>7 DEF LoserOK
<1>8. ASSUME NEW f \in Files, thread[f] \notin Resting, NEW to,
             thread' = [thread EXCEPT ![f] = to], conv' = conv, outcome' = outcome,
             attempts' = attempts, mpc' = mpc, result'[f] = "lost" \/ result' = result,
             f = g => attempts[f] = 2 /\ result'[f] = "lost"
      PROVE  LoserOK(g)'
  <2>1. CASE f = g
    <3>1. \A h \in Files \ {g} : thread'[h] = thread[h] /\ thread[h] \in Resting
      BY <1>0, <1>8, <2>1, Running DEF TypeOK
    <3>2. mpc # "retry"
      BY <1>8, Running DEF AllDone
    <3> QED
      BY <1>0, <1>6, <1>8, <2>1, <3>1, <3>2 DEF LoserOK
  <2>2. CASE f # g
    BY <1>0, <1>5, <1>6, <1>8, <2>2 DEF TypeOK
  <2> QED
    BY <2>1, <2>2
<1>9. ASSUME NEW f \in Files, thread[f] \in {"log", "record", "recording"}, f \in Losers
      PROVE  attempts[f] = 2 /\ result[f] = "lost"
  BY <1>9 DEF IInv, LossInv, LoserOK
<1>10. ASSUME NEW f \in Files, f \in Losers, \A h \in Files : thread[h] \in Resting,
              mpc \in {"wait", "retry"}
       PROVE  FALSE
  BY <1>0, <1>4, <1>10 DEF IInv, LossInv, LoserOK, LoopInv, AllDone
<1>11. ASSUME NEW f \in Files, ConvStep(f) PROVE LoserOK(g)'
  <2>1. CASE Losers' \subseteq Losers
    BY <1>7, <1>11, <2>1 DEF ConvStep, ConvBegin, ConvWork, ConvCommit
  <2>2. CASE conv[f] = "work" /\ conv' = [conv EXCEPT ![f] = "commit"] /\ UNCHANGED outcome
    <3>1. thread[f] = "await"
      BY <1>2, <1>3, <2>2 DEF FileOK
    <3>2. /\ thread' = thread /\ attempts' = attempts /\ result' = result /\ mpc' = mpc
          /\ Losers' = Losers \cup {f}
      BY <1>0, <1>11, <2>2 DEF ConvStep, ConvBegin, ConvWork, ConvCommit, Losers, TypeOK
    <3>3. CASE g # f
      BY <1>5, <3>1, <3>2, <3>3
    <3>4. CASE g = f /\ attempts[f] = 2
      <4>1. mpc # "retry" /\ \A h \in Files \ {f} : thread[h] \in Resting
        BY <3>1, <3>4, Running DEF AllDone
      <4> QED
        BY <1>1, <3>1, <3>2, <3>4, <4>1 DEF LoserOK
    <3>5. CASE g = f /\ attempts[f] # 2
      BY <3>1, <3>2, <3>5 DEF LoserOK
    <3> QED
      BY <3>3, <3>4, <3>5
  <2>3. Losers' \subseteq Losers \/ (conv[f] = "work" /\ conv' = [conv EXCEPT ![f] = "commit"] /\ UNCHANGED outcome)
    <3>1. CASE ConvBegin(f)
      BY <1>0, <3>1 DEF ConvBegin, Return, StoppedErr, Losers, TypeOK
    <3>2. CASE ConvWork(f)
      BY <1>0, <3>2 DEF ConvWork, Return, StoppedErr, ctxDone, Losers, TypeOK
    <3>3. CASE ConvCommit(f)
      BY <1>0, <3>3 DEF ConvCommit, Return, Losers, TypeOK
    <3> QED
      BY <1>11, <3>1, <3>2, <3>3 DEF ConvStep
  <2> QED
    BY <2>1, <2>2, <2>3
<1>12. ASSUME NEW f \in Files, ThreadStart(f) PROVE LoserOK(g)'
  <2>1. outcome[f] # "lost" /\ f # g
    BY <1>0, <1>3, <1>12 DEF ThreadStart, FileOK, Losers, TypeOK
  <2>2. g \in Losers /\ thread'[g] = thread[g] /\ attempts'[g] = attempts[g]
    BY <1>0, <1>12, <2>1 DEF ThreadStart, Losers, TypeOK
  <2> QED
    BY <1>5, <1>12, <2>1, <2>2 DEF ThreadStart
<1>13. ASSUME NEW f \in Files, Finish(f) PROVE LoserOK(g)'
  <2>1. CASE f # g
    BY <1>0, <1>5, <1>6, <1>13, <2>1 DEF Finish, TypeOK
  <2>2. CASE f = g
    BY <1>0, <1>13, <2>2 DEF Finish, LoserOK, TypeOK
  <2> QED
    BY <2>1, <2>2
<1>14. ASSUME NEW f \in Files, FinishRetry(f) PROVE LoserOK(g)'
  <2>1. Kept(f) = outcome[f] /\ ~ctxDone
    BY <1>2 DEF Kept
  <2>2. f = g => outcome[f] = "lost"
    BY <1>6, <1>14 DEF FinishRetry, Losers
  <2>3. thread' = [thread EXCEPT ![f] = "log"] /\ result' = [result EXCEPT ![f] = outcome[f]]
    BY <1>14, <2>1 DEF FinishRetry
  <2>4. CASE f = g
    BY <1>0, <1>8, <1>14, <2>2, <2>3, <2>4 DEF FinishRetry, TypeOK
  <2>5. CASE f # g
    BY <1>0, <1>5, <1>6, <1>14, <2>5 DEF FinishRetry, TypeOK
  <2> QED
    BY <2>4, <2>5
<1>15. ASSUME NEW f \in Files, GiveUp(f) PROVE LoserOK(g)'
  BY <1>2, <1>15 DEF GiveUp, GiveUpConversion, GiveUpLog, GiveUpRecord
<1>16. ASSUME NEW f \in Files, After(f) PROVE LoserOK(g)'
  <2>1. result[f] # "lost"
    BY <1>16 DEF After, Stop, ctxDone
  <2>2. f \notin Losers
    BY <1>2, <1>3, <1>16, <2>1 DEF After, FileOK, Losers
  <2> QED
    BY <1>0, <1>5, <1>6, <1>16, <2>2 DEF After, TypeOK
<1>17. ASSUME NEW f \in Files, WriteLog(f) PROVE LoserOK(g)'
  BY <1>6, <1>8, <1>9, <1>17 DEF WriteLog
<1>19. ASSUME NEW f \in Files, Record(f) PROVE LoserOK(g)'
  BY <1>6, <1>8, <1>9, <1>19 DEF Record, Leave
<1>20. ASSUME NEW f \in Files, Recorded(f) PROVE LoserOK(g)'
  BY <1>6, <1>8, <1>9, <1>20 DEF Recorded, Leave
<1>22. ASSUME NEW w \in Files \cup {Main}, TakeLock(w) \/ SaveManifest(w) PROVE LoserOK(g)'
  BY <1>6, <1>7, <1>22 DEF TakeLock, SaveManifest
<1>23. CASE \/ Select \/ RestLogged \/ Check \/ Aside \/ LastSave \/ LastSaved \/ Summary
  BY <1>6, <1>7, <1>23 DEF Select, RestLogged, Check, Aside, LastSave, LastSaved, Summary
<1>24. CASE Rest
  BY <1>0, <1>24 DEF Rest, LoopInv
<1>25. CASE Stale \/ Spawn
  <2>1. Losers' = Losers /\ attempts' = attempts /\ \A h \in Files : attempts[h] # 2
    BY <1>0, <1>6, <1>25 DEF Stale, Spawn, LoopInv, AllDone
  <2>2. next \in Files /\ thread[next] = "none"
    BY <1>0, <1>25 DEF Stale, Spawn, TypeOK, LoopInv, OnFile, Files
  <2>3. thread[g] \in {"await", "after"}
    BY <1>0, <2>1 DEF LoserOK
  <2>4. thread'[g] = thread[g]
    BY <1>0, <1>25, <2>2, <2>3 DEF Stale, Spawn, TypeOK
  <2> QED
    BY <2>1, <2>3, <2>4 DEF LoserOK
<1>31. CASE WaitAll
  BY <1>6, <1>10, <1>31 DEF WaitAll
<1>32. CASE Retry
  <2>1. \A h \in Files : thread[h] \in Resting
    BY <1>0, <1>32 DEF Retry, LoopInv, AllDone
  <2>2. g \in Losers
    <3>1. conv' = conv \/ \E f \in Files : conv' = [conv EXCEPT ![f] = "begin"]
      BY <1>32, FirstAgain DEF Retry, Again
    <3> QED
      BY <1>0, <1>32, <3>1 DEF Retry, Losers, TypeOK
  <2> QED
    BY <1>10, <1>32, <2>1, <2>2 DEF Retry
<1>33. CASE Retried
  <2>1. g \in Losers /\ attempts[g] = 2 /\ result[g] = "lost"
    BY <1>4, <1>6, <1>33 DEF Retried
  <2> QED
    BY <1>6, <1>7, <1>33, <2>1 DEF Retried
<1>37. CASE UserCancel \/ Watch
  BY <1>0, <1>2, <1>37 DEF UserCancel, Watch, WatchStops, WatchFires, Stop, ctxDone, TypeOK
<1>39. CASE Returned \/ UNCHANGED vars
  BY <1>6, <1>7, <1>39 DEF Returned, vars
<1> QED
  BY <1>11, <1>12, <1>13, <1>14, <1>15, <1>16, <1>17, <1>19, <1>20, <1>22, <1>23, <1>24,
     <1>25, <1>31, <1>32, <1>33, <1>37, <1>39 DEF Next, ThreadStep, MainStep

\* A lost output stops the batch before another slot is handed out.
LEMMA LossStep ==
  ASSUME IInv, [Next]_vars, (TypeOK /\ LoopInv /\ SlotInv /\ FilesInv /\ CauseInv)'
  PROVE  LossInv'
<1>1. CASE ctxDone \/ ctxDone'
  <2>1. ctxDone'
    BY <1>1, StaysDone
  <2>2. Cardinality(Losers') <= Cardinality(Losers)
    BY <1>1, NoNewLosers, SetsFinite, FS_Subset
  <2>3. Cardinality(Losers') \in Nat
    BY <1>1, NoNewLosers, SetsFinite, FS_Subset, FS_CardinalityType
  <2> QED
    BY <2>1, <2>2, <2>3, SetsFinite, BatchAssumption DEF IInv, LossInv
<1>2. CASE ~ctxDone /\ ~ctxDone'
  BY <1>2, LosersHold, FewLosers DEF LossInv
<1> QED
  BY <1>1, <1>2

\* The record of a file in the log comes before its entry in the manifest.
LEMMA BooksStep == IInv /\ [Next]_vars => BooksInv'
<1> SUFFICES ASSUME IInv, [Next]_vars, NEW g \in Files PROVE BooksOK(g)'
  BY DEF BooksInv, Files
<1> USE DEF loop, work, watch, books, Go, At, Resting, Retrying, BooksOK
<1>0. TypeOK /\ BooksOK(g) /\ g \in Files \cup {Main} /\ g # Main
  BY BatchAssumption DEF IInv, BooksInv, Files, Main
<1>a. next \in Files /\ mpc \notin {"aside", "restlog"} => thread[next] = "none"
  BY DEF IInv, LoopInv
<1>b. mpc \in OnFile \ {"aside", "restlog"} => next \in Files
  BY BatchAssumption DEF IInv, TypeOK, LoopInv, OnFile, Files
<1>c. /\ thread[g] \in {"none", "start"} => attempts[g] = 0 /\ logged[g] = 0
      /\ attempts[g] = 2 => thread[g] \notin {"none", "start", "after"}
      /\ result[g] = "ok" => g \in committed
  BY DEF IInv, FilesInv, FileOK
<1>1. ASSUME NEW f \in Files, ConvStep(f) PROVE BooksOK(g)'
  BY <1>0, <1>1 DEF TypeOK, ConvStep, ConvBegin, ConvWork, ConvCommit, Return
<1>2. ASSUME NEW f \in Files, ThreadStart(f) PROVE BooksOK(g)'
  BY <1>0, <1>c, <1>2 DEF TypeOK, ThreadStart
<1>3. ASSUME NEW f \in Files, Finish(f) PROVE BooksOK(g)'
  BY <1>0, <1>3 DEF TypeOK, Finish
<1>4. ASSUME NEW f \in Files, FinishRetry(f) PROVE BooksOK(g)'
  BY <1>0, <1>4 DEF TypeOK, FinishRetry
<1>5. ASSUME NEW f \in Files, GiveUpConversion(f) PROVE BooksOK(g)'
  BY <1>0, <1>5 DEF TypeOK, GiveUpConversion
<1>6. ASSUME NEW f \in Files, After(f) PROVE BooksOK(g)'
  BY <1>0, <1>6 DEF TypeOK, After, Stop
<1>7. ASSUME NEW f \in Files, WriteLog(f) PROVE BooksOK(g)'
  BY <1>0, <1>c, <1>7 DEF TypeOK, WriteLog, AfterLog
<1>8. ASSUME NEW f \in Files, GiveUpLog(f) PROVE BooksOK(g)'
  BY <1>0, <1>c, <1>8 DEF TypeOK, GiveUpLog, AfterLog
<1>9. ASSUME NEW f \in Files, Record(f) PROVE BooksOK(g)'
  BY <1>0, <1>c, <1>9 DEF TypeOK, Record, Leave
<1>10. ASSUME NEW f \in Files, Recorded(f) PROVE BooksOK(g)'
  BY <1>0, <1>10 DEF TypeOK, Recorded, Leave
<1>11. ASSUME NEW f \in Files, GiveUpRecord(f) PROVE BooksOK(g)'
  BY <1>0, <1>11 DEF TypeOK, GiveUpRecord, Leave
<1>12. ASSUME NEW w \in Files \cup {Main}, TakeLock(w) PROVE BooksOK(g)'
  BY <1>0, <1>12 DEF TypeOK, TakeLock
<1>13. ASSUME NEW w \in Files \cup {Main}, SaveManifest(w) PROVE BooksOK(g)'
  BY <1>0, <1>13 DEF TypeOK, SaveManifest
<1>14. CASE Select
  BY <1>0, <1>14 DEF TypeOK, Select
<1>15. CASE Rest
  BY <1>0, <1>a, <1>b, <1>c, <1>15 DEF TypeOK, Rest, OnFile
<1>16. CASE RestLogged
  BY <1>0, <1>16 DEF TypeOK, RestLogged
<1>17. CASE Check
  BY <1>0, <1>17 DEF TypeOK, Check
<1>18. CASE Stale
  BY <1>0, <1>a, <1>b, <1>c, <1>18 DEF TypeOK, Stale, OnFile
<1>19. CASE Aside
  BY <1>0, <1>19 DEF TypeOK, Aside
<1>20. CASE Spawn
  BY <1>0, <1>a, <1>b, <1>c, <1>20 DEF TypeOK, Spawn, OnFile
<1>21. CASE WaitAll
  BY <1>0, <1>21 DEF TypeOK, WaitAll
<1>22. CASE Retry
  <2>1. CASE thread' = thread /\ attempts' = attempts
    BY <1>0, <1>22, <2>1 DEF Retry
  <2>2. CASE ~(thread' = thread /\ attempts' = attempts)
    <3>1. PICK f \in Again : /\ attempts' = [attempts EXCEPT ![f] = 2]
                             /\ thread' = [thread EXCEPT ![f] = "await"]
      BY <1>22, <2>2, FirstAgain DEF Retry
    <3>2. f \in Files /\ attempts[f] = 1 /\ thread[f] \in Resting
      BY <1>22, <3>1 DEF Retry, Again, IInv, LoopInv, AllDone
    <3>3. g = f => thread[g] = "done"
      BY <1>c, <3>2
    <3>4. /\ thread'[g] = IF g = f THEN "await" ELSE thread[g]
          /\ attempts'[g] = IF g = f THEN 2 ELSE attempts[g]
      BY <1>0, <3>1, <3>2 DEF TypeOK
    <3> QED
      BY <1>0, <1>22, <3>2, <3>3, <3>4 DEF Retry, TypeOK
  <2> QED
    BY <2>1, <2>2
<1>23. CASE Retried
  BY <1>0, <1>23 DEF TypeOK, Retried
<1>24. CASE LastSave
  BY <1>0, <1>24 DEF TypeOK, LastSave
<1>25. CASE LastSaved
  BY <1>0, <1>25 DEF TypeOK, LastSaved
<1>26. CASE Summary
  BY <1>0, <1>26 DEF TypeOK, Summary
<1>27. CASE UserCancel
  BY <1>0, <1>27 DEF TypeOK, UserCancel
<1>28. CASE Watch
  BY <1>0, <1>28 DEF TypeOK, Watch, WatchStops, WatchFires, Stop
<1>29. CASE Returned \/ UNCHANGED vars
  BY <1>0, <1>29 DEF TypeOK, Returned, vars
<1> QED
  BY <1>1, <1>2, <1>3, <1>4, <1>5, <1>6, <1>7, <1>8, <1>9, <1>10, <1>11, <1>12, <1>13, <1>14, <1>15, <1>16, <1>17, <1>18, <1>19, <1>20, <1>21, <1>22, <1>23, <1>24, <1>25, <1>26, <1>27, <1>28, <1>29 DEF Next, ThreadStep, GiveUp, MainStep
-----------------------------------------------------------------------------
(* What holds of every batch.                                              *)

LEMMA StepIInv == IInv /\ [Next]_vars => IInv'
BY TypeStep, LoopStep, SlotStep, FilesStep, CauseStep, LossStep, BooksStep DEF IInv

\* The inductive invariant: loop, goroutines, conversions, results and books are always in
\* step with one another.
THEOREM BatchInv == Spec => []IInv
<1>1. Init => IInv
  BY InitIInv
<1>2. IInv /\ [Next]_vars => IInv'
  BY StepIInv
<1> QED
  BY <1>1, <1>2, PTL DEF Spec

\* Every variable of the batch keeps to its type: above all, the semaphore never hands out
\* more slots than there are, and takes none back that it did not hand out.
THEOREM TypeCorrect == Spec => []TypeOK
<1>1. IInv => TypeOK
  BY DEF IInv
<1> QED
  BY <1>1, BatchInv, PTL

\* However many files there are, at most as many outputs are lost as conversions run at
\* once: the first loss stops the batch before its slot is handed on (many.go's
\* ErrOutputLost branch and the retry loop).
THEOREM LossContained == Spec => []LossIsContained
<1>1. IInv => LossIsContained
  <2> SUFFICES ASSUME IInv PROVE LossIsContained
    OBVIOUS
  <2>1. {f \in Files : outcome[f] = "lost"} \subseteq Losers
    BY DEF Losers
  <2>2. /\ Cardinality({f \in Files : outcome[f] = "lost"}) <= Cardinality(Losers)
        /\ IsFiniteSet({f \in Files : outcome[f] = "lost"})
    BY <2>1, SetsFinite, FS_Subset
  <2>3. Cardinality({f \in Files : outcome[f] = "lost"}) \in Nat
    BY <2>2, FS_CardinalityType
  <2> QED
    BY <2>2, <2>3, SetsFinite, BatchAssumption DEF LossIsContained, IInv, LossInv
<1> QED
  BY <1>1, BatchInv, PTL

\* The summary reports a file as converted exactly when its output is this run's, but for
\* one given up on as stalled, and names what stopped the batch as it was.
THEOREM ResultsTrue == Spec => []ResultTrue
<1>1. IInv => ResultTrue
  BY DEF IInv, ResultTrue, ended, LoopInv, AllDone, Resting, FilesInv, FileOK, CauseInv, CauseOK
<1> QED
  BY <1>1, BatchInv, PTL

\* The manifest on disk lists only files that this run converted and that the log already
\* tells of, at every moment a kill may come; and at the end every file reported has its
\* log record.
THEOREM BooksAgreed == Spec => []BooksAgree
<1>1. IInv => BooksAgree
  <2> SUFFICES ASSUME IInv PROVE BooksAgree
    OBVIOUS
  <2>1. \A f \in disk : f \in Files /\ rec[f] # "none"
    BY DEF IInv, TypeOK, BooksInv, BooksOK
  <2>2. \A f \in Files : rec[f] # "none" => f \in committed /\ ("log" \notin gaveUp => logged[f] > 0)
    BY DEF IInv, BooksInv, BooksOK
  <2>3. ASSUME ended, "log" \notin gaveUp, NEW f \in Files, result[f] # "none"
        PROVE  logged[f] > 0 /\ (logged[f] = 2 => Retrying(f))
    <3>1. thread[f] = "done"
      BY <2>3 DEF IInv, ended, LoopInv, AllDone, Resting, FilesInv, FileOK
    <3> QED
      BY <2>3, <3>1 DEF IInv, BooksInv, BooksOK, Retrying, TypeOK
  <2> QED
    BY <2>1, <2>2, <2>3 DEF BooksAgree
<1> QED
  BY <1>1, BatchInv, PTL

\* A conversion of a file is begun only where there was none, or where the one before has
\* returned: a conversion left behind by the stall watch never gets a second writer of the
\* same output beside it.
THEOREM OneWriterAlways == Spec => OneWriter
<1> DEFINE One == \A f \in Files :
      conv'[f] = "begin" /\ conv[f] # "begin" => conv[f] \in {"none", "done"}
<1>1. IInv /\ [Next]_vars => [One]_vars
  <2> SUFFICES ASSUME IInv, [Next]_vars, NEW g \in Files,
                      conv'[g] = "begin", conv[g] # "begin"
               PROVE  conv[g] \in {"none", "done"}
    OBVIOUS
  <2> USE DEF loop, work, watch, books
  <2>1. TypeOK /\ FilesInv
    BY DEF IInv
  <2>2. ASSUME NEW f \in Files, ConvStep(f) PROVE FALSE
    BY <2>1, <2>2 DEF TypeOK, ConvStep, ConvBegin, ConvWork, ConvCommit, Return
  <2>3. ASSUME NEW f \in Files, ThreadStart(f) PROVE conv[g] = "none"
    BY <2>1, <2>3 DEF TypeOK, FilesInv, FileOK, ThreadStart
  <2>4. ASSUME NEW f \in Files, (ThreadStep(f) /\ ~ThreadStart(f)) \/ GiveUp(f) \/ WriteLog(f)
        PROVE  FALSE
    BY <2>4 DEF ThreadStep, Finish, FinishRetry, After, Record, Recorded,
         GiveUp, GiveUpConversion, GiveUpLog, GiveUpRecord, WriteLog
  <2>5. ASSUME NEW w \in Files \cup {Main}, TakeLock(w) \/ SaveManifest(w) PROVE FALSE
    BY <2>5 DEF TakeLock, SaveManifest
  <2>6. CASE Retry
    <3>1. PICK f \in Again : conv' = [conv EXCEPT ![f] = "begin"]
      BY <2>6, FirstAgain DEF Retry
    <3> QED
      BY <2>1, <3>1 DEF TypeOK, FilesInv, FileOK, Again
  <2>7. MainStep /\ ~Retry => FALSE
    BY DEF MainStep, Select, Rest, RestLogged, Check, Stale, Aside, Spawn, WaitAll,
         Retried, LastSave, LastSaved, Summary
  <2>8. UserCancel \/ Watch \/ Returned \/ UNCHANGED vars => FALSE
    BY DEF UserCancel, Watch, WatchStops, WatchFires, Returned, vars
  <2> QED
    BY <2>2, <2>3, <2>4, <2>5, <2>6, <2>7, <2>8 DEF Next, MainStep
<1> QED
  BY <1>1, BatchInv, PTL DEF Spec, OneWriter
=============================================================================
