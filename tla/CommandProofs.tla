--------------------------- MODULE CommandProofs ---------------------------
(***************************************************************************)
(* Proofs about Command, for every set of requests and whatever is on the  *)
(* disk: a refused command has touched nothing, the files that are written *)
(* by truncating are no other file of the run, the exit code tells what    *)
(* became of the inputs, 0 that everything asked for has been made, and    *)
(* the console log holds what the screen held, and never more in memory    *)
(* than its limit.                                                         *)
(***************************************************************************)
EXTENDS Command, TLAPS, WellFoundedInduction, SequenceTheorems

Passed == at # "guards" /\ ~refused => ~PathsRefused
ConsolePassed == at \notin {"guards", "console"} /\ ~refused => ~ConsoleRefused

Untouched == wrote = {} /\ disk = [f \in {FileOf(p) : p \in there} |-> <<"before">>]

\* Who may have opened a file, and under which path.
Owns(who, f) ==
  \/ who = "console" /\ Given(req.console) /\ f = FileOf(req.console)
  \/ who = "catalog" /\ Given(req.catalog) /\ f = FileOf(req.catalog)
  \/ who = "log" /\ Given(req.log) /\ f = FileOf(req.log)
  \/ who = "manifest" /\ \E p \in Manifest : f = FileOf(p)
  \/ who = "output" /\ \E p \in Outputs : Given(p) /\ f = FileOf(p)
  \/ who \in {"schema report", "quality report"} /\ \E p \in Reports : Given(p) /\ f = FileOf(p)

\* The inductive invariant: what the guards let pass, and nothing opened before.
GuardInv ==
  /\ req \in Requests
  /\ Passed /\ ConsolePassed
  /\ refused => at = "exited" /\ Untouched
  /\ at \in {"guards", "console"} => Untouched
  /\ described # {} => Given(req.catalog)
  /\ \A v \in wrote : Owns(v[1], v[2]) /\ ~refused /\ ~PathsRefused /\ ~ConsoleRefused

\* What the disk takes for one file, the guards do as well.
LEMMA OneFileIsSamePath ==
  ASSUME NEW p, NEW q, FileOf(p) = FileOf(q)
  PROVE  SamePath(p, q)
BY DEF FileOf, SamePath

LEMMA NextStage ==
  /\ After("guards") = "console"
  /\ After("console") = "attaching"
  /\ After("attaching") = "catalog"
  /\ After("catalog") = "log"
  /\ After("log") = "running"
<1>1. ASSUME NEW k \in 1 .. 5
      PROVE  After(Order[k]) = Order[k + 1]
  <2>1. DOMAIN Order = 1 .. 6
    BY DEF Order
  <2>2. \A n \in DOMAIN Order : Order[n] = Order[k] => n = k
    BY <2>1 DEF Order
  <2>3. (CHOOSE n \in DOMAIN Order : Order[n] = Order[k]) = k
    BY <2>1, <2>2
  <2> QED
    BY <2>3 DEF After
<1>2. /\ Order[1] = "guards" /\ Order[2] = "console" /\ Order[3] = "attaching"
      /\ Order[4] = "catalog" /\ Order[5] = "log" /\ Order[6] = "running"
  BY DEF Order
<1> QED
  BY <1>1, <1>2

\* What the guards compare depends on the request alone.
LEMMA RequestFixed ==
  ASSUME UNCHANGED request
  PROVE  /\ Inputs' = Inputs /\ Missing' = Missing /\ SchemaFiles' = SchemaFiles
         /\ Manifest' = Manifest /\ Outputs' = Outputs /\ Reports' = Reports
         /\ PathsRefused' = PathsRefused /\ ConsoleRefused' = ConsoleRefused
         /\ req' = req
         /\ \A who, f : Owns(who, f)' = Owns(who, f)
BY DEF request, Inputs, Missing, SchemaFiles, Manifest, Outputs, Reports, PathsRefused,
       ConsoleRefused, Owns, Named, Clash, OutputOf, ReportOf, Batch, Scanning, Converting, Problems

\* A step that opens no file, with its disk as it was.
LEMMA QuietStep ==
  ASSUME GuardInv, UNCHANGED <<request, disk, wrote, refused, described>>,
         at \notin {"guards", "console"}, at # "exited" \/ UNCHANGED at,
         at' \notin {"guards", "console"}
  PROVE  GuardInv'
<1>1. PathsRefused' = PathsRefused /\ ConsoleRefused' = ConsoleRefused /\ req' = req
  BY RequestFixed
<1>2. \A v \in wrote : Owns(v[1], v[2])' = Owns(v[1], v[2])
  BY RequestFixed
<1> QED
  BY <1>1, <1>2 DEF GuardInv, Passed, ConsolePassed, Untouched, request

\* A step of an open run by which one writer opens a file of its own.
LEMMA OpeningStep ==
  ASSUME GuardInv, UNCHANGED <<request, refused>>,
         at \notin {"guards", "exited"}, at = "console" => ~ConsoleRefused,
         at' \notin {"guards", "console"},
         described' # {} => Given(req.catalog),
         NEW who, NEW p, Owns(who, FileOf(p)),
         wrote' \subseteq wrote \cup {<<who, FileOf(p)>>}
  PROVE  GuardInv'
<1>1. PathsRefused' = PathsRefused /\ ConsoleRefused' = ConsoleRefused /\ req' = req
  BY RequestFixed
<1>2. ~refused /\ ~PathsRefused /\ ~ConsoleRefused
  BY DEF GuardInv, Passed, ConsolePassed
<1>3. \A v \in wrote' : Owns(v[1], v[2])'
  <2>1. \A v \in wrote' : Owns(v[1], v[2])
    BY DEF GuardInv
  <2> QED
    BY <2>1, RequestFixed
<1> QED
  BY <1>1, <1>2, <1>3 DEF GuardInv, Passed, ConsolePassed

LEMMA GuardInvInit == Init => GuardInv
BY DEF Init, GuardInv, Passed, ConsolePassed, Untouched

LEMMA OpeningKeeps ==
  ASSUME GuardInv, Opening
  PROVE  GuardInv'
<1> USE DEF Prepared
<1>1. CASE Guards
  <2>1. /\ UNCHANGED <<request, disk, wrote, described>>
        /\ \/ at' = "console" /\ UNCHANGED refused /\ ~PathsRefused
           \/ at' = "exited" /\ refused'
    BY <1>1, NextStage DEF Guards, Refuse, Exit, End, Go
  <2>2. at = "guards" /\ Untouched
    BY <1>1 DEF Guards, GuardInv
  <2> QED
    BY <2>1, <2>2, RequestFixed DEF GuardInv, Passed, ConsolePassed, Untouched, request
<1>2. CASE NoConsole
  <2>1. /\ UNCHANGED <<request, disk, wrote, refused, described>>
        /\ at = "console" /\ at' = "catalog" /\ ~ConsoleRefused
    BY <1>2, NextStage DEF NoConsole, ConsoleRefused, Clash
  <2> QED
    BY <2>1, RequestFixed DEF GuardInv, Passed, ConsolePassed, Untouched, request
<1>3. CASE RefuseConsole
  <2>1. /\ UNCHANGED <<request, disk, wrote, described>>
        /\ at = "console" /\ at' = "exited" /\ refused'
    BY <1>3 DEF RefuseConsole, Refuse, Exit, End
  <2> QED
    BY <2>1, RequestFixed DEF GuardInv, Passed, ConsolePassed, Untouched, request
<1>4. CASE CreateConsole
  <2>1. /\ UNCHANGED <<request, refused, described>>
        /\ at = "console" /\ at' \in {"attaching", "exited"} /\ ~ConsoleRefused
        /\ Owns("console", FileOf(req.console))
        /\ wrote' = wrote \cup {<<"console", FileOf(req.console)>>}
    BY <1>4, NextStage DEF CreateConsole, Create, CreateFailed, Opened, Exit, End, Go, Owns
  <2> QED
    BY <2>1, OpeningStep DEF GuardInv
<1>5. CASE AttachConsole
  <2>1. at = "attaching" /\ at' = "catalog"
    BY <1>5, NextStage DEF AttachConsole, Go
  <2> QED
    BY <1>5, <2>1, QuietStep DEF AttachConsole
<1>6. CASE OpenCatalog
  <2>1. at = "catalog" /\ at' \in {"log", "closing console"}
    BY <1>6, NextStage DEF OpenCatalog, Go, End
  <2> QED
    BY <1>6, <2>1, QuietStep DEF OpenCatalog
<1>7. CASE OpenLog
  <2>1. at = "log" /\ at' \in {"running", "closing catalog"}
    BY <1>7, NextStage DEF OpenLog, Go, End
  <2>2. CASE UNCHANGED <<disk, wrote>>
    BY <1>7, <2>1, <2>2, QuietStep DEF OpenLog
  <2>3. CASE Given(req.log) /\ wrote' = wrote \cup {<<"log", FileOf(req.log)>>}
    <3>1. Owns("log", FileOf(req.log))
      BY <2>3 DEF Owns
    <3> QED
      BY <1>7, <2>1, <2>3, <3>1, OpeningStep DEF OpenLog, GuardInv
  <2> QED
    BY <1>7, <2>2, <2>3 DEF OpenLog, Create, CreateFailed, Opened
<1> QED
  BY <1>1, <1>2, <1>3, <1>4, <1>5, <1>6, <1>7 DEF Opening

LEMMA WorkKeeps ==
  ASSUME GuardInv, NEW in \in Inputs, Work(in)
  PROVE  GuardInv'
<1>1. /\ at = "running" /\ at' = "running"
      /\ UNCHANGED <<request, refused>>
  BY DEF Work, ReportSchema, CheckOutput, Commit, SkipInput, Fail, Stopped, Stall, Inspect,
         Scan, AtWork, Working
<1>2. described' # {} => Given(req.catalog)
  BY DEF Work, ReportSchema, CheckOutput, Commit, SkipInput, Fail, Stopped, Stall, Inspect,
         Scan, Described, GuardInv
<1>3. CASE wrote' = wrote /\ disk' = disk
  <2>1. PathsRefused' = PathsRefused /\ ConsoleRefused' = ConsoleRefused /\ req' = req
    BY <1>1, RequestFixed
  <2>2. \A v \in wrote : Owns(v[1], v[2])' = Owns(v[1], v[2])
    BY <1>1, RequestFixed
  <2> QED
    BY <1>1, <1>2, <1>3, <2>1, <2>2 DEF GuardInv, Passed, ConsolePassed
<1>4. ASSUME NEW who, NEW p, Owns(who, FileOf(p)), Opened(who, p)
      PROVE  GuardInv'
  BY <1>1, <1>2, <1>4, OpeningStep DEF Opened
<1>5. CASE ReportSchema(in) /\ Given(req.sreport)
  <2>1. Given(ReportOf(req.sreport, in)) /\ ReportOf(req.sreport, in) \in Reports
    BY <1>5 DEF ReportSchema, ReportOf, Report, Reports, Given, Path, Scanning, Converting
  <2> QED
    BY <1>4, <1>5, <2>1 DEF ReportSchema, Create, Owns
<1>6. CASE CheckOutput(in) /\ Given(req.qreport)
  <2>1. Given(ReportOf(req.qreport, in)) /\ ReportOf(req.qreport, in) \in Reports
    BY <1>6 DEF CheckOutput, ReportOf, Report, Reports, Given, Path, Scanning, Converting
  <2> QED
    BY <1>4, <1>6, <2>1 DEF CheckOutput, Create, Owns
<1>7. CASE Commit(in)
  <2>1. Given(OutputOf(in)) /\ OutputOf(in) \in Outputs
    BY <1>7, CommandAssumption
       DEF Commit, OutputOf, Output, Outputs, Given, Path, Converting, Batch, GuardInv
  <2> QED
    BY <1>4, <1>7, <2>1 DEF Commit, Create, Owns
<1>8. CASE Inspect(in)
  <2>1. CASE Given(req.sreport) /\ Create(req.sreport, <<"schema report", in>>)
    <3>1. req.sreport \in Reports
      BY <1>8 DEF Inspect, Reports, ReportOf, Batch, Scanning
    <3> QED
      BY <1>4, <2>1, <3>1 DEF Create, Owns
  <2> QED
    BY <1>3, <1>8, <2>1 DEF Inspect
<1> QED
  BY <1>3, <1>5, <1>6, <1>7, <1>8
     DEF Work, ReportSchema, CheckOutput, SkipInput, Fail, Stopped, Stall, Scan

LEMMA FinishKeeps ==
  ASSUME GuardInv, Finish
  PROVE  GuardInv'
<1> USE DEF Prepared
<1>1. CASE EndRun
  <2>1. at = "running" /\ at' = "closing log" /\ UNCHANGED <<request, refused, described>>
    BY <1>1 DEF EndRun, End
  <2>2. CASE UNCHANGED <<disk, wrote>>
    BY <2>1, <2>2, QuietStep
  <2>3. ASSUME NEW p \in Manifest, Create(p, <<"manifest">>)
        PROVE  GuardInv'
    BY <2>1, <2>3, OpeningStep DEF Create, Opened, Owns, GuardInv
  <2> QED
    BY <1>1, <2>2, <2>3 DEF EndRun
<1>2. CASE CloseLog
  BY <1>2, QuietStep DEF CloseLog, Goto
<1>3. CASE CloseCatalog
  <2>1. at = "closing catalog" /\ at' = "closing console" /\ UNCHANGED <<request, refused, described>>
    BY <1>3 DEF CloseCatalog, Goto
  <2>2. CASE UNCHANGED <<disk, wrote>>
    BY <2>1, <2>2, QuietStep
  <2>3. CASE described # {} /\ Create(req.catalog, <<"catalog", described>>)
    BY <2>1, <2>3, OpeningStep DEF Create, Opened, Owns, GuardInv
  <2> QED
    BY <1>3, <2>2, <2>3 DEF CloseCatalog
<1>4. CASE CloseConsole
  BY <1>4, QuietStep DEF CloseConsole, Goto
<1> QED
  BY <1>1, <1>2, <1>3, <1>4 DEF Finish

\* What the guards let pass holds for the whole of a command, and so does who has opened
\* what: GuardInv is an invariant.
THEOREM GuardsHold == Spec => []GuardInv
<1>1. ASSUME GuardInv, [Next]_vars
      PROVE  GuardInv'
  <2>1. CASE Step
    BY <1>1, <2>1, OpeningKeeps, WorkKeeps, FinishKeeps DEF Step
  <2>2. ASSUME UNCHANGED <<request, disk, at, refused, described, wrote>>
        PROVE  GuardInv'
    BY <1>1, <2>2, RequestFixed DEF GuardInv, Passed, ConsolePassed, Untouched, request
  <2>3. CASE Cancel
    BY <2>2, <2>3 DEF Cancel, AtWork
  <2>4. CASE Say
    BY <2>2, <2>4 DEF Say, run
  <2>5. CASE UNCHANGED vars
    BY <2>2, <2>5 DEF vars, run
  <2> QED
    BY <1>1, <2>1, <2>3, <2>4, <2>5 DEF Next
<1> QED
  BY GuardInvInit, <1>1, PTL DEF Spec

\* A command that is refused, for whatever reason, has opened and changed no file.
THEOREM RefusalIsClean == Spec => []RefusedTouchesNothing
<1>1. GuardInv => RefusedTouchesNothing
  BY DEF GuardInv, RefusedTouchesNothing, Untouched
<1> QED
  BY <1>1, GuardsHold, PTL

\* Paths the guards have told apart are two files.
LEMMA NoClash ==
  ASSUME NEW p, NEW others, ~Clash(p, others), Given(p), NEW q \in others, Given(q)
  PROVE  FileOf(p) # FileOf(q)
BY OneFileIsSamePath DEF Clash

\* What a run's guards have found about the writers that truncate.
LEMMA WhatGuardsSay ==
  ASSUME ~PathsRefused, ~ConsoleRefused, req \in Requests
  PROVE  /\ Scanning => ~Given(req.log)
         /\ \A p \in Inputs \cup Missing \cup SchemaFiles \cup Reports \cup Outputs :
              /\ ~Scanning /\ Given(p) /\ Given(req.catalog) => FileOf(req.catalog) # FileOf(p)
              /\ ~Scanning /\ Given(p) /\ Given(req.log) => FileOf(req.log) # FileOf(p)
              /\ ~Scanning /\ Given(p) /\ Given(req.console) => FileOf(req.console) # FileOf(p)
         /\ \A p \in Inputs : Scanning /\ Given(p) =>
              /\ Given(req.catalog) => FileOf(req.catalog) # FileOf(p)
              /\ Given(req.console) => FileOf(req.console) # FileOf(p)
         /\ \A p \in Manifest : Given(p) =>
              /\ Given(req.catalog) => FileOf(req.catalog) # FileOf(p)
              /\ Given(req.log) => FileOf(req.log) # FileOf(p)
              /\ Given(req.console) => FileOf(req.console) # FileOf(p)
         /\ Given(req.log) /\ Given(req.catalog) => FileOf(req.catalog) # FileOf(req.log)
         /\ Given(req.log) /\ Given(req.console) => FileOf(req.console) # FileOf(req.log)
         /\ Given(req.catalog) /\ Given(req.console) => FileOf(req.console) # FileOf(req.catalog)
         /\ \A p \in Reports, q \in SchemaFiles :
              ~Scanning /\ Given(p) /\ Given(q) => FileOf(p) # FileOf(q)
<1>1. /\ Scanning => ~Clash(req.catalog, Inputs) /\ ~Given(req.log) /\ Manifest = {}
      /\ ~Scanning => /\ \A p \in Reports : ~Clash(p, SchemaFiles)
                      /\ ~Clash(req.catalog, Named \cup {req.log} \cup Manifest)
                      /\ ~Clash(req.log, Named \cup Manifest)
                      /\ ~Clash(req.console, Named)
      /\ ~Clash(req.console, {req.log, req.catalog} \cup Manifest \cup (IF Scanning THEN Inputs ELSE {}))
  BY CommandAssumption DEF PathsRefused, ConsoleRefused, Scanning, Manifest, Batch
<1> QED
  BY <1>1, NoClash DEF Named

LEMMA ApartWhenGuarded ==
  ASSUME GuardInv, NEW v \in wrote, NEW w \in wrote
  PROVE  /\ v[1] \in {"log", "catalog", "console"} /\ v[2] = w[2] => v[1] = w[1]
         /\ \A p \in Inputs \cup Missing \cup SchemaFiles :
              v[1] \in {"log", "catalog", "console"} /\ Given(p) => v[2] # FileOf(p)
         /\ \A p \in SchemaFiles :
              v[1] \in {"schema report", "quality report"} /\ Given(p) => v[2] # FileOf(p)
<1>1. ~PathsRefused /\ ~ConsoleRefused /\ req \in Requests /\ Owns(v[1], v[2]) /\ Owns(w[1], w[2])
  BY DEF GuardInv
<1>2. \A p \in Manifest : Given(p)
  BY DEF Manifest, ManifestPath, Given, Path
<1>3. Scanning => Missing = {} /\ SchemaFiles = {} /\ Reports = {} /\ Outputs = {}
  BY DEF Scanning, Missing, SchemaFiles, Reports, Outputs, Converting, Batch
<1>4. CASE v[1] \in {"log", "catalog", "console"}
  <2>1. \/ Given(req.console) /\ v[2] = FileOf(req.console) /\ v[1] = "console"
        \/ Given(req.catalog) /\ v[2] = FileOf(req.catalog) /\ v[1] = "catalog"
        \/ ~Scanning /\ Given(req.log) /\ v[2] = FileOf(req.log) /\ v[1] = "log"
    BY <1>1, <1>4, WhatGuardsSay DEF Owns
  <2>2. \A p \in Inputs \cup Missing \cup SchemaFiles : Given(p) => v[2] # FileOf(p)
    BY <1>1, <1>3, <2>1, WhatGuardsSay
  <2>3. v[2] = w[2] => v[1] = w[1]
    <3>1. CASE w[1] \in {"log", "catalog", "console"}
      <4>1. \/ Given(req.console) /\ w[2] = FileOf(req.console) /\ w[1] = "console"
            \/ Given(req.catalog) /\ w[2] = FileOf(req.catalog) /\ w[1] = "catalog"
            \/ Given(req.log) /\ w[2] = FileOf(req.log) /\ w[1] = "log"
        BY <1>1, <3>1 DEF Owns
      <4>2. /\ Given(req.log) /\ Given(req.catalog) => FileOf(req.catalog) # FileOf(req.log)
            /\ Given(req.log) /\ Given(req.console) => FileOf(req.console) # FileOf(req.log)
            /\ Given(req.catalog) /\ Given(req.console) => FileOf(req.console) # FileOf(req.catalog)
        BY <1>1, WhatGuardsSay
      <4> QED
        BY <2>1, <4>1, <4>2
    <3>2. CASE w[1] = "manifest"
      BY <1>1, <1>2, <2>1, <3>2, WhatGuardsSay DEF Owns
    <3>3. ASSUME NEW p \in Reports \cup Outputs, Given(p), w[2] = FileOf(p)
          PROVE  v[2] # w[2]
      BY <1>1, <1>3, <2>1, <3>3, WhatGuardsSay
    <3> QED
      BY <1>1, <3>1, <3>2, <3>3 DEF Owns
  <2> QED
    BY <1>4, <2>2, <2>3
<1>5. CASE v[1] \in {"schema report", "quality report"}
  BY <1>1, <1>3, <1>5, WhatGuardsSay DEF Owns
<1> QED
  BY <1>4, <1>5

\* Whatever the paths of a command, the links among its folders and the names that the
\* disk takes for one: the log, the catalog and the console log are each a file of their
\* own, no file that the run reads, and no report is a schema file.
THEOREM WritersStayApart == Spec => []WritersApart
<1>1. GuardInv => WritersApart
  BY ApartWhenGuarded DEF WritersApart
<1> QED
  BY <1>1, GuardsHold, PTL
-----------------------------------------------------------------------------
(* The exit code.                                                          *)

LEMMA RankIsPlace ==
  ASSUME NEW k \in 1 .. 8
  PROVE  Rank(Ranks[k]) = k
<1>1. Len(Ranks) = 8
  BY DEF Ranks
<1>2. \A i \in 1 .. 8 : Ranks[i] = Ranks[k] => i = k
  BY DEF Ranks, Input, OutputCode, Unsupported, Quality, Schema, Usage, Canceled, Stalled
<1>3. {i \in 1 .. Len(Ranks) : Ranks[i] = Ranks[k]} = {k}
  BY <1>1, <1>2
<1>4. Min({k}) = k
  BY DEF Min
<1> QED
  BY <1>3, <1>4 DEF Rank, SelectInSeq

\* Every code has a rank of its own, and a stall the highest.
LEMMA CodeRanks ==
  /\ \A c \in 1 .. 8 : Rank(c) \in 1 .. 8
  /\ Rank(Stalled) = 8
  /\ \A c \in 1 .. 8 : Rank(c) = 8 => c = Stalled
<1>1. \A c \in 1 .. 8 : \E k \in 1 .. 8 : c = Ranks[k]
  <2>1. /\ Ranks[1] = 4 /\ Ranks[2] = 5 /\ Ranks[3] = 2 /\ Ranks[4] = 6
        /\ Ranks[5] = 3 /\ Ranks[6] = 1 /\ Ranks[7] = 7 /\ Ranks[8] = 8
    BY DEF Ranks, Input, OutputCode, Unsupported, Quality, Schema, Usage, Canceled, Stalled
  <2>2. \A c \in 1 .. 8 : c = 1 \/ c = 2 \/ c = 3 \/ c = 4 \/ c = 5 \/ c = 6 \/ c = 7 \/ c = 8
    OBVIOUS
  <2> QED
    BY <2>1, <2>2
<1>2. Ranks[8] = Stalled
  BY DEF Ranks
<1>3. 8 \in 1 .. 8
  OBVIOUS
<1> QED
  BY <1>1, <1>2, <1>3, RankIsPlace

\* Of the codes there are, one has the highest rank.
LEMMA HighestExists ==
  ASSUME NEW all \in SUBSET (1 .. 8), all # {}
  PROVE  \E c \in all : \A d \in all : Rank(d) <= Rank(c)
<1> DEFINE below == {8 - Rank(d) : d \in all}
           R == OpToRel(<, Nat)
<1>1. \A d \in all : Rank(d) \in Int /\ 8 - Rank(d) \in Nat
  BY CodeRanks
<1>2. below \subseteq Nat /\ below # {}
  BY <1>1
<1>3. IsWellFoundedOn(R, Nat)
  BY NatLessThanWellFounded
<1>4. \A x, y \in below : y < x => <<y, x>> \in R
  BY <1>2 DEF OpToRel
<1>5. PICK x \in below : \A y \in below : ~(<<y, x>> \in R)
  <2> HIDE DEF R, below
  <2> QED
    BY <1>2, <1>3, WFMin
<1>6. PICK c \in all : x = 8 - Rank(c)
  OBVIOUS
<1>7. \A d \in all : ~(8 - Rank(d) < 8 - Rank(c))
  BY <1>4, <1>5, <1>6
<1> QED
  BY <1>1, <1>7


BeforeWork == {"guards", "console", "attaching", "catalog", "log"}
Ending == {"closing log", "closing catalog", "closing console", "exited"}

\* What the exit code says of the results.
Tells ==
  /\ code = Stalled <=> Stalled \in Errors
  /\ code = Canceled => stop = "canceled" /\ Stalled \notin Errors
  /\ code \notin {OK, Input, OutputCode} => code \in Errors
  /\ code = OK => Errors = {} /\ Missing = {}

\* The results: a conversion ends with 7 only after a Ctrl-C, and a scan neither with that
\* nor with 8. Before the work there are none.
ResultsInv ==
  /\ result \in [Inputs -> Dropped .. Stalled]
  /\ \A in \in Inputs : result[in] = Canceled => stop = "canceled"
  /\ Scanning => \A in \in Inputs : result[in] \in {None, OK, Input}
  /\ at \in BeforeWork => \A in \in Inputs : result[in] = None
  /\ at \in BeforeWork => described = {}

CodeInv ==
  /\ ResultsInv
  /\ at \in BeforeWork \cup {"running"} \cup Ending
  /\ at \in BeforeWork \cup {"running"} => code = OK
  /\ at \in Ending /\ ~refused => Tells

LEMMA CodeInvInit == Init => CodeInv
BY DEF Init, CodeInv, ResultsInv, BeforeWork, Ending, None, Dropped, Stalled, Canceled, OK, Input

\* Results that no step has touched still say what they said.
LEMMA ResultsStay ==
  ASSUME ResultsInv, UNCHANGED <<request, result, described>>,
         stop' = stop \/ stop = "none",
         at' \in BeforeWork => at \in BeforeWork
  PROVE  ResultsInv'
<1>1. Inputs' = Inputs /\ Scanning' = Scanning
  BY DEF request, Inputs, Scanning
<1> QED
  BY <1>1 DEF ResultsInv

LEMMA TellsStays ==
  ASSUME UNCHANGED <<request, result, code, stop>>
  PROVE  Tells' = Tells
<1>1. Errors' = Errors /\ Missing' = Missing
  BY RequestFixed DEF Errors, request, Inputs
<1> QED
  BY <1>1 DEF Tells

\* A code of the run's own surroundings says nothing of the inputs, which have no result.
LEMMA NothingDone ==
  ASSUME ResultsInv, at \in BeforeWork, UNCHANGED <<request, result>>, code' \in {Input, OutputCode}
  PROVE  Tells'
<1>1. Errors' = Errors /\ \A c \in Errors : c = None
  BY DEF Errors, ResultsInv, request, Inputs
<1> QED
  BY <1>1 DEF Tells, None, OK, Input, OutputCode, Stalled, Canceled

LEMMA OpeningTells ==
  ASSUME CodeInv, Opening
  PROVE  CodeInv'
<1> USE DEF BeforeWork, Ending
<1>1. /\ at \in BeforeWork /\ code = OK /\ ResultsInv
      /\ UNCHANGED <<request, result, described, stop>>
  BY DEF Opening, Guards, NoConsole, RefuseConsole, CreateConsole, AttachConsole, OpenCatalog,
         OpenLog, Prepared, CodeInv
<1>2. ResultsInv'
  BY <1>1, ResultsStay
<1>3. \/ at' \in BeforeWork \cup {"running"} /\ code' = code
      \/ at' = "exited" /\ refused'
      \/ at' \in Ending /\ code' \in {Input, OutputCode}
  BY NextStage
     DEF Opening, Guards, NoConsole, RefuseConsole, CreateConsole, AttachConsole, OpenCatalog,
         OpenLog, Prepared, Refuse, Exit, End, Go
<1>4. at' \in Ending /\ code' \in {Input, OutputCode} => Tells'
  BY <1>1, NothingDone
<1> QED
  BY <1>1, <1>2, <1>3, <1>4 DEF CodeInv

\* What a step of the work makes of its input.
LEMMA WorkTells ==
  ASSUME CodeInv, NEW in \in Inputs, Work(in)
  PROVE  CodeInv'
<1> USE DEF BeforeWork, Ending
<1>1. at = "running" /\ at' = at /\ code' = code /\ UNCHANGED request /\ ResultsInv
  BY DEF CodeInv, Work, ReportSchema, CheckOutput, Commit, SkipInput, Fail, Stopped, Stall,
         Inspect, Scan, AtWork, Working
<1>2. Inputs' = Inputs /\ Scanning' = Scanning
  BY <1>1 DEF request, Inputs, Scanning
<1>3. stop' = stop \/ stop = "none"
  BY DEF Work, ReportSchema, CheckOutput, Commit, SkipInput, Fail, Stopped, Stall, Inspect, Scan
<1>4. \/ result' = result
      \/ \E c \in Dropped .. Stalled :
           /\ result' = [result EXCEPT ![in] = c]
           /\ c = Canceled => stop = "canceled"
           /\ Scanning => c \in {OK, Input}
  <2> USE DEF Dropped, Stalled, Canceled, OK, Input, OutputCode, Schema, Became
  <2>1. Failures \subseteq 1 .. 6
    BY CommandAssumption
  <2>2. CASE ReportSchema(in) \/ CheckOutput(in)
    BY <2>2 DEF ReportSchema, CheckOutput
  <2>3. CASE Commit(in) \/ SkipInput(in)
    BY <2>3 DEF Commit, SkipInput, Converting, Batch, Scanning
  <2>4. CASE Fail(in)
    <3>1. PICK c \in Failures \cup {OutputCode} : Failed(in, c)
      BY <2>4 DEF Fail
    <3>2. c \in 1 .. 6
      BY <2>1, <3>1
    <3>3. ~Scanning
      BY <2>4 DEF Fail, Converting, Scanning
    <3>4. result' = [result EXCEPT ![in] = c]
      BY <3>1 DEF Failed
    <3>5. c \in Dropped .. Stalled /\ c # Canceled
      BY <3>2
    <3> QED
      BY <3>3, <3>4, <3>5
  <2>5. CASE Stopped(in)
    BY <2>5 DEF Stopped, Failed, Converting, Scanning
  <2>6. CASE Stall(in)
    BY <2>6 DEF Stall, Failed, Converting, Scanning
  <2>7. CASE Inspect(in)
    <3>1. ~Scanning
      BY <2>7 DEF Inspect, Scanning
    <3>2. PICK c \in Failures \cup {OutputCode, OK, Schema} : result' = [result EXCEPT ![in] = c]
      BY <2>7 DEF Inspect
    <3>3. c \in 0 .. 6
      BY <2>1, <3>2
    <3>4. c \in Dropped .. Stalled /\ c # Canceled
      BY <3>3
    <3> QED
      BY <3>1, <3>2, <3>4
  <2>8. CASE Scan(in)
    BY <2>8 DEF Scan
  <2> QED
    BY <2>2, <2>3, <2>4, <2>5, <2>6, <2>7, <2>8 DEF Work
<1>5. ResultsInv'
  <2>1. CASE result' = result
    BY <1>1, <1>2, <1>3, <2>1 DEF ResultsInv
  <2>2. ASSUME NEW c \in Dropped .. Stalled, result' = [result EXCEPT ![in] = c],
               c = Canceled => stop = "canceled", Scanning => c \in {OK, Input}
        PROVE  ResultsInv'
    <3>1. /\ result' \in [Inputs -> Dropped .. Stalled] /\ result'[in] = c
          /\ \A i \in Inputs \ {in} : result'[i] = result[i]
      BY <1>1, <2>2 DEF ResultsInv
    <3> QED
      BY <1>1, <1>2, <1>3, <2>2, <3>1 DEF ResultsInv
  <2> QED
    BY <1>4, <2>1, <2>2
<1> QED
  BY <1>1, <1>5 DEF CodeInv

\* The code of a run whose inputs are all over.
LEMMA CodeOfRunTells ==
  ASSUME ResultsInv, \A in \in Inputs : result[in] # None,
         UNCHANGED <<request, result, stop>>, code' = CodeOfRun
  PROVE  Tells'
<1> DEFINE all == Errors \cup (IF Missing # {} THEN {Input} ELSE {})
<1>1. Errors' = Errors /\ Missing' = Missing
  BY RequestFixed DEF Errors, request, Inputs
<1>2. Errors \in SUBSET (1 .. 8) /\ all \in SUBSET (1 .. 8)
  BY DEF Errors, ResultsInv, None, OK, Dropped, Stalled, Input
<1>3. CASE all = {}
  BY <1>1, <1>3 DEF Tells, CodeOfRun, OK, Stalled, Canceled
<1>4. CASE all # {}
  <2> DEFINE Highest(c) == \A d \in all : Rank(d) <= Rank(c)
  <2>1. CodeOfRun = CHOOSE c \in all : Highest(c)
    BY <1>4 DEF CodeOfRun
  <2>2. \E c \in all : Highest(c)
    <3> HIDE DEF all
    <3> QED
      BY <1>2, <1>4, HighestExists
  <2>3. code' \in all /\ Highest(code')
    <3> HIDE DEF all, Highest
    <3> QED
      BY <2>1, <2>2
  <2>4. code' \in 1 .. 8 /\ (Stalled \in all => code' = Stalled)
    BY <1>2, <2>3, CodeRanks
  <2>5. code' \in Errors \/ code' = Input
    BY <2>3
  <2>6. code' = Stalled <=> Stalled \in Errors
    BY <2>4, <2>5 DEF Stalled, Input
  <2>7. code' = Canceled => stop' = "canceled" /\ Stalled \notin Errors
    BY <2>5, <2>6 DEF ResultsInv, Errors, Canceled, Stalled, Input
  <2> QED
    BY <1>1, <2>4, <2>5, <2>6, <2>7 DEF Tells, OK
<1> QED
  BY <1>3, <1>4

LEMMA FinishTells ==
  ASSUME CodeInv, Finish
  PROVE  CodeInv'
<1> USE DEF BeforeWork, Ending
<1>1. /\ at \in {"running"} \cup Ending /\ at' \in Ending /\ ResultsInv
      /\ UNCHANGED <<request, result, described, stop, refused>>
  BY DEF Finish, EndRun, CloseLog, CloseCatalog, CloseConsole, Prepared, CodeInv, End, Goto
<1>2. ResultsInv'
  BY <1>1, ResultsStay
<1> SUFFICES ASSUME ~refused PROVE Tells'
  BY <1>1, <1>2 DEF CodeInv
<1>3. CASE EndRun
  BY <1>1, <1>3, CodeOfRunTells DEF EndRun, End
<1>4. CASE code' = code /\ ~EndRun
  <2>1. at \in Ending
    BY <1>4 DEF Finish, CloseLog, CloseCatalog, CloseConsole
  <2> QED
    BY <1>1, <1>4, <2>1, TellsStays DEF CodeInv
<1>5. CASE CloseCatalog /\ CatalogFailed /\ code' # code
  <2>1. Tells /\ code' = OutputCode /\ (code = OK \/ Scanning)
    BY <1>5 DEF CloseCatalog, CatalogFailed, CodeInv
  <2>2. Errors' = Errors /\ Missing' = Missing
    BY <1>1, RequestFixed DEF Errors, request, Inputs
  <2>3. Stalled \notin Errors
    <3>1. CASE code = OK
      BY <2>1, <3>1 DEF Tells
    <3>2. CASE Scanning
      <4>1. \A in \in Inputs : result[in] \in {None, OK, Input}
        BY <1>1, <3>2 DEF ResultsInv
      <4>2. Stalled \notin {None, OK, Input}
        BY DEF Stalled, None, OK, Input
      <4> QED
        BY <4>1, <4>2 DEF Errors
    <3> QED
      BY <2>1, <3>1, <3>2
  <2> QED
    BY <2>1, <2>2, <2>3 DEF Tells, OK, Input, OutputCode, Stalled, Canceled
<1> QED
  BY <1>3, <1>4, <1>5 DEF Finish, CloseLog, CloseCatalog, CloseConsole

\* The results determine the exit code: CodeInv is an invariant.
LEMMA CodesHold == Spec => []CodeInv
<1>1. ASSUME CodeInv, [Next]_vars
      PROVE  CodeInv'
  <2>1. CASE Step
    BY <1>1, <2>1, OpeningTells, WorkTells, FinishTells DEF Step
  <2>2. ASSUME UNCHANGED <<request, at, refused, result, described, code>>,
               stop' = stop \/ (stop = "none" /\ at = "running")
        PROVE  CodeInv'
    <3>1. ResultsInv'
      BY <1>1, <2>2, ResultsStay DEF CodeInv
    <3>2. at \in Ending => Tells' = Tells
      BY <2>2, TellsStays DEF Ending
    <3> QED
      BY <1>1, <2>2, <3>1, <3>2 DEF CodeInv
  <2>3. CASE Cancel
    BY <2>2, <2>3 DEF Cancel, AtWork
  <2>4. CASE Say
    BY <2>2, <2>4 DEF Say, run
  <2>5. CASE UNCHANGED vars
    BY <2>2, <2>5 DEF vars, run
  <2> QED
    BY <1>1, <2>1, <2>3, <2>4, <2>5 DEF Next
<1> QED
  BY CodeInvInit, <1>1, PTL DEF Spec

\* What the exit code says is so, whatever happened to the inputs, in whichever order, and
\* whatever failed as the run ended.
THEOREM ExitCodeTells == Spec => []ExitTells
<1>1. CodeInv => ExitTells
  BY DEF CodeInv, Ending, Tells, ExitTells
<1> QED
  BY <1>1, CodesHold, PTL
-----------------------------------------------------------------------------
(* The console log, in its place in the run.                               *)

\* Lines of a screen, in its order, and its first lines.
Excerpt(log, lines) ==
  \A k \in 1 .. Len(log) :
    /\ log[k].nr \in 1 .. Len(lines) /\ log[k] = lines[log[k].nr]
    /\ k > 1 => log[k - 1].nr < log[k].nr

Starts(log, lines) == Len(log) <= Len(lines) /\ \A k \in 1 .. Len(log) : log[k] = lines[k]

Numbered(lines) == \A k \in 1 .. Len(lines) : lines[k].nr = k

LinesInv ==
  /\ screen \in Seq(Console!Message) /\ text \in Seq(Console!Message)
  /\ pending \in Seq(Console!Message)
  /\ Numbered(screen)
  /\ Excerpt(text, screen) /\ Excerpt(pending, screen)

\* What is held goes with nothing written yet, and is the screen unless some of it was
\* dropped; once it is settled whether there is a file, nothing is held.
HeldInv ==
  /\ dropped \in Nat
  /\ stage \in {"guards", "creating"} =>
       ~open /\ ~settled /\ text = <<>> /\ (dropped = 0 => pending = screen)
  /\ stage \notin {"guards", "creating"} => settled
  /\ settled => pending = <<>>

\* A file that is open has had its start, or it is known that it has not.
FileInv ==
  "start missing" \notin told /\ ~unplayed =>
    Starts(text, screen) /\ (open => text = screen)

ScreenInv == LinesInv /\ HeldInv /\ FileInv

LEMMA ExcerptGrows ==
  ASSUME NEW S, NEW lines \in Seq(S), NEW log \in Seq(S), NEW m \in S,
         m.nr = Len(lines) + 1, Excerpt(log, lines)
  PROVE  Excerpt(log, Append(lines, m)) /\ Excerpt(Append(log, m), Append(lines, m))
<1> DEFINE more == Append(log, m)
           all == Append(lines, m)
<1>1. /\ Len(all) = Len(lines) + 1 /\ all[Len(lines) + 1] = m /\ Len(lines) \in Nat
      /\ \A k \in 1 .. Len(lines) : all[k] = lines[k]
  OBVIOUS
<1>2. /\ Len(more) = Len(log) + 1 /\ more[Len(log) + 1] = m /\ Len(log) \in Nat
      /\ \A k \in 1 .. Len(log) : more[k] = log[k]
  OBVIOUS
<1>3. \A k \in 1 .. Len(log) :
        /\ log[k].nr \in 1 .. Len(lines) /\ log[k] = lines[log[k].nr]
        /\ k > 1 => log[k - 1].nr < log[k].nr
  BY DEF Excerpt
<1> HIDE DEF more, all
<1>4. Excerpt(log, all)
  BY <1>1, <1>3 DEF Excerpt
<1>5. ASSUME NEW k \in 1 .. Len(more)
      PROVE  /\ more[k].nr \in 1 .. Len(all) /\ more[k] = all[more[k].nr]
             /\ k > 1 => more[k - 1].nr < more[k].nr
  <2>1. CASE k = Len(log) + 1
    <3>1. more[k] = m /\ m.nr \in 1 .. Len(all) /\ m = all[m.nr]
      BY <1>1, <1>2, <2>1
    <3>2. k > 1 => more[k - 1] = log[k - 1] /\ log[k - 1].nr \in 1 .. Len(lines)
      BY <1>2, <1>3, <2>1
    <3> QED
      BY <1>1, <3>1, <3>2
  <2>2. CASE k \in 1 .. Len(log)
    <3>1. more[k] = log[k] /\ (k > 1 => more[k - 1] = log[k - 1])
      BY <1>2, <2>2
    <3> QED
      BY <1>1, <1>3, <2>2, <3>1
  <2> QED
    BY <1>2, <2>1, <2>2
<1> QED
  BY <1>4, <1>5 DEF more, all, Excerpt

LEMMA StartsGrows ==
  ASSUME NEW S, NEW lines \in Seq(S), NEW log \in Seq(S), NEW m \in S, Starts(log, lines)
  PROVE  Starts(log, Append(lines, m))
BY DEF Starts

LEMMA StartsItself ==
  ASSUME NEW S, NEW lines \in Seq(S)
  PROVE  Starts(lines, lines) /\ Starts(<<>>, lines) /\ Excerpt(<<>>, lines)
BY DEF Starts, Excerpt

LEMMA NumberedGrows ==
  ASSUME NEW S, NEW lines \in Seq(S), NEW m \in S, m.nr = Len(lines) + 1, Numbered(lines)
  PROVE  Numbered(Append(lines, m))
<1>1. \A k \in 1 .. Len(lines) : lines[k].nr = k
  BY DEF Numbered
<1> DEFINE all == Append(lines, m)
<1>2. /\ Len(all) = Len(lines) + 1 /\ all[Len(lines) + 1] = m /\ Len(lines) \in Nat
      /\ \A k \in 1 .. Len(lines) : all[k] = lines[k]
  OBVIOUS
<1> HIDE DEF all
<1>3. \A k \in 1 .. Len(all) : all[k].nr = k
  BY <1>1, <1>2
<1> QED
  BY <1>3 DEF all, Numbered

\* What starts alike is a prefix.
LEMMA StartsIsPrefix ==
  ASSUME NEW S, NEW lines \in Seq(S), NEW log \in Seq(S), Starts(log, lines)
  PROVE  IsPrefix(log, lines)
<1>1. Len(log) \in Nat /\ Len(lines) \in Nat /\ Len(log) <= Len(lines)
  BY DEF Starts
<1>2. \A k \in 1 .. Len(log) : log[k] = lines[k]
  BY DEF Starts
<1>3. SubSeq(log, 1, Len(log)) \in Seq(S) /\ SubSeq(lines, 1, Len(log)) \in Seq(S)
  BY <1>1
<1>4. /\ Len(SubSeq(log, 1, Len(log))) = Len(log) /\ Len(SubSeq(lines, 1, Len(log))) = Len(log)
      /\ \A k \in 1 .. Len(log) : SubSeq(log, 1, Len(log))[k] = log[k]
      /\ \A k \in 1 .. Len(log) : SubSeq(lines, 1, Len(log))[k] = lines[k]
  BY <1>1
<1>5. SubSeq(log, 1, Len(log)) = SubSeq(lines, 1, Len(log))
  BY <1>2, <1>3, <1>4, SeqEqual
<1> QED
  BY <1>1, <1>5 DEF IsPrefix

\* A step of the command is a step of its console, or leaves that alone.
LEMMA StepOfConsole ==
  ASSUME [Next]_vars
  PROVE  [Console!Next]_console
BY DEF Next, Step, Opening, Work, Finish, Cancel, Say, Guards, NoConsole, RefuseConsole,
       CreateConsole, AttachConsole, OpenCatalog, OpenLog, ReportSchema, CheckOutput, Commit,
       SkipInput, Fail, Stopped, Stall, Inspect, Scan, EndRun, CloseLog, CloseCatalog,
       CloseConsole, AtWork, vars, Console!Next

\* The command uses its console log as ConsoleLog has it: created, attached or given up
\* once, written to until it is closed.
THEOREM ConsoleInPlace == Spec => Console!Spec
<1>1. Init => Console!Init
  BY DEF Init
<1>2. [Next]_vars => [Console!Next]_(Console!vars)
  BY StepOfConsole DEF console, Console!vars
<1> QED
  BY <1>1, <1>2, PTL DEF Spec, Console!Spec

LEMMA ScreenInvInit == Console!Init => ScreenInv
BY DEF Console!Init, ScreenInv, LinesInv, HeldInv, FileInv, Excerpt, Starts, Numbered

\* One line more on the screen.
LEMMA WriteKeepsScreen ==
  ASSUME ScreenInv, Console!Write
  PROVE  ScreenInv'
<1>1. /\ screen \in Seq(Console!Message) /\ text \in Seq(Console!Message)
      /\ pending \in Seq(Console!Message) /\ Numbered(screen)
      /\ Excerpt(text, screen) /\ Excerpt(pending, screen)
  BY DEF ScreenInv, LinesInv
<1>2. PICK size \in Sizes : LET m == [nr |-> Len(screen) + 1, size |-> size] IN
        /\ screen' = Append(screen, m)
        /\ \/ ~open /\ ~settled /\ Console!Hold(m) /\ UNCHANGED <<text, open, told>>
           \/ ~open /\ settled /\ UNCHANGED <<text, open, told, pending, dropped>>
           \/ open /\ text' = Append(text, m) /\ UNCHANGED <<open, told, pending, dropped>>
           \/ open /\ Console!GiveUpFile /\ UNCHANGED <<text, pending, dropped>>
  BY DEF Console!Write
<1> DEFINE m == [nr |-> Len(screen) + 1, size |-> size]
<1>3. /\ screen' = Append(screen, m)
      /\ \/ ~open /\ ~settled /\ Console!Hold(m) /\ UNCHANGED <<text, open, told>>
         \/ ~open /\ settled /\ UNCHANGED <<text, open, told, pending, dropped>>
         \/ open /\ text' = Append(text, m) /\ UNCHANGED <<open, told, pending, dropped>>
         \/ open /\ Console!GiveUpFile /\ UNCHANGED <<text, pending, dropped>>
  BY <1>2
<1>4. Len(screen) < MaxLines /\ UNCHANGED <<stage, settled, unplayed>>
  BY DEF Console!Write
<1>5. m.nr = Len(screen) + 1 /\ m.size \in Nat \ {0}
  BY CommandAssumption
<1>6. m \in Console!Message
  <2>1. Len(screen) \in Nat /\ MaxLines \in Nat
    BY <1>1, CommandAssumption
  <2>2. Len(screen) + 1 \in 1 .. MaxLines
    BY <1>4, <2>1
  <2> QED
    BY <2>2 DEF Console!Message
<1> HIDE DEF m
<1>7. text' \in {text, Append(text, m)} /\ pending' \in {pending, Append(pending, m)}
  BY <1>3 DEF Console!Hold
<1>8. screen' \in Seq(Console!Message) /\ Numbered(screen')
  BY <1>1, <1>3, <1>5, <1>6, NumberedGrows
<1>9. text' \in Seq(Console!Message) /\ pending' \in Seq(Console!Message)
  <2>1. Append(text, m) \in Seq(Console!Message) /\ Append(pending, m) \in Seq(Console!Message)
    BY <1>1, <1>6
  <2> QED
    BY <1>1, <1>7, <2>1
<1>10. Excerpt(text', screen')
  BY <1>1, <1>3, <1>5, <1>6, <1>7, ExcerptGrows
<1>11. Excerpt(pending', screen')
  BY <1>1, <1>3, <1>5, <1>6, <1>7, ExcerptGrows
<1>12. LinesInv'
  BY <1>8, <1>9, <1>10, <1>11 DEF LinesInv
<1>13. text' = text /\ Starts(text, screen) => Starts(text', screen')
  BY <1>1, <1>3, <1>6, StartsGrows
<1>14. CASE ~open /\ ~settled /\ Console!Hold(m) /\ UNCHANGED <<text, open, told>>
  <2>1. /\ dropped \in Nat /\ stage \in {"guards", "creating"} /\ text = <<>>
        /\ dropped = 0 => pending = screen
    BY <1>14 DEF ScreenInv, HeldInv
  <2>2. \/ pending' = Append(pending, m) /\ dropped' = dropped
        \/ dropped' = dropped + m.size /\ pending' = pending
    BY <1>14 DEF Console!Hold
  <2>3. dropped' \in Nat
    BY <1>5, <2>1, <2>2
  <2>4. dropped' = 0 => pending' = screen'
    <3>1. CASE dropped' = dropped /\ pending' = Append(pending, m)
      BY <1>3, <2>1, <3>1
    <3>2. CASE dropped' = dropped + m.size
      BY <1>5, <2>1, <3>2
    <3> QED
      BY <2>2, <3>1, <3>2
  <2>5. HeldInv'
    BY <1>4, <1>14, <2>1, <2>3, <2>4 DEF HeldInv
  <2>6. FileInv'
    BY <1>4, <1>13, <1>14 DEF ScreenInv, FileInv
  <2> QED
    BY <1>12, <2>5, <2>6 DEF ScreenInv
<1>15. CASE ~open /\ settled /\ UNCHANGED <<text, open, told, pending, dropped>>
  <2>1. HeldInv'
    <3>1. dropped \in Nat /\ pending = <<>> /\ stage \notin {"guards", "creating"}
      BY <1>15 DEF ScreenInv, HeldInv
    <3> QED
      BY <1>4, <1>15, <3>1 DEF HeldInv
  <2>2. FileInv'
    BY <1>4, <1>13, <1>15 DEF ScreenInv, FileInv
  <2> QED
    BY <1>12, <2>1, <2>2 DEF ScreenInv
<1>16. CASE open /\ text' = Append(text, m) /\ UNCHANGED <<open, told, pending, dropped>>
  <2>1. HeldInv'
    BY <1>4, <1>16 DEF ScreenInv, HeldInv
  <2>2. "start missing" \notin told /\ ~unplayed => text' = screen'
    BY <1>3, <1>16 DEF ScreenInv, FileInv
  <2>3. FileInv'
    BY <1>4, <1>8, <1>16, <2>2, StartsItself DEF FileInv
  <2> QED
    BY <1>12, <2>1, <2>3 DEF ScreenInv
<1>17. CASE open /\ Console!GiveUpFile /\ UNCHANGED <<text, pending, dropped>>
  <2>1. ~open' /\ ("start missing" \in told => "start missing" \in told')
    BY <1>17 DEF Console!GiveUpFile
  <2>2. HeldInv'
    BY <1>4, <1>17, <2>1 DEF ScreenInv, HeldInv
  <2>3. FileInv'
    BY <1>4, <1>13, <1>17, <2>1 DEF ScreenInv, FileInv
  <2> QED
    BY <1>12, <2>2, <2>3 DEF ScreenInv
<1> QED
  BY <1>3, <1>14, <1>15, <1>16, <1>17

\* The file is made, attached, given up or closed.
LEMMA ConsoleKeepsScreen ==
  ASSUME ScreenInv, [Console!Next]_console
  PROVE  ScreenInv'
<1>0. /\ screen \in Seq(Console!Message) /\ text \in Seq(Console!Message)
      /\ pending \in Seq(Console!Message) /\ Numbered(screen)
      /\ Excerpt(text, screen) /\ Excerpt(pending, screen)
  BY DEF ScreenInv, LinesInv
<1>1. CASE Console!Write
  BY <1>1, WriteKeepsScreen
<1>2. CASE UNCHANGED console
  BY <1>2 DEF ScreenInv, LinesInv, HeldInv, FileInv, console
<1>3. CASE Console!Discard
  <2>1. LinesInv'
    BY <1>0, <1>3, StartsItself DEF Console!Discard, Console!Settle, LinesInv
  <2>2. HeldInv' /\ FileInv'
    BY <1>3 DEF Console!Discard, Console!Settle, ScreenInv, HeldInv, FileInv
  <2> QED
    BY <2>1, <2>2 DEF ScreenInv
<1>4. CASE Console!CreateFile
  BY <1>4 DEF Console!CreateFile, ScreenInv, LinesInv, HeldInv, FileInv
<1>5. CASE Console!Attach
  <2>1. /\ screen' = screen /\ stage' = "running" /\ settled' /\ pending' = <<>> /\ dropped' = 0
        /\ open' /\ stage = "creating"
        /\ told' = IF dropped > 0 THEN {"start missing"} ELSE {}
        /\ \/ text' = pending /\ UNCHANGED unplayed
           \/ text' = <<>> /\ unplayed' = (pending # <<>>)
    BY <1>5 DEF Console!Attach, Console!Settle
  <2>2. dropped \in Nat /\ (dropped = 0 => pending = screen)
    BY <2>1 DEF ScreenInv, HeldInv
  <2>3. LinesInv'
    <3>1. /\ text' \in Seq(Console!Message) /\ pending' \in Seq(Console!Message)
          /\ screen' \in Seq(Console!Message)
      <4>1. <<>> \in Seq(Console!Message)
        OBVIOUS
      <4>2. text' \in {pending, <<>>}
        BY <2>1
      <4> QED
        BY <1>0, <2>1, <4>1, <4>2
    <3>2. Excerpt(text', screen') /\ Excerpt(pending', screen')
      BY <1>0, <2>1, StartsItself
    <3> QED
      BY <1>0, <2>1, <3>1, <3>2 DEF LinesInv
  <2>4. HeldInv'
    BY <2>1 DEF HeldInv
  <2>5. "start missing" \notin told' => pending = screen
    <3>1. dropped > 0 => "start missing" \in told'
      BY <2>1
    <3> QED
      <4>1. dropped = 0 \/ dropped > 0
        BY <2>2
      <4> QED
        BY <2>2, <3>1, <4>1
  <2>6. ~unplayed' /\ "start missing" \notin told' => text' = screen'
    BY <2>1, <2>5
  <2>7. FileInv'
    BY <1>0, <2>1, <2>6, StartsItself DEF FileInv
  <2> QED
    BY <2>3, <2>4, <2>7 DEF ScreenInv
<1>6. CASE Console!Close
  BY <1>6 DEF Console!Close, ScreenInv, LinesInv, HeldInv, FileInv
<1> QED
  BY <1>1, <1>2, <1>3, <1>4, <1>5, <1>6 DEF Console!Next

LEMMA ScreenInvTells == ScreenInv => HoldsTheScreen
<1> SUFFICES ASSUME ScreenInv PROVE HoldsTheScreen
  OBVIOUS
<1> DEFINE log == text \o pending
<1>1. /\ screen \in Seq(Console!Message) /\ text \in Seq(Console!Message)
      /\ pending \in Seq(Console!Message)
      /\ Excerpt(text, screen) /\ Excerpt(pending, screen)
  BY DEF ScreenInv, LinesInv
<1>2. text = <<>> \/ pending = <<>>
  BY DEF ScreenInv, HeldInv
<1>3. log = text \/ log = pending
  BY <1>1, <1>2
<1> HIDE DEF log
<1>4. Excerpt(log, screen) /\ log \in Seq(Console!Message)
  BY <1>1, <1>3
<1>5. \A k \in DOMAIN log : log[k] \in ToSet(screen) /\ (k > 1 => log[k - 1].nr < log[k].nr)
  BY <1>1, <1>4 DEF Excerpt, ToSet
<1>6. "start missing" \notin told /\ ~unplayed =>
        IsPrefix(text, screen) /\ (open => text = screen)
  BY <1>1, StartsIsPrefix DEF ScreenInv, FileInv
<1>7. LET all == text \o pending
      IN  \A k \in DOMAIN all : all[k] \in ToSet(screen) /\ (k > 1 => all[k - 1].nr < all[k].nr)
  BY <1>5 DEF log
<1>8. Console!HoldsTheScreen
  BY <1>6, <1>7, Zenon DEF Console!HoldsTheScreen, Console!IsPrefix, Console!ToSet, IsPrefix, ToSet
<1> QED
  BY <1>8, Zenon DEF HoldsTheScreen

\* The file holds what the screen held, for any number of messages of any length, any
\* buffer, and wherever in the run its file is created, refused or given up.
THEOREM ScreenIsHeld == Spec => []HoldsTheScreen
<1>1. Init => ScreenInv
  BY ScreenInvInit DEF Init
<1>2. ScreenInv /\ [Next]_vars => ScreenInv'
  BY StepOfConsole, ConsoleKeepsScreen
<1> QED
  BY <1>1, <1>2, ScreenInvTells, PTL DEF Spec
-----------------------------------------------------------------------------
(* What a command that ends with 0 has made.                               *)

Begun == {FileOf(p) : p \in there}

\* The manifest is none of the inputs and none of what is made of them: it has a name of
\* its own, but no guard compares it with an argument spelled like that.
ManifestApart ==
  \A p \in Manifest, in \in Inputs :
    /\ FileOf(p) # FileOf(in)
    /\ \A m \in Products(in) : Given(m[2]) => FileOf(p) # FileOf(m[2])

\* What became of the inputs, and how far they got before it.
ProgressInv ==
  /\ there \in Disks
  /\ done \in [Inputs -> {"todo", "reported", "checked", "over"}]
  /\ described \subseteq Inputs
  /\ refused => code # OK
  /\ at # "guards" /\ ~refused => Inputs \cup Missing # {}
  /\ \A in \in Inputs :
       /\ Converting /\ done[in] \in {"reported", "checked"} => Present(in)
       /\ Converting /\ result[in] = OK => done[in] \in {"todo", "checked"}
       /\ result[in] = OK => Present(in) /\ (Given(req.catalog) => in \in described)

\* What nobody opened is as it was.
UnwrittenStay ==
  \A f \in Begun : (\A w \in wrote : w[2] # f) => f \in DOMAIN disk /\ disk[f] = <<"before">>

\* As long as nothing failed the console log and the log are there from their opening on,
\* and the catalog when it is closed.
SidecarsHeld ==
  code = OK =>
    /\ at \notin {"guards", "console"} /\ Given(req.console) => Holds(req.console, <<"console">>)
    /\ at \in {"running"} \cup Ending /\ Given(req.log) => Holds(req.log, <<"log">>)
    /\ at \in {"closing console", "exited"} /\ Given(req.catalog) /\ described # {} =>
         Holds(req.catalog, <<"catalog", described>>)

\* What was made of an input stays.
MadeOf(in) ==
  /\ done[in] \in {"reported", "checked"} /\ Given(req.sreport) =>
       Holds(ReportOf(req.sreport, in), <<"schema report", in>>)
  /\ done[in] = "checked" /\ Given(req.qreport) =>
       Holds(ReportOf(req.qreport, in), <<"quality report", in>>)
  /\ done[in] = "checked" /\ result[in] = OK => Holds(OutputOf(in), <<"output", in>>)
  /\ done[in] = "todo" /\ result[in] = OK => Holds(OutputOf(in), <<"before">>)

ProductsHeld == \A in \in Inputs : MadeOf(in)

MadeInv ==
  /\ ProgressInv /\ UnwrittenStay /\ SidecarsHeld
  /\ Converting /\ ProductsApart /\ ManifestApart => ProductsHeld

LEMMA StillGiven ==
  ASSUME NEW p, NEW q, FileOf(p) = FileOf(q), Given(q),
         q \in [dir : Seq(STRING), stem : Seq(STRING), ext : STRING]
  PROVE  Given(p)
<1>1. DOMAIN FileOf(q) = DOMAIN q /\ FileOf(q).ext = q.ext /\ "ext" \in DOMAIN q
  BY DEF FileOf, Folded, Canonical
<1>2. DOMAIN FileOf(p) = DOMAIN p
  BY DEF FileOf, Folded, Canonical
<1>3. "ext" \in DOMAIN p => FileOf(p).ext = p.ext
  BY DEF FileOf, Folded, Canonical
<1> QED
  BY <1>1, <1>2, <1>3 DEF Given

\* An input that is there has a path like any other.
LEMMA PresentIsGiven ==
  ASSUME there \in Disks, NEW in, Present(in)
  PROVE  Given(in)
<1>1. PICK p \in there : FileOf(in) = FileOf(p)
  BY DEF Present
<1>2. Given(p) /\ p \in [dir : Seq(STRING), stem : Seq(STRING), ext : STRING]
  BY CommandAssumption
<1> QED
  BY <1>1, <1>2, StillGiven

\* What is made of the inputs is made in files apart.
LEMMA MadeApart ==
  ASSUME ProductsApart, NEW in \in Inputs, NEW m \in Products(in), Given(m[2]), NEW other \in Inputs
  PROVE  /\ FileOf(m[2]) # FileOf(other)
         /\ \A n \in Products(other) :
              Given(n[2]) /\ (in # other \/ m # n) => FileOf(m[2]) # FileOf(n[2])
<1> DEFINE all == {<<i, p>> : i \in Inputs, p \in UNION {Products(i) : i \in Inputs}}
           made == {x \in all : x[2] \in Products(x[1]) /\ Given(x[2][2])}
<1>1. ASSUME NEW i \in Inputs, NEW p \in Products(i), Given(p[2])
      PROVE  <<i, p>> \in made
  <2>1. p \in UNION {Products(j) : j \in Inputs}
    OBVIOUS
  <2>2. <<i, p>> \in all
    BY <2>1
  <2> QED
    BY <1>1, <2>2
<1>2. /\ \A x, y \in made : x # y => FileOf(x[2][2]) # FileOf(y[2][2])
      /\ \A x \in made, i \in Inputs : FileOf(x[2][2]) # FileOf(i)
  BY DEF ProductsApart
<1> HIDE DEF made, all
<1>3. FileOf(m[2]) # FileOf(other)
  BY <1>1, <1>2
<1>4. ASSUME NEW n \in Products(other), Given(n[2]), in # other \/ m # n
      PROVE  FileOf(m[2]) # FileOf(n[2])
  <2>1. <<in, m>> \in made /\ <<other, n>> \in made /\ <<in, m>> # <<other, n>>
    BY <1>1, <1>4
  <2> QED
    BY <1>2, <2>1
<1> QED
  BY <1>3, <1>4

\* The products of the inputs, by name.
LEMMA ProductsOf ==
  ASSUME NEW in \in Inputs, req \in Requests
  PROVE  /\ <<"output", OutputOf(in)>> \in Products(in)
         /\ <<"schema report", ReportOf(req.sreport, in)>> \in Products(in)
         /\ <<"quality report", ReportOf(req.qreport, in)>> \in Products(in)
         /\ Given(req.sreport) => Given(ReportOf(req.sreport, in))
         /\ Given(req.qreport) => Given(ReportOf(req.qreport, in))
         /\ Converting => Given(OutputOf(in)) /\ OutputOf(in) \in Outputs
         /\ ~Scanning => ReportOf(req.sreport, in) \in Reports /\ ReportOf(req.qreport, in) \in Reports
<1>1. Given(req.sreport) => Given(ReportOf(req.sreport, in))
  BY DEF ReportOf, Report, Given, Path
<1>2. Given(req.qreport) => Given(ReportOf(req.qreport, in))
  BY DEF ReportOf, Report, Given, Path
<1>3. Converting => Given(OutputOf(in)) /\ OutputOf(in) \in Outputs
  BY CommandAssumption DEF OutputOf, Output, Outputs, Given, Path, Converting, Batch
<1>4. ~Scanning => ReportOf(req.sreport, in) \in Reports /\ ReportOf(req.qreport, in) \in Reports
  BY DEF Reports
<1> QED
  BY <1>1, <1>2, <1>3, <1>4 DEF Products

-----------------------------------------------------------------------------
(* What a step does to one file.                                           *)

SameAt(f) == (f \in DOMAIN disk' <=> f \in DOMAIN disk) /\ (f \in DOMAIN disk => disk'[f] = disk[f])
WillHold(p, what) == FileOf(p) \in DOMAIN disk' /\ disk'[FileOf(p)] = what

LEMMA CreateDoes ==
  ASSUME NEW p, NEW what, Create(p, what)
  PROVE  /\ WillHold(p, what)
         /\ \A f : f # FileOf(p) => SameAt(f)
         /\ wrote' = wrote \cup {<<what[1], FileOf(p)>>}
<1>1. disk' = [f \in DOMAIN disk \cup {FileOf(p)} |-> IF f = FileOf(p) THEN what ELSE disk[f]]
  BY DEF Create
<1>2. /\ DOMAIN disk' = {FileOf(p)} \cup DOMAIN disk
      /\ disk'[FileOf(p)] = what
      /\ \A f \in DOMAIN disk : f # FileOf(p) => disk'[f] = disk[f]
  BY <1>1
<1> QED
  BY <1>2 DEF SameAt, WillHold, Create, Opened

LEMMA CreateFailedDoes ==
  ASSUME NEW p, NEW who, CreateFailed(p, who)
  PROVE  /\ \A f : f # FileOf(p) => SameAt(f)
         /\ wrote' = wrote \cup {<<who, FileOf(p)>>}
BY DEF CreateFailed, SameAt, Opened, Restrict

LEMMA SameHolds ==
  ASSUME NEW p, NEW what, Holds(p, what), SameAt(FileOf(p))
  PROVE  WillHold(p, what)
BY DEF Holds, Exists, SameAt, WillHold

\* A step that touches no file but what it records leaves the others as they were.
LEMMA UnwrittenStays ==
  ASSUME UnwrittenStay, UNCHANGED request, wrote \subseteq wrote',
         \A f : SameAt(f) \/ \E w \in wrote' : w[2] = f
  PROVE  UnwrittenStay'
<1>1. Begun' = Begun
  BY DEF Begun, request
<1> SUFFICES ASSUME NEW f \in Begun, \A w \in wrote' : w[2] # f
             PROVE  f \in DOMAIN disk' /\ disk'[f] = <<"before">>
  BY <1>1 DEF UnwrittenStay
<1>2. f \in DOMAIN disk /\ disk[f] = <<"before">>
  BY DEF UnwrittenStay
<1> QED
  BY <1>2 DEF SameAt

\* What is made of the inputs depends on the request alone.
LEMMA ProductsFixed ==
  ASSUME UNCHANGED request
  PROVE  /\ ProductsApart' = ProductsApart /\ ManifestApart' = ManifestApart
         /\ Converting' = Converting /\ Inputs' = Inputs /\ Missing' = Missing /\ req' = req
         /\ Begun' = Begun /\ there' = there
         /\ \A in : /\ OutputOf(in)' = OutputOf(in) /\ Products(in)' = Products(in)
                    /\ ReportOf(req.sreport, in)' = ReportOf(req.sreport, in)
                    /\ ReportOf(req.qreport, in)' = ReportOf(req.qreport, in)
                    /\ Present(in)' = Present(in)
BY DEF request, ProductsApart, ManifestApart, Converting, Inputs, Missing, Begun, OutputOf,
       Products, ReportOf, Present, Batch, Manifest

\* The sidecars and the manifest are none of what is made of the inputs.
LEMMA SidecarsApart ==
  ASSUME GuardInv, at # "guards", at \notin {"guards", "console"} \/ ~ConsoleRefused, ~refused,
         NEW p \in Reports \cup Outputs, Given(p)
  PROVE  /\ Given(req.console) => FileOf(req.console) # FileOf(p)
         /\ Given(req.catalog) => FileOf(req.catalog) # FileOf(p)
         /\ Given(req.log) => FileOf(req.log) # FileOf(p)
<1>1. ~PathsRefused /\ ~ConsoleRefused /\ req \in Requests
  BY DEF GuardInv, Passed, ConsolePassed
<1>2. ~Scanning
  BY DEF Scanning, Reports, Outputs, Converting
<1> QED
  BY <1>1, <1>2, WhatGuardsSay

-----------------------------------------------------------------------------
(* The steps of a command.                                                 *)

LEMMA MadeInvInit == Init => MadeInv
<1> SUFFICES ASSUME Init PROVE MadeInv
  OBVIOUS
<1> USE DEF Init
<1>1. ProgressInv
  BY DEF ProgressInv, OK, None
<1>2. UnwrittenStay
  BY DEF UnwrittenStay, Begun
<1>3. SidecarsHeld
  BY DEF SidecarsHeld, Ending
<1>4. ProductsHeld
  BY DEF ProductsHeld, MadeOf, OK, None
<1> QED
  BY <1>1, <1>2, <1>3, <1>4 DEF MadeInv

\* What has been made of an input, from the step that leads there.
LEMMA MadeAfter ==
  ASSUME UNCHANGED request, NEW in,
    /\ done'[in] \in {"reported", "checked"} /\ Given(req.sreport) =>
         WillHold(ReportOf(req.sreport, in), <<"schema report", in>>)
    /\ done'[in] = "checked" /\ Given(req.qreport) =>
         WillHold(ReportOf(req.qreport, in), <<"quality report", in>>)
    /\ done'[in] = "checked" /\ result'[in] = OK => WillHold(OutputOf(in), <<"output", in>>)
    /\ done'[in] = "todo" /\ result'[in] = OK => WillHold(OutputOf(in), <<"before">>)
  PROVE  MadeOf(in)'
<1>1. /\ ReportOf(req.sreport, in)' = ReportOf(req.sreport, in)
      /\ ReportOf(req.qreport, in)' = ReportOf(req.qreport, in)
      /\ OutputOf(in)' = OutputOf(in) /\ req' = req
  BY ProductsFixed
<1> QED
  BY <1>1 DEF MadeOf, Holds, Exists, WillHold

LEMMA MadeStays ==
  ASSUME Converting, req \in Requests, UNCHANGED request,
         NEW in \in Inputs, MadeOf(in), done'[in] = done[in], result'[in] = result[in],
         \A m \in Products(in) : Given(m[2]) => SameAt(FileOf(m[2]))
  PROVE  MadeOf(in)'
<1>1. \A a, b : <<a, b>>[2] = b
  OBVIOUS
<1>2. /\ Given(req.sreport) => SameAt(FileOf(ReportOf(req.sreport, in)))
      /\ Given(req.qreport) => SameAt(FileOf(ReportOf(req.qreport, in)))
      /\ SameAt(FileOf(OutputOf(in)))
  BY <1>1, ProductsOf
<1> QED
  BY <1>2, MadeAfter, SameHolds DEF MadeOf

LEMMA ProductsKept ==
  ASSUME ProductsHeld, Converting, req \in Requests, UNCHANGED <<request, done, result>>,
         \A in \in Inputs : \A m \in Products(in) : Given(m[2]) => SameAt(FileOf(m[2]))
  PROVE  ProductsHeld'
<1>1. \A in \in Inputs : MadeOf(in)'
  BY MadeStays DEF ProductsHeld
<1> QED
  BY <1>1, ProductsFixed DEF ProductsHeld

\* The products of a conversion are files the guards looked at.
LEMMA ProductsGuarded ==
  ASSUME req \in Requests, Converting, NEW in \in Inputs, NEW m \in Products(in)
  PROVE  m[2] \in Reports \cup Outputs
<1>1. /\ OutputOf(in) \in Outputs
      /\ ReportOf(req.sreport, in) \in Reports /\ ReportOf(req.qreport, in) \in Reports
  BY ProductsOf DEF Converting, Scanning
<1>2. \/ m = <<"output", OutputOf(in)>>
      \/ m = <<"schema report", ReportOf(req.sreport, in)>>
      \/ m = <<"quality report", ReportOf(req.qreport, in)>>
  BY DEF Products
<1>3. \A a, b : <<a, b>>[2] = b
  OBVIOUS
<1> QED
  BY <1>1, <1>2, <1>3

LEMMA OpeningMade ==
  ASSUME GuardInv, CodeInv, MadeInv, Opening
  PROVE  MadeInv'
<1> USE DEF BeforeWork
<1>1. /\ at \in BeforeWork /\ code = OK /\ ~refused /\ req \in Requests
      /\ UNCHANGED <<request, result, described, done>>
      /\ \A in \in Inputs : result[in] = None
  BY DEF Opening, Guards, NoConsole, RefuseConsole, CreateConsole, AttachConsole, OpenCatalog,
         OpenLog, Prepared, CodeInv, ResultsInv, GuardInv
<1>2. \/ UNCHANGED <<disk, wrote>>
      \/ \E p : /\ \/ CreateConsole /\ p = req.console
                   \/ OpenLog /\ p = req.log
                /\ Given(p) /\ at # "guards" /\ (at = "console" => ~ConsoleRefused)
                /\ \A f : f # FileOf(p) => SameAt(f)
                /\ \E who : wrote' = wrote \cup {<<who, FileOf(p)>>}
  <2>1. CASE CreateConsole
    BY <2>1, CreateDoes, CreateFailedDoes DEF CreateConsole
  <2>2. CASE OpenLog
    BY <2>2, CreateDoes, CreateFailedDoes DEF OpenLog
  <2> QED
    BY <2>1, <2>2 DEF Opening, Guards, NoConsole, RefuseConsole, AttachConsole, OpenCatalog, Prepared
<1>3. ProgressInv'
  <2>1. /\ refused' => code' # OK
        /\ at' # "guards" /\ ~refused' => Inputs \cup Missing # {}
    <3>1. CASE Guards
      BY <1>1, <3>1, NextStage
         DEF Guards, Refuse, Exit, End, OK, Input, Usage, OutputCode
    <3>2. CASE ~Guards
      <4>1. CASE RefuseConsole
        BY <4>1, <1>1 DEF RefuseConsole, Refuse, Exit, End, MadeInv, ProgressInv, OK, Usage
      <4>2. CASE ~RefuseConsole
        <5>1. at # "guards" /\ refused' = refused
          BY <3>2, <4>2
             DEF Opening, NoConsole, CreateConsole, AttachConsole, OpenCatalog, OpenLog, Prepared
        <5> QED
          BY <1>1, <5>1 DEF MadeInv, ProgressInv
      <4> QED
        BY <4>1, <4>2
    <3> QED
      BY <3>1, <3>2
  <2>2. ProgressInv
    BY DEF MadeInv
  <2> QED
    BY <1>1, <2>1, <2>2, ProductsFixed DEF ProgressInv
<1>4. UnwrittenStay'
  <2>1. wrote \subseteq wrote' /\ \A f : SameAt(f) \/ \E w \in wrote' : w[2] = f
    <3>1. CASE UNCHANGED <<disk, wrote>>
      BY <3>1 DEF SameAt
    <3>2. ASSUME NEW p, NEW who, \A f : f # FileOf(p) => SameAt(f),
                 wrote' = wrote \cup {<<who, FileOf(p)>>}
          PROVE  wrote \subseteq wrote' /\ \A f : SameAt(f) \/ \E w \in wrote' : w[2] = f
      <4>1. <<who, FileOf(p)>> \in wrote' /\ <<who, FileOf(p)>>[2] = FileOf(p)
        BY <3>2
      <4> QED
        BY <3>2, <4>1
    <3> QED
      BY <1>2, <3>1, <3>2
  <2> QED
    BY <1>1, <2>1, UnwrittenStays DEF MadeInv
<1>5. SidecarsHeld'
  <2> SUFFICES ASSUME code' = OK PROVE SidecarsHeld'
    BY DEF SidecarsHeld
  <2>1. SidecarsHeld /\ req' = req
    BY <1>1, ProductsFixed DEF MadeInv
  <2>2. CASE CreateConsole
    <3>1. Given(req.console) /\ Create(req.console, <<"console">>) /\ at' = "attaching"
      BY <2>2, NextStage DEF CreateConsole, Exit, End, Go, OK, OutputCode
    <3>2. WillHold(req.console, <<"console">>)
      BY <3>1, CreateDoes
    <3> QED
      BY <2>1, <3>1, <3>2 DEF SidecarsHeld, Ending, Holds, Exists, WillHold
  <2>3. CASE OpenLog
    <3>1. at = "log" /\ at' = "running" /\ (Given(req.log) => Create(req.log, <<"log">>))
          /\ (~Given(req.log) => UNCHANGED disk)
      BY <2>3, NextStage DEF OpenLog, End, Go, OK, OutputCode
    <3>2. Given(req.log) => WillHold(req.log, <<"log">>)
      BY <3>1, CreateDoes
    <3>3. ASSUME Given(req.console) PROVE WillHold(req.console, <<"console">>)
      <4>1. Holds(req.console, <<"console">>)
        BY <1>1, <2>1, <3>1, <3>3 DEF SidecarsHeld
      <4>2. Given(req.log) => FileOf(req.console) # FileOf(req.log)
        BY <1>1, <3>1, <3>3, WhatGuardsSay DEF GuardInv, Passed, ConsolePassed
      <4>3. SameAt(FileOf(req.console))
        BY <3>1, <4>2, CreateDoes DEF SameAt
      <4> QED
        BY <4>1, <4>3, SameHolds
    <3> QED
      BY <2>1, <3>1, <3>2, <3>3 DEF SidecarsHeld, Ending, Holds, Exists, WillHold
  <2>4. CASE ~CreateConsole /\ ~OpenLog
    <3>1. UNCHANGED disk
      BY <1>2, <2>4
    <3>2. \/ at' \in {"guards", "console"}
          \/ at' = "catalog" /\ (~Given(req.console) \/ at = "attaching")
          \/ at' = "log" /\ at = "catalog"
      BY <1>1, <2>4, NextStage
         DEF Opening, Guards, NoConsole, RefuseConsole, AttachConsole, OpenCatalog, Refuse, Exit, End, Go,
             OK, Usage, Input, OutputCode
    <3> QED
      BY <1>1, <2>1, <3>1, <3>2 DEF SidecarsHeld, Ending, Holds, Exists
  <2> QED
    BY <2>2, <2>3, <2>4
<1>6. ASSUME Converting, ProductsApart, ManifestApart PROVE ProductsHeld'
  <2>1. ASSUME NEW in \in Inputs, NEW m \in Products(in), Given(m[2])
        PROVE  SameAt(FileOf(m[2]))
    <3>1. m[2] \in Reports \cup Outputs
      BY <1>1, <1>6, ProductsGuarded
    <3>2. CASE UNCHANGED disk
      BY <3>2 DEF SameAt
    <3>3. ASSUME NEW p \in {req.console, req.log}, Given(p), at # "guards", at = "console" => ~ConsoleRefused,
                 \A f : f # FileOf(p) => SameAt(f)
          PROVE  SameAt(FileOf(m[2]))
      <4>1. FileOf(p) # FileOf(m[2])
        BY <1>1, <2>1, <3>1, <3>3, SidecarsApart
      <4> QED
        BY <3>3, <4>1
    <3> QED
      BY <1>2, <3>2, <3>3
  <2>2. ProductsHeld
    BY <1>6 DEF MadeInv
  <2> QED
    BY <1>1, <1>6, <2>1, <2>2, ProductsKept
<1> QED
  BY <1>1, <1>3, <1>4, <1>5, <1>6, ProductsFixed DEF MadeInv

\* A step of the work on an input writes one of its products, or nothing.
LEMMA WorkTouches ==
  ASSUME req \in Requests, NEW in \in Inputs, Work(in)
  PROVE  \/ UNCHANGED <<disk, wrote>>
         \/ \E m \in Products(in) :
              /\ Given(m[2]) /\ m[2] \in Reports \cup Outputs /\ ~Scanning
              /\ Create(m[2], <<m[1], in>>)
<1>1. \A a, b : <<a, b>>[1] = a /\ <<a, b>>[2] = b
  OBVIOUS
<1>2. ASSUME NEW a, NEW b, <<a, b>> \in Products(in), Given(b), b \in Reports \cup Outputs, ~Scanning,
             Create(b, <<a, in>>)
      PROVE  \E m \in Products(in) :
               /\ Given(m[2]) /\ m[2] \in Reports \cup Outputs /\ ~Scanning
               /\ Create(m[2], <<m[1], in>>)
  <2>1. <<a, b>>[1] = a /\ <<a, b>>[2] = b
    OBVIOUS
  <2> QED
    BY <1>2, <2>1
<1>3. CASE ReportSchema(in) /\ Given(req.sreport)
  BY <1>2, <1>3, ProductsOf DEF ReportSchema, Converting, Scanning
<1>4. CASE CheckOutput(in) /\ Given(req.qreport)
  BY <1>2, <1>4, ProductsOf DEF CheckOutput, Converting, Scanning
<1>5. CASE Commit(in)
  BY <1>2, <1>5, ProductsOf DEF Commit, Converting, Scanning
<1>6. CASE Inspect(in)
  <2>1. ReportOf(req.sreport, in) = req.sreport /\ ~Scanning
    BY <1>6 DEF Inspect, ReportOf, Batch, Scanning
  <2>2. CASE Given(req.sreport) /\ Create(req.sreport, <<"schema report", in>>)
    BY <1>2, <2>1, <2>2, ProductsOf
  <2> QED
    BY <1>6, <2>2 DEF Inspect
<1> QED
  BY <1>3, <1>4, <1>5, <1>6
     DEF Work, ReportSchema, CheckOutput, SkipInput, Fail, Stopped, Stall, Scan

\* How far a step of the work brings its input.
LEMMA WorkProgress ==
  ASSUME ProgressInv, CodeInv, NEW in \in Inputs, Work(in)
  PROVE  /\ result[in] = None
         /\ done' \in [Inputs -> {"todo", "reported", "checked", "over"}]
         /\ \A i \in Inputs \ {in} : done'[i] = done[i] /\ result'[i] = result[i]
         /\ described \subseteq described' /\ described' \subseteq Inputs
         /\ Converting /\ done'[in] \in {"reported", "checked"} => Present(in)
         /\ Converting /\ result'[in] = OK => done'[in] \in {"todo", "checked"}
         /\ result'[in] = OK => Present(in) /\ (Given(req.catalog) => in \in described')
<1>1. /\ done \in [Inputs -> {"todo", "reported", "checked", "over"}] /\ described \subseteq Inputs
      /\ Converting /\ done[in] \in {"reported", "checked"} => Present(in)
  BY DEF ProgressInv
<1>2. result \in [Inputs -> Dropped .. Stalled]
  BY DEF CodeInv, ResultsInv
<1> USE DEF Working, To, Became, Failed, Described
<1>3. CASE ReportSchema(in)
  <2>1. /\ result' = result /\ described' = described /\ result[in] = None /\ Present(in)
        /\ done' = [done EXCEPT ![in] = "reported"]
    BY <1>3 DEF ReportSchema
  <2> QED
    BY <1>1, <2>1 DEF None, OK
<1>4. CASE CheckOutput(in)
  <2>1. /\ result' = result /\ described' = described /\ result[in] = None /\ Present(in)
        /\ done' = [done EXCEPT ![in] = "checked"]
    BY <1>1, <1>4 DEF CheckOutput
  <2> QED
    BY <1>1, <2>1 DEF None, OK
<1>5. CASE Commit(in)
  BY <1>1, <1>2, <1>5 DEF Commit
<1>6. CASE SkipInput(in)
  BY <1>1, <1>2, <1>6 DEF SkipInput, Batch, Converting
<1>7. ASSUME NEW c \in (Dropped .. Stalled) \ {OK}, Failed(in, c), result[in] = None, UNCHANGED described
      PROVE  /\ result[in] = None
             /\ done' \in [Inputs -> {"todo", "reported", "checked", "over"}]
             /\ \A i \in Inputs \ {in} : done'[i] = done[i] /\ result'[i] = result[i]
             /\ described' = described /\ done'[in] = "over" /\ result'[in] = c
  BY <1>1, <1>2, <1>7
<1>8. CASE Fail(in)
  <2>1. PICK c \in Failures \cup {OutputCode} : Failed(in, c)
    BY <1>8 DEF Fail
  <2>2. c \in (Dropped .. Stalled) \ {OK}
    BY CommandAssumption DEF Dropped, Stalled, OK, OutputCode
  <2> QED
    BY <1>1, <1>7, <1>8, <2>1, <2>2 DEF Fail
<1>9. CASE Stopped(in)
  <2>1. PICK c \in {Canceled, Stalled, Dropped} : Failed(in, c)
    BY <1>9 DEF Stopped
  <2>2. c \in (Dropped .. Stalled) \ {OK}
    BY DEF Dropped, Stalled, OK, Canceled
  <2> QED
    BY <1>1, <1>7, <1>9, <2>1, <2>2 DEF Stopped
<1>10. CASE Stall(in)
  <2>1. Stalled \in (Dropped .. Stalled) \ {OK}
    BY DEF Dropped, Stalled, OK
  <2> QED
    BY <1>1, <1>7, <1>10, <2>1 DEF Stall
<1>11. CASE Inspect(in)
  <2>1. ~Converting /\ done' = done /\ result[in] = None
    BY <1>11 DEF Inspect, Converting
  <2>2. CASE \E c \in Failures : Became(in, c) /\ UNCHANGED described
    <3>1. 0 \notin Failures
      BY CommandAssumption
    <3> QED
      BY <1>1, <1>2, <2>1, <2>2, <3>1 DEF OK
  <2>3. CASE Present(in) /\ Described(in) /\ \E c : Became(in, c)
    BY <1>1, <1>2, <2>1, <2>3
  <2> QED
    BY <1>11, <2>2, <2>3 DEF Inspect
<1>12. CASE Scan(in)
  <2>1. ~Converting /\ done' = done /\ result[in] = None
    BY <1>12 DEF Scan, Scanning, Converting
  <2>2. CASE Present(in) /\ Became(in, OK) /\ Described(in)
    BY <1>1, <1>2, <2>1, <2>2
  <2>3. CASE Became(in, Input) /\ UNCHANGED described
    BY <1>1, <1>2, <2>1, <2>3 DEF Input, OK
  <2> QED
    BY <1>12, <2>2, <2>3 DEF Scan
<1> QED
  BY <1>3, <1>4, <1>5, <1>6, <1>8, <1>9, <1>10, <1>11, <1>12 DEF Work

\* What a step of the work makes of its own input.
LEMMA WorkMakes ==
  ASSUME ProgressInv, CodeInv, req \in Requests, Converting, ProductsApart,
         NEW in \in Inputs, Work(in), MadeOf(in)
  PROVE  MadeOf(in)'
<1>1. /\ result[in] = None /\ UNCHANGED request
      /\ done \in [Inputs -> {"todo", "reported", "checked", "over"}]
      /\ result \in [Inputs -> Dropped .. Stalled]
  BY WorkProgress
     DEF ProgressInv, CodeInv, ResultsInv, Work, ReportSchema, CheckOutput, Commit, SkipInput,
         Fail, Stopped, Stall, Inspect, Scan, AtWork
<1>2. \A a, b : <<a, b>>[1] = a /\ <<a, b>>[2] = b
  OBVIOUS
<1>3. ASSUME NEW a, NEW b, <<a, b>> \in Products(in), Given(b),
             NEW c, NEW d, <<c, d>> \in Products(in), Given(d), a # c, Create(b, <<a, in>>)
      PROVE  SameAt(FileOf(d))
  <2>1. <<a, b>>[2] = b /\ <<c, d>>[2] = d /\ <<a, b>> # <<c, d>>
    BY <1>3
  <2>2. FileOf(b) # FileOf(d)
    BY <1>3, <2>1, MadeApart
  <2> QED
    BY <1>3, <2>2, CreateDoes
<1> USE DEF Working, To, Became
<1>4. CASE ReportSchema(in)
  <2>1. done'[in] = "reported"
    BY <1>1, <1>4 DEF ReportSchema
  <2>2. Given(req.sreport) => WillHold(ReportOf(req.sreport, in), <<"schema report", in>>)
    BY <1>4, CreateDoes DEF ReportSchema
  <2> QED
    BY <1>1, <2>1, <2>2, MadeAfter
<1>5. CASE CheckOutput(in)
  <2>1. done[in] = "reported" /\ done'[in] = "checked" /\ result'[in] = None
    BY <1>1, <1>5 DEF CheckOutput
  <2>2. Given(req.qreport) => WillHold(ReportOf(req.qreport, in), <<"quality report", in>>)
    BY <1>5, CreateDoes DEF CheckOutput
  <2>3. ASSUME Given(req.sreport)
        PROVE  WillHold(ReportOf(req.sreport, in), <<"schema report", in>>)
    <3>1. Holds(ReportOf(req.sreport, in), <<"schema report", in>>)
      BY <2>1, <2>3 DEF MadeOf
    <3>2. SameAt(FileOf(ReportOf(req.sreport, in)))
      <4>1. CASE UNCHANGED disk
        BY <4>1 DEF SameAt
      <4>2. CASE Given(req.qreport)
                 /\ Create(ReportOf(req.qreport, in), <<"quality report", in>>)
        BY <1>3, <2>3, <4>2, ProductsOf
      <4> QED
        BY <1>5, <4>1, <4>2 DEF CheckOutput
    <3> QED
      BY <3>1, <3>2, SameHolds
  <2>4. None # OK
    BY DEF None, OK
  <2> QED
    BY <1>1, <2>1, <2>2, <2>3, <2>4, MadeAfter
<1>6. CASE Commit(in)
  <2>1. done[in] = "checked" /\ done'[in] = "checked"
    BY <1>6 DEF Commit
  <2>2. WillHold(OutputOf(in), <<"output", in>>)
    BY <1>6, CreateDoes DEF Commit
  <2>3. /\ Given(req.sreport) => SameAt(FileOf(ReportOf(req.sreport, in)))
        /\ Given(req.qreport) => SameAt(FileOf(ReportOf(req.qreport, in)))
    BY <1>3, <1>6, ProductsOf DEF Commit
  <2>4. /\ Given(req.sreport) => Holds(ReportOf(req.sreport, in), <<"schema report", in>>)
        /\ Given(req.qreport) => Holds(ReportOf(req.qreport, in), <<"quality report", in>>)
    BY <2>1 DEF MadeOf
  <2> QED
    BY <1>1, <2>1, <2>2, <2>3, <2>4, SameHolds, MadeAfter
<1>7. CASE SkipInput(in)
  <2>1. done'[in] = "todo" /\ UNCHANGED disk /\ Holds(OutputOf(in), <<"before">>)
    BY <1>7 DEF SkipInput
  <2>2. WillHold(OutputOf(in), <<"before">>)
    BY <2>1 DEF WillHold, Holds, Exists
  <2> QED
    BY <1>1, <2>1, <2>2, MadeAfter
<1>8. CASE done'[in] = "over"
  BY <1>1, <1>8, MadeAfter
<1>9. CASE Fail(in) \/ Stopped(in) \/ Stall(in)
  BY <1>1, <1>8, <1>9 DEF Fail, Stopped, Stall, Failed
<1> QED
  BY <1>4, <1>5, <1>6, <1>7, <1>9 DEF Work, Inspect, Scan, Converting, Scanning

LEMMA WorkMade ==
  ASSUME GuardInv, CodeInv, MadeInv, NEW in \in Inputs, Work(in)
  PROVE  MadeInv'
<1>1. /\ at = "running" /\ at' = "running" /\ code' = code /\ code = OK
      /\ UNCHANGED <<request, refused>> /\ ~refused /\ req \in Requests
      /\ ProgressInv /\ UnwrittenStay /\ SidecarsHeld
  BY DEF Work, ReportSchema, CheckOutput, Commit, SkipInput, Fail, Stopped, Stall, Inspect, Scan,
         AtWork, Working, CodeInv, GuardInv, MadeInv
<1>3. \/ UNCHANGED <<disk, wrote>>
      \/ \E m \in Products(in) :
           /\ Given(m[2]) /\ m[2] \in Reports \cup Outputs /\ ~Scanning
           /\ Create(m[2], <<m[1], in>>)
  BY <1>1, WorkTouches
<1>4. ProgressInv'
  BY <1>1, WorkProgress, ProductsFixed DEF ProgressInv
<1>5. UnwrittenStay'
  <2>1. wrote \subseteq wrote' /\ \A f : SameAt(f) \/ \E w \in wrote' : w[2] = f
    <3>1. CASE UNCHANGED <<disk, wrote>>
      BY <3>1 DEF SameAt
    <3>2. ASSUME NEW p, NEW what, Create(p, what)
          PROVE  wrote \subseteq wrote' /\ \A f : SameAt(f) \/ \E w \in wrote' : w[2] = f
      <4>1. <<what[1], FileOf(p)>>[2] = FileOf(p)
        OBVIOUS
      <4> QED
        BY <3>2, <4>1, CreateDoes
    <3> QED
      BY <1>3, <3>1, <3>2
  <2> QED
    BY <1>1, <2>1, UnwrittenStays
<1>6. ASSUME NEW p, Given(p), p \in {req.console, req.log}
      PROVE  SameAt(FileOf(p))
  <2>1. CASE UNCHANGED disk
    BY <2>1 DEF SameAt
  <2>2. ASSUME NEW q \in Reports \cup Outputs, Given(q), NEW what, Create(q, what)
        PROVE  SameAt(FileOf(p))
    <3>1. FileOf(p) # FileOf(q)
      BY <1>1, <1>6, <2>2, SidecarsApart
    <3> QED
      BY <2>2, <3>1, CreateDoes
  <2> QED
    BY <1>3, <2>1, <2>2
<1>7. SidecarsHeld'
  <2>1. /\ Given(req.console) => Holds(req.console, <<"console">>)
        /\ Given(req.log) => Holds(req.log, <<"log">>)
    BY <1>1 DEF SidecarsHeld
  <2>2. /\ Given(req.console) => WillHold(req.console, <<"console">>)
        /\ Given(req.log) => WillHold(req.log, <<"log">>)
    BY <1>6, <2>1, SameHolds
  <2> QED
    BY <1>1, <2>2, ProductsFixed DEF SidecarsHeld, Holds, Exists, WillHold
<1>8. ASSUME Converting, ProductsApart, ManifestApart PROVE ProductsHeld'
  <2>1. \A i \in Inputs : MadeOf(i)
    BY <1>8 DEF MadeInv, ProductsHeld
  <2>2. ASSUME NEW i \in Inputs, i # in PROVE MadeOf(i)'
    <3>1. ASSUME NEW n \in Products(i), Given(n[2]) PROVE SameAt(FileOf(n[2]))
      <4>1. CASE UNCHANGED disk
        BY <4>1 DEF SameAt
      <4>2. ASSUME NEW m \in Products(in), Given(m[2]), NEW what, Create(m[2], what)
            PROVE  SameAt(FileOf(n[2]))
        BY <1>8, <2>2, <3>1, <4>2, MadeApart, CreateDoes
      <4> QED
        BY <1>3, <4>1, <4>2
    <3>2. done'[i] = done[i] /\ result'[i] = result[i]
      BY <1>1, <2>2, WorkProgress
    <3> QED
      BY <1>1, <1>8, <2>1, <3>1, <3>2, MadeStays
  <2>3. MadeOf(in)'
    BY <1>1, <1>8, <2>1, WorkMakes
  <2> QED
    BY <1>1, <2>2, <2>3, ProductsFixed DEF ProductsHeld
<1> QED
  BY <1>1, <1>4, <1>5, <1>7, <1>8, ProductsFixed DEF MadeInv

\* A step that leaves the inputs as far as they are.
LEMMA ProgressStays ==
  ASSUME ProgressInv, UNCHANGED <<request, done, result, described, refused>>,
         refused => code' # OK, at' # "guards" => at # "guards"
  PROVE  ProgressInv'
BY ProductsFixed DEF ProgressInv

LEMMA QuietMade ==
  ASSUME MadeInv, req \in Requests,
         UNCHANGED <<request, disk, wrote, done, result, described, refused, at, code>>
  PROVE  MadeInv'
<1>1. ProgressInv'
  BY ProgressStays DEF MadeInv, ProgressInv
<1>2. UnwrittenStay'
  BY UnwrittenStays DEF MadeInv, SameAt
<1>3. SidecarsHeld'
  BY ProductsFixed DEF MadeInv, SidecarsHeld, Holds, Exists
<1>4. ASSUME Converting, ProductsApart, ManifestApart PROVE ProductsHeld'
  BY <1>4, ProductsKept DEF MadeInv, SameAt
<1> QED
  BY <1>1, <1>2, <1>3, <1>4, ProductsFixed DEF MadeInv

LEMMA FinishMade ==
  ASSUME GuardInv, CodeInv, MadeInv, Finish
  PROVE  MadeInv'
<1>1. /\ at \in {"running", "closing log", "closing catalog", "closing console"}
      /\ at' \in Ending /\ UNCHANGED <<request, refused, done, result, described>> /\ ~refused
      /\ req \in Requests
      /\ ProgressInv /\ UnwrittenStay /\ SidecarsHeld
  BY DEF Finish, EndRun, CloseLog, CloseCatalog, CloseConsole, Prepared, End, Goto, Ending,
         GuardInv, MadeInv
<1>2. code' = OK => code = OK
  <2>1. CASE EndRun
    BY <2>1 DEF EndRun, CodeInv
  <2>2. CASE CloseCatalog
    <3>1. code' = code \/ code' = OutputCode
      BY <2>2, Zenon DEF CloseCatalog, CatalogFailed
    <3> QED
      BY <3>1 DEF OK, OutputCode
  <2> QED
    BY <2>1, <2>2 DEF Finish, CloseLog, CloseConsole
<1>3. \/ UNCHANGED <<disk, wrote>>
      \/ EndRun /\ \E p \in Manifest : Create(p, <<"manifest">>)
      \/ CloseCatalog /\ Given(req.catalog) /\ Create(req.catalog, <<"catalog", described>>)
  BY DEF Finish, EndRun, CloseLog, CloseCatalog, CloseConsole, GuardInv
<1>4. /\ ~PathsRefused /\ ~ConsoleRefused /\ \A p \in Manifest : Given(p)
  <2>1. ~PathsRefused /\ ~ConsoleRefused
    BY <1>1 DEF GuardInv, Passed, ConsolePassed
  <2>2. \A p \in Manifest : Given(p)
    BY DEF Manifest, ManifestPath, Given, Path
  <2> QED
    BY <2>1, <2>2
<1>5. ProgressInv'
  BY <1>1, ProgressStays
<1>6. UnwrittenStay'
  <2>1. wrote \subseteq wrote' /\ \A f : SameAt(f) \/ \E w \in wrote' : w[2] = f
    <3>1. CASE UNCHANGED <<disk, wrote>>
      BY <3>1 DEF SameAt
    <3>2. ASSUME NEW p, NEW what, Create(p, what)
          PROVE  wrote \subseteq wrote' /\ \A f : SameAt(f) \/ \E w \in wrote' : w[2] = f
      <4>1. <<what[1], FileOf(p)>>[2] = FileOf(p)
        OBVIOUS
      <4> QED
        BY <3>2, <4>1, CreateDoes
    <3> QED
      BY <1>3, <3>1, <3>2
  <2> QED
    BY <1>1, <2>1, UnwrittenStays
\* The manifest and the catalog are written over neither the log nor the console log.
<1>7. ASSUME NEW p, Given(p), p \in {req.console, req.log}
      PROVE  SameAt(FileOf(p))
  <2>1. CASE UNCHANGED disk
    BY <2>1 DEF SameAt
  <2>2. ASSUME NEW q \in Manifest \cup {req.catalog}, Given(q), NEW what, Create(q, what)
        PROVE  SameAt(FileOf(p))
    <3>1. FileOf(p) # FileOf(q)
      BY <1>1, <1>4, <1>7, <2>2, WhatGuardsSay
    <3> QED
      BY <2>2, <3>1, CreateDoes
  <2> QED
    BY <1>3, <1>4, <2>1, <2>2
<1>8. SidecarsHeld'
  <2> SUFFICES ASSUME code' = OK PROVE SidecarsHeld'
    BY DEF SidecarsHeld
  <2>1. /\ Given(req.console) => Holds(req.console, <<"console">>)
        /\ Given(req.log) => Holds(req.log, <<"log">>)
        /\ at = "closing console" /\ Given(req.catalog) /\ described # {} =>
             Holds(req.catalog, <<"catalog", described>>)
    BY <1>1, <1>2 DEF SidecarsHeld, Ending
  <2>2. /\ Given(req.console) => WillHold(req.console, <<"console">>)
        /\ Given(req.log) => WillHold(req.log, <<"log">>)
    BY <1>7, <2>1, SameHolds
  <2>3. ASSUME at' \in {"closing console", "exited"}, Given(req.catalog), described # {}
        PROVE  WillHold(req.catalog, <<"catalog", described>>)
    <3>1. CASE CloseCatalog
      <4>1. Create(req.catalog, <<"catalog", described>>)
        <5>1. Create(req.catalog, <<"catalog", described>>) \/ CatalogFailed
          BY <2>3, <3>1, Zenon DEF CloseCatalog
        <5>2. CatalogFailed => code' # OK
          BY <1>2 DEF CatalogFailed, OK, OutputCode
        <5> QED
          BY <5>1, <5>2
      <4> QED
        BY <4>1, CreateDoes
    <3>2. CASE CloseConsole
      <4>1. at = "closing console" /\ UNCHANGED disk
        BY <3>2 DEF CloseConsole
      <4> QED
        BY <2>1, <2>3, <4>1 DEF WillHold, Holds, Exists
    <3> QED
      BY <2>3, <3>1, <3>2 DEF Finish, EndRun, CloseLog, End, Goto
  <2> QED
    BY <1>1, <2>2, <2>3, ProductsFixed DEF SidecarsHeld, Holds, Exists, WillHold, Ending
<1>9. ASSUME Converting, ProductsApart, ManifestApart PROVE ProductsHeld'
  <2>1. ASSUME NEW in \in Inputs, NEW m \in Products(in), Given(m[2])
        PROVE  SameAt(FileOf(m[2]))
    <3>1. m[2] \in Reports \cup Outputs
      BY <1>1, <1>9, ProductsGuarded
    <3>2. CASE UNCHANGED disk
      BY <3>2 DEF SameAt
    <3>3. ASSUME NEW q, FileOf(q) # FileOf(m[2]), NEW what, Create(q, what)
          PROVE  SameAt(FileOf(m[2]))
      BY <3>3, CreateDoes
    <3>4. \A q \in Manifest : FileOf(q) # FileOf(m[2])
      BY <1>9, <2>1 DEF ManifestApart
    <3>5. Given(req.catalog) => FileOf(req.catalog) # FileOf(m[2])
      BY <1>1, <2>1, <3>1, <1>4, SidecarsApart
    <3> QED
      BY <1>3, <3>2, <3>3, <3>4, <3>5
  <2> QED
    BY <1>1, <1>9, <2>1, ProductsKept DEF MadeInv
<1>10. /\ Converting' = Converting /\ ProductsApart' = ProductsApart
       /\ ManifestApart' = ManifestApart
  BY <1>1, ProductsFixed
<1> QED
  BY <1>5, <1>6, <1>8, <1>9, <1>10 DEF MadeInv

\* MadeInv and what it rests on are invariants.
LEMMA MadeHolds == Spec => [](GuardInv /\ CodeInv /\ MadeInv)
<1>1. ASSUME GuardInv, CodeInv, MadeInv, [Next]_vars
      PROVE  MadeInv'
  <2>1. CASE Step
    BY <1>1, <2>1, OpeningMade, WorkMade, FinishMade DEF Step
  <2>2. CASE Cancel
    BY <1>1, <2>2, QuietMade DEF Cancel, AtWork, GuardInv
  <2>3. CASE Say
    BY <1>1, <2>3, QuietMade DEF Say, run, GuardInv
  <2>4. CASE UNCHANGED vars
    BY <1>1, <2>4, QuietMade DEF vars, run, GuardInv
  <2> QED
    BY <1>1, <2>1, <2>2, <2>3, <2>4 DEF Next
<1> QED
  BY MadeInvInit, GuardsHold, CodesHold, <1>1, PTL DEF Spec

\* What a command that ends with 0 has made, from the invariants.
LEMMA MadeTells ==
  ASSUME GuardInv, CodeInv, MadeInv, ManifestApart
  PROVE  ZeroMeansAll
<1> SUFFICES ASSUME at = "exited", code = OK, Dropped \notin {result[in] : in \in Inputs}, ProductsApart
    PROVE
    /\ \A in \in Inputs :
         /\ Holds(in, <<"before">>)
         /\ Converting /\ done[in] = "checked" =>
              \A p \in Products(in) : Given(p[2]) => Holds(p[2], <<p[1], in>>)
         /\ Converting => Holds(OutputOf(in), <<"output", in>>) \/ Holds(OutputOf(in), <<"before">>)
    /\ Given(req.log) => Holds(req.log, <<"log">>)
    /\ Given(req.console) => Holds(req.console, <<"console">>)
    /\ Given(req.catalog) => Holds(req.catalog, <<"catalog", Inputs>>)
    /\ Missing = {}
  BY DEF ZeroMeansAll
<1>1. /\ ~refused /\ req \in Requests /\ Inputs \cup Missing # {} /\ described \subseteq Inputs
      /\ SidecarsHeld /\ UnwrittenStay /\ there \in Disks
      /\ \A v \in wrote : Owns(v[1], v[2])
  BY DEF MadeInv, ProgressInv, GuardInv
<1>2. Errors = {} /\ Missing = {}
  BY <1>1 DEF CodeInv, Ending, Tells
<1>3. \A in \in Inputs : result[in] = OK
  BY <1>2 DEF Errors
<1>4. \A in \in Inputs : Present(in) /\ Given(in) /\ (Given(req.catalog) => in \in described)
  BY <1>1, <1>3, PresentIsGiven DEF MadeInv, ProgressInv
<1>5. Given(req.catalog) => described = Inputs /\ described # {}
  BY <1>1, <1>2, <1>4
<1>6. /\ Given(req.log) => Holds(req.log, <<"log">>)
      /\ Given(req.console) => Holds(req.console, <<"console">>)
      /\ Given(req.catalog) => Holds(req.catalog, <<"catalog", Inputs>>)
  BY <1>1, <1>5 DEF SidecarsHeld, Ending
<1>7. ASSUME NEW in \in Inputs PROVE Holds(in, <<"before">>)
  <2>1. FileOf(in) \in Begun /\ Given(in)
    BY <1>4 DEF Present, Begun
  <2>2. ASSUME NEW w \in wrote PROVE w[2] # FileOf(in)
    <3>1. Owns(w[1], w[2]) /\ ~PathsRefused /\ ~ConsoleRefused
      BY DEF GuardInv
    <3>2. \A p \in Manifest : FileOf(p) # FileOf(in)
      BY DEF ManifestApart
    <3>3. w[1] \in {"log", "catalog", "console"} => w[2] # FileOf(in)
      BY <2>1, ApartWhenGuarded
    <3>4. ASSUME NEW p \in Outputs PROVE FileOf(p) # FileOf(in)
      <4>1. PICK i \in Inputs : p = OutputOf(i)
        BY <3>4 DEF Outputs
      <4>2. Converting
        BY <3>4 DEF Outputs
      <4>3. <<"output", p>> \in Products(i) /\ Given(p) /\ <<"output", p>>[2] = p
        BY <1>1, <4>1, <4>2, ProductsOf
      <4> QED
        BY <4>3, MadeApart
    <3>5. ASSUME NEW p \in Reports, Given(p) PROVE FileOf(p) # FileOf(in)
      <4>1. PICK i \in Inputs : p = ReportOf(req.sreport, i) \/ p = ReportOf(req.qreport, i)
        BY <3>5 DEF Reports
      <4>2. \E m \in Products(i) : m[2] = p
        <5>1. <<"schema report", p>>[2] = p /\ <<"quality report", p>>[2] = p
          OBVIOUS
        <5> QED
          BY <1>1, <4>1, <5>1, ProductsOf
      <4> QED
        BY <3>5, <4>2, MadeApart
    <3> QED
      BY <3>1, <3>2, <3>3, <3>4, <3>5 DEF Owns
  <2> QED
    BY <1>1, <2>1, <2>2 DEF UnwrittenStay, Holds, Exists
<1>8. ASSUME NEW in \in Inputs, Converting
      PROVE  /\ done[in] = "checked" =>
                  \A p \in Products(in) : Given(p[2]) => Holds(p[2], <<p[1], in>>)
             /\ Holds(OutputOf(in), <<"output", in>>) \/ Holds(OutputOf(in), <<"before">>)
  <2>1. MadeOf(in) /\ done[in] \in {"todo", "checked"}
    BY <1>3, <1>8 DEF MadeInv, ProductsHeld, ProgressInv
  <2>2. /\ done[in] = "checked" => Holds(OutputOf(in), <<"output", in>>)
        /\ done[in] = "todo" => Holds(OutputOf(in), <<"before">>)
    BY <1>3, <2>1 DEF MadeOf
  <2>3. ASSUME done[in] = "checked", NEW p \in Products(in), Given(p[2])
        PROVE  Holds(p[2], <<p[1], in>>)
    <3>1. \/ p[1] = "output" /\ p[2] = OutputOf(in)
          \/ p[1] = "schema report" /\ p[2] = ReportOf(req.sreport, in)
          \/ p[1] = "quality report" /\ p[2] = ReportOf(req.qreport, in)
      <4>1. \/ p = <<"output", OutputOf(in)>>
            \/ p = <<"schema report", ReportOf(req.sreport, in)>>
            \/ p = <<"quality report", ReportOf(req.qreport, in)>>
        BY DEF Products
      <4>2. ASSUME NEW a, NEW b, p = <<a, b>> PROVE p[1] = a /\ p[2] = b
        BY <4>2
      <4> QED
        BY <4>1, <4>2, Zenon
    <3>2. /\ Given(ReportOf(req.sreport, in)) => Given(req.sreport)
          /\ Given(ReportOf(req.qreport, in)) => Given(req.qreport)
      BY DEF ReportOf, Report, NoPath, Path, Given
    <3> QED
      BY <2>1, <2>2, <2>3, <3>1, <3>2 DEF MadeOf
  <2> QED
    BY <2>1, <2>2, <2>3
<1> QED
  BY <1>2, <1>6, <1>7, <1>8

\* A command that ends with 0, and left no input out after a Ctrl-C, has made everything it
\* was asked for, each of it is there at the end, and so is every file that it read: for
\* any set of requests and any files, as long as what is made of the inputs is made in
\* files apart, and none of them is the manifest.
THEOREM ZeroIsAll == Spec => [](ManifestApart => ZeroMeansAll)
<1>1. GuardInv /\ CodeInv /\ MadeInv => (ManifestApart => ZeroMeansAll)
  BY MadeTells
<1> QED
  BY <1>1, MadeHolds, PTL
-----------------------------------------------------------------------------
(* What is held for the console log, and the types.                        *)

LEMMA NumbersAbove ==
  ASSUME NEW S, 0 \in S, \A n \in Nat : n \in S => n + 1 \in S
  PROVE  Nat \subseteq S
<1> SUFFICES ASSUME ~(Nat \subseteq S) PROVE FALSE
  OBVIOUS
<1> DEFINE Left == Nat \ S
           R == OpToRel(<, Nat)
<1>1. Left \subseteq Nat /\ Left # {}
  OBVIOUS
<1>2. IsWellFoundedOn(R, Nat)
  BY NatLessThanWellFounded
<1>3. \A x, y \in Left : y < x => <<y, x>> \in R
  BY <1>1 DEF OpToRel
<1>4. PICK x \in Left : \A y \in Left : ~(<<y, x>> \in R)
  <2> HIDE DEF R, Left
  <2> QED
    BY <1>1, <1>2, WFMin
<1>5. \A y \in Left : ~(y < x)
  <2> HIDE DEF R
  <2> QED
    BY <1>3, <1>4
<1>6. x \in Nat /\ x # 0
  BY <1>4
<1>7. x - 1 \in Nat /\ x - 1 < x /\ x - 1 + 1 = x
  BY <1>6
<1>8. x - 1 \in S
  BY <1>5, <1>7
<1> QED
  BY <1>4, <1>7, <1>8

\* The bytes of the first messages, up to any of them.
Lengths(f, s, n) == f = [k \in 0 .. n |-> IF k = 0 THEN 0 ELSE f[k - 1] + s[k].size]

Sized(s) == s \in Seq(Console!Message)

LEMMA MessageSize == \A m \in Console!Message : m.size \in Nat
BY CommandAssumption DEF Console!Message

LEMMA LengthsExist ==
  ASSUME NEW s, Sized(s)
  PROVE  \A n \in 0 .. Len(s) : \E f \in [0 .. n -> Nat] : Lengths(f, s, n)
<1> DEFINE Good == {n \in Nat : n <= Len(s) => \E f \in [0 .. n -> Nat] : Lengths(f, s, n)}
<1>0. Len(s) \in Nat /\ \A k \in 1 .. Len(s) : s[k].size \in Nat
  BY MessageSize, ElementOfSeq DEF Sized
<1>1. 0 \in Good
  <2> DEFINE f == [k \in 0 .. 0 |-> 0]
  <2>1. f \in [0 .. 0 -> Nat] /\ f = [k \in 0 .. 0 |-> IF k = 0 THEN 0 ELSE f[k - 1] + s[k].size]
    OBVIOUS
  <2> HIDE DEF f
  <2> QED
    BY <2>1 DEF Lengths
<1>2. ASSUME NEW n \in Nat, n \in Good PROVE n + 1 \in Good
  <2> SUFFICES ASSUME n + 1 <= Len(s) PROVE \E g \in [0 .. n + 1 -> Nat] : Lengths(g, s, n + 1)
    OBVIOUS
  <2>1. n <= Len(s)
    BY <1>0
  <2>2. PICK f \in [0 .. n -> Nat] : Lengths(f, s, n)
    BY <1>2, <2>1
  <2>3. \A k \in 0 .. n : f[k] = IF k = 0 THEN 0 ELSE f[k - 1] + s[k].size
    BY <2>2 DEF Lengths
  <2> DEFINE g == [k \in 0 .. n + 1 |-> IF k = n + 1 THEN f[n] + s[n + 1].size ELSE f[k]]
  <2>4. g \in [0 .. n + 1 -> Nat]
    <3>1. f[n] \in Nat /\ s[n + 1].size \in Nat /\ f[n] + s[n + 1].size \in Nat
      BY <1>0, <2>2
    <3> QED
      BY <3>1
  <2>5. ASSUME NEW k \in 0 .. n + 1
        PROVE  g[k] = IF k = 0 THEN 0 ELSE g[k - 1] + s[k].size
    <3>1. k # 0 => g[k - 1] = f[k - 1]
      OBVIOUS
    <3>2. CASE k = n + 1
      <4>1. g[k] = f[k - 1] + s[k].size
        BY <3>2
      <4> HIDE DEF g
      <4> QED
        BY <3>1, <3>2, <4>1
    <3>3. CASE k # n + 1
      <4>1. g[k] = f[k] /\ k \in 0 .. n
        BY <3>3
      <4> HIDE DEF g
      <4> QED
        BY <2>3, <3>1, <4>1
    <3> QED
      BY <3>2, <3>3
  <2> HIDE DEF g
  <2>6. g = [k \in 0 .. n + 1 |-> IF k = 0 THEN 0 ELSE g[k - 1] + s[k].size]
    BY <2>4, <2>5
  <2> QED
    BY <2>4, <2>6 DEF Lengths
<1> HIDE DEF Good
<1>3. Nat \subseteq Good
  BY <1>1, <1>2, NumbersAbove
<1> SUFFICES ASSUME NEW n \in 0 .. Len(s) PROVE \E f \in [0 .. n -> Nat] : Lengths(f, s, n)
  OBVIOUS
<1>4. n \in Nat /\ n <= Len(s)
  BY <1>0
<1>5. n \in Good
  BY <1>3, <1>4
<1> QED
  BY <1>4, <1>5 DEF Good

\* Where the messages agree, so do their bytes.
LEMMA LengthsAgree ==
  ASSUME NEW s, NEW t, NEW n \in Nat, NEW m \in Nat, n <= m,
         NEW f, NEW g, Lengths(f, s, n), Lengths(g, t, m),
         \A k \in 1 .. n : s[k] = t[k]
  PROVE  f[n] = g[n]
<1> DEFINE Good == {k \in Nat : k <= n => f[k] = g[k]}
<1>1. /\ \A k \in 0 .. n : f[k] = IF k = 0 THEN 0 ELSE f[k - 1] + s[k].size
      /\ \A k \in 0 .. m : g[k] = IF k = 0 THEN 0 ELSE g[k - 1] + t[k].size
  <2>1. f = [k \in 0 .. n |-> IF k = 0 THEN 0 ELSE f[k - 1] + s[k].size]
    BY DEF Lengths
  <2>2. g = [k \in 0 .. m |-> IF k = 0 THEN 0 ELSE g[k - 1] + t[k].size]
    BY DEF Lengths
  <2>3. \A k \in 0 .. n : f[k] = IF k = 0 THEN 0 ELSE f[k - 1] + s[k].size
    BY <2>1
  <2>4. \A k \in 0 .. m : g[k] = IF k = 0 THEN 0 ELSE g[k - 1] + t[k].size
    BY <2>2
  <2> QED
    BY <2>3, <2>4
<1>2. 0 \in Good
  BY <1>1
<1>3. ASSUME NEW k \in Nat, k \in Good PROVE k + 1 \in Good
  <2> SUFFICES ASSUME k + 1 <= n PROVE f[k + 1] = g[k + 1]
    OBVIOUS
  <2>1. f[k] = g[k] /\ k + 1 \in 1 .. n /\ k + 1 \in 0 .. m /\ k + 1 - 1 = k
    BY <1>3
  <2> QED
    BY <1>1, <2>1
<1> HIDE DEF Good
<1>4. Nat \subseteq Good
  BY <1>2, <1>3, NumbersAbove
<1> QED
  BY <1>4 DEF Good

\* One message more adds its own bytes.
LEMMA SizeGrows ==
  ASSUME NEW s, Sized(s), NEW m \in Console!Message
  PROVE  Console!Size(s) \in Nat /\ Console!Size(Append(s, m)) = Console!Size(s) + m.size
<1> DEFINE t == Append(s, m)
           n == Len(s)
           F == CHOOSE f : Lengths(f, s, n)
           G == CHOOSE f : Lengths(f, t, n + 1)
<1>1. /\ n \in Nat /\ Len(t) = n + 1 /\ t[n + 1] = m /\ \A k \in 1 .. n : t[k] = s[k]
      /\ Sized(t)
  BY DEF Sized
<1>2. Console!Size(s) = F[n] /\ Console!Size(t) = G[n + 1]
  <2>1. Console!Size(s) = F[n]
    BY DEF Console!Size, Lengths
  <2>2. Console!Size(t) = (CHOOSE f : Lengths(f, t, Len(t)))[Len(t)]
    BY DEF Console!Size, Lengths
  <2> QED
    BY <1>1, <2>1, <2>2
<1> HIDE DEF t
<1>3. \E f \in [0 .. n -> Nat] : Lengths(f, s, n)
  <2>1. n \in 0 .. Len(s)
    BY <1>1
  <2> HIDE DEF n
  <2> QED
    BY <2>1, LengthsExist
<1>4. \E f \in [0 .. n + 1 -> Nat] : Lengths(f, t, n + 1)
  <2>1. n + 1 \in 0 .. Len(t)
    BY <1>1
  <2> QED
    BY <1>1, <2>1, LengthsExist
<1>5. Lengths(F, s, n) /\ Lengths(G, t, n + 1)
  BY <1>3, <1>4
<1>6. PICK f \in [0 .. n -> Nat] : Lengths(f, s, n)
  BY <1>3
<1> HIDE DEF F, G, n
<1>7. F[n] = f[n] /\ f[n] \in Nat
  BY <1>1, <1>5, <1>6, LengthsAgree
<1>8. F[n] = G[n]
  <2>1. n + 1 \in Nat /\ n <= n + 1 /\ \A k \in 1 .. n : s[k] = t[k]
    BY <1>1
  <2> QED
    BY <1>1, <1>5, <2>1, LengthsAgree
<1>9. G[n + 1] = G[n] + t[n + 1].size
  <2>1. G = [k \in 0 .. n + 1 |-> IF k = 0 THEN 0 ELSE G[k - 1] + t[k].size]
    BY <1>5 DEF Lengths
  <2>2. \A k \in 0 .. n + 1 : G[k] = IF k = 0 THEN 0 ELSE G[k - 1] + t[k].size
    BY <2>1
  <2>3. PICK k \in 0 .. n + 1 : k = n + 1
    BY <1>1
  <2>4. k # 0 /\ k - 1 = n
    BY <1>1, <2>3
  <2>5. G[k] = G[k - 1] + t[k].size
    BY <2>2, <2>4
  <2> QED
    BY <2>3, <2>4, <2>5
<1> QED
  BY <1>1, <1>2, <1>7, <1>8, <1>9 DEF t

LEMMA NothingHeld == Console!Size(<<>>) = 0
<1> DEFINE F == CHOOSE f : Lengths(f, <<>>, 0)
<1>1. Console!Size(<<>>) = F[0]
  BY DEF Console!Size, Lengths
<1>2. Sized(<<>>) /\ 0 \in 0 .. Len(<<>>)
  BY DEF Sized
<1>3. \E f : Lengths(f, <<>>, 0)
  BY <1>2, LengthsExist
<1>4. Lengths(F, <<>>, 0)
  BY <1>3
<1> HIDE DEF F
<1>5. F = [k \in 0 .. 0 |-> IF k = 0 THEN 0 ELSE F[k - 1] + <<>>[k].size]
  BY <1>4 DEF Lengths
<1> QED
  BY <1>1, <1>5

\* What is held never takes more than Limit, and once a file is open it is settled that
\* there is one.
HoldInv ==
  /\ stage \in {"guards", "creating", "running", "closed"}
  /\ open \in BOOLEAN /\ settled \in BOOLEAN /\ unplayed \in BOOLEAN
  /\ told \subseteq {"start missing", "ends early"}
  /\ Console!Size(pending) <= Limit
  /\ open => settled

LEMMA HoldInvInit == Console!Init => HoldInv
<1> SUFFICES ASSUME Console!Init PROVE HoldInv
  OBVIOUS
<1>1. Console!Size(pending) <= Limit
  BY NothingHeld, CommandAssumption DEF Console!Init
<1> QED
  BY <1>1 DEF Console!Init, HoldInv

LEMMA HoldInvSteps ==
  ASSUME ScreenInv, HoldInv, [Console!Next]_console
  PROVE  HoldInv'
<1>1. CASE Console!Write
  <2>1. PICK size \in Sizes : LET m == [nr |-> Len(screen) + 1, size |-> size] IN
          /\ \/ ~open /\ ~settled /\ Console!Hold(m) /\ UNCHANGED <<text, open, told>>
             \/ ~open /\ settled /\ UNCHANGED <<text, open, told, pending, dropped>>
             \/ open /\ text' = Append(text, m) /\ UNCHANGED <<open, told, pending, dropped>>
             \/ open /\ Console!GiveUpFile /\ UNCHANGED <<text, pending, dropped>>
    BY <1>1 DEF Console!Write
  <2> DEFINE m == [nr |-> Len(screen) + 1, size |-> size]
  <2>2. /\ stage' = stage /\ settled' = settled /\ unplayed' = unplayed
        /\ open' = open \/ open' = FALSE
        /\ told' = told \/ told' = told \cup {"ends early"}
    BY <1>1, <2>1 DEF Console!Write, Console!GiveUpFile
  <2>3. m \in Console!Message
    <3>1. Len(screen) \in Nat /\ MaxLines \in Nat /\ Len(screen) < MaxLines
      BY <1>1, CommandAssumption DEF ScreenInv, LinesInv, Console!Write
    <3>2. Len(screen) + 1 \in 1 .. MaxLines
      BY <3>1
    <3> QED
      BY <3>2 DEF Console!Message
  <2>4. pending' = pending \/ (Console!Size(pending) + m.size <= Limit /\ pending' = Append(pending, m))
    BY <2>1 DEF Console!Hold
  <2> HIDE DEF m
  <2>5. Console!Size(pending') <= Limit
    BY <2>3, <2>4, SizeGrows DEF HoldInv, ScreenInv, LinesInv, Sized
  <2>6. Console!Size(pending)' = Console!Size(pending')
    BY DEF Console!Size
  <2>7. told' \subseteq {"start missing", "ends early"}
    BY <2>2 DEF HoldInv
  <2>8. /\ open' \in BOOLEAN /\ settled' \in BOOLEAN /\ unplayed' \in BOOLEAN
        /\ open' => settled'
    <3>1. /\ open \in BOOLEAN /\ settled \in BOOLEAN /\ unplayed \in BOOLEAN
          /\ open => settled
      BY DEF HoldInv
    <3>2. FALSE \in BOOLEAN
      OBVIOUS
    <3>3. CASE open' = open
      BY <2>2, <3>1, <3>3, Zenon
    <3>4. CASE open' = FALSE
      BY <2>2, <3>1, <3>2, <3>4, Zenon
    <3> QED
      BY <2>2, <3>3, <3>4
  <2> QED
    BY <2>2, <2>5, <2>6, <2>7, <2>8 DEF HoldInv
<1>2. CASE UNCHANGED console
  <2>1. Console!Size(pending)' = Console!Size(pending)
    BY <1>2 DEF console, Console!Size
  <2> QED
    BY <1>2, <2>1 DEF HoldInv, console
<1>3. CASE Console!Discard \/ Console!Attach
  <2>1. /\ pending' = <<>> /\ settled' = TRUE /\ stage' = "running"
        /\ \/ UNCHANGED <<open, told, unplayed>>
           \/ /\ open' = TRUE /\ told' \in {{"start missing"}, {}}
              /\ unplayed' \in {unplayed, pending # <<>>}
    BY <1>3 DEF Console!Discard, Console!Attach, Console!Settle
  <2>2. Console!Size(pending)' = Console!Size(<<>>)
    BY <2>1 DEF Console!Size
  <2>3. Console!Size(pending)' <= Limit
    BY <2>2, NothingHeld, CommandAssumption
  <2> QED
    BY <2>1, <2>3 DEF HoldInv
<1>4. CASE Console!CreateFile \/ Console!Close
  <2>1. /\ pending' = pending /\ stage' \in {"creating", "closed"} /\ open' \in {open, FALSE}
        /\ settled' = settled /\ told' = told /\ unplayed' = unplayed
    BY <1>4 DEF Console!CreateFile, Console!Close
  <2>2. Console!Size(pending)' = Console!Size(pending)
    BY <2>1 DEF Console!Size
  <2>3. /\ open' \in BOOLEAN /\ settled' \in BOOLEAN /\ unplayed' \in BOOLEAN
        /\ open' => settled'
    <3>1. /\ open \in BOOLEAN /\ settled \in BOOLEAN /\ unplayed \in BOOLEAN
          /\ open => settled
      BY DEF HoldInv
    <3>2. open' = open \/ open' = FALSE
      BY <2>1
    <3>3. CASE open' = open
      BY <2>1, <3>1, <3>3, Zenon
    <3>4. CASE open' = FALSE
      BY <2>1, <3>1, <3>4, Zenon
    <3> QED
      BY <3>2, <3>3, <3>4
  <2>4. stage' \in {"creating", "closed"} /\ told' = told /\ Console!Size(pending)' <= Limit
    BY <2>1, <2>2 DEF HoldInv
  <2> QED
    BY <2>3, <2>4 DEF HoldInv
<1> QED
  BY <1>1, <1>2, <1>3, <1>4 DEF Console!Next

\* What is held of the screen before it is known whether there is a file takes no more
\* than Limit, for any number of messages of any length.
THEOREM HeldIsBounded == Spec => [](Console!Size(pending) <= Limit)
<1>1. Init => ScreenInv /\ HoldInv
  BY ScreenInvInit, HoldInvInit DEF Init
<1>2. ScreenInv /\ HoldInv /\ [Next]_vars => ScreenInv' /\ HoldInv'
  BY StepOfConsole, ConsoleKeepsScreen, HoldInvSteps
<1>3. HoldInv => Console!Size(pending) <= Limit
  BY DEF HoldInv
<1> QED
  BY <1>1, <1>2, <1>3, PTL DEF Spec

\* The rest of the types.
RestTyped ==
  /\ refused \in BOOLEAN /\ merging \in BOOLEAN
  /\ stop \in {"none", "canceled", "stalled"}
  /\ code \in OK .. Stalled

LEMMA RestTypedSteps ==
  ASSUME CodeInv, RestTyped, [Next]_vars
  PROVE  RestTyped'
<1> USE DEF OK, Usage, Unsupported, Schema, Input, OutputCode, Quality, Canceled, Stalled
<1>1. CASE EndRun
  <2> DEFINE all == Errors \cup (IF Missing # {} THEN {Input} ELSE {})
             Highest(c) == \A d \in all : Rank(d) <= Rank(c)
  <2>1. UNCHANGED <<refused, merging, stop>> /\ code' = CodeOfRun /\ \A in \in Inputs : result[in] # None
    BY <1>1 DEF EndRun, End, Prepared
  <2>2. all \in SUBSET (1 .. 8)
    BY <2>1 DEF CodeInv, ResultsInv, Errors, None, Dropped
  <2>3. CodeOfRun = IF all = {} THEN 0 ELSE CHOOSE c \in all : Highest(c)
    BY DEF CodeOfRun
  <2>4. all # {} => (CHOOSE c \in all : Highest(c)) \in all
    <3>1. all # {} => \E c \in all : Highest(c)
      <4> HIDE DEF all
      <4> QED
        BY <2>2, HighestExists
    <3> HIDE DEF all, Highest
    <3> QED
      BY <3>1
  <2>5. CodeOfRun \in 0 .. 8
    <3> HIDE DEF all, Highest
    <3> QED
      BY <2>2, <2>3, <2>4
  <2> QED
    BY <2>1, <2>5 DEF RestTyped
<1>2. CASE CloseLog \/ CloseCatalog \/ CloseConsole
  <2>1. UNCHANGED <<refused, merging, stop>> /\ code' \in {code, OutputCode}
    BY <1>2 DEF CloseLog, CloseCatalog, CloseConsole, CatalogFailed, Prepared
  <2> QED
    BY <2>1 DEF RestTyped
<1>3. CASE Opening
  <2>1. /\ stop' = stop /\ code' \in {code, Input, Usage, OutputCode} /\ refused' \in {refused, TRUE}
    BY <1>3 DEF Opening, Guards, NoConsole, RefuseConsole, CreateConsole, AttachConsole, OpenCatalog,
                OpenLog, Prepared, Refuse, Exit, End
  <2>2. merging' = merging \/ OpenCatalog
    BY <1>3 DEF Opening, Guards, NoConsole, RefuseConsole, CreateConsole, AttachConsole, OpenLog, Prepared
  <2>3. OpenCatalog => merging' \in {merging, Given(req.catalog) /\ ~req.force /\ Exists(req.catalog)}
    BY DEF OpenCatalog
  <2>4. merging' \in BOOLEAN /\ refused' \in BOOLEAN
    BY <2>1, <2>2, <2>3, Zenon DEF RestTyped
  <2> QED
    BY <2>1, <2>4 DEF RestTyped
<1>4. CASE (\E in \in Inputs : Work(in)) \/ Cancel \/ Say \/ UNCHANGED vars
  <2>1. UNCHANGED <<refused, merging, code>> /\ stop' \in {stop, "canceled", "stalled"}
    BY <1>4 DEF Work, ReportSchema, CheckOutput, Commit, SkipInput, Fail, Stopped, Stall, Inspect, Scan,
                Cancel, Say, AtWork, run, vars
  <2> QED
    BY <2>1 DEF RestTyped
<1> QED
  BY <1>1, <1>2, <1>3, <1>4 DEF Next, Step, Finish

\* Every variable of a command and of its console log keeps its type, for any command
\* lines, disks and messages.
THEOREM TypeCorrect == Spec => []TypeOK
<1>1. Init => ScreenInv /\ HoldInv /\ RestTyped
  <2>1. Init => refused = FALSE /\ merging = FALSE /\ stop = "none" /\ code = 0
    BY DEF Init, OK
  <2>2. 0 \in 0 .. 8
    OBVIOUS
  <2>3. Init => RestTyped
    BY <2>1, <2>2, Zenon DEF RestTyped, OK, Stalled
  <2> QED
    BY <2>3, ScreenInvInit, HoldInvInit DEF Init
<1>2. ScreenInv /\ HoldInv /\ [Next]_vars => ScreenInv' /\ HoldInv'
  BY StepOfConsole, ConsoleKeepsScreen, HoldInvSteps
<1>3. CodeInv /\ RestTyped /\ [Next]_vars => RestTyped'
  BY RestTypedSteps
<1>4. GuardInv /\ CodeInv /\ MadeInv /\ ScreenInv /\ HoldInv /\ RestTyped => TypeOK
  <2> SUFFICES ASSUME GuardInv, CodeInv, MadeInv, ScreenInv, HoldInv, RestTyped PROVE TypeOK
    OBVIOUS
  <2>1. at \in Range(Order) \cup {"closing log", "closing catalog", "closing console", "exited"}
    <3>1. DOMAIN Order = 1 .. 6
      BY DEF Order
    <3>2. /\ Order[1] = "guards" /\ Order[2] = "console" /\ Order[3] = "attaching"
          /\ Order[4] = "catalog" /\ Order[5] = "log" /\ Order[6] = "running"
      BY DEF Order
    <3>3. {"guards", "console", "attaching", "catalog", "log", "running"} \subseteq Range(Order)
      BY <3>1, <3>2 DEF Range
    <3> QED
      BY <3>3 DEF CodeInv, BeforeWork, Ending
  <2>2. there \in Disks /\ described \subseteq Inputs
        /\ done \in [Inputs -> {"todo", "reported", "checked", "over"}]
    BY DEF MadeInv, ProgressInv
  <2>3. \A in \in Inputs : result[in] \in Failures \cup (Dropped .. Stalled)
    BY DEF CodeInv, ResultsInv
  <2>4. \A v \in wrote : v[1] \in {"console", "catalog", "log", "manifest", "output",
                                   "schema report", "quality report"}
    BY DEF GuardInv, Owns
  <2>5. Console!TypeOK
    BY DEF ScreenInv, LinesInv, HeldInv, HoldInv, Console!TypeOK
  <2> QED
    BY <2>1, <2>2, <2>3, <2>4, <2>5 DEF RestTyped, TypeOK
<1> QED
  BY <1>1, <1>2, <1>3, <1>4, MadeHolds, PTL DEF Spec
=============================================================================
