--------------------------- MODULE ManifestProofs ---------------------------
(***************************************************************************)
(* What holds of Manifest for any files, options and bounds: its types,    *)
(* that an output is deleted only once the manifest on disk records it,    *)
(* and that what is skipped or deleted is what a run made.                 *)
(***************************************************************************)
EXTENDS Manifest, TLAPS

\* Outputs are deleted only while the manifest on disk is the one in memory, and
\* the entry of every output that is due is marked until the run is over.
DueInv ==
  /\ phase = "deleting" => present /\ disk = mem /\ saving = "idle"
  /\ phase = "final" => saving # "idle"
  /\ phase # "idle" =>
       \A f \in pending : /\ stage[f] \in {"skipped", "checked", "deleted"}
                          /\ mem[f] # None /\ mem[f].deleted

\* An output is known as deleted only as long as nothing is in its place.
GoneInv == \A f \in Files : gone[f] # None => output[f] = None

IInv == TypeOK /\ DueInv /\ GoneInv

LEMMA InitIInv == Init => IInv
<1> SUFFICES ASSUME Init PROVE IInv
  OBVIOUS
<1>1. TypeOK
  <2>1. 0 \in Versions /\ 0 \in 0 .. MaxWrites /\ 0 \in 0 .. MaxTouches /\ 0 \in 0 .. MaxRuns
    BY ManifestAssumption DEF Versions
  <2>2. deleting \in BOOLEAN /\ present \in BOOLEAN
    BY Zenon DEF Init
  <2> QED
    BY <2>1, <2>2 DEF Init, TypeOK, NoEntries
<1>2. DueInv /\ GoneInv
  BY DEF Init, DueInv, GoneInv, NoEntries
<1> QED
  BY <1>1, <1>2 DEF IInv

\* Every variable keeps its type, whatever the folder and the runs do.
LEMMA TypeStep == TypeOK /\ [Next]_vars => TypeOK'
<1> SUFFICES ASSUME TypeOK, [Next]_vars PROVE TypeOK'
  OBVIOUS
<1> USE ManifestAssumption
<1> USE DEF TypeOK, world, run, files, store, Versions, Entries, Outputs, None,
            NoEntries, OutputOf, EntryOf, Foreign, Fingerprints, Fingerprint
<1>0. /\ SchemaFor \in Schemas \cup {Broken}
      /\ Unread \in Schemas \cup {Broken, Unread}
      /\ Schemas \cup {Broken} \subseteq Schemas \cup {Broken, Unread}
  BY DEF SchemaFor
<1>1. CASE UNCHANGED vars
  BY <1>1 DEF vars
<1>2. ASSUME NEW f \in Files, Examine(f) PROVE TypeOK'
  <2>1. stage' \in [Files -> {"todo", "stale", "reading", "committed", "recorded",
                              "skipped", "failed", "checked", "deleted"}]
    BY <1>2 DEF Examine, To
  <2>0. held' \in Schemas \cup {Broken, Unread}
    BY <1>0, <1>2 DEF Examine
  <2>2. CASE UNCHANGED <<mem, pending>>
    BY <1>2, <2>0, <2>1, <2>2 DEF Examine
  <2>3. CASE /\ UpToDate(f)
             /\ mem' = [mem EXCEPT ![f].deleted = TRUE]
             /\ pending' = pending \cup {f}
    <3>1. mem[f] \in Entries
      BY <2>3 DEF UpToDate
    <3>2. [mem[f] EXCEPT !.deleted = TRUE] \in Entries
      <4>1. [mem[f] EXCEPT !.deleted = TRUE].deleted \in BOOLEAN
        BY <3>1, Zenon
      <4> QED
        BY <3>1, <4>1, Zenon
    <3>3. mem' \in [Files -> Entries \cup {None}]
      BY <2>3, <3>2, Zenon
    <3> QED
      BY <1>2, <2>0, <2>1, <2>3, <3>3 DEF Examine
  <2> QED
    BY <1>2, <2>2, <2>3 DEF Examine
<1>3. ASSUME NEW f \in Files, Open(f) PROVE TypeOK'
  BY <1>3 DEF Open, InRun, To
<1>4. ASSUME NEW f \in Files, Commit(f) PROVE TypeOK'
  <2>1. stage' \in [Files -> {"todo", "stale", "reading", "committed", "recorded",
                              "skipped", "failed", "checked", "deleted"}]
    BY <1>4 DEF Commit, To
  <2>2. writes' \in [Files -> 0 .. MaxWrites]
    BY <1>4 DEF Commit
  <2>3. writes[f] < MaxWrites =>
          OutputOf(writes[f] + 1, readAt[f], Fingerprint) \in Outputs
    BY <1>0
  <2>4. output' \in [Files -> Outputs \cup {None}]
    BY <1>4, <2>3 DEF Commit
  <2>5. gone' \in [Files -> Entries \cup {None}]
    BY <1>4 DEF Commit
  <2> QED
    BY <1>4, <2>1, <2>2, <2>4, <2>5 DEF Commit
<1>5. ASSUME NEW f \in Files, Record(f) PROVE TypeOK'
  BY <1>0, <1>5 DEF Record, InRun, To
<1>6. ASSUME NEW f \in Files, CheckAgain(f) PROVE TypeOK'
  BY <1>6 DEF CheckAgain, InDeletion, To
<1>7. ASSUME NEW f \in Files, Delete(f) PROVE TypeOK'
  BY <1>7 DEF Delete, InDeletion, To
<1>8. ASSUME NEW f \in Files, Reextract(f) PROVE TypeOK'
  BY <1>8 DEF Reextract, Touch
<1>9. ASSUME NEW f \in Files, Replace(f) PROVE TypeOK'
  BY <1>9 DEF Replace, Touch
<1>10. ASSUME NEW f \in Files, RemoveOutput(f) PROVE TypeOK'
  BY <1>10 DEF RemoveOutput, Touch
<1>101. CASE EditSchema
  BY <1>101 DEF EditSchema
<1>11. CASE StartRun
  BY <1>0, <1>11 DEF StartRun
<1>12. CASE FilesDone
  BY <1>12 DEF FilesDone
<1>13. CASE SaveRename
  BY <1>13 DEF SaveRename, AfterSave
<1>14. CASE SaveRetry
  BY <1>14 DEF SaveRetry, AfterSave
<1>15. CASE EndRun \/ Kill
  <2>1. Forget
    BY <1>15 DEF EndRun, Kill
  <2>2. readAt' \in [Files -> Versions] /\ mem' \in [Files -> Entries \cup {None}]
    <3>1. 0 \in Versions
      OBVIOUS
    <3> QED
      BY <2>1, <3>1 DEF Forget
  <2>3. deleting' \in BOOLEAN
    BY <2>1, Zenon DEF Forget
  <2> QED
    BY <1>0, <2>1, <2>2, <2>3 DEF Forget
<1> QED
  BY <1>1, <1>2, <1>3, <1>4, <1>5, <1>6, <1>7, <1>8, <1>9, <1>10, <1>101, <1>11, <1>12,
     <1>13, <1>14, <1>15 DEF Next, FileStep

\* The marks of the outputs that are due stay until the run is over, and the
\* deletions begin right after a save.
LEMMA DueStep == IInv /\ [Next]_vars => DueInv'
<1> SUFFICES ASSUME TypeOK, DueInv, [Next]_vars PROVE DueInv'
  BY DEF IInv
<1> USE DEF TypeOK, DueInv, world, run, files, store
<1>1. CASE UNCHANGED vars
  BY <1>1 DEF vars
<1>2. ASSUME NEW f \in Files, Examine(f) PROVE DueInv'
  <2>1. phase = "files" /\ phase' = "files" /\ stage[f] = "todo"
    BY <1>2 DEF Examine, InRun
  <2>2. CASE ~UpToDate(f) /\ To(f, "stale") /\ UNCHANGED <<mem, pending>>
    BY <1>2, <2>1, <2>2 DEF To
  <2>3. CASE UpToDate(f) /\ To(f, "skipped") /\ UNCHANGED <<mem, pending>>
    BY <1>2, <2>1, <2>3 DEF To
  <2>4. CASE /\ UpToDate(f)
             /\ mem' = [mem EXCEPT ![f].deleted = TRUE]
             /\ pending' = pending \cup {f}
             /\ To(f, "skipped")
    <3>1. mem[f] \in Entries
      BY <2>4 DEF UpToDate
    <3>2. mem'[f] # None /\ mem'[f].deleted
      BY <3>1, <2>4 DEF Entries, None
    <3>3. \A g \in Files \ {f} : mem'[g] = mem[g] /\ stage'[g] = stage[g]
      BY <2>4 DEF To
    <3>4. stage'[f] = "skipped"
      BY <2>4 DEF To
    <3> QED
      BY <2>1, <2>4, <3>2, <3>3, <3>4
  <2> QED
    BY <1>2, <2>2, <2>3, <2>4 DEF Examine
<1>3. ASSUME NEW f \in Files, Open(f) PROVE DueInv'
  BY <1>3 DEF Open, InRun, To
<1>4. ASSUME NEW f \in Files, Commit(f) PROVE DueInv'
  BY <1>4 DEF Commit, InRun, To
<1>5. ASSUME NEW f \in Files, Record(f) PROVE DueInv'
  <2>1. phase = "files" /\ phase' = "files" /\ f \notin pending
    BY <1>5 DEF Record, InRun
  <2>2. \A g \in Files \ {f} : mem'[g] = mem[g] /\ stage'[g] = stage[g]
    BY <1>5 DEF Record, To
  <2> QED
    BY <1>5, <2>1, <2>2 DEF Record
<1>6. ASSUME NEW f \in Files, CheckAgain(f) PROVE DueInv'
  BY <1>6 DEF CheckAgain, InDeletion, To
<1>7. ASSUME NEW f \in Files, Delete(f) PROVE DueInv'
  BY <1>7 DEF Delete, InDeletion, To
<1>8. ASSUME NEW f \in Files, Reextract(f) PROVE DueInv'
  BY <1>8 DEF Reextract
<1>9. ASSUME NEW f \in Files, Replace(f) PROVE DueInv'
  BY <1>9 DEF Replace
<1>10. ASSUME NEW f \in Files, RemoveOutput(f) PROVE DueInv'
  BY <1>10 DEF RemoveOutput
<1>101. CASE EditSchema
  BY <1>101 DEF EditSchema
<1>11. CASE StartRun
  BY <1>11 DEF StartRun
<1>12. CASE FilesDone
  BY <1>12 DEF FilesDone
<1>13. CASE SaveRename
  BY <1>13 DEF SaveRename, AfterSave
<1>14. CASE SaveRetry
  BY <1>14 DEF SaveRetry, AfterSave
<1>15. CASE EndRun
  BY <1>15 DEF EndRun, Forget
<1>16. CASE Kill
  BY <1>16 DEF Kill, Forget
<1> QED
  BY <1>1, <1>2, <1>3, <1>4, <1>5, <1>6, <1>7, <1>8, <1>9, <1>10, <1>101, <1>11, <1>12,
     <1>13, <1>14, <1>15, <1>16 DEF Next, FileStep

\* What is written in the place of a deleted output ends its being deleted.
LEMMA GoneStep == IInv /\ [Next]_vars => GoneInv'
<1> SUFFICES ASSUME TypeOK, GoneInv, [Next]_vars PROVE GoneInv'
  BY DEF IInv
<1>1. CASE UNCHANGED <<output, gone>>
  BY <1>1 DEF GoneInv
<1>2. ASSUME NEW f \in Files, Commit(f) PROVE GoneInv'
  BY <1>2 DEF Commit, GoneInv, TypeOK
<1>3. ASSUME NEW f \in Files, Delete(f) PROVE GoneInv'
  BY <1>3 DEF Delete, GoneInv, TypeOK
<1>4. ASSUME NEW f \in Files, Replace(f) PROVE GoneInv'
  BY <1>4 DEF Replace, GoneInv, TypeOK
<1>5. ASSUME NEW f \in Files, RemoveOutput(f) PROVE GoneInv'
  BY <1>5 DEF RemoveOutput, GoneInv, TypeOK
<1> QED
  BY <1>1, <1>2, <1>3, <1>4, <1>5
  DEF Next, FileStep, Examine, Open, Record, CheckAgain, Reextract, EditSchema, StartRun, FilesDone,
      SaveRename, SaveRetry, EndRun, Kill, Forget, vars, world

\* IInv is inductive.
LEMMA StepIInv == IInv /\ [Next]_vars => IInv'
  BY TypeStep, DueStep, GoneStep DEF IInv

\* A step that turns an output that is there into a deleted one is Delete.
LEMMA DeletingStep ==
  ASSUME IInv, [Next]_vars, NEW f \in Files, output[f] # None, gone'[f] # None
  PROVE  \E g \in Files : Delete(g) /\ g = f
<1>1. gone[f] = None
  BY DEF IInv, GoneInv
<1>2. PICK g \in Files : Delete(g)
  <2>1. gone' # gone
    BY <1>1
  <2>2. ASSUME NEW g \in Files, Commit(g) \/ Replace(g) PROVE gone'[f] = None
    BY <2>2, <1>1 DEF Commit, Replace, IInv, TypeOK
  <2> QED
    BY <2>1, <2>2
    DEF Next, FileStep, Examine, Open, Record, CheckAgain, Reextract, RemoveOutput,
        EditSchema, StartRun, FilesDone, SaveRename, SaveRetry, EndRun, Kill, Forget, vars
<1>3. g = f
  BY <1>1, <1>2 DEF Delete, IInv, TypeOK
<1> QED
  BY <1>2, <1>3

\* It finds the output marked as deleted in the manifest on disk.
LEMMA DeleteStep ==
  ASSUME IInv, [Next]_vars, NEW f \in Files, output[f] # None, gone'[f] # None
  PROVE  present /\ disk[f] = mem[f] /\ disk[f].deleted
<1>1. Delete(f)
  BY DeletingStep
<1> QED
  BY <1>1 DEF Delete, InDeletion, IInv, DueInv

-----------------------------------------------------------------------------
(* The files nobody touches while a run is at work on them: an output that *)
(* is the one an entry names was made from what the entry says.            *)

Names(f, e) ==
  e # None =>
    /\ e.out =< writes[f]
    /\ output[f] # None /\ output[f].id = e.out =>
         output[f].src = e.in /\ output[f].opts = e.fp

\* Numbers are given out once, so an entry and an output that agree on one are of
\* the same conversion.
BookInv ==
  \A f \in QuietFiles :
    /\ Names(f, mem[f]) /\ Names(f, disk[f])
    /\ output[f] # None => output[f].id =< writes[f]

\* A file that was examined was examined against the schema the run keeps.
HeldInv == \A f \in Files : stage[f] # "todo" => held # Unread

\* What a conversion has read and written, and what is about to be deleted.
WorkInv ==
  \A f \in QuietFiles :
    /\ stage[f] \in {"reading", "committed"} => readAt[f] = input[f]
    /\ stage[f] = "committed" =>
         output[f] # None /\ output[f].src = input[f] /\ output[f].opts = Fingerprint
    /\ stage[f] = "checked" =>
         phase = "deleting" /\ (output[f] # None => mem[f] # None /\ output[f].id = mem[f].out)

QuietInv == BookInv /\ HeldInv /\ WorkInv

LEMMA InitQuiet == Init => QuietInv
  BY ManifestAssumption DEF Init, QuietInv, BookInv, HeldInv, WorkInv, Names, NoEntries

LEMMA BookStep ==
  ASSUME IInv, QuietInv, [Next]_vars
  PROVE  BookInv'
<1> USE ManifestAssumption
<1> USE DEF IInv, TypeOK, QuietInv, BookInv, Names, world, run, files, store
<1>0. /\ \A f \in Files : writes[f] \in Nat
      /\ \A f \in Files : mem[f] # None => mem[f].out \in Nat
      /\ \A f \in Files : disk[f] # None => disk[f].out \in Nat
  BY DEF Entries
<1>1. CASE UNCHANGED <<output, writes, mem, disk>>
  BY <1>1
<1>2. ASSUME NEW f \in Files, Examine(f) PROVE BookInv'
  <2>1. CASE UNCHANGED mem
    BY <1>2, <2>1 DEF Examine
  <2>2. CASE mem' = [mem EXCEPT ![f].deleted = TRUE] /\ UpToDate(f)
    <3>1. mem[f] \in Entries
      BY <2>2 DEF UpToDate
    <3>2. /\ mem'[f].out = mem[f].out /\ mem'[f].in = mem[f].in /\ mem'[f].fp = mem[f].fp
          /\ mem[f] # None
      BY <2>2, <3>1 DEF Entries, None
    <3>3. \A g \in Files \ {f} : mem'[g] = mem[g]
      BY <2>2
    <3>4. UNCHANGED <<output, writes, disk>>
      BY <1>2 DEF Examine
    <3> QED
      BY <3>2, <3>3, <3>4
  <2> QED
    BY <1>2, <2>1, <2>2 DEF Examine
<1>3. ASSUME NEW f \in Files, Commit(f) PROVE BookInv'
  BY <1>0, <1>3 DEF Commit, OutputOf, None
<1>4. ASSUME NEW f \in Files, Record(f) PROVE BookInv'
  <2>1. CASE mem' = mem
    BY <1>4, <2>1 DEF Record
  <2>2. CASE mem' = [mem EXCEPT ![f] = EntryOf(input[f], output[f].id, Fingerprint)] /\ output[f] # None
    <3>1. \A g \in Files \ {f} : mem'[g] = mem[g]
      BY <2>2
    <3>2. mem'[f].out = output[f].id /\ mem'[f].in = input[f] /\ mem'[f].fp = Fingerprint
      BY <2>2 DEF EntryOf
    <3>3. f \in QuietFiles => output[f].src = input[f] /\ output[f].opts = Fingerprint
      BY <1>4 DEF Record, InRun, WorkInv
    <3>4. UNCHANGED <<output, writes, disk>>
      BY <1>4 DEF Record
    <3> QED
      BY <2>2, <3>1, <3>2, <3>3, <3>4
  <2> QED
    BY <1>4, <2>1, <2>2 DEF Record
<1>5. ASSUME NEW f \in Files, Delete(f) PROVE BookInv'
  BY <1>5 DEF Delete
<1>6. ASSUME NEW f \in Files, Replace(f) PROVE BookInv'
  BY <1>0, <1>6 DEF Replace, OutputOf, None
<1>7. ASSUME NEW f \in Files, RemoveOutput(f) PROVE BookInv'
  BY <1>7 DEF RemoveOutput
<1>8. CASE StartRun \/ EndRun \/ Kill
  BY <1>8 DEF StartRun, EndRun, Kill, Forget, NoEntries
<1>9. CASE SaveRename \/ SaveRetry
  <2>1. disk' \in {disk, mem, NoEntries} /\ UNCHANGED <<output, writes, mem>>
    BY <1>9 DEF SaveRename, SaveRetry
  <2> QED
    BY <2>1 DEF NoEntries
<1> QED
  BY <1>1, <1>2, <1>3, <1>4, <1>5, <1>6, <1>7, <1>8, <1>9
  DEF Next, FileStep, Open, CheckAgain, Reextract, EditSchema, FilesDone, vars

LEMMA HeldStep ==
  ASSUME IInv, HeldInv, [Next]_vars
  PROVE  HeldInv'
<1> USE DEF IInv, TypeOK, HeldInv, world, run, files, store
<1>1. CASE UNCHANGED <<stage, held>>
  BY <1>1
<1>2. ASSUME NEW f \in Files, Examine(f) PROVE HeldInv'
  <2>1. folder # Unread
    BY SchemaAssumption DEF Broken, Unread
  <2> QED
    BY <1>2, <2>1 DEF Examine, SchemaFor
<1>3. ASSUME NEW f \in Files, Open(f) \/ Commit(f) \/ Record(f) PROVE HeldInv'
  BY <1>3 DEF Open, Commit, Record, InRun, To
<1>4. ASSUME NEW f \in Files, CheckAgain(f) \/ Delete(f) PROVE HeldInv'
  BY <1>4 DEF CheckAgain, Delete, InDeletion, To
<1>5. CASE StartRun \/ EndRun \/ Kill
  BY <1>5 DEF StartRun, EndRun, Kill, Forget
<1> QED
  BY <1>1, <1>2, <1>3, <1>4, <1>5
  DEF Next, FileStep, Reextract, Replace, RemoveOutput, EditSchema, FilesDone,
      SaveRename, SaveRetry, vars

LEMMA WorkStep ==
  ASSUME IInv, QuietInv, [Next]_vars
  PROVE  WorkInv'
<1> USE ManifestAssumption
<1> USE DEF IInv, TypeOK, QuietInv, HeldInv, WorkInv, world, run, files, store
\* From the moment a file is examined the run's fingerprint stays what it is.
<1>0. \A f \in Files : stage[f] # "todo" /\ UNCHANGED <<opts, held>> => Fingerprint' = Fingerprint
  BY DEF Fingerprint, SchemaFor
<1>1. CASE UNCHANGED <<input, output, phase, opts, held, stage, readAt, mem>>
  BY <1>0, <1>1
<1>2. ASSUME NEW f \in Files, Examine(f) PROVE WorkInv'
  <2>1. /\ phase = "files" /\ stage[f] = "todo" /\ stage'[f] \in {"stale", "skipped"}
        /\ \A g \in Files \ {f} : stage'[g] = stage[g]
        /\ UNCHANGED <<input, output, phase, opts, readAt>>
        /\ held' = SchemaFor
    BY <1>2 DEF Examine, InRun, To
  <2>2. \A g \in Files : stage[g] # "todo" => Fingerprint' = Fingerprint
    BY <2>1 DEF Fingerprint, SchemaFor
  <2> QED
    BY <2>1, <2>2
<1>3. ASSUME NEW f \in Files, Open(f) PROVE WorkInv'
  BY <1>0, <1>3 DEF Open, InRun, To
<1>4. ASSUME NEW f \in Files, Commit(f) PROVE WorkInv'
  <2>1. /\ phase = "files" /\ stage[f] = "reading" /\ stage'[f] \in {"committed", "failed"}
        /\ \A g \in Files \ {f} : stage'[g] = stage[g] /\ output'[g] = output[g]
        /\ UNCHANGED <<input, phase, opts, held, readAt, mem>>
    BY <1>4 DEF Commit, InRun, To
  <2>2. stage'[f] = "committed" => output'[f] = OutputOf(writes[f] + 1, readAt[f], Fingerprint)
    BY <1>4, <2>1 DEF Commit, To
  <2>3. Fingerprint' = Fingerprint
    BY <1>0, <2>1
  <2>4. f \in QuietFiles => readAt[f] = input[f]
    BY <2>1
  <2>5. ASSUME stage'[f] = "committed", f \in QuietFiles
        PROVE  output'[f] # None /\ output'[f].src = input'[f] /\ output'[f].opts = Fingerprint'
    BY <2>1, <2>2, <2>3, <2>4, <2>5 DEF OutputOf, None
  <2> QED
    BY <2>1, <2>3, <2>4, <2>5
<1>5. ASSUME NEW f \in Files, Record(f) PROVE WorkInv'
  <2>1. /\ phase = "files" /\ stage'[f] = "recorded"
        /\ stage[f] # "todo"
        /\ \A g \in Files \ {f} : stage'[g] = stage[g] /\ mem'[g] = mem[g]
        /\ UNCHANGED <<input, output, phase, opts, held, readAt>>
    BY <1>5 DEF Record, InRun, To
  <2> QED
    BY <1>0, <2>1
<1>6. ASSUME NEW f \in Files, CheckAgain(f) PROVE WorkInv'
  <2>1. /\ phase = "deleting" /\ stage[f] = "skipped" /\ stage'[f] \in {"checked", "deleted"}
        /\ stage'[f] = "checked" => UpToDate(f)
        /\ \A g \in Files \ {f} : stage'[g] = stage[g]
        /\ UNCHANGED <<input, output, phase, opts, held, readAt, mem>>
    BY <1>6 DEF CheckAgain, InDeletion, To
  <2>2. stage'[f] = "checked" /\ output[f] # None => mem[f] # None /\ output[f].id = mem[f].out
    BY <2>1 DEF UpToDate
  <2> QED
    BY <1>0, <2>1, <2>2
<1>7. ASSUME NEW f \in Files, Delete(f) PROVE WorkInv'
  <2>1. /\ phase = "deleting" /\ stage'[f] = "deleted" /\ stage[f] # "todo"
        /\ \A g \in Files \ {f} : stage'[g] = stage[g] /\ output'[g] = output[g]
        /\ UNCHANGED <<input, phase, opts, held, readAt, mem>>
    BY <1>7 DEF Delete, InDeletion, To
  <2> QED
    BY <1>0, <2>1
<1>8. ASSUME NEW f \in Files, Reextract(f) \/ Replace(f) \/ RemoveOutput(f) PROVE WorkInv'
  <2>1. /\ f \in QuietFiles => stage[f] \notin {"reading", "committed", "checked"}
        /\ \A g \in Files \ {f} : input'[g] = input[g] /\ output'[g] = output[g]
        /\ UNCHANGED <<phase, opts, held, stage, readAt, mem>>
    BY <1>8 DEF Reextract, Replace, RemoveOutput, Touch, Settled
  <2> QED
    BY <1>0, <2>1
<1>9. CASE EditSchema
  BY <1>0, <1>9 DEF EditSchema
<1>10. CASE StartRun
  BY <1>10 DEF StartRun
<1>11. CASE EndRun \/ Kill
  BY <1>11 DEF EndRun, Kill, Forget
<1>12. CASE FilesDone \/ SaveRename \/ SaveRetry
  <2>1. phase # "deleting" /\ UNCHANGED <<input, output, opts, held, stage, readAt, mem>>
    BY <1>12 DEF FilesDone, SaveRename, SaveRetry, DueInv
  <2> QED
    BY <1>0, <2>1
<1> QED
  BY <1>1, <1>2, <1>3, <1>4, <1>5, <1>6, <1>7, <1>8, <1>9, <1>10, <1>11, <1>12
  DEF Next, FileStep, vars

LEMMA StepQuiet == IInv /\ QuietInv /\ [Next]_vars => QuietInv'
<1>1. IInv /\ QuietInv /\ [Next]_vars => HeldInv'
  BY HeldStep DEF QuietInv
<1> QED
  BY <1>1, BookStep, WorkStep DEF QuietInv

\* A step that skips a file is Examine, and it found the file's entry to agree with
\* the input, the output and the fingerprint of the run.
LEMMA SkipStep ==
  ASSUME IInv, QuietInv, [Next]_vars, NEW f \in QuietFiles,
         stage[f] = "todo", stage'[f] = "skipped", output[f] # None
  PROVE  output[f].src = input[f] /\ output[f].opts = <<opts, held'>>
<1> USE ManifestAssumption DEF IInv, TypeOK
<1>0. f \in Files
  OBVIOUS
<1>1. PICK g \in Files : Examine(g)
  <2>1. UNCHANGED stage => FALSE
    BY <1>0
  <2>2. ASSUME NEW g \in Files, Reextract(g) \/ Replace(g) \/ RemoveOutput(g) PROVE FALSE
    BY <2>1, <2>2 DEF Reextract, Replace, RemoveOutput, files
  <2>3. ~(EditSchema \/ FilesDone \/ SaveRename \/ SaveRetry \/ UNCHANGED vars)
    BY <2>1 DEF EditSchema, FilesDone, SaveRename, SaveRetry, vars, files
  <2>4. ~(StartRun \/ EndRun \/ Kill)
    BY <1>0 DEF StartRun, EndRun, Kill, Forget, files
  <2>5. ASSUME NEW g \in Files,
               Open(g) \/ Commit(g) \/ Record(g) \/ CheckAgain(g) \/ Delete(g)
        PROVE  FALSE
    <3>1. PICK to \in {"reading", "committed", "failed", "recorded", "checked", "skipped", "deleted"} :
            stage' = [stage EXCEPT ![g] = to] /\ stage[g] # "todo"
      BY <2>5 DEF Open, Commit, Record, CheckAgain, Delete, InRun, InDeletion, To
    <3> QED
      BY <1>0, <3>1
  <2> QED
    BY <2>2, <2>3, <2>4, <2>5 DEF Next, FileStep
<1>2. g = f
  BY <1>0, <1>1 DEF Examine, To
<1>3. UpToDate(f) /\ held' = SchemaFor
  BY <1>0, <1>1, <1>2 DEF Examine, To
<1>4. /\ mem[f] # None /\ mem[f].fp = Fingerprint /\ mem[f].in = input[f]
      /\ mem[f].out = output[f].id
  BY <1>3 DEF UpToDate
<1> QED
  BY <1>3, <1>4 DEF QuietInv, BookInv, Names, Fingerprint

\* The step that deletes an output is Delete, and the output is still the one that
\* was looked at.
LEMMA OursStep ==
  ASSUME IInv, QuietInv, [Next]_vars, NEW f \in QuietFiles,
         output[f] # None, gone'[f] # None
  PROVE  output[f].src = mem[f].in /\ output[f].opts = mem[f].fp
<1> USE ManifestAssumption
<1>0. f \in Files
  OBVIOUS
<1>1. \E g \in Files : Delete(g) /\ g = f
  BY <1>0, DeletingStep
<1>2. stage[f] = "checked"
  BY <1>1 DEF Delete, InDeletion
<1> QED
  BY <1>2 DEF QuietInv, BookInv, WorkInv, Names

-----------------------------------------------------------------------------
(* What was deleted: the entry an output was deleted under is the one the  *)
(* manifest has, in memory and on disk, or there is none.                  *)

Readable(e) == e # None => e.fp[2] # Broken

KeptInv ==
  \A f \in Files :
    /\ Readable(mem[f]) /\ Readable(disk[f])
    /\ gone[f] # None =>
         gone[f].deleted /\ mem[f] \in {None, gone[f]} /\ disk[f] \in {None, gone[f]}

LEMMA InitKept == Init => KeptInv
  BY DEF Init, KeptInv, Readable, NoEntries

LEMMA KeptStep ==
  ASSUME IInv, KeptInv, [Next]_vars
  PROVE  KeptInv'
<1> USE DEF IInv, TypeOK, KeptInv, Readable, world, run, files, store
<1>1. CASE UNCHANGED <<gone, mem, disk>>
  BY <1>1
<1>2. ASSUME NEW f \in Files, Examine(f) PROVE KeptInv'
  <2>1. CASE UNCHANGED mem
    BY <1>2, <2>1 DEF Examine
  <2>2. CASE mem' = [mem EXCEPT ![f].deleted = TRUE] /\ UpToDate(f) /\ output[f] # None
    <3>1. mem[f] \in Entries
      BY <2>2 DEF UpToDate
    <3>2. mem'[f].fp = mem[f].fp /\ mem[f] # None
      BY <2>2, <3>1 DEF Entries, None
    <3>3. \A g \in Files \ {f} : mem'[g] = mem[g]
      BY <2>2
    <3>4. UNCHANGED <<disk, gone>> /\ gone[f] = None
      BY <1>2, <2>2 DEF Examine, GoneInv
    <3> QED
      BY <3>2, <3>3, <3>4
  <2> QED
    BY <1>2, <2>1, <2>2 DEF Examine
<1>3. ASSUME NEW f \in Files, Commit(f) \/ Replace(f) PROVE KeptInv'
  BY <1>3 DEF Commit, Replace
<1>4. ASSUME NEW f \in Files, Record(f) PROVE KeptInv'
  <2>1. CASE mem' = mem
    BY <1>4, <2>1 DEF Record
  <2>2. CASE /\ mem' = [mem EXCEPT ![f] = EntryOf(input[f], output[f].id, Fingerprint)]
             /\ output[f] # None /\ SchemaFor # Broken
    <3>1. \A g \in Files \ {f} : mem'[g] = mem[g]
      BY <2>2
    <3>2. mem'[f].fp[2] # Broken
      BY <2>2 DEF EntryOf, Fingerprint
    <3>3. UNCHANGED <<disk, gone>> /\ gone[f] = None
      BY <1>4, <2>2 DEF Record, GoneInv
    <3> QED
      BY <3>1, <3>2, <3>3
  <2> QED
    BY <1>4, <2>1, <2>2 DEF Record
<1>5. ASSUME NEW f \in Files, Delete(f) PROVE KeptInv'
  <2>1. disk = mem /\ mem[f].deleted
    BY <1>5 DEF Delete, InDeletion, DueInv
  <2> QED
    BY <1>5, <2>1 DEF Delete
<1>6. CASE StartRun \/ EndRun \/ Kill
  BY <1>6 DEF StartRun, EndRun, Kill, Forget, NoEntries
<1>7. CASE SaveRename \/ SaveRetry
  <2>1. disk' \in {disk, mem, NoEntries} /\ UNCHANGED <<gone, mem>>
    BY <1>7 DEF SaveRename, SaveRetry
  <2> QED
    BY <2>1 DEF NoEntries
<1> QED
  BY <1>1, <1>2, <1>3, <1>4, <1>5, <1>6, <1>7
  DEF Next, FileStep, Open, CheckAgain, Reextract, RemoveOutput, EditSchema, FilesDone, vars

\* A step that finds a file stale is Examine. Of the reasons it can have, a file with
\* no output and an entry that is marked leaves the input and the fingerprint.
LEMMA StaleStep ==
  ASSUME IInv, KeptInv, [Next]_vars, NEW f \in Files,
         stage[f] = "todo", stage'[f] = "stale", gone[f] # None, mem[f] # None
  PROVE  gone[f].in # input[f] \/ gone[f].fp # <<opts, held'>>
<1> USE DEF IInv, TypeOK
<1>1. PICK g \in Files : Examine(g)
  BY DEF Next, FileStep, Open, Commit, Record, CheckAgain, Delete, InRun, InDeletion, To,
         Reextract, Replace, RemoveOutput, EditSchema, StartRun, FilesDone, SaveRename,
         SaveRetry, EndRun, Kill, Forget, vars, files
<1>2. g = f
  BY <1>1 DEF Examine, To
<1>3. ~UpToDate(f) /\ held' = SchemaFor
  BY <1>1, <1>2 DEF Examine, To
<1>4. output[f] = None /\ mem[f] = gone[f] /\ mem[f].deleted /\ mem[f].fp[2] # Broken
  BY DEF GoneInv, KeptInv, Readable
<1>5. SUFFICES ASSUME gone[f].in = input[f], gone[f].fp = <<opts, SchemaFor>> PROVE FALSE
  BY <1>3
<1>6. SchemaFor # Broken
  BY <1>4, <1>5
<1> QED
  BY <1>3, <1>4, <1>5, <1>6 DEF UpToDate, Fingerprint

-----------------------------------------------------------------------------
\* The types of the manifest, the folder and the run.
THEOREM TypeCorrect == Spec => []TypeOK
<1>1. IInv => TypeOK
  BY DEF IInv
<1> QED
  BY InitIInv, StepIInv, <1>1, PTL DEF Spec

\* For any number of files, options and runs, killed anywhere, nothing is deleted
\* that the manifest on disk does not record as deleted.
THEOREM DeletionsRecorded == Spec => DeletesAreRecorded
<1>1. IInv /\ [Next]_vars =>
        [\A f \in Files :
           output[f] # None /\ gone'[f] # None =>
             present /\ disk[f] = mem[f] /\ disk[f].deleted]_vars
  BY DeleteStep
<1> QED
  BY InitIInv, StepIInv, <1>1, PTL DEF Spec, DeletesAreRecorded

\* A file nobody touches while it is being converted is left alone only if its
\* output was made from the input as it is, with this run's options and the
\* folder's schema as the run keeps it, whenever that schema is edited.
THEOREM SkipsSoundly == Spec => SkipSound
<1>1. IInv /\ QuietInv /\ [Next]_vars =>
        [\A f \in QuietFiles :
           stage[f] = "todo" /\ stage'[f] = "skipped" /\ output[f] # None =>
             output[f].src = input[f] /\ output[f].opts = <<opts, held'>>]_vars
  BY SkipStep
<1> QED
  BY InitIInv, StepIInv, InitQuiet, StepQuiet, <1>1, PTL DEF Spec, SkipSound

\* --delete-older-than deletes only what a run made and recorded, for any number
\* of files and runs and whatever others put into the folder.
THEOREM DeletesOnlyOurs == Spec => DeletesOurs
<1>1. IInv /\ QuietInv /\ [Next]_vars =>
        [\A f \in QuietFiles :
           output[f] # None /\ gone'[f] # None =>
             output[f].src = mem[f].in /\ output[f].opts = mem[f].fp]_vars
  BY OursStep
<1> QED
  BY InitIInv, StepIInv, InitQuiet, StepQuiet, <1>1, PTL DEF Spec, DeletesOurs

\* What one run deleted no later run converts back while the input and what it is
\* converted with are those it was deleted under, whatever was killed in between.
THEOREM DeletedForGood == Spec => DeletedStaysDeleted
<1>1. IInv /\ KeptInv /\ [Next]_vars =>
        [\A f \in Files :
           /\ stage[f] = "todo" /\ stage'[f] = "stale"
           /\ gone[f] # None /\ mem[f] # None
           => gone[f].in # input[f] \/ gone[f].fp # <<opts, held'>>]_vars
  BY StaleStep
<1>2. IInv /\ KeptInv /\ [Next]_vars => KeptInv'
  BY KeptStep
<1> QED
  BY InitIInv, StepIInv, InitKept, <1>1, <1>2, PTL DEF Spec, DeletedStaysDeleted
=============================================================================
