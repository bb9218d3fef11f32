------------------------------ MODULE Manifest ------------------------------
(***************************************************************************)
(* The manifest of one output folder over several runs with                *)
(* --skip-up-to-date: what is skipped, converted and recorded, how the     *)
(* manifest is saved while the run goes on, and how --delete-older-than    *)
(* deletes outputs. The files of a run are examined and converted in any   *)
(* order. The folder has a schema, which the run reads once. Inputs are    *)
(* re-extracted, outputs replaced or removed and the schema edited by      *)
(* others, and a run can be killed at any moment.                          *)
(*                                                                         *)
(* A version of an input stands for its size and timestamp. An output is   *)
(* known by a number (its size and timestamp), with what it was made from. *)
(* A fingerprint is that of the options with that of the folder's schema.  *)
(***************************************************************************)
EXTENDS Integers

CONSTANTS
  Files,           \* the inputs of the folder, each with its output
  Options,         \* the option fingerprints runs are made with
  Schemas,         \* what can be in the folder's schema, nothing included
  MaxVersion,      \* bound: versions of an input after the first
  MaxWrites,       \* bound: writes of one output
  MaxTouches,      \* bound: what others do to the folder
  MaxRuns,         \* bound: runs
  QuietFiles       \* the files nobody touches while a run is at work on them

ASSUME ManifestAssumption ==
  /\ Files # {} /\ Options # {} /\ Schemas # {}
  /\ MaxVersion \in Nat /\ MaxWrites \in Nat \ {0}
  /\ MaxTouches \in Nat /\ MaxRuns \in Nat \ {0}
  /\ QuietFiles \subseteq Files

Versions == 0 .. MaxVersion
Foreign == -1                  \* the source of an output that is not ours
Broken == "broken"             \* a schema that cannot be read or parsed
Unread == "unread"             \* the run has not asked for the schema yet
ASSUME SchemaAssumption == Broken \notin Schemas /\ Unread \notin Schemas

None == [kind |-> "none"]
OutputOf(id, src, opts) == [kind |-> "file", id |-> id, src |-> src, opts |-> opts]
EntryOf(in, out, fp) ==
  [kind |-> "entry", in |-> in, out |-> out, fp |-> fp, deleted |-> FALSE]

VARIABLES
  input,     \* the version of each input
  output,    \* what is at each output path
  folder,    \* the schema in the folder
  writes,    \* how often each output was written
  touches,   \* what others did to the folder so far
  runs,      \* runs started
  phase,     \* "idle" (between runs), "files", "final" or "deleting"
  opts,      \* the fingerprint of this run's options
  held,      \* the folder's schema as FolderSchemas keeps it
  deleting,  \* --delete-older-than
  stage,     \* how far each file has come
  readAt,    \* the version of the input its conversion reads
  mem,       \* the manifest in memory
  disk,      \* the manifest on disk
  present,   \* it is there
  saving,    \* "idle" or where Manifest.Save stands
  pending,   \* outputs to delete once the manifest is saved
  gone       \* history: the entry an output, absent since, was deleted under

world == <<input, output, folder, writes, touches>>
run == <<runs, phase, opts, held, deleting>>
files == <<stage, readAt>>
store == <<mem, disk, present, saving>>
vars == <<world, run, files, store, pending, gone>>

Fingerprints == Options \X (Schemas \cup {Broken})
Entries == [kind : {"entry"}, in : Versions, out : 1 .. MaxWrites, fp : Fingerprints,
            deleted : BOOLEAN]
Outputs == [kind : {"file"}, id : 1 .. MaxWrites, src : Versions \cup {Foreign},
            opts : Fingerprints]
NoEntries == [f \in Files |-> None]

TypeOK ==
  /\ input \in [Files -> Versions]
  /\ output \in [Files -> Outputs \cup {None}]
  /\ folder \in Schemas \cup {Broken} /\ held \in Schemas \cup {Broken, Unread}
  /\ writes \in [Files -> 0 .. MaxWrites] /\ touches \in 0 .. MaxTouches
  /\ runs \in 0 .. MaxRuns
  /\ phase \in {"idle", "files", "final", "deleting"}
  /\ opts \in Options /\ deleting \in BOOLEAN
  /\ stage \in [Files -> {"todo", "stale", "reading", "committed", "recorded",
                          "skipped", "failed", "checked", "deleted"}]
  /\ readAt \in [Files -> Versions]
  /\ mem \in [Files -> Entries \cup {None}]
  /\ disk \in [Files -> Entries \cup {None}]
  /\ present \in BOOLEAN
  /\ saving \in {"idle", "rename", "retry"}
  /\ pending \subseteq Files
  /\ gone \in [Files -> Entries \cup {None}]

Init ==
  /\ input = [f \in Files |-> 0]
  /\ output = NoEntries
  /\ writes = [f \in Files |-> 0] /\ touches = 0
  /\ runs = 0 /\ phase = "idle"
  /\ opts \in Options /\ deleting = FALSE
  /\ folder \in Schemas /\ held = Unread
  /\ stage = [f \in Files |-> "todo"]
  /\ readAt = [f \in Files |-> 0]
  /\ mem = NoEntries /\ disk = NoEntries /\ present = FALSE
  /\ saving = "idle"
  /\ pending = {}
  /\ gone = NoEntries
-----------------------------------------------------------------------------
(* What others do to the folder.                                           *)

\* Nobody touches the input or the output of a file that is being converted, from
\* the moment it is opened to the moment it is recorded, or is about to be deleted.
Settled(f) == f \in QuietFiles => stage[f] \notin {"reading", "committed", "checked"}
Touch(f) == Settled(f) /\ touches < MaxTouches /\ touches' = touches + 1

Reextract(f) ==
  /\ Touch(f) /\ input[f] < MaxVersion
  /\ input' = [input EXCEPT ![f] = @ + 1]
  /\ UNCHANGED <<output, folder, writes, run, files, store, pending, gone>>

Replace(f) ==
  /\ Touch(f) /\ writes[f] < MaxWrites
  /\ writes' = [writes EXCEPT ![f] = @ + 1]
  /\ output' = [output EXCEPT ![f] = OutputOf(writes[f] + 1, Foreign, <<opts, folder>>)]
  /\ gone' = [gone EXCEPT ![f] = None]
  /\ UNCHANGED <<input, folder, run, files, store, pending>>

RemoveOutput(f) ==
  /\ Touch(f) /\ output[f] # None
  /\ output' = [output EXCEPT ![f] = None]
  /\ UNCHANGED <<input, folder, writes, run, files, store, pending, gone>>

\* The folder's schema is edited, whatever the run is doing.
EditSchema ==
  /\ touches < MaxTouches /\ touches' = touches + 1
  /\ folder' \in (Schemas \cup {Broken}) \ {folder}
  /\ UNCHANGED <<input, output, writes, run, files, store, pending, gone>>
-----------------------------------------------------------------------------
(* A run looks at its files.                                               *)

\* LoadManifest: a manifest that is missing or cannot be read is an empty one.
StartRun ==
  /\ phase = "idle" /\ runs < MaxRuns
  /\ runs' = runs + 1
  /\ phase' = "files"
  /\ opts' \in Options /\ held' = Unread /\ deleting' \in BOOLEAN
  /\ stage' = [f \in Files |-> "todo"]
  /\ mem' = IF present THEN disk ELSE NoEntries
  /\ pending' = {}
  /\ UNCHANGED <<world, readAt, disk, present, saving, gone>>

\* Mutant: without the cache the schema is read every time.
SchemaForNil == folder

\* FolderSchemas.For: the folder's schema is read when it is first asked for, and
\* kept with its error for the rest of the run.
SchemaFor == IF held = Unread THEN folder ELSE held

\* folderFingerprint.
Fingerprint == <<opts, SchemaFor>>

\* Mutant: the fingerprint is not compared.
UpToDateAnyOptions(f) ==
  LET e == mem[f] IN
    /\ SchemaFor # Broken
    /\ e # None
    /\ e.in = input[f]
    /\ IF output[f] = None THEN e.deleted ELSE e.out = output[f].id

\* Manifest.Stale finds no reason.
UpToDate(f) ==
  LET e == mem[f] IN
    /\ SchemaFor # Broken
    /\ e # None
    /\ e.fp = Fingerprint
    /\ e.in = input[f]
    /\ IF output[f] = None THEN e.deleted ELSE e.out = output[f].id

InRun(f, from) == phase = "files" /\ stage[f] = from
To(f, to) == stage' = [stage EXCEPT ![f] = to]

\* The loop asks the manifest, which nobody may be saving. An output that is
\* old enough is marked as deleted, in memory only, unless its columns cannot
\* be read.
Examine(f) ==
  /\ InRun(f, "todo") /\ saving = "idle"
  /\ held' = SchemaFor
  /\ \/ ~UpToDate(f) /\ To(f, "stale") /\ UNCHANGED <<mem, pending>>
     \/ UpToDate(f) /\ To(f, "skipped") /\ UNCHANGED <<mem, pending>>
     \/ /\ UpToDate(f) /\ deleting /\ output[f] # None
        /\ mem' = [mem EXCEPT ![f].deleted = TRUE]
        /\ pending' = pending \cup {f}
        /\ To(f, "skipped")
  /\ UNCHANGED <<world, runs, phase, opts, deleting, readAt, disk, present, saving, gone>>

\* The conversion reads the input as it is when it opens it.
Open(f) ==
  /\ InRun(f, "stale")
  /\ readAt' = [readAt EXCEPT ![f] = input[f]]
  /\ To(f, "reading")
  /\ UNCHANGED <<world, run, store, pending, gone>>

\* The output, made with the schema the cache gives, takes its place; or the
\* conversion fails and leaves the old one, or loses it.
Commit(f) ==
  /\ InRun(f, "reading")
  /\ \/ /\ writes[f] < MaxWrites /\ SchemaFor # Broken
        /\ writes' = [writes EXCEPT ![f] = @ + 1]
        /\ output' = [output EXCEPT ![f] = OutputOf(writes[f] + 1, readAt[f], Fingerprint)]
        /\ gone' = [gone EXCEPT ![f] = None]
        /\ To(f, "committed")
     \/ UNCHANGED <<writes, output, gone>> /\ To(f, "failed")
     \/ /\ output[f] # None /\ SchemaFor # Broken
        /\ output' = [output EXCEPT ![f] = None]
        /\ To(f, "failed") /\ UNCHANGED <<writes, gone>>
  /\ UNCHANGED <<input, folder, touches, run, readAt, store, pending>>

\* Manifest.Record looks at the input and the output as they are now; a file it
\* cannot look at keeps the entry it has. A save may be due.
Record(f) ==
  /\ InRun(f, "committed") /\ saving = "idle"
  /\ mem' = IF output[f] = None \/ SchemaFor = Broken THEN mem
            ELSE [mem EXCEPT ![f] = EntryOf(input[f], output[f].id, Fingerprint)]
  /\ saving' \in {"idle", "rename"}
  /\ To(f, "recorded")
  /\ UNCHANGED <<world, run, readAt, disk, present, pending, gone>>

\* The loop is through, or the batch was stopped: what is left is not converted.
FilesDone ==
  /\ phase = "files" /\ saving = "idle"
  /\ \A f \in Files : stage[f] \notin {"reading", "committed"}
  /\ phase' = "final" /\ saving' = "rename"
  /\ UNCHANGED <<world, runs, opts, held, deleting, files, mem, disk, present, pending, gone>>
-----------------------------------------------------------------------------
(* Manifest.Save, with the manifest's lock held. The temporary file holds  *)
(* what is in memory, which cannot change meanwhile.                       *)

\* Mutant: the deletions do not depend on the save.
AfterSaveAnyway(saved) ==
  /\ saving' = "idle"
  /\ phase' \in IF phase = "files" THEN {"files"} ELSE {"deleting", "idle"}

\* What follows a save: the run goes on, or deletes, or ends. Old outputs stay
\* when the last save failed, was given up on or came after a stall.
AfterSave(saved) ==
  /\ saving' = "idle"
  /\ phase' \in CASE phase = "files" -> {"files"}
                  [] phase = "final" /\ saved -> {"deleting", "idle"}
                  [] OTHER -> {"idle"}

\* The temporary file takes the manifest's name; or cannot be written, or not
\* take it; or the share refuses to overwrite, and the old one is deleted.
SaveRename ==
  /\ saving = "rename"
  /\ \/ disk' = mem /\ present' = TRUE /\ AfterSave(TRUE)
     \/ UNCHANGED <<disk, present>> /\ AfterSave(FALSE)
     \/ /\ present
        /\ disk' = NoEntries /\ present' = FALSE
        /\ saving' = "retry" /\ UNCHANGED phase
  /\ UNCHANGED <<world, runs, opts, held, deleting, files, mem, pending, gone>>

SaveRetry ==
  /\ saving = "retry"
  /\ \/ disk' = mem /\ present' = TRUE /\ AfterSave(TRUE)
     \/ UNCHANGED <<disk, present>> /\ AfterSave(FALSE)
  /\ UNCHANGED <<world, runs, opts, held, deleting, files, mem, pending, gone>>
-----------------------------------------------------------------------------
(* The deletions.                                                          *)

InDeletion(f, from) == phase = "deleting" /\ f \in pending /\ stage[f] = from

\* Mutant: the output is not looked at again.
CheckAgainNot(f) ==
  /\ InDeletion(f, "skipped")
  /\ To(f, "checked")
  /\ UNCHANGED <<world, run, readAt, store, pending, gone>>

\* Each output is looked at once more; one that changed is left alone.
CheckAgain(f) ==
  /\ InDeletion(f, "skipped")
  /\ To(f, IF UpToDate(f) THEN "checked" ELSE "deleted")
  /\ UNCHANGED <<world, run, readAt, store, pending, gone>>

\* os.Remove, which can fail.
Delete(f) ==
  /\ InDeletion(f, "checked")
  /\ \/ /\ output[f] # None
        /\ output' = [output EXCEPT ![f] = None]
        /\ gone' = [gone EXCEPT ![f] = mem[f]]
     \/ UNCHANGED <<output, gone>>
  /\ To(f, "deleted")
  /\ UNCHANGED <<input, folder, writes, touches, run, readAt, store, pending>>

\* What a run has in memory goes with its process.
Forget ==
  /\ phase' = "idle" /\ saving' = "idle"
  /\ stage' = [f \in Files |-> "todo"]
  /\ readAt' = [f \in Files |-> 0]
  /\ mem' = NoEntries /\ held' = Unread /\ pending' = {} /\ deleting' = FALSE
  /\ UNCHANGED <<world, runs, opts, disk, present, gone>>

\* The run is over when it is through with its deletions.
EndRun ==
  /\ phase = "deleting"
  /\ \A f \in pending : stage[f] = "deleted"
  /\ Forget

\* The process is killed.
Kill == phase # "idle" /\ Forget

FileStep(f) ==
  \/ Examine(f) \/ Open(f) \/ Commit(f) \/ Record(f) \/ CheckAgain(f) \/ Delete(f)

Next ==
  \/ \E f \in Files : FileStep(f) \/ Reextract(f) \/ Replace(f) \/ RemoveOutput(f)
  \/ EditSchema
  \/ StartRun \/ FilesDone \/ SaveRename \/ SaveRetry \/ EndRun \/ Kill

Spec == Init /\ [][Next]_vars
-----------------------------------------------------------------------------
\* "A file is skipped only when this exact run already produced it": an output
\* left in place (Manifest.Stale) was made from the input as it is, with these
\* options and the folder's schema as this run holds it, whenever it is edited.
SkipSound ==
  [][\A f \in QuietFiles :
       stage[f] = "todo" /\ stage'[f] = "skipped" /\ output[f] # None =>
         output[f].src = input[f] /\ output[f].opts = <<opts, held'>>]_vars

\* --delete-older-than deletes only what a run made of the input and recorded,
\* never what somebody else put there since it was examined.
DeletesOurs ==
  [][\A f \in QuietFiles :
       output[f] # None /\ gone'[f] # None =>
         output[f].src = mem[f].in /\ output[f].opts = mem[f].fp]_vars

\* An output is deleted only when the manifest on disk says so, with all that
\* the next run needs to skip it: a kill loses no record of a deletion.
DeletesAreRecorded ==
  [][\A f \in Files :
       output[f] # None /\ gone'[f] # None =>
         present /\ disk[f] = mem[f] /\ disk[f].deleted]_vars

\* No later run converts back what one deleted, while the input and the options
\* are those it was deleted under, whatever was killed, saved or not saved in
\* between, unless the manifest itself was lost.
DeletedStaysDeleted ==
  [][\A f \in Files :
       /\ stage[f] = "todo" /\ stage'[f] = "stale"
       /\ gone[f] # None /\ mem[f] # None
       => gone[f].in # input[f] \/ gone[f].fp # <<opts, held'>>]_vars

\* README.md: "a file is skipped only when this exact run already produced it",
\* whoever touches the input in the meantime.
SkipAlwaysSound ==
  [][\A f \in Files :
       stage[f] = "todo" /\ stage'[f] = "skipped" /\ output[f] # None =>
         output[f].src = input[f] /\ output[f].opts = <<opts, held'>>]_vars
=============================================================================
