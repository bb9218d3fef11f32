------------------------------- MODULE Catalog -------------------------------
(***************************************************************************)
(* The column catalog over several runs: what --catalog-out merges into the *)
(* catalog on disk, from conversions, from skipped files whose outputs are *)
(* scanned, and from --catalog-scan. QVDs are re-extracted under other table *)
(* names and with other columns, outputs are removed and made again; runs  *)
(* are killed, or fail to write the catalog.                               *)
(*                                                                         *)
(* An input stands for its output path and for the name of that file too,  *)
(* which its table, or another QVD's, may have as well.                    *)
(* What only a conversion knows of a column (its Qlik type, its symbols, its *)
(* range, its note) is the conversion it comes from: input and run. What a  *)
(* scan sees (type, comment) is the run that wrote the file.               *)
(***************************************************************************)
EXTENDS Integers, FiniteSets, FiniteSetsExt

CONSTANTS
  Inputs,      \* the QVDs, each with its output
  Tables,      \* table names a QVD's header can carry
  TablesOf,    \* which of them each QVD's can
  ColumnSets,  \* sets of columns a QVD can have
  MaxRuns      \* bound: runs

ASSUME CatalogAssumption ==
  /\ Inputs # {} /\ IsFiniteSet(Inputs)
  /\ TablesOf \in [Inputs -> SUBSET Tables]
  /\ \A i \in Inputs : TablesOf[i] # {}
  /\ ColumnSets # {} /\ \A cols \in ColumnSets : IsFiniteSet(cols)
  /\ MaxRuns \in Nat

Columns == UNION ColumnSets
Unknown == [run |-> 0]
None == [cols |-> {}]            \* no output

VARIABLES
  header,     \* each QVD as it was last extracted
  fresh,      \* the manifest says its output is up to date
  file,       \* what each output was made of, and in which run
  there,      \* it has not been deleted since
  cat,        \* the rows of the catalog on disk
  exists,     \* it is there
  runs,       \* runs started
  phase,      \* "idle", "converting" or "scanning"
  on,         \* the run has --catalog-out
  force,      \* --force
  stored,     \* Writer.stored, read when the run began
  rows,       \* Writer.rows
  accounted,  \* the inputs in them
  attempted,  \* the inputs the run is through with
  wrote,      \* history: the runs that wrote the catalog
  ever        \* history: the keys written since the catalog was last replaced

world == <<header, fresh, file, there>>
disk == <<cat, exists, wrote, ever>>
writer == <<phase, on, force, stored>>
vars == <<world, disk, runs, writer, rows, accounted, attempted>>

Facts == [of : Inputs, run : 1 .. MaxRuns] \cup {Unknown}
Rows == [source : {"qvd", "parquet"}, table : Tables \cup Inputs, column : Columns,
         path : Inputs, run : 1 .. MaxRuns,
         facts : Facts, seen : 1 .. MaxRuns]
Headers(i) == [table : TablesOf[i], cols : ColumnSets]
Made == [table : Tables, cols : ColumnSets, run : 1 .. MaxRuns]

TypeOK ==
  /\ header \in [Inputs -> [table : Tables, cols : ColumnSets]]
  /\ \A i \in Inputs : header[i] \in Headers(i)
  /\ file \in [Inputs -> Made \cup {None}]
  /\ fresh \in [Inputs -> BOOLEAN] /\ there \in [Inputs -> BOOLEAN]
  /\ cat \subseteq Rows /\ stored \subseteq Rows /\ rows \subseteq Rows
  /\ runs \in 0 .. MaxRuns /\ wrote \subseteq 1 .. runs
  /\ phase \in {"idle", "converting", "scanning"}
  /\ exists \in BOOLEAN /\ on \in BOOLEAN /\ force \in BOOLEAN
  /\ accounted \subseteq Inputs /\ attempted \subseteq Inputs
  /\ exists \/ cat = {}

Init ==
  /\ header \in {h \in [Inputs -> [table : Tables, cols : ColumnSets]] :
                   \A i \in Inputs : h[i] \in Headers(i)}
  /\ fresh = [i \in Inputs |-> FALSE]
  /\ file = [i \in Inputs |-> None]
  /\ there = [i \in Inputs |-> FALSE]
  /\ cat = {} /\ exists = FALSE
  /\ runs = 0 /\ phase = "idle" /\ on = TRUE /\ force = FALSE
  /\ stored = {} /\ rows = {} /\ accounted = {} /\ attempted = {}
  /\ wrote = {} /\ ever = {}
-----------------------------------------------------------------------------
(* Merge, and what it does with rows read back from an output.             *)

KeyOf(r) == <<r.table, r.column>>
Keys(R) == {KeyOf(r) : r \in R}

\* Of several rows one of the newest run. Which of them (the code takes the first
\* in the order the catalog was sorted in) is left open.
Newest(R) == CHOOSE r \in R : \A s \in R : r.run >= s.run

Conversions(old) == {r \in old : r.source = "qvd"}
OfFile(old, p) == {r \in Conversions(old) : r.path = p}
OfKey(old, k) == {r \in Conversions(old) : KeyOf(r) = k}

\* Mutant: the table of the file is taken from any of its rows.
OwnerOldest(old, p) ==
  (CHOOSE r \in OfFile(old, p) : \A s \in OfFile(old, p) : r.run <= s.run).table

\* The table the newest conversion the catalog knows of wrote into a file.
Owner(old, p) == Newest(OfFile(old, p)).table

\* Mutant: a scan is taken as it is.
ReconcileNothing(old, r) == r

\* Mutant: the row of the catalog replaces what the scan saw.
ReconcileStored(old, r) ==
  IF r.source # "parquet" \/ OfFile(old, r.path) = {} THEN r
  ELSE LET t == Owner(old, r.path)
           known == OfKey(old, <<t, r.column>>)
       IN IF known = {} THEN [r EXCEPT !.table = t]
          ELSE [Newest(known) EXCEPT !.run = r.run]

\* reconcileScans: a scanned row of a file the catalog knows a conversion of is
\* filed under its table, and takes from the row of that column what it cannot
\* see.
Reconcile(old, r) ==
  IF r.source # "parquet" \/ OfFile(old, r.path) = {} THEN r
  ELSE LET t == Owner(old, r.path)
           known == OfKey(old, <<t, r.column>>)
       IN IF known = {} THEN [r EXCEPT !.table = t]
          ELSE [r EXCEPT !.table = t, !.source = "qvd", !.facts = Newest(known).facts]

\* Mutant: every row of a table the run describes is replaced.
MergeTables(old, new) ==
  LET current == {Reconcile(old, r) : r \in new}
  IN {r \in old : \A c \in current : c.table # r.table} \cup current

\* A column the run describes replaces the row of that key; the others stay.
Merge(old, new) ==
  LET current == {Reconcile(old, r) : r \in new}
  IN {r \in old : KeyOf(r) \notin Keys(current)} \cup current
-----------------------------------------------------------------------------
(* The QVDs and the runs. A run looks at each file once, so what happens to the *)
(* files while it goes on may as well happen before it or after it.        *)

Reextract(i) ==
  /\ phase = "idle"
  /\ \E h \in Headers(i) : h # header[i] /\ header' = [header EXCEPT ![i] = h]
  /\ fresh' = [fresh EXCEPT ![i] = FALSE]
  /\ UNCHANGED <<file, there, disk, runs, writer, rows, accounted, attempted>>

\* An output is deleted, by --delete-older-than, which keeps a description of an
\* output that is up to date, or by somebody else.
RemoveOutput(i) ==
  /\ phase = "idle" /\ there[i]
  /\ there' = [there EXCEPT ![i] = FALSE]
  /\ \E kept \in {fresh[i], FALSE} : fresh' = [fresh EXCEPT ![i] = kept]
  /\ UNCHANGED <<header, file, disk, runs, writer, rows, accounted, attempted>>

\* NewWriter reads the catalog at once, or replaces it with --force.
OpenRun ==
  /\ phase = "idle" /\ runs < MaxRuns
  /\ runs' = runs + 1
  /\ phase' \in {"converting", "scanning"}
  /\ on' \in BOOLEAN /\ (phase' = "scanning" => on')
  /\ force' \in BOOLEAN
  /\ stored' = IF on' /\ ~force' THEN cat ELSE {}
  /\ rows' = {} /\ accounted' = {} /\ attempted' = {}
  /\ UNCHANGED <<world, disk>>

\* Writer.Add.
Add(i, new) ==
  /\ attempted' = attempted \cup {i}
  /\ IF on
       THEN rows' = rows \cup new /\ accounted' = accounted \cup {i}
       ELSE UNCHANGED <<rows, accounted>>

\* CatalogRows: what a conversion knows of its columns.
CatalogRows(i) ==
  [source : {"qvd"}, table : {header[i].table}, column : header[i].cols, path : {i},
   run : {runs}, facts : {[of |-> i, run |-> runs]}, seen : {runs}]

\* ScanFile: what an output says of itself.
ScanFile(i, table) ==
  [source : {"parquet"}, table : {table}, column : file[i].cols, path : {i},
   run : {runs}, facts : {Unknown}, seen : {file[i].run}]

\* The rows follow the commit; a conversion that fails leaves the output and
\* adds none, and without --force it does not replace an output.
Convert(i) ==
  /\ phase = "converting" /\ i \notin attempted
  /\ \/ /\ force \/ ~there[i]
        /\ there' = [there EXCEPT ![i] = TRUE]
        /\ file' = [file EXCEPT ![i] = [table |-> header[i].table,
                                        cols |-> header[i].cols, run |-> runs]]
        /\ fresh' = [fresh EXCEPT ![i] = TRUE]
        /\ Add(i, CatalogRows(i))
     \/ attempted' = attempted \cup {i} /\ UNCHANGED <<file, there, fresh, rows, accounted>>
  /\ UNCHANGED <<header, disk, runs, writer>>

\* --skip-up-to-date: the output is scanned under the table the manifest names; of
\* a deleted one the manifest has what a scan would say (DeletedRows).
Skip(i) ==
  /\ phase = "converting" /\ i \notin attempted /\ fresh[i]
  /\ Add(i, ScanFile(i, file[i].table))
  /\ UNCHANGED <<world, disk, runs, writer>>

\* --catalog-scan: a file goes by its own name. One that cannot be read is left out.
Scan(i) ==
  /\ phase = "scanning" /\ i \notin attempted /\ there[i]
  /\ \/ Add(i, ScanFile(i, i))
     \/ attempted' = attempted \cup {i} /\ UNCHANGED <<rows, accounted>>
  /\ UNCHANGED <<world, disk, runs, writer>>

\* Close writes what the run accounted for, whole or, when it fails or the process
\* is killed, not at all. A run that accounted for nothing leaves the catalog as
\* it is. Of a run that wrote it the model remembers what it did.
Close ==
  /\ phase # "idle"
  /\ phase' = "idle" /\ on' = TRUE /\ force' = FALSE /\ attempted' = {} /\ rows' = {}
  /\ \/ /\ accounted # {}
        /\ cat' = IF force \/ ~exists THEN rows ELSE Merge(stored, rows)
        /\ exists' = TRUE /\ wrote' = wrote \cup {runs}
        /\ ever' = (IF force THEN {} ELSE ever) \cup Keys(cat')
        /\ UNCHANGED <<stored, accounted>>
     \/ stored' = {} /\ accounted' = {} /\ UNCHANGED disk
  /\ UNCHANGED <<world, runs>>

Next ==
  \/ \E i \in Inputs : Reextract(i) \/ RemoveOutput(i) \/ Convert(i) \/ Skip(i) \/ Scan(i)
  \/ OpenRun \/ Close

Spec == Init /\ [][Next]_vars
-----------------------------------------------------------------------------
Described == IF phase = "idle" /\ runs \in wrote THEN accounted ELSE {}
LastRows(i) == {r \in cat : r.path = i /\ r.run = runs}

\* The outputs whose conversion the catalog was told of.
Known == {i \in Described : file[i].run \in wrote}

\* After a run that wrote the catalog every file it accounted for is described by
\* exactly its columns, as they are, each in one row of this run. And, README.md,
\* "Nothing is ever removed": what runs wrote since the catalog was last replaced is in
\* it, whatever they converted, scanned, failed or were killed at.
Complete ==
  /\ \A i \in Described :
       /\ {r.column : r \in LastRows(i)} = file[i].cols
       /\ \A r \in LastRows(i) : r.seen = file[i].run
       /\ Cardinality(LastRows(i)) = Cardinality(file[i].cols)
  /\ ever \subseteq Keys(cat)

\* merge.go: "Facts come from the conversion the identity came from." What a row
\* of this run says of the QVD comes from the conversion that wrote the file, if
\* the catalog was told of it; and README.md, "without that [...] a --skip-up-to-date
\* run over an unchanged folder would replace every row's QVD side with the blanks a
\* scan has": a file whose conversion the catalog knows keeps its table and its facts.
FactsTrue ==
  \A i \in Known : \A r \in LastRows(i) :
    /\ r.facts \in {Unknown, [of |-> i, run |-> file[i].run]}
    /\ OfFile(stored, i) # {} => r.source = "qvd" /\ r.table = file[i].table

=============================================================================
