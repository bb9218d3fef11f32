---------------------------- MODULE CatalogProofs ----------------------------
(***************************************************************************)
(* What holds of Catalog for any QVDs, tables and columns and any number of *)
(* runs: nothing leaves the catalog, what a run accounted for is described *)
(* by exactly its columns, and what is said of a file comes from the       *)
(* conversion that wrote it.                                               *)
(***************************************************************************)
EXTENDS Catalog, FiniteSetTheorems, FunctionTheorems, WellFoundedInduction, TLAPS

-----------------------------------------------------------------------------
(* The inductive invariant.                                                *)

\* An output that is there, or that the manifest vouches for, was made by a run, and
\* one that this run has not come to by an earlier one.
WorldInv ==
  \A i \in Inputs :
    /\ there[i] \/ fresh[i] => file[i] \in Made
    /\ file[i] \in Made =>
         /\ file[i].table \in TablesOf[i]
         /\ file[i].run <= runs
         /\ phase # "idle" /\ i \notin attempted => file[i].run < runs
         /\ phase # "idle" /\ on /\ file[i].run = runs => i \in accounted

\* A run that goes on has read the catalog as it is and not written it yet.
RunInv ==
  /\ \A r \in cat : r.run <= runs
  /\ phase # "idle" =>
       /\ runs >= 1 /\ runs \notin wrote
       /\ \A r \in cat : r.run < runs
       /\ stored = IF on /\ ~force THEN cat ELSE {}
       /\ accounted \subseteq attempted
       /\ ~on => accounted = {}

\* What it has added: of each file one row for each column, from the conversion or
\* from a scan of what an earlier run left.
RowsOf(R, i) == {r \in R : r.path = i}
OneEach(R, cols) ==
  /\ {r.column : r \in R} = cols
  /\ \A r, s \in R : r.column = s.column => r = s

FromConversion(r, i) ==
  /\ file[i].run = runs /\ r.source = "qvd" /\ r.table = file[i].table
  /\ r.facts = [of |-> i, run |-> file[i].run]
FromScan(r, i) ==
  /\ file[i].run < runs /\ r.source = "parquet" /\ r.facts = Unknown
  /\ r.table \in {file[i].table, i}

RowsInv ==
  phase # "idle" =>
    /\ \A r \in rows : r.path \in accounted
    /\ \A i \in accounted :
         /\ file[i] \in Made
         /\ OneEach(RowsOf(rows, i), file[i].cols)
         /\ \A r \in RowsOf(rows, i) :
              r.run = runs /\ r.seen = file[i].run /\ (FromConversion(r, i) \/ FromScan(r, i))

\* A row is filed under a table of its QVD or, from a scan, under the name of the file.
TableOK(r) == r.table \in TablesOf[r.path] \/ (r.source = "parquet" /\ r.table = r.path)
TablesInv == \A r \in cat : TableOK(r)

IInv == TypeOK /\ WorldInv /\ RunInv /\ RowsInv /\ TablesInv /\ Complete

\* No two QVDs ever carry the same table name, and none carries the name another one's
\* output has. (Two that do share their rows, by design.)
TablesApart ==
  \A i, j \in Inputs : i # j => TablesOf[i] \cap (TablesOf[j] \cup {j}) = {}

\* Of a file whose conversion the catalog was told of, and which it has not been made to
\* forget by --force, it has that conversion's row of each column; and of whatever other
\* tables the file once was, an older one.
Facts1(i) == [of |-> i, run |-> file[i].run]
ToldOf(i) ==
  file[i] \in Made /\ file[i].run \in wrote /\ OfFile(cat, i) # {} /\ file[i].cols # {} =>
    /\ \A c \in file[i].cols :
         /\ OfKey(cat, <<file[i].table, c>>) # {}
         /\ \A r \in OfKey(cat, <<file[i].table, c>>) : r.facts = Facts1(i)
    /\ \A r \in OfFile(cat, i) : r.table # file[i].table =>
         \E s \in OfFile(cat, i) : s.table = file[i].table /\ s.run > r.run
ToldInv == \A i \in Inputs : ToldOf(i)

FInv == IInv /\ ToldInv /\ FactsTrue
-----------------------------------------------------------------------------
(* Lemmas about the rows of a catalog.                                     *)

\* Some number of a set of natural numbers is the least.
LEMMA LeastOf ==
  ASSUME NEW S, S \subseteq Nat, S # {}
  PROVE  \E x \in S : \A y \in S : x <= y
<1> DEFINE R == OpToRel(<, Nat)
<1>1. \A x, y \in S : y < x => <<y, x>> \in R
  BY DEF OpToRel
<1>2. IsWellFoundedOn(R, Nat)
  BY NatLessThanWellFounded
<1> HIDE DEF R
<1>3. PICK x \in S : \A y \in S : ~(<<y, x>> \in R)
  BY <1>2, WFMin
<1>4. \A y \in S : ~(y < x)
  BY <1>1, <1>3
<1> QED
  BY <1>4

\* Of any rows there is a newest.
LEMMA NewestIsOne ==
  ASSUME NEW R, R \subseteq Rows, R # {}
  PROVE  Newest(R) \in R /\ \A s \in R : Newest(R).run >= s.run
<1> DEFINE Age(r) == MaxRuns - r.run
<1>1. \A r \in R : Age(r) \in Nat /\ r.run \in Nat
  BY CatalogAssumption DEF Rows
<1>2. PICK a \in {Age(r) : r \in R} : \A b \in {Age(r) : r \in R} : a <= b
  BY <1>1, LeastOf
<1>3. PICK q \in R : Age(q) = a
  BY <1>2
<1>4. \A s \in R : q.run >= s.run
  <2> SUFFICES ASSUME NEW s \in R PROVE q.run >= s.run
    OBVIOUS
  <2>1. MaxRuns - q.run <= MaxRuns - s.run
    BY <1>2, <1>3
  <2> QED
    BY <1>1, <2>1, CatalogAssumption
<1> QED
  BY <1>4 DEF Newest

\* A row that is reconciled is still of its column, file and run.
LEMMA ReconcileKeeps ==
  ASSUME NEW old, old \subseteq Rows, NEW r \in Rows
  PROVE  /\ Reconcile(old, r) \in Rows
         /\ Reconcile(old, r).path = r.path /\ Reconcile(old, r).run = r.run
         /\ Reconcile(old, r).column = r.column /\ Reconcile(old, r).seen = r.seen
<1>1. CASE r.source # "parquet" \/ OfFile(old, r.path) = {}
  BY <1>1 DEF Reconcile
<1>2. CASE ~(r.source # "parquet" \/ OfFile(old, r.path) = {})
  <2> DEFINE t == Owner(old, r.path)
             known == OfKey(old, <<t, r.column>>)
  <2>1. OfFile(old, r.path) \subseteq Rows /\ known \subseteq Rows
    BY DEF OfFile, OfKey, Conversions
  <2>2. t \in Tables \cup Inputs
    BY <1>2, <2>1, NewestIsOne DEF Owner, Rows
  <2>3. Reconcile(old, r) =
          IF known = {} THEN [r EXCEPT !.table = t]
          ELSE [r EXCEPT !.table = t, !.source = "qvd", !.facts = Newest(known).facts]
    BY <1>2 DEF Reconcile
  <2>4. known # {} => Newest(known).facts \in Facts
    BY <2>1, NewestIsOne DEF Rows
  <2> HIDE DEF t, known
  <2> QED
    BY <2>2, <2>3, <2>4 DEF Rows
<1> QED
  BY <1>1, <1>2

\* It goes to a table that was one of the file's before.
LEMMA ReconcileFiles ==
  ASSUME NEW old, old \subseteq Rows, \A s \in old : TableOK(s), NEW r \in Rows, TableOK(r)
  PROVE  TableOK(Reconcile(old, r))
<1>1. CASE r.source # "parquet" \/ OfFile(old, r.path) = {}
  BY <1>1 DEF Reconcile
<1>2. CASE ~(r.source # "parquet" \/ OfFile(old, r.path) = {})
  <2> DEFINE t == Owner(old, r.path)
             n == Newest(OfFile(old, r.path))
             known == OfKey(old, <<t, r.column>>)
  <2>1. n \in OfFile(old, r.path)
    BY <1>2, NewestIsOne DEF OfFile, Conversions
  <2>2. t \in TablesOf[r.path]
    BY <2>1 DEF Owner, OfFile, Conversions, TableOK
  <2>3. Reconcile(old, r) =
          IF known = {} THEN [r EXCEPT !.table = t]
          ELSE [r EXCEPT !.table = t, !.source = "qvd", !.facts = Newest(known).facts]
    BY <1>2 DEF Reconcile
  <2> HIDE DEF t, known
  <2>4. Reconcile(old, r).table = t /\ Reconcile(old, r).path = r.path
    BY <2>3 DEF Rows
  <2> QED
    BY <2>2, <2>4 DEF TableOK
<1> QED
  BY <1>1, <1>2

\* The rows of one file.
Block(s, t, cols, i, k, f, g) ==
  {[source |-> s, table |-> t, column |-> c, path |-> i, run |-> k, facts |-> f, seen |-> g] :
     c \in cols}

LEMMA AddedRows ==
  ASSUME NEW s, NEW t, NEW cols, NEW i, NEW k, NEW f, NEW g
  PROVE  [source : {s}, table : {t}, column : cols, path : {i}, run : {k}, facts : {f},
          seen : {g}] = Block(s, t, cols, i, k, f, g)
<1> DEFINE New == [source : {s}, table : {t}, column : cols, path : {i}, run : {k},
                   facts : {f}, seen : {g}]
           Row(c) == [source |-> s, table |-> t, column |-> c, path |-> i, run |-> k,
                      facts |-> f, seen |-> g]
<1>1. ASSUME NEW r \in New
      PROVE  r = Row(r.column) /\ r.column \in cols
  BY <1>1
<1>2. ASSUME NEW c \in cols
      PROVE  Row(c) \in New
  BY <1>2
<1> HIDE DEF New, Row
<1>3. New = {Row(c) : c \in cols}
  BY <1>1, <1>2
<1> QED
  BY <1>3 DEF New, Row, Block

\* They are rows of a catalog, one for each column.
LEMMA BlockRows ==
  ASSUME NEW s \in {"qvd", "parquet"}, NEW t \in Tables \cup Inputs, NEW cols \in ColumnSets,
         NEW i \in Inputs, NEW k \in 1 .. MaxRuns, NEW f \in Facts, NEW g \in 1 .. MaxRuns
  PROVE  /\ Block(s, t, cols, i, k, f, g) \subseteq Rows
         /\ OneEach(Block(s, t, cols, i, k, f, g), cols)
         /\ \A r \in Block(s, t, cols, i, k, f, g) :
              r.source = s /\ r.table = t /\ r.path = i /\ r.run = k /\ r.facts = f /\ r.seen = g
<1>1. cols \subseteq Columns
  BY DEF Columns
<1>2. Block(s, t, cols, i, k, f, g) \subseteq Rows
  BY <1>1 DEF Block, Rows
<1> DEFINE B == Block(s, t, cols, i, k, f, g)
           Row(c) == [source |-> s, table |-> t, column |-> c, path |-> i, run |-> k,
                      facts |-> f, seen |-> g]
<1>3. B = {Row(c) : c \in cols}
  BY DEF Block
<1>4. \A c \in cols :
        /\ Row(c).column = c /\ Row(c).source = s /\ Row(c).table = t /\ Row(c).path = i
        /\ Row(c).run = k /\ Row(c).facts = f /\ Row(c).seen = g
  OBVIOUS
<1> HIDE DEF B, Row
<1>5. OneEach(B, cols)
  BY <1>3, <1>4 DEF OneEach
<1>6. \A r \in B : r.source = s /\ r.table = t /\ r.path = i /\ r.run = k /\ r.facts = f /\ r.seen = g
  BY <1>3, <1>4
<1> QED
  BY <1>2, <1>5, <1>6 DEF B
-----------------------------------------------------------------------------
(* The steps of a run.                                                     *)

\* What a run adds of a file: what its conversion knows, or what a scan sees.
Adds(i, s, t, f) ==
  /\ \/ s = "qvd" /\ t = file'[i].table /\ f = [of |-> i, run |-> runs] /\ file'[i].run = runs
     \/ s = "parquet" /\ t \in {file'[i].table, i} /\ f = Unknown /\ file'[i].run < runs
  /\ rows' = rows \cup Block(s, t, file'[i].cols, i, runs, f, file'[i].run)

\* A conversion, a skip and a scan, as far as the catalog is concerned.
Handled(i) ==
  /\ phase # "idle" /\ i \notin attempted /\ attempted' = attempted \cup {i}
  /\ UNCHANGED <<header, disk, runs, writer>>
  /\ \A j \in Inputs \ {i} :
       file'[j] = file[j] /\ there'[j] = there[j] /\ fresh'[j] = fresh[j]
  /\ \/ file'[i] = file[i] /\ there'[i] = there[i] /\ fresh'[i] = fresh[i]
     \/ file'[i].run = runs /\ file'[i].table \in TablesOf[i] /\ file'[i] \in Made
  /\ \/ rows' = rows /\ accounted' = accounted /\ (file'[i] = file[i] \/ ~on)
     \/ /\ on /\ accounted' = accounted \cup {i} /\ file'[i] \in Made
        /\ \E s \in {"qvd", "parquet"} : \E t \in Tables \cup Inputs : \E f \in Facts :
             Adds(i, s, t, f)

LEMMA Handles ==
  ASSUME TypeOK, WorldInv, RunInv, NEW i \in Inputs, Convert(i) \/ Skip(i) \/ Scan(i)
  PROVE  /\ Handled(i)
         /\ file' \in [Inputs -> Made \cup {None}]
         /\ there' \in [Inputs -> BOOLEAN] /\ fresh' \in [Inputs -> BOOLEAN]
<1> USE CatalogAssumption DEF world, disk, writer
<1>0. phase # "idle" /\ i \notin attempted /\ runs \in 1 .. MaxRuns
  BY DEF Convert, Skip, Scan, RunInv, TypeOK
<1>1. CASE Convert(i) /\ there'[i]
            /\ file' = [file EXCEPT ![i] = [table |-> header[i].table,
                                            cols |-> header[i].cols, run |-> runs]]
            /\ there' = [there EXCEPT ![i] = TRUE] /\ fresh' = [fresh EXCEPT ![i] = TRUE]
            /\ Add(i, CatalogRows(i))
  <2> DEFINE F == [of |-> i, run |-> runs]
  <2>1. file'[i] = [table |-> header[i].table, cols |-> header[i].cols, run |-> runs]
    BY <1>1 DEF TypeOK
  <2>2. header[i].table \in Tables /\ header[i].table \in TablesOf[i] /\ header[i].cols \in ColumnSets
    BY DEF TypeOK, Headers
  <2>3. file'[i] \in Made /\ F \in Facts
    BY <1>0, <2>1, <2>2 DEF Made, Facts
  <2>4. \A j \in Inputs \ {i} :
          file'[j] = file[j] /\ there'[j] = there[j] /\ fresh'[j] = fresh[j]
    BY <1>1 DEF TypeOK
  <2>5. /\ file' \in [Inputs -> Made \cup {None}]
        /\ there' \in [Inputs -> BOOLEAN] /\ fresh' \in [Inputs -> BOOLEAN]
    BY <1>1, <2>1, <2>3 DEF TypeOK
  <2>6. on => /\ accounted' = accounted \cup {i}
              /\ rows' = rows \cup CatalogRows(i)
    BY <1>1 DEF Add
  <2>7. CatalogRows(i) = Block("qvd", header[i].table, header[i].cols, i, runs, F, runs)
    BY AddedRows DEF CatalogRows
  <2>8. on => Adds(i, "qvd", header[i].table, F)
    BY <2>1, <2>6, <2>7 DEF Adds
  <2>9. ~on => rows' = rows /\ accounted' = accounted
    BY <1>1 DEF Add
  <2>10. attempted' = attempted \cup {i} /\ UNCHANGED <<header, disk, runs, writer>>
    BY <1>1 DEF Add, Convert
  <2> QED
    BY <1>0, <2>1, <2>2, <2>3, <2>4, <2>5, <2>6, <2>8, <2>9, <2>10 DEF Handled
<1>2. CASE UNCHANGED <<header, disk, runs, writer, file, there, fresh, rows, accounted>>
            /\ attempted' = attempted \cup {i}
  BY <1>0, <1>2 DEF Handled, TypeOK
<1>3. ASSUME UNCHANGED <<world, disk, runs, writer>>, there[i] \/ fresh[i], on,
             NEW t \in {file[i].table, i}, Add(i, ScanFile(i, t))
      PROVE  Handled(i)
  <2>1. file[i] \in Made /\ file[i].run < runs
    BY <1>0, <1>3 DEF WorldInv
  <2>2. t \in Tables \cup Inputs
    BY <2>1 DEF Made
  <2>3. /\ rows' = rows \cup ScanFile(i, t)
        /\ accounted' = accounted \cup {i} /\ attempted' = attempted \cup {i}
    BY <1>3 DEF Add
  <2>4. ScanFile(i, t) = Block("parquet", t, file[i].cols, i, runs, Unknown, file[i].run)
    BY AddedRows DEF ScanFile
  <2>5. Adds(i, "parquet", t, Unknown)
    BY <1>3, <2>1, <2>3, <2>4 DEF Adds
  <2>6. Unknown \in Facts
    BY DEF Facts
  <2> QED
    BY <1>0, <1>3, <2>1, <2>2, <2>3, <2>5, <2>6 DEF Handled
<1>4. ASSUME UNCHANGED <<world, disk, runs, writer>>, ~on, NEW new, Add(i, new)
      PROVE  Handled(i)
  BY <1>0, <1>4 DEF Handled, Add
<1>5. CASE Convert(i)
  <2>1. CASE attempted' = attempted \cup {i} /\ UNCHANGED <<file, there, fresh, rows, accounted>>
    BY <1>2, <1>5, <2>1 DEF Convert
  <2>2. CASE ~(attempted' = attempted \cup {i} /\ UNCHANGED <<file, there, fresh, rows, accounted>>)
    <3>1. there' = [there EXCEPT ![i] = TRUE]
      BY <1>5, <2>2 DEF Convert
    <3>2. there'[i]
      BY <3>1 DEF TypeOK
    <3> QED
      BY <1>1, <1>5, <2>2, <3>1, <3>2 DEF Convert
  <2> QED
    BY <2>1, <2>2
<1>6. Skip(i) \/ Scan(i) => /\ file' \in [Inputs -> Made \cup {None}]
                           /\ there' \in [Inputs -> BOOLEAN] /\ fresh' \in [Inputs -> BOOLEAN]
  BY DEF Skip, Scan, TypeOK
<1>7. CASE Skip(i)
  <2>1. Handled(i)
    BY <1>3, <1>4, <1>7 DEF Skip, TypeOK
  <2> QED
    BY <1>6, <1>7, <2>1
<1>8. CASE Scan(i)
  <2>1. CASE Add(i, ScanFile(i, i))
    <3>1. Handled(i)
      BY <1>3, <1>4, <1>8, <2>1 DEF Scan, TypeOK
    <3> QED
      BY <1>6, <1>8, <3>1
  <2>2. CASE attempted' = attempted \cup {i} /\ UNCHANGED <<rows, accounted>>
    BY <1>2, <1>8, <2>2 DEF Scan
  <2> QED
    BY <1>8, <2>1, <2>2 DEF Scan
<1> QED
  BY <1>5, <1>7, <1>8

\* What is added of a file is one row for each column, and none of it was there before.
LEMMA AddsRows ==
  ASSUME TypeOK, RunInv, RowsInv, NEW i \in Inputs, Handled(i), rows' # rows \/ accounted' # accounted
  PROVE  /\ rows' \subseteq Rows
         /\ \A r \in rows' : r \in rows \/ r.path = i
         /\ OneEach(RowsOf(rows', i), file'[i].cols)
         /\ \A r \in RowsOf(rows', i) :
              /\ r.run = runs /\ r.seen = file'[i].run
              /\ \/ /\ file'[i].run = runs /\ r.source = "qvd" /\ r.table = file'[i].table
                    /\ r.facts = [of |-> i, run |-> runs]
                 \/ /\ file'[i].run < runs /\ r.source = "parquet" /\ r.facts = Unknown
                    /\ r.table \in {file'[i].table, i}
         /\ \A j \in Inputs \ {i} : RowsOf(rows', j) = RowsOf(rows, j)
<1>1. PICK s \in {"qvd", "parquet"}, t \in Tables \cup Inputs, f \in Facts : Adds(i, s, t, f)
  BY DEF Handled
<1>2. /\ phase # "idle" /\ i \notin attempted /\ runs \in 1 .. MaxRuns /\ file'[i] \in Made
      /\ i \notin accounted
  BY DEF Handled, RunInv, TypeOK
<1> DEFINE B == Block(s, t, file'[i].cols, i, runs, f, file'[i].run)
<1>4. file'[i].cols \in ColumnSets /\ file'[i].run \in 1 .. MaxRuns
  BY <1>2 DEF Made
<1>5. /\ B \subseteq Rows /\ OneEach(B, file'[i].cols)
      /\ \A r \in B : /\ r.source = s /\ r.table = t /\ r.path = i /\ r.run = runs
                      /\ r.facts = f /\ r.seen = file'[i].run
  BY <1>2, <1>4, BlockRows
<1>6. rows' = rows \cup B
  BY <1>1 DEF Adds
<1> HIDE DEF B
<1>7. \A r \in rows : r.path # i
  BY <1>2 DEF RowsInv
<1>8. RowsOf(rows', i) = B /\ \A j \in Inputs \ {i} : RowsOf(rows', j) = RowsOf(rows, j)
  BY <1>5, <1>6, <1>7 DEF RowsOf
<1>9. rows' \subseteq Rows
  BY <1>5, <1>6 DEF TypeOK
<1>10. \A r \in B :
         \/ /\ file'[i].run = runs /\ r.source = "qvd" /\ r.table = file'[i].table
            /\ r.facts = [of |-> i, run |-> runs]
         \/ /\ file'[i].run < runs /\ r.source = "parquet" /\ r.facts = Unknown
            /\ r.table \in {file'[i].table, i}
  BY <1>1, <1>5 DEF Adds
<1> QED
  BY <1>5, <1>6, <1>8, <1>9, <1>10

\* Whether it merges or replaces, a run writes the merge of what it stored with its rows.
LEMMA CloseMerges ==
  ASSUME TypeOK, RunInv, phase # "idle"
  PROVE  (IF force \/ ~exists THEN rows ELSE Merge(stored, rows)) = Merge(stored, rows)
<1>1. force \/ ~exists => stored = {}
  BY DEF RunInv, TypeOK
<1>2. \A r : Reconcile({}, r) = r
  BY DEF Reconcile, OfFile, Conversions
<1>3. Merge({}, rows) = rows
  BY <1>2 DEF Merge
<1> QED
  BY <1>1, <1>3

LEMMA TypeStep == TypeOK /\ WorldInv /\ RunInv /\ RowsInv /\ [Next]_vars => TypeOK'
<1> SUFFICES ASSUME TypeOK, WorldInv, RunInv, RowsInv, [Next]_vars PROVE TypeOK'
  OBVIOUS
<1> USE CatalogAssumption DEF world, disk, writer
<1>1. ASSUME NEW i \in Inputs, Reextract(i) PROVE TypeOK'
  <2>1. PICK h \in Headers(i) : header' = [header EXCEPT ![i] = h]
    BY <1>1 DEF Reextract
  <2>2. h \in [table : Tables, cols : ColumnSets]
    BY CatalogAssumption DEF Headers
  <2>3. /\ header' \in [Inputs -> [table : Tables, cols : ColumnSets]]
        /\ \A j \in Inputs : header'[j] \in Headers(j)
    BY <2>1, <2>2 DEF TypeOK
  <2>4. fresh' \in [Inputs -> BOOLEAN]
    BY <1>1 DEF Reextract, TypeOK
  <2> QED
    BY <1>1, <2>3, <2>4 DEF Reextract, TypeOK
<1>2. ASSUME NEW i \in Inputs, RemoveOutput(i) PROVE TypeOK'
  <2>1. PICK kept \in {fresh[i], FALSE} : fresh' = [fresh EXCEPT ![i] = kept]
    BY <1>2 DEF RemoveOutput
  <2>2. fresh' \in [Inputs -> BOOLEAN]
    BY <2>1 DEF TypeOK
  <2>3. there' \in [Inputs -> BOOLEAN]
    BY <1>2 DEF RemoveOutput, TypeOK
  <2> QED
    BY <1>2, <2>2, <2>3 DEF RemoveOutput, TypeOK
<1>3. ASSUME NEW i \in Inputs, Convert(i) \/ Skip(i) \/ Scan(i) PROVE TypeOK'
  <2>1. /\ Handled(i)
        /\ file' \in [Inputs -> Made \cup {None}]
        /\ there' \in [Inputs -> BOOLEAN] /\ fresh' \in [Inputs -> BOOLEAN]
    BY <1>3, Handles
  <2>2. rows' \subseteq Rows
    BY <2>1, AddsRows DEF TypeOK
  <2>3. accounted' \subseteq Inputs /\ attempted' \subseteq Inputs
    BY <2>1 DEF Handled, TypeOK
  <2> QED
    BY <2>1, <2>2, <2>3 DEF Handled, TypeOK, Headers
<1>4. CASE OpenRun
  <2>1. runs' \in 0 .. MaxRuns /\ wrote' \subseteq 1 .. runs'
    BY <1>4 DEF OpenRun, TypeOK
  <2>2. stored' \subseteq Rows
    BY <1>4 DEF OpenRun, TypeOK
  <2> QED
    BY <1>4, <2>1, <2>2 DEF OpenRun, TypeOK, Headers
<1>5. CASE Close
  <2>1. \/ /\ cat' = IF force \/ ~exists THEN rows ELSE Merge(stored, rows)
           /\ exists' = TRUE /\ wrote' = wrote \cup {runs} /\ stored' = stored
        \/ stored' = {} /\ cat' = cat /\ exists' = exists /\ wrote' = wrote
    BY <1>5 DEF Close
  <2>2. Merge(stored, rows) \subseteq Rows
    BY ReconcileKeeps DEF TypeOK, Merge
  <2>3. runs \in 1 .. runs
    BY <1>5 DEF Close, RunInv, TypeOK
  <2>4. /\ cat' \subseteq Rows /\ stored' \subseteq Rows /\ wrote' \subseteq 1 .. runs'
        /\ exists' \in BOOLEAN /\ (exists' \/ cat' = {})
    <3>1. runs' = runs
      BY <1>5 DEF Close
    <3>2. /\ cat \subseteq Rows /\ rows \subseteq Rows /\ stored \subseteq Rows /\ wrote \subseteq 1 .. runs
          /\ exists \in BOOLEAN /\ (exists \/ cat = {})
      BY DEF TypeOK
    <3> QED
      BY <2>1, <2>2, <2>3, <3>1, <3>2
  <2> QED
    BY <1>5, <2>4 DEF Close, TypeOK, Headers
<1>6. CASE UNCHANGED vars
  BY <1>6 DEF vars, TypeOK, Headers
<1> QED
  BY <1>1, <1>2, <1>3, <1>4, <1>5, <1>6 DEF Next

LEMMA WorldStep == TypeOK /\ WorldInv /\ RunInv /\ [Next]_vars => WorldInv'
<1> SUFFICES ASSUME TypeOK, WorldInv, RunInv, [Next]_vars, NEW j \in Inputs
             PROVE  /\ there'[j] \/ fresh'[j] => file'[j] \in Made
                    /\ file'[j] \in Made =>
                         /\ file'[j].table \in TablesOf[j]
                         /\ file'[j].run <= runs'
                         /\ phase' # "idle" /\ j \notin attempted' => file'[j].run < runs'
                         /\ phase' # "idle" /\ on' /\ file'[j].run = runs' => j \in accounted'
  BY DEF WorldInv
<1> DEFINE Goal == /\ there'[j] \/ fresh'[j] => file'[j] \in Made
                   /\ file'[j] \in Made =>
                         /\ file'[j].table \in TablesOf[j]
                         /\ file'[j].run <= runs'
                         /\ phase' # "idle" /\ j \notin attempted' => file'[j].run < runs'
                         /\ phase' # "idle" /\ on' /\ file'[j].run = runs' => j \in accounted'
<1> USE CatalogAssumption DEF world, disk, writer
<1>0. /\ runs \in Nat
      /\ \A i \in Inputs : file[i] \in Made => file[i].run \in Nat
  BY DEF TypeOK, Made
<1>1. ASSUME NEW i \in Inputs, Reextract(i) PROVE Goal
  BY <1>1 DEF Reextract, WorldInv, TypeOK
<1>2. ASSUME NEW i \in Inputs, RemoveOutput(i) PROVE Goal
  BY <1>2 DEF RemoveOutput, WorldInv, TypeOK
<1>3. ASSUME NEW i \in Inputs, Convert(i) \/ Skip(i) \/ Scan(i) PROVE Goal
  <2>1. Handled(i)
    BY <1>3, Handles
  <2>2. CASE j = i
    BY <1>0, <2>1, <2>2 DEF Handled, WorldInv
  <2>3. CASE j # i
    BY <1>0, <2>1, <2>3 DEF Handled, WorldInv
  <2> QED
    BY <2>2, <2>3
<1>4. CASE OpenRun
  BY <1>0, <1>4 DEF OpenRun, WorldInv
<1>5. CASE Close
  BY <1>5 DEF Close, WorldInv
<1>6. CASE UNCHANGED vars
  BY <1>6 DEF vars, WorldInv
<1> QED
  BY <1>1, <1>2, <1>3, <1>4, <1>5, <1>6 DEF Next

\* A merge keeps the rows' runs: none is of a later run than the one that writes it.
LEMMA RunStep == TypeOK /\ WorldInv /\ RunInv /\ RowsInv /\ [Next]_vars => RunInv'
<1> SUFFICES ASSUME TypeOK, WorldInv, RunInv, RowsInv, [Next]_vars PROVE RunInv'
  OBVIOUS
<1> USE CatalogAssumption DEF world, disk, writer
<1>0. runs \in Nat /\ \A r \in cat : r.run \in Nat
  BY DEF TypeOK, Rows
<1>1. ASSUME NEW i \in Inputs, Reextract(i) \/ RemoveOutput(i) PROVE RunInv'
  BY <1>1 DEF Reextract, RemoveOutput, RunInv
<1>3. ASSUME NEW i \in Inputs, Convert(i) \/ Skip(i) \/ Scan(i) PROVE RunInv'
  <2>1. Handled(i)
    BY <1>3, Handles
  <2> QED
    BY <2>1 DEF Handled, RunInv
<1>4. CASE OpenRun
  <2>1. runs' \notin wrote'
    BY <1>0, <1>4 DEF OpenRun, TypeOK
  <2> QED
    BY <1>0, <1>4, <2>1 DEF OpenRun, RunInv
<1>5. CASE Close
  <2>1. \A r \in rows : r.run = runs
    BY <1>5 DEF Close, RowsInv, RowsOf, TypeOK, Rows
  <2>2. \A r \in Merge(stored, rows) : r \in stored \/ r.run = runs
    <3>1. \A r \in rows : Reconcile(stored, r).run = runs
      BY <2>1, ReconcileKeeps DEF TypeOK
    <3> QED
      BY <3>1 DEF Merge
  <2>3. stored \subseteq cat
    BY <1>5 DEF Close, RunInv
  <2>4. cat' = cat \/ cat' = Merge(stored, rows)
    BY <1>5, CloseMerges DEF Close
  <2>5. \A r \in cat' : r.run <= runs
    BY <1>0, <2>2, <2>3, <2>4 DEF RunInv
  <2> QED
    BY <1>5, <2>5 DEF Close, RunInv
<1>6. CASE UNCHANGED vars
  BY <1>6 DEF vars, RunInv
<1> QED
  BY <1>1, <1>3, <1>4, <1>5, <1>6 DEF Next

\* Each file is accounted for once, with one row for each column.
LEMMA RowsStep == TypeOK /\ WorldInv /\ RunInv /\ RowsInv /\ [Next]_vars => RowsInv'
<1> SUFFICES ASSUME TypeOK, WorldInv, RunInv, RowsInv, [Next]_vars PROVE RowsInv'
  OBVIOUS
<1> USE CatalogAssumption DEF world, disk, writer
<1>1. ASSUME NEW i \in Inputs, Reextract(i) \/ RemoveOutput(i) PROVE RowsInv'
  BY <1>1 DEF Reextract, RemoveOutput, RowsInv
<1>3. ASSUME NEW i \in Inputs, Convert(i) \/ Skip(i) \/ Scan(i) PROVE RowsInv'
  <2>1. Handled(i) /\ i \notin accounted
    BY <1>3, Handles DEF Handled, RunInv
  <2>2. CASE rows' = rows /\ accounted' = accounted
    <3>1. \A j \in accounted : file'[j] = file[j] /\ j \in Inputs
      BY <2>1 DEF Handled, TypeOK
    <3> QED
      BY <2>1, <2>2, <3>1 DEF Handled, RowsInv, FromConversion, FromScan
  <2>3. CASE ~(rows' = rows /\ accounted' = accounted)
    <3>1. /\ rows' \subseteq Rows
          /\ \A r \in rows' : r \in rows \/ r.path = i
          /\ OneEach(RowsOf(rows', i), file'[i].cols)
          /\ \A r \in RowsOf(rows', i) :
               /\ r.run = runs /\ r.seen = file'[i].run
               /\ \/ /\ file'[i].run = runs /\ r.source = "qvd" /\ r.table = file'[i].table
                     /\ r.facts = [of |-> i, run |-> runs]
                  \/ /\ file'[i].run < runs /\ r.source = "parquet" /\ r.facts = Unknown
                     /\ r.table \in {file'[i].table, i}
          /\ \A j \in Inputs \ {i} : RowsOf(rows', j) = RowsOf(rows, j)
      BY <2>1, <2>3, AddsRows
    <3>2. accounted' = accounted \cup {i} /\ file'[i] \in Made /\ runs' = runs /\ phase # "idle"
      BY <2>1, <2>3 DEF Handled
    <3>3. \A r \in rows' : r.path \in accounted'
      BY <3>1, <3>2 DEF RowsInv
    <3>4. ASSUME NEW j \in accounted
          PROVE  /\ file'[j] \in Made
                 /\ OneEach(RowsOf(rows', j), file'[j].cols)
                 /\ \A r \in RowsOf(rows', j) : r.run = runs' /\ r.seen = file'[j].run
                      /\ (FromConversion(r, j) \/ FromScan(r, j))'
      <4>1. j \in Inputs /\ j # i
        BY <2>1 DEF TypeOK
      <4>2. file'[j] = file[j] /\ RowsOf(rows', j) = RowsOf(rows, j)
        BY <2>1, <3>1, <4>1 DEF Handled
      <4> QED
        BY <3>2, <4>2 DEF RowsInv, FromConversion, FromScan
    <3>5. /\ OneEach(RowsOf(rows', i), file'[i].cols)
          /\ \A r \in RowsOf(rows', i) : r.run = runs' /\ r.seen = file'[i].run
               /\ (FromConversion(r, i) \/ FromScan(r, i))'
      BY <3>1, <3>2 DEF FromConversion, FromScan
    <3>6. \A j \in accounted' :
            /\ file'[j] \in Made
            /\ OneEach(RowsOf(rows', j), file'[j].cols)
            /\ \A r \in RowsOf(rows', j) : r.run = runs' /\ r.seen = file'[j].run
                 /\ (FromConversion(r, j) \/ FromScan(r, j))'
      BY <3>2, <3>4, <3>5
    <3>7. \A j \in accounted' :
            /\ file'[j] \in Made
            /\ OneEach(RowsOf(rows, j), file[j].cols)'
            /\ (\A r \in RowsOf(rows, j) : r.run = runs /\ r.seen = file[j].run
                 /\ (FromConversion(r, j) \/ FromScan(r, j)))'
      BY <3>6 DEF RowsOf, OneEach
    <3> QED
      BY <3>3, <3>7 DEF RowsInv
  <2> QED
    BY <2>2, <2>3
<1>4. CASE OpenRun
  BY <1>4 DEF OpenRun, RowsInv
<1>5. CASE Close
  BY <1>5 DEF Close, RowsInv
<1>6. CASE UNCHANGED vars
  BY <1>6 DEF vars, RowsInv, FromConversion, FromScan
<1> QED
  BY <1>1, <1>3, <1>4, <1>5, <1>6 DEF Next

\* Rows are filed under tables of their own file.
LEMMA TablesStep ==
  TypeOK /\ WorldInv /\ RunInv /\ RowsInv /\ TablesInv /\ [Next]_vars => TablesInv'
<1> SUFFICES ASSUME TypeOK, WorldInv, RunInv, RowsInv, TablesInv, [Next]_vars PROVE TablesInv'
  OBVIOUS
<1> USE CatalogAssumption DEF world, disk, writer
<1>1. ASSUME cat' = cat PROVE TablesInv'
  BY <1>1 DEF TablesInv, TableOK
<1>2. ASSUME NEW i \in Inputs, Reextract(i) \/ RemoveOutput(i) PROVE TablesInv'
  BY <1>1, <1>2 DEF Reextract, RemoveOutput
<1>3. ASSUME NEW i \in Inputs, Convert(i) \/ Skip(i) \/ Scan(i) PROVE TablesInv'
  BY <1>1, <1>3 DEF Convert, Skip, Scan
<1>4. CASE OpenRun \/ UNCHANGED vars
  BY <1>1, <1>4 DEF OpenRun, vars
<1>5. CASE Close
  <2>1. cat' = cat \/ cat' = Merge(stored, rows)
    BY <1>5, CloseMerges DEF Close
  <2>2. \A r \in rows : TableOK(r)
    <3> SUFFICES ASSUME NEW r \in rows PROVE TableOK(r)
      OBVIOUS
    <3>1. r.path \in accounted /\ r.path \in Inputs /\ r \in RowsOf(rows, r.path)
      BY <1>5 DEF Close, RowsInv, RowsOf, TypeOK
    <3>2. file[r.path] \in Made /\ (FromConversion(r, r.path) \/ FromScan(r, r.path))
      BY <1>5, <3>1 DEF Close, RowsInv
    <3>3. file[r.path].table \in TablesOf[r.path]
      BY <3>1, <3>2 DEF WorldInv
    <3> QED
      BY <3>2, <3>3 DEF FromConversion, FromScan, TableOK
  <2>3. stored \subseteq cat /\ stored \subseteq Rows /\ rows \subseteq Rows
    BY <1>5 DEF Close, RunInv, TypeOK
  <2>4. \A s \in stored : TableOK(s)
    BY <2>3 DEF TablesInv
  <2>5. \A r \in rows : TableOK(Reconcile(stored, r))
    BY <2>2, <2>3, <2>4, ReconcileFiles
  <2>6. \A r \in Merge(stored, rows) : TableOK(r)
    BY <2>4, <2>5 DEF Merge
  <2> QED
    BY <1>1, <2>1, <2>6 DEF TablesInv
<1> QED
  BY <1>2, <1>3, <1>4, <1>5 DEF Next

\* One row for each column: as many rows as columns.
LEMMA OneEachCounts ==
  ASSUME NEW R, NEW cols, IsFiniteSet(cols), OneEach(R, cols)
  PROVE  Cardinality(R) = Cardinality(cols)
<1> DEFINE F == [c \in cols |-> CHOOSE r \in R : r.column = c]
<1>1. \A c \in cols : F[c] \in R /\ F[c].column = c
  BY DEF OneEach
<1>2. \A r \in R : r.column \in cols /\ F[r.column] = r
  BY <1>1 DEF OneEach
<1>3. F \in [cols -> R]
  BY <1>1
<1> HIDE DEF F
<1>4. F \in Bijection(cols, R)
  BY <1>1, <1>2, <1>3, Fun_IsBij
<1> QED
  BY <1>4, FS_Bijection DEF ExistsBijection

\* The rows the run that wrote the catalog has there of a file are the ones it added.
LEMMA LastRowsOfRun ==
  ASSUME TypeOK, RunInv, RowsInv, phase # "idle", NEW i \in accounted
  PROVE  {r \in Merge(stored, rows) : r.path = i /\ r.run = runs}
           = {Reconcile(stored, r) : r \in RowsOf(rows, i)}
<1>1. stored \subseteq Rows /\ rows \subseteq Rows /\ runs \in Int
  BY DEF TypeOK
<1>2. \A r \in stored : r.run # runs
  <2>1. \A r \in stored : r \in cat /\ r.run < runs
    BY DEF RunInv
  <2> QED
    BY <1>1, <2>1 DEF TypeOK, Rows
<1>3. \A r \in rows : Reconcile(stored, r).path = r.path /\ Reconcile(stored, r).run = r.run
  BY <1>1, ReconcileKeeps
<1>4. \A r \in RowsOf(rows, i) : r.run = runs
  BY DEF RowsInv
<1> QED
  BY <1>2, <1>3, <1>4 DEF Merge, RowsOf

\* Nothing that was in the catalog leaves a merge.
LEMMA MergeKeepsKeys ==
  ASSUME NEW old, NEW new
  PROVE  Keys(old) \subseteq Keys(Merge(old, new))
<1> DEFINE current == {Reconcile(old, r) : r \in new}
<1>1. ASSUME NEW r \in old PROVE KeyOf(r) \in Keys(Merge(old, new))
  <2>1. CASE KeyOf(r) \in Keys(current)
    BY <2>1 DEF Keys, Merge
  <2>2. CASE KeyOf(r) \notin Keys(current)
    BY <2>2 DEF Keys, Merge
  <2> QED
    BY <2>1, <2>2
<1> QED
  BY <1>1 DEF Keys

LEMMA CompleteStep ==
  TypeOK /\ WorldInv /\ RunInv /\ RowsInv /\ Complete /\ [Next]_vars => Complete'
<1> SUFFICES ASSUME TypeOK, WorldInv, RunInv, RowsInv, Complete, [Next]_vars PROVE Complete'
  OBVIOUS
<1> USE CatalogAssumption DEF world, disk, writer
<1>1. ASSUME cat' = cat, ever' = ever, Described' = {} PROVE Complete'
  BY <1>1 DEF Complete, Keys, KeyOf
<1>2. ASSUME NEW i \in Inputs, Reextract(i) \/ RemoveOutput(i) PROVE Complete'
  BY <1>2, SMTT(20) DEF Reextract, RemoveOutput, Complete, Described, LastRows, Keys, KeyOf
<1>3. ASSUME NEW i \in Inputs, Convert(i) \/ Skip(i) \/ Scan(i) PROVE Complete'
  BY <1>1, <1>3 DEF Convert, Skip, Scan, Described
<1>4. CASE OpenRun
  BY <1>1, <1>4 DEF OpenRun, Described
<1>5. CASE Close /\ accounted # {} /\ cat' = Merge(stored, rows) /\ wrote' = wrote \cup {runs}
                /\ ever' = (IF force THEN {} ELSE ever) \cup Keys(cat') /\ UNCHANGED accounted
  <2>0. phase # "idle" /\ phase' = "idle" /\ runs' = runs /\ file' = file /\ runs' \in wrote'
    BY <1>5 DEF Close
  <2>1. Described' = accounted
    BY <1>5, <2>0 DEF Described
  <2>2. ASSUME NEW i \in accounted
        PROVE  /\ {r.column : r \in LastRows(i)'} = file'[i].cols
               /\ \A r \in LastRows(i)' : r.seen = file'[i].run
               /\ Cardinality(LastRows(i)') = Cardinality(file'[i].cols)
    <3> DEFINE Rec(r) == Reconcile(stored, r)
    <3>1. LastRows(i)' = {Rec(r) : r \in RowsOf(rows, i)}
      BY <1>5, <2>0, <2>2, LastRowsOfRun DEF LastRows
    <3>2. /\ file[i] \in Made /\ OneEach(RowsOf(rows, i), file[i].cols)
          /\ \A r \in RowsOf(rows, i) : r.seen = file[i].run
      BY <2>0, <2>2 DEF RowsInv
    <3>3. \A r \in RowsOf(rows, i) : Rec(r).column = r.column /\ Rec(r).seen = r.seen
      BY ReconcileKeeps DEF TypeOK, RowsOf
    <3> HIDE DEF Rec
    <3>4. OneEach(LastRows(i)', file[i].cols)
      BY <3>1, <3>2, <3>3 DEF OneEach
    <3>5. IsFiniteSet(file[i].cols)
      BY <3>2 DEF Made
    <3>6. Cardinality(LastRows(i)') = Cardinality(file[i].cols)
      BY <3>4, <3>5, OneEachCounts
    <3>7. {r.column : r \in LastRows(i)'} = file[i].cols
      BY <3>4 DEF OneEach
    <3> QED
      BY <2>0, <3>1, <3>2, <3>3, <3>6, <3>7
  <2>3. ever' \subseteq Keys(cat')
    <3>1. ~force => stored = cat
      BY <1>5, <2>0 DEF RunInv
    <3>2. ~force => ever \subseteq Keys(cat')
      BY <1>5, <3>1, MergeKeepsKeys DEF Complete
    <3> QED
      BY <1>5, <3>2
  <2>4. ever' \subseteq Keys(cat)'
    BY <2>3 DEF Keys, KeyOf
  <2> QED
    BY <2>1, <2>2, <2>4 DEF Complete
<1>6. CASE Close /\ UNCHANGED disk
  BY <1>1, <1>6 DEF Close, Described, RunInv
<1>7. CASE Close
  <2>1. (IF force \/ ~exists THEN rows ELSE Merge(stored, rows)) = Merge(stored, rows)
    BY <1>7, CloseMerges DEF Close
  <2> QED
    BY <1>5, <1>6, <1>7, <2>1 DEF Close
<1>8. CASE UNCHANGED vars
  BY <1>8 DEF vars, Complete, Described, LastRows, Keys, KeyOf
<1> QED
  BY <1>2, <1>3, <1>4, <1>7, <1>8 DEF Next

LEMMA InitIInv == Init => IInv
<1> SUFFICES ASSUME Init PROVE IInv
  OBVIOUS
<1>2. None \notin Made
  <2>1. \A m \in Made : DOMAIN m = {"table", "cols", "run"}
    BY DEF Made
  <2>2. DOMAIN None = {"cols"}
    BY DEF None
  <2> QED
    BY <2>1, <2>2
<1> USE CatalogAssumption DEF Init
<1>1. TypeOK
  <2>1. file \in [Inputs -> Made \cup {None}]
    BY DEF Made
  <2>2. fresh \in [Inputs -> BOOLEAN] /\ there \in [Inputs -> BOOLEAN]
    OBVIOUS
  <2>3. /\ header \in [Inputs -> [table : Tables, cols : ColumnSets]]
        /\ \A i \in Inputs : header[i] \in Headers(i)
    OBVIOUS
  <2>4. exists \in BOOLEAN /\ on \in BOOLEAN /\ force \in BOOLEAN
    BY Zenon
  <2>5. runs \in 0 .. MaxRuns /\ wrote \subseteq 1 .. runs
    OBVIOUS
  <2> QED
    BY <2>1, <2>2, <2>3, <2>4, <2>5 DEF TypeOK
<1>3. WorldInv
  BY <1>2 DEF WorldInv
<1>4. RunInv /\ RowsInv /\ TablesInv
  BY DEF RunInv, RowsInv, TablesInv
<1>5. Complete
  BY DEF Complete, Described, Keys
<1> QED
  BY <1>1, <1>3, <1>4, <1>5 DEF IInv

\* The inductive invariant: world, run, rows and catalog are always in step.
THEOREM CatalogInv == Spec => []IInv
<1>1. IInv /\ [Next]_vars => IInv'
  BY TypeStep, WorldStep, RunStep, RowsStep, TablesStep, CompleteStep DEF IInv
<1> QED
  BY <1>1, InitIInv, PTL DEF Spec

\* Every variable keeps to its type, through whatever is merged and reconciled.
THEOREM TypeCorrect == Spec => []TypeOK
<1>1. IInv => TypeOK
  BY DEF IInv
<1> QED
  BY <1>1, CatalogInv, PTL

\* After a run that wrote the catalog every file it accounted for is described by exactly
\* its columns, each in one row; and nothing that was written leaves the catalog before it
\* is replaced (Merge, Writer.Close). QVDs may share table names.
THEOREM AlwaysComplete == Spec => []Complete
<1>1. IInv => Complete
  BY DEF IInv
<1> QED
  BY <1>1, CatalogInv, PTL
-----------------------------------------------------------------------------
(* Where no two QVDs carry the same table name, what the catalog says of a  *)
(* file comes from the conversion that wrote it.                           *)

LEMMA StepIInv == IInv /\ [Next]_vars => IInv'
BY TypeStep, WorldStep, RunStep, RowsStep, TablesStep, CompleteStep DEF IInv

\* A row filed under a table of a file is of that file.
LEMMA TableTells ==
  ASSUME TablesApart, NEW r \in Rows, TableOK(r), NEW i \in Inputs, r.table \in TablesOf[i]
  PROVE  r.path = i
<1>1. r.path \in Inputs
  BY DEF Rows
<1> QED
  BY <1>1 DEF TableOK, TablesApart

\* A scan of a file whose conversion the catalog was told of becomes that conversion's row.
LEMMA ScanFindsFacts ==
  ASSUME TypeOK, NEW i \in Inputs, ToldOf(i), file[i] \in Made, file[i].run \in wrote,
         OfFile(cat, i) # {}, NEW q \in Rows, q.path = i, q.source = "parquet",
         q.column \in file[i].cols
  PROVE  /\ Reconcile(cat, q).source = "qvd" /\ Reconcile(cat, q).table = file[i].table
         /\ Reconcile(cat, q).facts = Facts1(i)
<1> DEFINE t == file[i].table
           n == Newest(OfFile(cat, i))
           known == OfKey(cat, <<t, q.column>>)
<1>1. OfFile(cat, i) \subseteq Rows /\ known \subseteq Rows
  BY DEF OfFile, OfKey, Conversions, TypeOK
<1>2. n \in OfFile(cat, i) /\ \A s \in OfFile(cat, i) : n.run >= s.run
  BY <1>1, NewestIsOne
<1>3. n.table = t
  <2>1. \A s \in OfFile(cat, i) : s.run \in Int /\ n.run \in Int
    BY <1>1, <1>2 DEF Rows
  <2>2. \A s \in OfFile(cat, i) : ~(s.run > n.run)
    BY <1>2, <2>1
  <2> QED
    BY <1>2, <2>2 DEF ToldOf
<1>4. known # {} /\ \A r \in known : r.facts = Facts1(i)
  BY DEF ToldOf
<1>5. Newest(known).facts = Facts1(i)
  BY <1>1, <1>4, NewestIsOne
<1>6. Reconcile(cat, q) = [q EXCEPT !.table = t, !.source = "qvd", !.facts = Newest(known).facts]
  BY <1>3, <1>4 DEF Reconcile, Owner
<1> HIDE DEF known, t
<1> QED
  BY <1>5, <1>6 DEF t, Rows

\* What the run that writes the catalog makes of a file it accounted for: either these are
\* the rows of the file's conversion, or the catalog knows of none.
LEMMA WrittenRows ==
  ASSUME IInv, ToldInv, phase # "idle", NEW i \in accounted,
         file[i].run \in wrote \cup {runs}, NEW q \in RowsOf(rows, i)
  PROVE  \/ /\ Reconcile(stored, q).source = "qvd"
            /\ Reconcile(stored, q).table = file[i].table
            /\ Reconcile(stored, q).facts = Facts1(i)
         \/ OfFile(stored, i) = {} /\ Reconcile(stored, q) = q /\ FromScan(q, i)
<1>1. /\ i \in Inputs /\ file[i] \in Made /\ q \in Rows /\ q.path = i /\ runs \in Int
      /\ file[i].run \in Int
  <2>1. TypeOK /\ RowsInv /\ i \in Inputs /\ q \in Rows /\ q.path = i
    BY DEF IInv, TypeOK, RowsOf
  <2>2. file[i] \in Made
    BY <2>1 DEF RowsInv
  <2>3. file[i].run \in Int
    BY <2>2 DEF Made
  <2> QED
    BY <2>1, <2>2, <2>3 DEF TypeOK
<1>2. /\ FromConversion(q, i) \/ FromScan(q, i)
      /\ q.column \in file[i].cols
  BY DEF IInv, RowsInv, OneEach
<1>3. CASE FromConversion(q, i)
  BY <1>3 DEF FromConversion, Reconcile, Facts1
<1>4. CASE FromScan(q, i) /\ OfFile(stored, i) = {}
  BY <1>1, <1>4 DEF Reconcile
<1>5. CASE FromScan(q, i) /\ OfFile(stored, i) # {}
  <2>1. stored = cat
    BY <1>5 DEF IInv, RunInv, OfFile, Conversions
  <2>2. file[i].run \in wrote
    BY <1>1, <1>5 DEF FromScan
  <2> QED
    BY <1>1, <1>2, <1>5, <2>1, <2>2, ScanFindsFacts DEF IInv, ToldInv, FromScan
<1> QED
  BY <1>2, <1>3, <1>4, <1>5

LEMMA FactsStep == IInv /\ ToldInv /\ FactsTrue /\ [Next]_vars => FactsTrue'
<1> SUFFICES ASSUME IInv, ToldInv, FactsTrue, [Next]_vars PROVE FactsTrue'
  OBVIOUS
<1> USE DEF world, disk, writer
<1>0. TypeOK /\ RunInv /\ RowsInv
  BY DEF IInv
<1>1. Described' = {} => FactsTrue'
  BY DEF FactsTrue, Known
<1>2. ASSUME NEW i \in Inputs, Reextract(i) \/ RemoveOutput(i) PROVE FactsTrue'
  BY <1>2 DEF Reextract, RemoveOutput, FactsTrue, Known, Described, LastRows, OfFile, Conversions
<1>3. ASSUME NEW i \in Inputs, Convert(i) \/ Skip(i) \/ Scan(i) PROVE FactsTrue'
  BY <1>1, <1>3 DEF Convert, Skip, Scan, Described
<1>4. CASE OpenRun
  BY <1>1, <1>4 DEF OpenRun, Described
<1>5. CASE Close /\ accounted # {} /\ cat' = Merge(stored, rows) /\ wrote' = wrote \cup {runs}
                /\ UNCHANGED <<accounted, stored>>
  <2>0. phase # "idle" /\ phase' = "idle" /\ runs' = runs /\ file' = file
    BY <1>5 DEF Close
  <2>1. ASSUME NEW i \in Known', NEW r \in LastRows(i)'
        PROVE  /\ r.facts \in {Unknown, [of |-> i, run |-> file'[i].run]}
               /\ OfFile(stored, i) # {} => r.source = "qvd" /\ r.table = file'[i].table
    <3>1. i \in accounted /\ file[i].run \in wrote \cup {runs}
      BY <1>5, <2>0, <2>1 DEF Known, Described
    <3>2. LastRows(i)' = {Reconcile(stored, q) : q \in RowsOf(rows, i)}
      BY <1>0, <1>5, <2>0, <3>1, LastRowsOfRun DEF LastRows
    <3>3. PICK q \in RowsOf(rows, i) : r = Reconcile(stored, q)
      BY <2>1, <3>2
    <3> QED
      <4>1. \/ /\ r.source = "qvd" /\ r.table = file[i].table
               /\ r.facts = Facts1(i)
            \/ OfFile(stored, i) = {} /\ r = q /\ FromScan(q, i)
        BY <2>0, <3>1, <3>3, WrittenRows
      <4> QED
        BY <2>0, <4>1 DEF FromScan, Facts1
  <2> QED
    BY <1>5, <2>1 DEF FactsTrue, OfFile, Conversions
<1>6. CASE Close /\ UNCHANGED disk
  BY <1>0, <1>1, <1>6 DEF Close, Described, RunInv
<1>7. CASE Close
  <2>1. (IF force \/ ~exists THEN rows ELSE Merge(stored, rows)) = Merge(stored, rows)
    BY <1>0, <1>7, CloseMerges DEF Close
  <2> QED
    BY <1>5, <1>6, <1>7, <2>1 DEF Close
<1>8. CASE UNCHANGED vars
  BY <1>8 DEF vars, FactsTrue, Known, Described, LastRows, OfFile, Conversions
<1> QED
  BY <1>2, <1>3, <1>4, <1>7, <1>8 DEF Next

LEMMA ToldStep ==
  ASSUME TablesApart, IInv, ToldInv, [Next]_vars
  PROVE  ToldInv'
<1> SUFFICES ASSUME NEW i \in Inputs PROVE ToldOf(i)'
  BY DEF ToldInv
<1> USE DEF world, disk, writer
<1>0. TypeOK /\ WorldInv /\ RunInv /\ RowsInv /\ ToldOf(i) /\ (TypeOK /\ TablesInv)'
  BY StepIInv DEF IInv, ToldInv
<1>1. file'[i] = file[i] /\ cat' = cat /\ wrote' = wrote => ToldOf(i)'
  BY <1>0 DEF ToldOf, OfFile, OfKey, Conversions, KeyOf, Facts1
<1>2. ASSUME NEW j \in Inputs, Reextract(j) \/ RemoveOutput(j) PROVE ToldOf(i)'
  BY <1>1, <1>2 DEF Reextract, RemoveOutput
<1>3. ASSUME NEW j \in Inputs, Convert(j) \/ Skip(j) \/ Scan(j) PROVE ToldOf(i)'
  <2>1. Handled(j)
    BY <1>0, <1>3, Handles
  <2>2. CASE file'[i] = file[i]
    BY <1>1, <2>1, <2>2 DEF Handled
  <2>3. CASE file'[i].run = runs
    BY <1>0, <2>1, <2>3 DEF Handled, RunInv, ToldOf
  <2> QED
    BY <2>1, <2>2, <2>3 DEF Handled
<1>4. CASE OpenRun \/ UNCHANGED vars
  BY <1>1, <1>4 DEF OpenRun, vars
<1>5. CASE Close /\ accounted # {} /\ cat' = Merge(stored, rows) /\ wrote' = wrote \cup {runs}
  <2> DEFINE t == file[i].table
             current == {Reconcile(stored, q) : q \in rows}
             Good(r) == r.source = "qvd" /\ r.table = t /\ r.facts = Facts1(i)
  <2>0. phase # "idle" /\ file' = file /\ on /\ runs \in Int
    BY <1>0, <1>5 DEF Close, RunInv, TypeOK
  <2>1. /\ cat' = {r \in stored : KeyOf(r) \notin Keys(current)} \cup current
        /\ cat' \subseteq Rows /\ \A r \in cat' : TableOK(r)
    BY <1>0, <1>5 DEF Merge, TypeOK, TablesInv, TableOK
  <2>2. \A r \in stored : r \in cat /\ r.run < runs /\ r.run \in Int
    BY <1>0, <2>0 DEF RunInv, TypeOK, Rows
  <2>3. \A q \in rows : /\ q.path \in accounted /\ q \in RowsOf(rows, q.path) /\ q.run = runs
                        /\ Reconcile(stored, q).path = q.path
                        /\ Reconcile(stored, q).column = q.column
                        /\ Reconcile(stored, q).run = q.run
    <3>1. \A q \in rows : q.path \in accounted /\ q \in RowsOf(rows, q.path)
      BY <1>0, <2>0 DEF RowsInv, RowsOf
    <3>2. \A q \in rows : q.run = runs
      BY <1>0, <2>0, <3>1 DEF RowsInv
    <3>3. stored \subseteq Rows /\ rows \subseteq Rows
      BY <1>0 DEF TypeOK
    <3> QED
      BY <3>1, <3>2, <3>3, ReconcileKeeps
  <2> HIDE DEF current
  <2>4. SUFFICES ASSUME file[i] \in Made, file[i].run \in wrote \cup {runs},
                        OfFile(cat', i) # {}, file[i].cols # {}
                 PROVE  /\ \A c \in file[i].cols :
                             /\ OfKey(cat', <<t, c>>) # {}
                             /\ \A r \in OfKey(cat', <<t, c>>) : r.facts = Facts1(i)
                        /\ \A r \in OfFile(cat', i) : r.table # t =>
                             \E s \in OfFile(cat', i) : s.table = t /\ s.run > r.run
    BY <1>5, <2>0 DEF ToldOf, OfFile, OfKey, Conversions, KeyOf, Facts1
  <2>5. \A r \in cat' : r.table = t => r.path = i
    BY <1>0, <2>1, <2>4, TableTells DEF WorldInv
  <2>6. CASE i \in accounted /\ \A q \in RowsOf(rows, i) : Good(Reconcile(stored, q))
    <3>1. \A r \in current : r.path = i => Good(r) /\ r.run = runs
      BY <2>3, <2>6 DEF current
    <3>2. \A c \in file[i].cols : \E r \in current : r.column = c /\ r.path = i
      <4>1. OneEach(RowsOf(rows, i), file[i].cols)
        BY <1>0, <2>0, <2>6 DEF RowsInv
      <4> QED
        BY <2>3, <4>1 DEF current, OneEach, RowsOf
    <3>3. \A c \in file[i].cols : \E r \in current : r \in OfKey(cat', <<t, c>>)
      BY <2>1, <3>1, <3>2 DEF OfKey, Conversions, KeyOf
    <3>4. ASSUME NEW c \in file[i].cols, NEW r \in OfKey(cat', <<t, c>>)
          PROVE  r.facts = Facts1(i)
      <4>1. r \in cat' /\ KeyOf(r) = <<t, c>> /\ r.path = i
        BY <2>5, <3>4 DEF OfKey, Conversions, KeyOf
      <4>2. <<t, c>> \in Keys(current)
        BY <3>3 DEF OfKey, Keys
      <4> QED
        BY <2>1, <3>1, <4>1, <4>2
    <3>5. ASSUME NEW r \in OfFile(cat', i), r.table # t
          PROVE  \E s \in OfFile(cat', i) : s.table = t /\ s.run > r.run
      <4>1. r \in stored /\ r.run < runs /\ r.run \in Int
        BY <2>1, <2>2, <3>1, <3>5 DEF OfFile, Conversions
      <4>2. PICK s \in current : s.path = i
        BY <2>4, <3>2
      <4>3. s \in OfFile(cat', i) /\ s.table = t /\ s.run = runs
        BY <2>1, <3>1, <4>2 DEF OfFile, Conversions
      <4> QED
        BY <2>0, <4>1, <4>3
    <3> QED
      BY <3>3, <3>4, <3>5
  <2>7. CASE i \in accounted /\ ~\A q \in RowsOf(rows, i) : Good(Reconcile(stored, q))
    <3>1. OfFile(stored, i) = {} /\ file[i].run < runs
      BY <2>0, <2>4, <2>7, WrittenRows DEF FromScan
    <3>2. ASSUME NEW q \in rows, q.path = i PROVE Reconcile(stored, q).source = "parquet"
      <4>1. q \in RowsOf(rows, i) /\ (FromConversion(q, i) \/ FromScan(q, i))
        BY <1>0, <2>0, <2>7, <3>2 DEF RowsInv, RowsOf
      <4>2. FromScan(q, i)
        BY <2>0, <3>1, <4>1 DEF FromConversion
      <4> QED
        BY <3>1, <3>2, <4>2 DEF FromScan, Reconcile
    <3>3. OfFile(cat', i) = {}
      BY <2>1, <2>3, <3>1, <3>2 DEF OfFile, Conversions, current
    <3> QED
      BY <2>4, <3>3
  <2>8. CASE i \notin accounted
    <3>1. file[i].run \in wrote
      BY <1>0, <2>0, <2>4, <2>8 DEF WorldInv
    <3>2. \A r \in current : r.path # i
      BY <2>3, <2>8 DEF current
    <3>3. OfFile(cat', i) \subseteq OfFile(stored, i)
      BY <2>1, <3>2 DEF OfFile, Conversions
    <3>4. stored = cat
      BY <1>0, <2>0, <2>4, <3>3 DEF RunInv, OfFile, Conversions
    <3>5. \A r \in cat : r.table = t => r \in cat'
      <4> SUFFICES ASSUME NEW r \in cat, r.table = t, NEW u \in current, KeyOf(u) = KeyOf(r)
                   PROVE  FALSE
        BY <2>1, <3>4 DEF Keys
      <4> QED
        BY <2>1, <2>5, <3>2 DEF KeyOf
    <3>6. \A r \in cat' : r.table = t => r \in cat
      BY <2>1, <2>5, <3>2, <3>4
    <3>7. \A c : OfKey(cat', <<t, c>>) = OfKey(cat, <<t, c>>)
      BY <3>5, <3>6 DEF OfKey, Conversions, KeyOf
    <3>8. \A s \in OfFile(cat, i) : s.table = t => s \in OfFile(cat', i)
      BY <3>5 DEF OfFile, Conversions
    <3> QED
      BY <1>0, <2>4, <3>1, <3>3, <3>4, <3>7, <3>8 DEF ToldOf
  <2> QED
    BY <2>6, <2>7, <2>8
<1>6. CASE Close /\ UNCHANGED disk
  BY <1>1, <1>6 DEF Close
<1>7. CASE Close
  <2>1. (IF force \/ ~exists THEN rows ELSE Merge(stored, rows)) = Merge(stored, rows)
    BY <1>0, <1>7, CloseMerges DEF Close
  <2> QED
    BY <1>5, <1>6, <1>7, <2>1 DEF Close
<1> QED
  BY <1>2, <1>3, <1>4, <1>7 DEF Next

\* Where no two QVDs carry the same table name, what the catalog says of a file comes from
\* the conversion that wrote it, and a scan loses none of it (reconcileScans), whatever is
\* renamed, removed, killed or replaced.
THEOREM FactsAlwaysTrue ==
  ASSUME TablesApart
  PROVE  Spec => []FactsTrue
<1>1. Init => FInv
  BY InitIInv, CatalogAssumption
     DEF FInv, Init, ToldInv, ToldOf, FactsTrue, Known, Described
<1>2. FInv /\ [Next]_vars => FInv'
  BY StepIInv, ToldStep, FactsStep DEF FInv
<1>3. FInv => FactsTrue
  BY DEF FInv
<1> QED
  BY <1>1, <1>2, <1>3, PTL DEF Spec
=============================================================================
