-------------------------- MODULE SchemaResolution --------------------------
(***************************************************************************)
(* ResolveSchema (internal/convert/schema.go): the fields of a file are    *)
(* resolved one after the other, and the first that fails ends it; then    *)
(* resolveNameCollisions makes the names of the output columns unique, the *)
(* fields of the file before the columns generated for display strings.    *)
(***************************************************************************)
EXTENDS Column, FiniteSets

CONSTANT Inputs  \* what a run may be given: options, and the fields of a file

\* A name is what a field is called and the suffixes behind it: n for "_n", and one for
\* "__text".
Names == [field : STRING, suffix : Seq(Nat)]
Suffixed(name, n) == [field |-> name.field, suffix |-> Append(name.suffix, n)]
Text == 1

\* The policies: --mixed and its fallback, --dual, --numeric-promote and whether it was asked
\* for, --decimal-source, --decimal-strict, --empty-as-null, --infer-dates and --duplicate-names.
Options ==
  [mixed : {"error", "string", "promote", "dual"}, fallback : BOOLEAN,
   dual : {"auto", "numeric", "text", "columns"}, promote : {"none", "true", "decimal"},
   explicit : BOOLEAN, source : {"auto", "text", "numeric"}, strict : BOOLEAN,
   emptyNull : BOOLEAN, infer : BOOLEAN, dupes : {"error", "suffix"}]

\* What Column asks of a field: the type its header declares ("real" for all that say
\* nothing more than that it is a number), its tag, the decimals its format shows, the
\* type the schema file pins it to, and its symbols.
QvdColumns ==
  [type : {"unknown", "real", "date", "timestamp", "time", "decimal"},
   tag : {"none", "date", "timestamp", "time"}, ndec : Int,
   pin : {"none", "string", "int64", "float64", "date32", "timestamp", "time", "decimal",
          "decimal9"},
   syms : SUBSET Symbols]

ASSUME InputsAssumption ==
  \A i \in Inputs :
    /\ i.options \in Options
    /\ i.fields \in Seq([name : Names, col : QvdColumns])

VARIABLES
  input,     \* [options, fields]; a field is its name and what Column asks of it
  phase,     \* "resolving", "naming", "resolved" or "failed"
  position,  \* the next field
  out,       \* how an output column is written; a column is its field and its side
  name,      \* the names of the output columns
  pending,   \* the columns that have not claimed theirs
  seen,      \* the names claimed
  taken      \* those, and every name some column asks for

vars == <<input, phase, position, out, name, pending, seen, taken>>

o == input.options
Fields == input.fields

Init ==
  /\ input \in Inputs
  /\ phase = "resolving"
  /\ position = 1
  /\ out = <<>>
  /\ name = <<>>
  /\ pending = {}
  /\ seen = {}
  /\ taken = {}
-----------------------------------------------------------------------------
Companion == [strategy |-> "dualtext", ex |-> NoDecimal]

\* One field: its columns are added.
ResolveField ==
  /\ phase = "resolving" /\ position <= Len(Fields)
  /\ LET r == Resolve(Fields[position].col, o)
         value == <<position, "value">>
         text == <<position, "text">>
     IN IF r.ok
          THEN /\ out' = [c \in DOMAIN out \cup {value} \cup (IF r.text THEN {text} ELSE {}) |->
                            IF c = value THEN r.column ELSE IF c = text THEN Companion ELSE out[c]]
               /\ position' = position + 1
               /\ UNCHANGED phase
          ELSE /\ phase' = "failed"
               /\ UNCHANGED <<out, position>>
  /\ UNCHANGED <<input, name, pending, seen, taken>>

Generated(c) == c[2] = "text"

\* The name a column asks for.
Asked(c) == LET own == Fields[c[1]].name IN IF Generated(c) THEN Suffixed(own, Text) ELSE own

\* Every name asked for is reserved up front.
StartNaming ==
  /\ phase = "resolving" /\ position > Len(Fields)
  /\ phase' = "naming"
  /\ name' = [c \in DOMAIN out |-> Asked(c)]
  /\ pending' = DOMAIN out
  /\ taken' = {Asked(c) : c \in DOMAIN out}
  /\ UNCHANGED <<input, position, out, seen>>

\* Names are claimed in the order of the file, by the generated columns last.
Before(c, d) ==
  IF Generated(c) = Generated(d) THEN c[1] <= d[1] ELSE Generated(d)

First(c) == c \in pending /\ \A d \in pending : Before(c, d)

Claim(c) ==
  /\ phase = "naming" /\ First(c)
  /\ name[c] \notin seen
  /\ seen' = seen \cup {name[c]}
  /\ pending' = pending \ {c}
  /\ UNCHANGED <<input, phase, position, out, name, taken>>

\* Mutant: the first suffix, whoever asks for it.
NextName(own, used) == Suffixed(own, 2)

\* nextFreeName: "_2", "_3", ..., the first that nobody asks for.
NextFreeName(own, used) ==
  Suffixed(own, Min({n \in 2..(Cardinality(used) + 2) : Suffixed(own, n) \notin used}))

Rename(c) ==
  LET free == NextFreeName(name[c], taken) IN
    /\ name' = [name EXCEPT ![c] = free]
    /\ seen' = seen \cup {free}
    /\ taken' = taken \cup {free}
    /\ pending' = pending \ {c}
    /\ UNCHANGED phase

Collide(c) ==
  /\ phase = "naming" /\ First(c)
  /\ name[c] \in seen
  /\ \/ o.dupes = "suffix" /\ Rename(c)
     \/ o.dupes = "error" /\ phase' = "failed" /\ UNCHANGED <<name, pending, seen, taken>>
  /\ UNCHANGED <<input, position, out>>

NamesSettled ==
  /\ phase = "naming" /\ pending = {}
  /\ phase' = "resolved"
  /\ UNCHANGED <<input, position, out, name, pending, seen, taken>>

Next ==
  \/ ResolveField
  \/ StartNaming
  \/ \E c \in pending : Claim(c) \/ Collide(c)
  \/ NamesSettled

Spec == Init /\ [][Next]_vars
-----------------------------------------------------------------------------
(* The properties.                                                         *)

Resolved == phase = "resolved"
ColumnsOf(i) == {out[c] : c \in {d \in DOMAIN out : d[1] = i}}

Strategies == {"null", "string", "dualtext", "int64", "float64", "date32", "timestamp",
               "time", "decimal"}

\* The columns are those of the fields resolved so far, and the passes over them are in
\* bounds.
TypeOK ==
  /\ phase \in {"resolving", "naming", "resolved", "failed"}
  /\ position \in 1..(Len(Fields) + 1)
  /\ DOMAIN out \subseteq (1..(position - 1)) \X {"value", "text"}
  /\ \A c \in DOMAIN out : out[c].strategy \in Strategies
  /\ DOMAIN name \subseteq DOMAIN out
  /\ \A c \in DOMAIN name : name[c] \in Names
  /\ pending \subseteq DOMAIN name
  /\ seen \subseteq taken

\* What resolves converts: no symbol of a column fails the decode workers after the
\* output was begun, whatever the policies and the pins.
ResolutionSufficient ==
  Resolved => \A i \in DOMAIN Fields : \A c \in ColumnsOf(i) : \A s \in Fields[i].col.syms :
    Convert(c, s, o) # "error"

\* A value that is there is written to one of the columns of its field at least, unless
\* the display side of the column was asked for.
TextAskedFor(f) == f.col.pin = "string" \/ o.dual = "text" \/ o.mixed = "string" \/ o.fallback

HasValue(f, s) ==
  \/ s.num \in Finite
  \/ s.kind = "string" /\ s.text # "empty"
  \/ IsDual(s) /\ s.text # "empty" /\ f.col.pin = "none" /\ o.dual \in {"auto", "columns"}

NothingVanishes ==
  Resolved => \A i \in DOMAIN Fields : ~TextAskedFor(Fields[i]) =>
    \A s \in Fields[i].col.syms : HasValue(Fields[i], s) =>
      \E c \in ColumnsOf(i) : Convert(c, s, o) = "value"

\* With --dual=auto what a display string says beyond the number is in the file: itself,
\* or a type that says as much. A padded decimal is a matter of format, and a field that
\* says it is a date has no clock.
SaysAsMuch(c, f, s) ==
  CASE s.text \in {"empty", "number", "rounded"} -> TRUE
    [] s.text = "padded" -> c.strategy = "decimal"
    [] s.text = "date" -> c.strategy \in {"date32", "timestamp"}
    [] s.text = "datetime" -> c.strategy = "timestamp" \/ (c.strategy = "date32" /\ "date" \in {f.col.type, f.col.tag})
    [] s.text = "time" -> c.strategy \in {"time", "timestamp"}
    [] s.text = "other" -> c.strategy = "decimal" /\ ScaledValue(s, c.ex, o).side = "text"
    [] OTHER -> FALSE

TextKept ==
  Resolved /\ o.dual = "auto" => \A i \in DOMAIN Fields : Fields[i].col.pin = "none" =>
    \A s \in Fields[i].col.syms : IsDual(s) =>
      \E c \in ColumnsOf(i) : c.strategy \in {"string", "dualtext"} \/ SaysAsMuch(c, Fields[i], s)

\* A decimal whose scale was inferred from the numbers, and with --decimal-strict every
\* one that is not pinned, rounds nothing.
DecimalsExact ==
  Resolved => \A i \in DOMAIN Fields : \A c \in ColumnsOf(i) :
    /\ c.strategy = "decimal" /\ Fields[i].col.pin = "none"
    /\ o.strict \/ Fields[i].col.type # "decimal"
    => \A s \in Fields[i].col.syms : ScaledValue(s, c.ex, o).result \in {"exact", "null"}

\* A symbol without a value is no evidence: a column with one more of them, be it null or
\* the empty string of --empty-as-null, has the same types.
AbsentIsNoEvidence ==
  Resolved => \A i \in DOMAIN Fields : \A s \in {Null, Symbol("string", "none", "empty")} :
    Absent(s, o) =>
      LET more == [Fields[i].col EXCEPT !.syms = @ \cup {s}]
      IN Resolve(more, o) = Resolve(Fields[i].col, o)

\* No two columns of a Parquet file have one name.
NamesUnique == Resolved => \A c, d \in DOMAIN out : name[c] = name[d] => c = d

\* Only a column that came second is renamed: the first field of a name keeps it, and no
\* suffix and no generated column takes the name of a field, wherever in the file it is.
FieldsKeepNames ==
  Resolved => \A c \in DOMAIN out :
    ~Generated(c) /\ (\A i \in 1..(c[1] - 1) : Fields[i].name # Fields[c[1]].name) =>
      name[c] = Fields[c[1]].name
=============================================================================
