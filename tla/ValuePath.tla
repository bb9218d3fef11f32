----------------------------- MODULE ValuePath -----------------------------
(***************************************************************************)
(* The way of a value through one conversion, from the bytes of the QVD to *)
(* the builder of its output column: Open and Validate, SelectColumns and  *)
(* ExcludeColumns, ReadSymbols and checkRecordArea, ResolveSchema, and the *)
(* rows of decodeChunk, in the order Run has them.                         *)
(*                                                                         *)
(* The file is what QvdFile's encoder makes of a table, or that with one   *)
(* number off. Reads return what the file holds (else see VerifiedRead),   *)
(* and rows are decoded in order (else see DecodePipeline).                *)
(***************************************************************************)
EXTENDS SchemaResolution, QvdFile

\* A layout is of the file's fields, all with the same number of rows. The
\* number of symbols is an int64, and no field takes more bits than a word has.
ASSUME LayoutAssumption ==
  \A i \in Inputs :
    /\ i.layout \in Seq([symbols : Seq(Symbols), rows : Seq(Int), gap : Nat, slack : Nat, spare : Nat])
    /\ i.layout # <<>> /\ Len(i.layout) = Len(i.fields)
    /\ \A f \in Range(i.layout) :
         /\ Len(f.rows) = RowsOf(i.layout)
         /\ \A r \in DOMAIN f.rows : f.rows[r] \in -1 .. (Len(f.symbols) - 1)
         /\ Shifted(Len(f.symbols))[WordBits - 1] = 0
         /\ Width(f) <= WordBits
    /\ i.damage.by \in Int
    /\ \/ i.damage.what \in {"none", "records", "recordBytes", "cut"}
       \/ i.damage.what \in {"offset", "width", "bias", "symbols", "length", "tag"}
            /\ i.damage.field \in DOMAIN i.layout

VARIABLES
  given,    \* the input: options and fields, their layout, the request, the damage
  file,     \* the bytes at the path
  stage,    \* where Run stands
  selected, \* the columns that are converted
  symbols,  \* the symbol tables read, by column
  rows,     \* the rows decoded: of every output column, the symbol and what it became
  failure   \* what ended the conversion, "none" if nothing did

pathVars == <<given, file, stage, selected, symbols, rows, failure>>
schemaVars == <<phase, position, out, name, pending, seen, taken>>
allVars == <<pathVars, input, schemaVars>>

Header == file.header
NumFields == Len(given.fields)
Table == given.layout

PathInit ==
  /\ given \in Inputs
  /\ file = <<>>
  /\ stage = "unwritten"
  /\ selected = {}
  /\ symbols = <<>>
  /\ rows = <<>>
  /\ failure = "none"
  /\ input = [options |-> given.options, fields |-> <<>>]
  /\ phase = "resolving"
  /\ position = 1
  /\ out = <<>> /\ name = <<>>
  /\ pending = {} /\ seen = {} /\ taken = {}

Fail(what) == stage' = "failed" /\ failure' = what
Go(next) == stage' = next /\ UNCHANGED failure

\* What is at the path when the conversion starts.
WriteFile ==
  /\ stage = "unwritten"
  /\ file' = Damaged(Build(given.layout), given.damage)
  /\ Go("open")
  /\ UNCHANGED <<given, selected, symbols, rows, input, schemaVars>>

\* Open: the header is parsed and validated.
Open ==
  /\ stage = "open"
  /\ IF Validate(Header) THEN Go("columns") ELSE Fail("header")
  /\ UNCHANGED <<given, file, selected, symbols, rows, input, schemaVars>>

\* SelectColumns takes those that are named, all if none is, and refuses a name
\* no field has; ExcludeColumns drops of those what its patterns match.
NameOf(i) == given.fields[i].name
Named == {i \in 1 .. NumFields : given.request.columns # {} => NameOf(i) \in given.request.columns}
Chosen == {i \in Named : NameOf(i) \notin given.request.exclude}

SelectColumns ==
  /\ stage = "columns"
  /\ IF given.request.columns \subseteq {NameOf(i) : i \in 1 .. NumFields} /\ Chosen # {}
       THEN Go("symbols") /\ selected' = Chosen
       ELSE Fail("columns") /\ UNCHANGED selected
  /\ UNCHANGED <<given, file, symbols, rows, input, schemaVars>>

\* The units of a table; what is behind the last of them is a record's, and no unit.
UnitsAt(from, length) ==
  SubSeq(file.tables, from + 1, Min({from + length, Len(file.tables)}))

\* Mutant: the table is looked for where the one before it was read to.
TableOfRead(i) ==
  LET length(j) == IF j \in DOMAIN symbols THEN Len(SymbolUnits([symbols |-> symbols[j]])) ELSE 0
      from == SumTo([j \in 1 .. NumFields |-> length(j)], i - 1)
  IN UnitsAt(from, Header.fields[i].length)

\* ReadSymbols seeks to the start of each table, and reads no further than it.
TableOf(i) == UnitsAt(TableStart(Header, i), Header.fields[i].length)

\* The table of the next column that is selected; the others are skipped.
ReadSymbols(i) ==
  /\ stage = "symbols"
  /\ i \in selected \ DOMAIN symbols
  /\ \A j \in selected : j < i => j \in DOMAIN symbols
  /\ LET read == ReadSymbolTable(TableOf(i), Header.fields[i].symbols)
     IN IF read.next = 0 THEN Fail("symbols") /\ UNCHANGED symbols
        ELSE /\ symbols' = [j \in DOMAIN symbols \cup {i} |->
                              IF j = i THEN read.symbols ELSE symbols[j]]
             /\ UNCHANGED <<stage, failure>>
  /\ UNCHANGED <<given, file, selected, rows, input, schemaVars>>

\* checkRecordArea, and what ResolveSchema is called with: of the selected
\* columns, what the header says and the symbols that were read.
SymbolSet(i) == Range(symbols[i])
SourceOf ==
  CHOOSE s \in [1 .. Cardinality(selected) -> selected] : \A j, k \in DOMAIN s : j < k => s[j] < s[k]

CheckRecordArea ==
  /\ stage = "symbols" /\ selected = DOMAIN symbols
  /\ IF RecordStart(file) + Header.records * Header.recordBytes > Cardinality(DOMAIN file.bytes)
       THEN Fail("truncated") /\ UNCHANGED input
       ELSE /\ Go("schema")
            /\ input' = [input EXCEPT !.fields =
                 [k \in DOMAIN SourceOf |->
                    [given.fields[SourceOf[k]] EXCEPT !.col.syms = SymbolSet(SourceOf[k])]]]
  /\ UNCHANGED <<given, file, selected, symbols, rows, schemaVars>>

\* ResolveSchema, in the steps of SchemaResolution.
ResolveSchema ==
  /\ stage = "schema" /\ Next
  /\ IF phase' = "resolved" THEN Go("rows") ELSE IF phase' = "failed" THEN Fail("schema")
     ELSE UNCHANGED <<stage, failure>>
  /\ UNCHANGED <<given, file, selected, symbols, rows>>

\* decodeChunk, one row: every field of the record is decoded, those that are
\* not converted too, and each output column gets its symbol's value.
Beyond == Symbol("none", "none", "none")

Decoded(c, raw) ==
  LET i == SourceOf[c[1]]
      index == DecodeIndex(Header.fields[i], raw)
  IN IF index < 0 THEN Null
     ELSE IF index < Len(symbols[i]) THEN symbols[i][index + 1] ELSE Beyond

DecodeRow ==
  /\ stage = "rows" /\ Len(rows) < Header.records
  /\ LET raw == RecordOf(file, Len(rows) + 1)
         inRange == \A i \in DOMAIN Header.fields : InRecord(Header.fields[i], raw)
         got == [c \in DOMAIN out |-> Decoded(c, raw)]
         values == [c \in DOMAIN out |-> Convert(out[c], got[c], o)]
     IN IF ~inRange \/ \E c \in DOMAIN out : got[c] = Beyond THEN Fail("index") /\ UNCHANGED rows
        ELSE IF \E c \in DOMAIN out : values[c] = "error" THEN Fail("convert") /\ UNCHANGED rows
        ELSE /\ rows' = Append(rows, [c \in DOMAIN out |-> <<got[c], values[c]>>])
             /\ UNCHANGED <<stage, failure>>
  /\ UNCHANGED <<given, file, selected, symbols, input, schemaVars>>

Finish ==
  /\ stage = "rows" /\ Len(rows) = Header.records
  /\ Go("done")
  /\ UNCHANGED <<given, file, selected, symbols, rows, input, schemaVars>>

PathNext ==
  \/ WriteFile
  \/ Open
  \/ SelectColumns
  \/ \E i \in 1 .. NumFields : ReadSymbols(i)
  \/ CheckRecordArea
  \/ ResolveSchema
  \/ DecodeRow
  \/ Finish

PathSpec == PathInit /\ [][PathNext]_allVars
-----------------------------------------------------------------------------
(* The properties.                                                         *)

\* How far each stage has come: the tables read are those of columns that were
\* selected, and a row has one entry for each output column.
PathTypeOK ==
  /\ stage \in {"unwritten", "open", "columns", "symbols", "schema", "rows", "done", "failed"}
  /\ (stage = "failed") <=> (failure # "none")
  /\ failure \in {"none", "header", "columns", "symbols", "truncated", "schema", "index", "convert"}
  /\ DOMAIN symbols \subseteq selected /\ selected \subseteq 1 .. NumFields
  /\ \A i \in DOMAIN symbols : Range(symbols[i]) \subseteq Symbols \cup {Null}
  /\ \A r \in DOMAIN rows : DOMAIN rows[r] = DOMAIN out
  /\ TypeOK

\* The symbol a row of the table was written with.
Written(i, r) ==
  LET at == Table[i].rows[r] IN IF at < 0 THEN Null ELSE Table[i].symbols[at + 1]
Source(c) == SourceOf[c[1]]
AsWritten(r, c) == rows[r][c][1] = Written(Source(c), r)

\* A file as it was written is never refused for what its bytes say, and every
\* row of it comes out with the values it was written with, wherever its bits
\* lie and whichever columns are converted: only the request or the policies
\* can end the conversion.
DecodedAsWritten ==
  given.damage.what = "none" =>
    /\ failure \in {"none", "columns", "schema"}
    /\ \A r \in DOMAIN rows : \A c \in DOMAIN out :
         AsWritten(r, c) /\ rows[r][c][2] = Convert(out[c], Written(Source(c), r), o)
    /\ stage = "done" => Len(rows) = Len(Table[1].rows)

\* The two numbers that no column's own bits are found by, and that the reader has
\* nothing to compare with: a Length too small of a column that is not converted
\* (reader.go skips its table unread), which moves the tables behind it and the
\* records, and a RecordByteSize too small by bytes that no field has a bit in.
Displaces(d) ==
  \/ d.what = "length" /\ d.by < 0 /\ d.field \notin selected
  \/ d.what = "recordBytes" /\ d.by \in -Table[Len(Table)].spare .. -1

\* A column of one symbol and no bits is all null when its count says zero.
Places(d, i) ==
  /\ d.field = i
  /\ d.what \in {"offset", "width", "bias"} \/ (d.what = "symbols" /\ Header.fields[i].symbols = 0)

\* A number of the header that is off - BitOffset, BitWidth, Bias, NoOfSymbols or
\* Length of a field, RecordByteSize or NoOfRecords - a broken table or a short
\* file changes no value of another column, and none at all unless it is what the
\* column's own bits are found by, or one of the two that displace the records:
\* everything else is refused, or what is decoded is right.
DamageStaysInColumn ==
  \A r \in DOMAIN rows : \A c \in DOMAIN out :
    Displaces(given.damage) \/ Places(given.damage, Source(c)) \/ AsWritten(r, c)
=============================================================================
