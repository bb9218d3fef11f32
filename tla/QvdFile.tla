------------------------------ MODULE QvdFile ------------------------------
(***************************************************************************)
(* The bytes of a QVD: how a table is laid out in them (the encoder of     *)
(* internal/qvdtest/build.go, which the tests take for Qlik's), what can be *)
(* wrong with them, and how symbols and records are read back              *)
(* (internal/qvd/symbols.go and bitpack.go).                               *)
(*                                                                         *)
(* Records are bits, in bytes and words of a size given by the constants: a *)
(* byte or a word is the function of its bits, the lowest at 0. Symbol      *)
(* tables are sequences of units: a tag, the payload of a number, a text    *)
(* without its end, or the zero byte that ends one.                         *)
(***************************************************************************)
EXTENDS QvdHeader, Column

\* The sum of the first n numbers, and the first n parts one behind the other.
SumTo(numbers, n) ==
  LET upTo[k \in 0 .. n] == IF k = 0 THEN 0 ELSE upTo[k - 1] + numbers[k] IN upTo[n]
Joined(parts, n) ==
  LET upTo[k \in 0 .. n] == IF k = 0 THEN <<>> ELSE upTo[k - 1] \o parts[k] IN upTo[n]

\* v >> k for every k, the bit of v at a place, and how many it takes (bits.Len64).
Shifted(v) ==
  LET by[k \in 0 .. WordBits] == IF k = 0 THEN v ELSE by[k - 1] \div 2 IN by
BitOf(v, k) == Shifted(v)[k] % 2
BitLen(v) == Min({k \in 0 .. WordBits : Shifted(v)[k] = 0})

BytesOf(bits) == (bits + ByteBits - 1) \div ByteBits
-----------------------------------------------------------------------------
(* Writing one. A field is its symbols and, for every row, the index of one *)
(* of them, -1 for null. Qlik may leave bits before a field unused ("gap"), *)
(* give it more than it needs ("slack") and leave bytes behind the last one *)
(* ("spare"); Build does none of it.                                        *)

HasNull(f) == \E r \in DOMAIN f.rows : f.rows[r] < 0

\* A null in any row shifts the stored indices by one, so that zero is null.
Bias(f) == IF HasNull(f) THEN -1 ELSE 0
MaxStored(f) == Len(f.symbols) - 1 - Bias(f)
Width(f) ==
  f.slack + (IF MaxStored(f) > 0 THEN BitLen(MaxStored(f)) ELSE IF HasNull(f) THEN 1 ELSE 0)
Stored(f, r) == IF f.rows[r] < 0 THEN 0 ELSE f.rows[r] - Bias(f)

Offset(table, i) ==
  table[i].gap + SumTo([j \in DOMAIN table |-> table[j].gap + Width(table[j])], i - 1)

\* EncodeSymbol.
Texts(s) == IF s.text = "empty" THEN <<"00">> ELSE <<s.text, "00">>
EncodeSymbol(s) ==
  CASE s.kind = "null" -> <<"00">>
    [] s.kind = "int" -> <<"01", s.num>>
    [] s.kind = "float" -> <<"02", s.num>>
    [] s.kind = "string" -> <<"04">> \o Texts(s)
    [] s.kind = "dualint" -> <<"05", s.num>> \o Texts(s)
    [] s.kind = "dualfloat" -> <<"06", s.num>> \o Texts(s)
SymbolUnits(f) == Joined([k \in DOMAIN f.symbols |-> EncodeSymbol(f.symbols[k])], Len(f.symbols))

\* layout: the range of bits of each field.
FieldOf(table, i) ==
  [offset |-> Offset(table, i), width |-> Width(table[i]), bias |-> Bias(table[i]),
   symbols |-> Len(table[i].symbols), length |-> Len(SymbolUnits(table[i]))]

\* writeBitsLE: the bit of a row's record at a position.
BitAt(table, fields, r, at) ==
  IF \E i \in DOMAIN table :
       /\ at - fields[i].offset \in 0 .. (fields[i].width - 1)
       /\ BitOf(Stored(table[i], r), at - fields[i].offset) = 1
    THEN 1 ELSE 0

RowsOf(table) == Len(table[1].rows)
RecordBytes(table) ==
  LET bytes == BytesOf(Ends(FieldOf(table, Len(table)))) + table[Len(table)].spare
  IN IF bytes = 0 /\ RowsOf(table) > 0 THEN 1 ELSE bytes

\* Build: the header, the symbol tables end to end, and the records.
Build(table) ==
  LET fields == [i \in DOMAIN table |-> FieldOf(table, i)]
      size == RecordBytes(table)
      byte(n) == [k \in 0 .. (ByteBits - 1) |->
                    BitAt(table, fields, n \div size + 1, (n % size) * ByteBits + k)]
  IN [header |-> [fields |-> fields, recordBytes |-> size, records |-> RowsOf(table)],
      tables |-> Joined([i \in DOMAIN table |-> SymbolUnits(table[i])], Len(table)),
      bytes |-> [n \in 0 .. (RowsOf(table) * size - 1) |-> byte(n)]]

TableStart(h, i) == SumTo([j \in DOMAIN h.fields |-> h.fields[j].length], i - 1)

\* A file that is not what was written: a number of one field's header is off,
\* its table begins with a tag nobody knows, the header counts other records
\* than there are or gives them another size, or the last byte is missing.
Damaged(file, d) ==
  CASE d.what = "none" -> file
    [] d.what \in {"offset", "width", "bias", "symbols", "length"} ->
         [file EXCEPT !.header.fields[d.field][d.what] = @ + d.by]
    [] d.what = "tag" /\ file.header.fields[d.field].length = 0 -> file
    [] d.what = "tag" /\ file.header.fields[d.field].length > 0 ->
         [file EXCEPT !.tables[TableStart(file.header, d.field) + 1] = "07"]
    [] d.what \in {"records", "recordBytes"} -> [file EXCEPT !.header[d.what] = @ + d.by]
    [] d.what = "cut" -> [file EXCEPT !.bytes = Restrict(@, 0 .. (Cardinality(DOMAIN @) - 2))]
-----------------------------------------------------------------------------
(* Reading symbols. What is read is a symbol and where the next one begins, *)
(* 0 after a failure: the end of the units, or a tag that is not known. What *)
(* a table that is looked for elsewhere has behind a tag is a number or a    *)
(* text that was written, or counts as a failure too.                        *)

Got(symbol, next) == [symbol |-> symbol, next |-> next]
NoSymbol == Got(Null, 0)
IfSymbol(got) == IF got.symbol \in Symbols THEN got ELSE NoSymbol

\* readString: up to the next zero byte.
TextEnd(units, at) ==
  LET ends == {n \in at .. Len(units) : units[n] = "00"} IN IF ends = {} THEN 0 ELSE Min(ends)
TextAt(units, at) == IF TextEnd(units, at) = at THEN "empty" ELSE units[at]

ReadNumber(units, kind, at) ==
  IF at < Len(units) THEN IfSymbol(Got(Symbol(kind, units[at + 1], "none"), at + 2)) ELSE NoSymbol
ReadString(units, kind, number, at) ==
  IF TextEnd(units, at) # 0
    THEN IfSymbol(Got(Symbol(kind, number, TextAt(units, at)), TextEnd(units, at) + 1))
    ELSE NoSymbol

\* symbolReader.next, which consumes the text of a dual whatever it is for.
NextSymbol(units, at) ==
  IF at > Len(units) THEN NoSymbol
  ELSE CASE units[at] = "00" -> Got(Null, at + 1)
         [] units[at] = "01" -> ReadNumber(units, "int", at)
         [] units[at] = "02" -> ReadNumber(units, "float", at)
         [] units[at] = "04" -> ReadString(units, "string", "none", at + 1)
         [] units[at] \in {"05", "06"} /\ at < Len(units) ->
              ReadString(units, IF units[at] = "05" THEN "dualint" ELSE "dualfloat",
                         units[at + 1], at + 2)
         [] OTHER -> NoSymbol

\* ReadSymbolTable decodes exactly count symbols, and leaves what is behind them.
ReadSymbolTable(units, count) ==
  LET after[k \in 0 .. count] ==
        IF k = 0 THEN [symbols |-> <<>>, next |-> 1]
        ELSE LET read == after[k - 1]
                 got == NextSymbol(units, read.next)
             IN IF read.next = 0 \/ got.next = 0 THEN [read EXCEPT !.next = 0]
                ELSE [symbols |-> Append(read.symbols, got.symbol), next |-> got.next]
  IN after[count]
-----------------------------------------------------------------------------
(* Reading records.                                                        *)

NullSymbol == -1

\* The number a word is, from its highest bit down.
Number(word) ==
  LET upper[k \in 0 .. WordBits] ==
        IF k = 0 THEN 0 ELSE 2 * upper[k - 1] + word[WordBits - k]
  IN upper[WordBits]

\* int64 of an unsigned word, and of the sum of two int64.
TwoTo(n) == LET power[k \in 0 .. n] == IF k = 0 THEN 1 ELSE 2 * power[k - 1] IN power[n]
Signed(v) ==
  LET half == TwoTo(WordBits - 1) IN ((v + half) % (2 * half)) - half

\* The word that begins at a byte; what the record has no byte for is 0.
WordAt(raw, at) ==
  [k \in 0 .. (WordBits - 1) |->
     IF at + k \div ByteBits \in DOMAIN raw THEN raw[at + k \div ByteBits][k % ByteBits] ELSE 0]

\* Mutant: the word alone is looked at.
ReadWordLE(raw, bitOffset, bitWidth) ==
  LET shift == bitOffset % ByteBits
  IN [k \in 0 .. (WordBits - 1) |->
        IF k < bitWidth /\ k + shift < WordBits
          THEN WordAt(raw, bitOffset \div ByteBits)[k + shift] ELSE 0]

\* readBitsLE loads a word from the byte the range begins in, drops the bits
\* before it, and adds those of one more byte, if there is one, above.
ReadBitsLE(raw, bitOffset, bitWidth) ==
  LET at == bitOffset \div ByteBits
      shift == bitOffset % ByteBits
      low(k) == IF k + shift < WordBits THEN WordAt(raw, at)[k + shift] ELSE 0
      high(k) == IF k + shift >= WordBits /\ at + WordBytes \in DOMAIN raw
                   THEN raw[at + WordBytes][k + shift - WordBits] ELSE 0
  IN [k \in 0 .. (WordBits - 1) |->
        IF k >= bitWidth THEN 0 ELSE IF low(k) = 1 THEN 1 ELSE high(k)]

InRecord(f, raw) == f.width = 0 \/ Ends(f) <= Cardinality(DOMAIN raw) * ByteBits

\* DecodeRecord, of one field.
DecodeIndex(f, raw) ==
  LET stored == Number(ReadBitsLE(raw, f.offset, f.width))
      index == Signed(Signed(stored) + f.bias)
  IN IF f.width = 0 THEN IF f.symbols = 0 THEN NullSymbol ELSE 0
     ELSE IF index < 0 THEN NullSymbol ELSE index

\* RecordStart: behind the symbol tables, as long as the header has them, counted
\* from where the records were written. Before them are the units of the tables,
\* which count as a byte each.
RecordStart(file) == TableStart(file.header, Len(file.header.fields) + 1) - Len(file.tables)

UnitByte(unit) == [k \in 0 .. (ByteBits - 1) |-> IF unit = "00" THEN 0 ELSE 1]
ByteAt(file, at) ==
  IF at < 0 THEN UnitByte(file.tables[Len(file.tables) + 1 + at]) ELSE file.bytes[at]

\* The bytes of a record: the row'th slice of the record area.
RecordOf(file, row) ==
  LET size == file.header.recordBytes
      from == RecordStart(file) + (row - 1) * size
  IN [n \in 0 .. (size - 1) |-> ByteAt(file, from + n)]
=============================================================================
