---------------------------- MODULE MCValuePath ----------------------------
(***************************************************************************)
(* An instance of ValuePath for TLC: every column of up to two symbols     *)
(* under the policies that matter to it, files of three fields whose names *)
(* meet, and files of two fields laid out in many ways and damaged in each. *)
(***************************************************************************)
EXTENDS ValuePath, SequencesExt

Defaults ==
  [mixed |-> "error", fallback |-> FALSE, dual |-> "auto", promote |-> "decimal",
   explicit |-> FALSE, source |-> "auto", strict |-> FALSE, emptyNull |-> TRUE,
   infer |-> TRUE, dupes |-> "error"]

Plain == [type |-> "unknown", tag |-> "none", ndec |-> -1, pin |-> "none", syms |-> {}]
Q == [field |-> "Q", suffix |-> <<>>]
Pairs == {{s, t} : s, t \in Symbols}

\* One field, with each pair of symbols.
Columns(columns) ==
  {<<[name |-> Q, col |-> [c EXCEPT !.syms = q]]>> : c \in columns, q \in Pairs}

\* Every type and way to have it, and what numbers are promoted to.
Types ==
  [options : {[Defaults EXCEPT !.infer = i, !.dual = d, !.promote = p[1], !.explicit = p[2]] :
                i \in BOOLEAN, d \in {"auto", "columns"},
                p \in {<<"none", FALSE>>, <<"true", FALSE>>, <<"decimal", FALSE>>, <<"decimal", TRUE>>}},
   fields : Columns({[Plain EXCEPT !.type = t[1], !.tag = t[2]] :
                       t \in {<<"unknown", "none">>, <<"unknown", "date">>, <<"date", "none">>,
                              <<"timestamp", "none">>, <<"time", "none">>}})]

\* --mixed, its fallback and --dual; Validate has mixed=dual-columns imply dual=columns.
Policies ==
  [options : {[Defaults EXCEPT !.mixed = m[1], !.dual = m[2], !.fallback = f, !.emptyNull = e,
                               !.promote = "true"] :
                f \in BOOLEAN, e \in BOOLEAN,
                m \in {<<"dual", "columns">>}
                        \cup {"error", "string", "promote"} \X {"auto", "numeric", "text", "columns"}},
   fields : Columns({Plain})]

\* MONEY and FIX.
Decimals ==
  [options : {[Defaults EXCEPT !.source = s, !.strict = t, !.emptyNull = e] :
                s \in {"auto", "text", "numeric"}, t \in BOOLEAN, e \in BOOLEAN},
   fields : Columns({[Plain EXCEPT !.type = "decimal", !.ndec = n] : n \in {-1, 0, 2}})]

Pins ==
  [options : {[Defaults EXCEPT !.emptyNull = e] : e \in BOOLEAN},
   fields : Columns({[Plain EXCEPT !.pin = p] :
              p \in {"string", "int64", "float64", "date32", "timestamp", "time", "decimal",
                     "decimal9"}})]

\* Names that suffixes can meet, of fields with a generated column and without.
Meeting ==
  LET names == {Q, Suffixed(Q, Text), Suffixed(Q, 2), Suffixed(Suffixed(Q, Text), 2)}
      entries == {Symbol("dualint", "day", "word"), Symbol("int", "day", "none")}
      columns == {[Plain EXCEPT !.syms = {s}] : s \in entries}
  IN [options : {[Defaults EXCEPT !.dupes = d] : d \in {"error", "suffix"}},
      fields : [1..3 -> [name : names, col : columns]]]

-----------------------------------------------------------------------------
(* Layouts. Those above have a row for each symbol.                        *)

Undamaged == [what |-> "none", field |-> 0, by |-> 0]
All == [columns |-> {}, exclude |-> {}]

Compact(fields) ==
  [n \in DOMAIN fields |->
     LET symbolSeq == SetToSeq(fields[n].col.syms)
     IN [symbols |-> symbolSeq, rows |-> [k \in DOMAIN symbolSeq |-> k - 1], gap |-> 0, slack |-> 0,
         spare |-> 0]]

Schemas ==
  {[options |-> i.options, fields |-> i.fields, layout |-> Compact(i.fields),
    request |-> All, damage |-> Undamaged] : i \in UNION {Types, Policies, Decimals, Pins, Meeting}}

\* Columns with and without nulls, of no symbol, one, several, and so many that the
\* last index has a bit past the word its range begins in.
Many ==
  [k \in 1 .. 17 |->
     Symbol("dualint", "day",
            CASE k = 1 -> "number" [] k = 2 -> "word" [] k = 17 -> "padded" [] OTHER -> "other")]
Contents ==
  {<<0, <<-1, -1>>>>, <<1, <<0, 0>>>>, <<1, <<-1, 0>>>>, <<2, <<1, 0>>>>, <<2, <<1, -1>>>>,
   <<3, <<2, 0>>>>, <<3, <<-1, 2>>>>, <<17, <<16, 0>>>>, <<17, <<-1, 16>>>>}
Layouts ==
  {l \in {[symbols |-> SubSeq(Many, 1, c[1]), rows |-> c[2], gap |-> g, slack |-> s, spare |-> 0] :
            c \in Contents, g \in {0, 2}, s \in {0, 2}} : Width(l) <= WordBits}
Spared == {[l EXCEPT !.spare = 1] : l \in {m \in Layouts : m.gap = 0 /\ m.slack = 0}}

Damages ==
  {Undamaged, [what |-> "cut", field |-> 0, by |-> 0]}
    \cup [what : {"records", "recordBytes"}, field : {0}, by : {-1, 1}]
    \cup [what : {"offset", "width", "bias", "symbols", "length"}, field : {1, 2}, by : {-1, 1}]
    \cup [what : {"tag"}, field : {1, 2}, by : {0}]

A == [field |-> "A", suffix |-> <<>>]
B == [field |-> "B", suffix |-> <<>>]
Requests ==
  {[All EXCEPT !.columns = {B}], [All EXCEPT !.exclude = {B}], [All EXCEPT !.columns = {A, Q}],
   [columns |-> {A}, exclude |-> {A}]}

Files(first, second, requests, damages) ==
  [options : {Defaults},
   fields : {<<[name |-> A, col |-> Plain], [name |-> B, col |-> Plain]>>},
   layout : first \X second, request : requests, damage : damages]

MCInputs ==
  UNION {Schemas, Files(Layouts, Layouts, Requests, {Undamaged}),
         Files({l \in Layouts : l.gap = 0}, Layouts, {All, [All EXCEPT !.columns = {B}]}, Damages),
         Files({l \in Layouts : l.gap = 0 /\ l.slack = 0}, Spared, {All},
               {d \in Damages : d.what \in {"none", "offset", "recordBytes"}})}
=============================================================================
