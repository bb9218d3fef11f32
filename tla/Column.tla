------------------------------- MODULE Column -------------------------------
(***************************************************************************)
(* What type a column gets and what becomes of its values: resolveColumn   *)
(* and all it asks (internal/convert/schema.go, dual.go, decimal.go), and  *)
(* the conversion the decode workers run afterwards (batch.go).            *)
(*                                                                         *)
(* A symbol is the kind of its entry in the symbol table, a class of       *)
(* numbers and a class of display strings. A column is the set of its      *)
(* symbols: every rule asks only whether some symbol, or each, is of a     *)
(* class.                                                                  *)
(***************************************************************************)
EXTENDS Integers, Sequences, FiniteSetsExt

\* Numbers: a serial between the years 1600 and 2200, whole ("day") or with one
\* decimal ("frac"); one of sixteen decimals ("deep"); an integer too far off for
\* any date, -2^31 say ("big"); 1e300 ("huge"); NaN and the infinities ("nan").
Whole == {"day", "big"}
Finite == Whole \cup {"frac", "deep", "huge"}

\* Display strings: the digits of the number; the same behind zeros; rounded to two
\* decimals; another number; its date, with the clock or without; its clock; anything.
Symbol(kind, num, text) == [kind |-> kind, num |-> num, text |-> text]
Null == Symbol("null", "none", "none")
Strings == {Symbol("string", "none", t) : t \in {"empty", "word", "other"}}
Ints == {Symbol("int", n, "none") : n \in Whole}
Floats == {Symbol("float", n, "none") : n \in {"frac", "deep", "huge", "nan"}}
DualInts ==
  {Symbol("dualint", "day", t) : t \in {"empty", "number", "padded", "other", "date", "datetime", "word"}}
    \cup {Symbol("dualint", "big", t) : t \in {"number", "padded"}}
DualFloats ==
  {Symbol("dualfloat", "frac", t) :
     t \in {"empty", "number", "other", "date", "datetime", "time", "word"}}
    \cup {Symbol("dualfloat", "deep", t) : t \in {"number", "rounded"}}
    \cup {Symbol("dualfloat", "nan", t) : t \in {"empty", "word"}}
Symbols == {Null} \cup Strings \cup Ints \cup Floats \cup DualInts \cup DualFloats

HasText(s) == s.kind \in {"string", "dualint", "dualfloat"}
HasNumber(s) == s.kind \in {"int", "float", "dualint", "dualfloat"}
IsDual(s) == s.kind \in {"dualint", "dualfloat"}
IntLike(s) == s.kind \in {"int", "dualint"}
FloatLike(s) == s.kind \in {"float", "dualfloat"}

\* symbolIsAbsent; WithEmptyStringsAsNulls has the profile read it alike.
Absent(s, o) == s = Null \/ (o.emptyNull /\ s.kind = "string" /\ s.text = "empty")
Present(syms, o) == {s \in syms : ~Absent(s, o)}
-----------------------------------------------------------------------------
(* What a display string says (dual.go).                                   *)

RendersNumber(s) == s.text \in {"empty", "number"}

\* Every number in the text is a part of the date of the serial, the day among them.
RendersDate(s) ==
  s.text = "empty" \/ (s.text \in {"date", "datetime"} /\ s.num \notin {"big", "huge", "nan"})

RendersTime(s) == s.text = "empty" \/ (s.text = "time" /\ s.num # "nan")

\* ZeroPaddedCodeExample: integers beside their digits only, some of them padded.
ZeroPaddedCodes(syms, o) ==
  /\ \A s \in Present(syms, o) : s.kind = "dualint" /\ s.text \in {"number", "padded"}
  /\ \E s \in Present(syms, o) : s.text = "padded"

\* Mutant: a symbol without a value speaks against a date.
InferredTypeOfAll(syms, o) ==
  IF \E s \in syms : ~IsDual(s) \/ s.text = "empty" \/ ~RendersDate(s) THEN "unknown"
  ELSE IF \E s \in syms : s.num \notin Whole \/ s.text = "datetime" THEN "timestamp" ELSE "date"

\* InferDateTimeFromDuals: each value is a dual in the window whose text is its date;
\* "none" if not. A fraction or a clock make it a timestamp.
InferredType(syms, o) ==
  LET P == Present(syms, o) IN
    IF P = {} \/ \E s \in P : ~IsDual(s) \/ s.text = "empty" \/ ~RendersDate(s)
      THEN "unknown"
      ELSE IF \E s \in P : s.num \notin Whole \/ s.text = "datetime"
             THEN "timestamp" ELSE "date"
-----------------------------------------------------------------------------
(* Decimals (decimal.go). A scaled value is "null", "exact", "rounded" or   *)
(* an error, with the side that supplied the digits.                       *)

MaxInferredScale == 9
TextScale == [number |-> 0, padded |-> 0, other |-> 1, rounded |-> 2]
NumberScale == [day |-> 0, big |-> 0, frac |-> 1, deep |-> 16, huge |-> 0]

\* The decimals the text of a symbol shows.
DecimalsShown(s) == IF s.text = "number" THEN NumberScale[s.num] ELSE TextScale[s.text]
PlainNumber(s) == s.text \in DOMAIN TextScale /\ s.num # "nan"

Scaled(result, side) == [result |-> result, side |-> side]
Fit(decimals, scale, ex, side) ==
  Scaled(IF decimals <= scale THEN "exact" ELSE IF ex.strict THEN "inexact" ELSE "rounded", side)

FromText(s, ex) ==
  IF HasText(s) /\ PlainNumber(s) THEN Fit(DecimalsShown(s), ex.scale, ex, "text")
  ELSE Scaled("unreadable", "text")

FromNumber(s, ex) ==
  IF ~HasNumber(s) THEN Scaled("unreadable", "number")
  ELSE IF s.num = "nan" THEN Scaled("null", "number")
  ELSE IF s.num = "huge" THEN Scaled("too long", "number")
  ELSE Fit(NumberScale[s.num], ex.scale, ex, "number")

Errors == {"inexact", "unreadable", "too long"}

\* DecimalExtractor.Scaled. A text of too many decimals is not second-guessed.
ScaledValue(s, ex, o) ==
  CASE Absent(s, o) -> Scaled("null", "none")
    [] ~Absent(s, o) /\ ex.source = "text" -> FromText(s, ex)
    [] ~Absent(s, o) /\ ex.source = "numeric" -> FromNumber(s, ex)
    [] ~Absent(s, o) /\ ex.source = "auto" ->
         IF FromText(s, ex).result \in {"exact", "rounded", "inexact"} THEN FromText(s, ex)
         ELSE FromNumber(s, ex)

\* InferScaleFromSymbols: the most decimals shown; "none" if no text is a number.
ScaleOfTexts(syms) ==
  LET shown == {DecimalsShown(s) : s \in {t \in syms : HasText(t) /\ PlainNumber(t)}}
  IN IF shown = {} THEN -1 ELSE Max(shown)

\* Mutant: a scale past the bound is cut.
ScaleOfNumbersCut(syms) ==
  LET N == {s \in syms : HasNumber(s)} IN
    IF N = {} \/ \E s \in N : s.num = "nan" THEN -1
    ELSE Min({MaxInferredScale, Max({NumberScale[s.num] : s \in N})})

\* InferScaleFromValues: the least scale that holds every number, up to the bound. The
\* shortest form of a double is asked for without an exponent, so 1e300 needs none.
ScaleOfNumbers(syms) ==
  LET N == {s \in syms : HasNumber(s)} IN
    IF N = {} \/ \E s \in N : s.num = "nan" \/ NumberScale[s.num] > MaxInferredScale
      THEN -1
      ELSE Max({NumberScale[s.num] : s \in N})
-----------------------------------------------------------------------------
(* The resolver (schema.go). An output column is its strategy and, for a   *)
(* decimal, how it extracts. A field fails, or has one of them and perhaps *)
(* a second one for its display strings.                                   *)

NoDecimal == [scale |-> 0, source |-> "none", strict |-> FALSE]
Using(strategy, ex) ==
  [ok |-> TRUE, column |-> [strategy |-> strategy, ex |-> ex], text |-> FALSE]
As(strategy) == Using(strategy, NoDecimal)
Failed == [As("null") EXCEPT !.ok = FALSE]

\* ResolveDecimalSpec: every symbol is scaled, and none may fail.
AsDecimal(syms, ex, o) ==
  IF \E s \in syms : ScaledValue(s, ex, o).result \in Errors THEN Failed
  ELSE Using("decimal", ex)

\* The range checks of the date and time conversions. NaN is written as null.
Fits(s, strategy) ==
  HasNumber(s) /\ (s.num \in {"big", "huge"} => strategy = "time")

\* requireConvertibleDateTime runs the conversion of the workers on every symbol.
AsDateTime(syms, strategy, o) ==
  IF \A s \in Present(syms, o) : Fits(s, strategy) THEN As(strategy) ELSE Failed

DateTimeStrategy == [date |-> "date32", timestamp |-> "timestamp", time |-> "time"]

\* resolvePromotedDecimalColumn: without a scale it is a double after all, unless
\* decimal was asked for.
Promoted(syms, o) ==
  IF ScaleOfNumbers(syms) # -1
    THEN AsDecimal(syms, [scale |-> ScaleOfNumbers(syms), source |-> "numeric",
                          strict |-> o.strict], o)
    ELSE IF o.explicit THEN Failed ELSE As("float64")

\* resolveDecimalColumn: MONEY and FIX.
Declared(col, o) ==
  LET shown == ScaleOfTexts(col.syms)
      scale == IF col.ndec > 0 THEN col.ndec ELSE IF shown # -1 THEN shown ELSE col.ndec
  IN IF scale < 0 THEN Failed
     ELSE AsDecimal(col.syms, [scale |-> scale, source |-> o.source, strict |-> o.strict], o)

\* The type the header declares, or a tag, or the display strings.
TypeOf(col, o) ==
  CASE col.type # "unknown" -> col.type
    [] col.type = "unknown" /\ col.tag # "none" -> col.tag
    [] col.type = "unknown" /\ col.tag = "none" ->
         IF o.infer THEN InferredType(col.syms, o) ELSE "unknown"

\* resolveNumericColumn.
Numeric(col, o) ==
  LET P == Present(col.syms, o)
      type == TypeOf(col, o)
      floats == \E s \in P : FloatLike(s)
      ints == \E s \in P : IntLike(s)
  IN CASE type \in DOMAIN DateTimeStrategy ->
            AsDateTime(col.syms, DateTimeStrategy[type], o)
       [] type = "decimal" -> Declared(col, o)
       [] type \in {"unknown", "real"} /\ floats /\ o.promote = "decimal" -> Promoted(col.syms, o)
       [] type \in {"unknown", "real"} /\ ~floats -> As("int64")
       [] type \in {"unknown", "real"} /\ floats /\ o.promote # "decimal" ->
            IF ~ints \/ (o.promote = "true" /\ o.mixed # "string") THEN As("float64")
            ELSE Failed

\* ClassifyDual: does some text say more than what is written beside it?
Redundant(s, c) ==
  \/ RendersNumber(s)
  \/ c.strategy \in {"date32", "timestamp"} /\ RendersDate(s)
  \/ c.strategy = "time" /\ RendersTime(s)
  \/ c.strategy = "decimal" /\ PlainNumber(s)
       /\ \/ s.text \in {"number", "padded"} \/ (s.text = "rounded" /\ c.ex.scale <= 2)
          \/ FromText(s, c.ex).result \in {"exact", "rounded"} /\ c.ex.source # "numeric"

\* Mutant: one text that is a rendering speaks for the others.
InformativeIfNone(syms, c) == \A s \in syms : IsDual(s) => ~Redundant(s, c)

Informative(syms, c) == \E s \in syms : IsDual(s) /\ ~Redundant(s, c)

\* The numeric side, and with it the text if it is asked for or says more.
WithCompanion(col, o) ==
  LET r == Numeric(col, o)
      dual == \E s \in col.syms : IsDual(s)
  IN [r EXCEPT !.text = r.ok /\ dual /\ \/ o.dual = "columns"
                                        \/ o.dual = "auto" /\ Informative(col.syms, r.column)]

\* applyOverride. A decimal of nine digits has none for a number of ten.
Pinned(col, o) ==
  LET P == Present(col.syms, o) IN
    CASE col.pin = "string" -> As("string")
      [] col.pin = "int64" ->
           IF \E s \in P : FloatLike(s) \/ s.kind = "string" THEN Failed ELSE As("int64")
      [] col.pin = "float64" -> IF \E s \in P : s.kind = "string" THEN Failed ELSE As("float64")
      [] col.pin \in {"date32", "timestamp", "time"} -> AsDateTime(col.syms, col.pin, o)
      [] col.pin \in {"decimal", "decimal9"} ->
           IF col.pin = "decimal9" /\ \E s \in P : s.num = "big" THEN Failed
           ELSE AsDecimal(col.syms, [scale |-> 2, source |-> "auto", strict |-> FALSE], o)

\* Mutant: a dual with an empty text passes for one with text.
TextIsLosslessEmpty(syms, o) ==
  LET P == Present(syms, o) IN
    \A s \in P : s.kind \in {"string", "dualint"}

\* TextIsLosslessForMixed: each symbol has its text, and no number is a double.
TextIsLossless(syms, o) ==
  LET P == Present(syms, o) IN
    \A s \in P : s.kind = "string" \/ (s.kind = "dualint" /\ s.text # "empty")

\* resolveColumn, in the order of its returns.
Resolve(col, o) ==
  LET P == Present(col.syms, o)
      strings == \E s \in P : s.kind = "string"
      numbers == \E s \in P : HasNumber(s)
      dual == \E s \in P : IsDual(s)
  IN IF col.pin # "none" THEN Pinned(col, o)
     ELSE IF P = {} THEN As("null")
     ELSE IF strings /\ numbers
       THEN IF o.mixed = "string" \/ o.fallback \/ TextIsLossless(col.syms, o)
              THEN As("string") ELSE Failed
     ELSE IF strings THEN As("string")
     ELSE IF o.dual = "auto" /\ ZeroPaddedCodes(col.syms, o) THEN As("string")
     ELSE IF o.mixed = "string" \/ (dual /\ o.dual = "text") THEN As("string")
     ELSE WithCompanion(col, o)
-----------------------------------------------------------------------------
(* newColumnConverter and ConvertAt: "null", "value" or "error".           *)

StringOf(s, o) ==
  CASE s = Null -> "null"
    [] s # Null /\ s.text = "empty" -> IF o.emptyNull THEN "null" ELSE "value"
    [] OTHER -> "value"

\* Mutant: the empty string is not looked for around the conversions.
ConvertBare(c, s, o) ==
  CASE c.strategy = "null" -> "null"
    [] c.strategy = "string" -> StringOf(s, o)
    [] c.strategy = "dualtext" -> IF HasText(s) THEN StringOf(s, o) ELSE "null"
    [] c.strategy = "int64" ->
         IF s = Null \/ s.num = "nan" THEN "null" ELSE IF s.num \in Whole THEN "value" ELSE "error"
    [] c.strategy = "float64" ->
         IF s = Null THEN "null" ELSE IF HasNumber(s) THEN "value" ELSE "error"
    [] c.strategy \in {"date32", "timestamp", "time"} ->
         IF s = Null \/ s.num = "nan" THEN "null"
         ELSE IF Fits(s, c.strategy) THEN "value" ELSE "error"
    [] c.strategy = "decimal" ->
         IF ScaledValue(s, c.ex, o).result = "null" THEN "null" ELSE "value"

\* With --empty-as-null the empty string is null whatever the type.
Convert(c, s, o) == IF Absent(s, o) THEN "null" ELSE ConvertBare(c, s, o)
=============================================================================
