-------------------------- MODULE IntegrityProofs --------------------------
(***************************************************************************)
(* Proofs about Integrity, for any number of columns, chunks, workers and  *)
(* misreads: nothing is built on another file or on two readings that      *)
(* differ, an error blames the reading only with two readings to show, the *)
(* gate passes what it compares and fails what differs, and the two ends   *)
(* of a conversion agree.                                                  *)
(***************************************************************************)
EXTENDS Integrity, FiniteSetTheorems, SequenceTheorems, TLAPS

\* What the reads of the file first opened can return.
Results == {"right", "wrong", "wrong2"} \cup Failures

ReadsOK == /\ reads \in [Parts -> Seq(Results)]
           /\ \A p \in Parts : Len(reads[p]) <= 2

\* Every handle in use is on the file that was opened first, and where the reads are
\* verified, so is the one the second reads come from.
HandlesInv ==
  /\ \A w \in Worker : handle[w] \in {None, "orig"}
  /\ \A x \in Worker \cup {"tables"} : check[x] \in {None, "orig"}
  /\ stage \in {"header", "tables", "symbols"} => \A w \in Worker : handle[w] = None
  /\ stage = "symbols" /\ verifyReads => check["tables"] = "orig"
  /\ stage = "decoding" /\ verifyReads => \A w \in Worker : handle[w] # None => check[w] = "orig"

Verified(p) == p = Header \/ verifyReads

\* What was built on was read once, or twice and the same.
Sound(p) == \E r \in {"right", "wrong"} : reads[p] = IF Verified(p) THEN <<r, r>> ELSE <<r>>

\* What has been read: the header before anything else, each part when it is used, and
\* all of them by the time the rows are decoded.
ReadsInv ==
  /\ used \subseteq Parts /\ \A p \in used : Sound(p)
  /\ stage = "header" =>
       /\ used = {} /\ \A p \in Tables \cup Chunks : reads[p] = <<>>
       /\ reads[Header] \in {<<>>} \cup {<<r>> : r \in Results \ {"wrong2"}}
  /\ stage \in {"tables", "symbols", "decoding"} =>
       Header \in used /\ \A p \in Parts \ used : reads[p] = <<>>
  /\ stage = "decoding" => Tables \subseteq used
  /\ stage \in {"decoded", "checking", "checked", "committed"} => Parts \subseteq used
  /\ verifyReads <=> mode = "reread"

BlameInv ==
  /\ blame # None => stage = "failed"
  /\ BlameIsTrue

\* Nothing gets past the gate but what it passed.
PassedInv ==
  /\ stage = "checking" => mode # "none"
  /\ stage \in {"checked", "committed"} => mode = "none" \/ verdict = "passed"

IInv == TypeOK /\ ReadsOK /\ HandlesInv /\ ReadsInv /\ BlameInv /\ PassedInv

LEMMA PartsTyped == Header \in Parts /\ Tables \subseteq Parts /\ Chunks \subseteq Parts
                    /\ Header \notin Tables \cup Chunks
BY DEF Parts, Header, Tables, Chunks

\* A second reading that differs is two results, neither of them of another file.
LEMMA TwoResults ==
  ASSUME NEW a \in Results, NEW b \in Results, a # b
  PROVE  Cardinality(Range(<<a, b>>)) = 2 /\ "others" \notin Range(<<a, b>>)
<1>1. Range(<<a, b>>) = {a, b}
  BY DEF Range
<1>2. IsFiniteSet({b}) /\ Cardinality({b}) = 1
  BY FS_Singleton
<1>3. Cardinality({b} \cup {a}) = 2
  BY <1>2, FS_AddElement
<1>4. {b} \cup {a} = {a, b}
  OBVIOUS
<1> QED
  BY <1>1, <1>3, <1>4 DEF Results, Failures

LEMMA AppendSecond ==
  ASSUME NEW S, NEW a \in S, NEW b \in S
  PROVE  Append(<<a>>, b) = <<a, b>>
<1> DEFINE s == Append(<<a>>, b)
           t == <<a, b>>
<1>1. s \in Seq(S) /\ t \in Seq(S)
  OBVIOUS
<1>2. Len(s) = 2 /\ Len(t) = 2
  OBVIOUS
<1>3. s[1] = a /\ s[2] = b
  OBVIOUS
<1>4. t[1] = a /\ t[2] = b
  OBVIOUS
<1> HIDE DEF s, t
<1>5. \A i \in 1 .. Len(s) : s[i] = t[i]
  BY <1>2, <1>3, <1>4
<1>6. s = t
  BY <1>1, <1>2, <1>5, SeqEqual
<1> QED
  BY <1>6 DEF s, t

LEMMA OneResult ==
  ASSUME NEW a
  PROVE  Range(<<a>>) = {a}
BY DEF Range

LEMMA OutcomesOfOrig ==
  ASSUME NEW s
  PROVE  /\ Outcomes("orig", s) \subseteq {"right", "error", "wrong", "wrong2"}
         /\ Sequential("orig") \subseteq Results
BY DEF Outcomes, Sequential, Results, Failures

\* The blame stays where it is while nothing more is read.
LEMMA BlameStays ==
  ASSUME BlameIsTrue, UNCHANGED <<blame, reads>>, path = "other" => path' = "other"
  PROVE  BlameIsTrue'
BY DEF BlameIsTrue

\* A part of the first file, read once or twice: it is used as it was read, the conversion
\* ends with no blame on the reading, or with one that its two results bear out.
LEMMA ReadPartCases ==
  ASSUME NEW p \in Parts, p # Header, NEW firsts, NEW x, ReadPart(p, firsts, x),
         firsts \subseteq Results, verifyReads => check[x] = "orig"
  PROVE  \E r \in Seq(Results) :
           /\ Saw(p, r) /\ Len(r) \in 1 .. 2
           /\ \/ /\ UseOf(p) /\ UNCHANGED <<blame, stage>>
                 /\ \E a \in {"right", "wrong"} : r = IF verifyReads THEN <<a, a>> ELSE <<a>>
              \/ UNCHANGED used /\ stage' = "failed" /\ blame' \in {"unreadable", "invalid"}
              \/ /\ UNCHANGED used /\ Stop("misread")
                 /\ \/ "impossible" \in Range(r)
                    \/ Cardinality(Range(r)) = 2 /\ "others" \notin Range(r)
<1>1. PICK r1 \in firsts \ {"wrong2"} :
        LET again == verifyReads /\ r1 \notin Failures
        IN  \/ \E r2 \in IF again THEN Outcomes(check[x], <<r1>>) ELSE {r1} :
                 /\ Saw(p, IF again THEN <<r1, r2>> ELSE <<r1>>)
                 /\ \/ Fault(r1, r2) # None /\ Stop(Fault(r1, r2)) /\ UNCHANGED used
                    \/ Fault(r1, r2) = None /\ UseOf(p) /\ UNCHANGED <<blame, stage>>
                    \/ /\ Fault(r1, r2) = None /\ r1 # "right"
                       /\ Stop("invalid") /\ UNCHANGED used
            \/ /\ p \in Tables /\ r1 \notin Failures \cup {"right"}
               /\ Saw(p, <<r1>>) /\ Stop("invalid") /\ UNCHANGED used
  BY DEF ReadPart
<1> DEFINE again == verifyReads /\ r1 \notin Failures
<1>2. r1 \in Results \ {"wrong2"}
  OBVIOUS
<1>3. CASE Saw(p, <<r1>>) /\ Stop("invalid") /\ UNCHANGED used
  <2>1. <<r1>> \in Seq(Results) /\ Len(<<r1>>) \in 1 .. 2
    BY <1>2
  <2>2. UNCHANGED used /\ stage' = "failed" /\ blame' \in {"unreadable", "invalid"}
    BY <1>3 DEF Stop
  <2> QED
    BY <1>3, <2>1, <2>2
<1>4. ASSUME NEW r2 \in IF again THEN Outcomes(check[x], <<r1>>) ELSE {r1},
             Saw(p, IF again THEN <<r1, r2>> ELSE <<r1>>),
             \/ Fault(r1, r2) # None /\ Stop(Fault(r1, r2)) /\ UNCHANGED used
             \/ Fault(r1, r2) = None /\ UseOf(p) /\ UNCHANGED <<blame, stage>>
             \/ Fault(r1, r2) = None /\ r1 # "right" /\ Stop("invalid") /\ UNCHANGED used
      PROVE  \E r \in Seq(Results) :
               /\ Saw(p, r) /\ Len(r) \in 1 .. 2
               /\ \/ /\ UseOf(p) /\ UNCHANGED <<blame, stage>>
                     /\ \E a \in {"right", "wrong"} : r = IF verifyReads THEN <<a, a>> ELSE <<a>>
                  \/ UNCHANGED used /\ stage' = "failed" /\ blame' \in {"unreadable", "invalid"}
                  \/ /\ UNCHANGED used /\ Stop("misread")
                     /\ \/ "impossible" \in Range(r)
                        \/ Cardinality(Range(r)) = 2 /\ "others" \notin Range(r)
  <2> DEFINE r == IF again THEN <<r1, r2>> ELSE <<r1>>
  <2>1. r2 \in Results /\ (again => r2 \in {"right", "error", "wrong", "wrong2"}) /\ (~again => r2 = r1)
    BY <1>2, <1>4, OutcomesOfOrig DEF Results, Failures
  <2>2. r \in Seq(Results) /\ Len(r) \in 1 .. 2
    BY <1>2, <2>1
  <2>3. Saw(p, r)
    BY <1>4
  <2>4. Fault(r1, r2) \in {"unreadable", "misread", None}
    BY DEF Fault
  <2>5. Fault(r1, r2) = None => r1 \in {"right", "wrong"} /\ (verifyReads => r2 = r1)
    BY <1>2, <2>1 DEF Fault, Failures, Results, None
  <2>6. Fault(r1, r2) = "misread" =>
          \/ r1 = "impossible"
          \/ again /\ r2 # r1
    BY <1>2, <2>1 DEF Fault, Failures, Results, None
  <2>7. CASE Fault(r1, r2) = None /\ UseOf(p) /\ UNCHANGED <<blame, stage>>
    <3>1. r = IF verifyReads THEN <<r1, r1>> ELSE <<r1>>
      BY <2>5, <2>7 DEF Failures
    <3> QED
      BY <2>2, <2>3, <2>5, <2>7, <3>1
  <2>8. CASE UNCHANGED used /\ stage' = "failed" /\ blame' \in {"unreadable", "invalid"}
    BY <2>2, <2>3, <2>8
  <2>9. CASE Fault(r1, r2) = "misread" /\ Stop("misread") /\ UNCHANGED used
    <3>1. CASE r1 = "impossible"
      <4>1. r = <<r1>> /\ "impossible" \in Range(r)
        BY <3>1, OneResult DEF Failures
      <4> QED
        BY <2>2, <2>3, <2>9, <4>1
    <3>2. CASE again /\ r2 # r1
      <4>1. r = <<r1, r2>> /\ Cardinality(Range(<<r1, r2>>)) = 2 /\ "others" \notin Range(<<r1, r2>>)
        BY <1>2, <2>1, <3>2, TwoResults
      <4> QED
        BY <2>2, <2>3, <2>9, <4>1
    <3> QED
      BY <2>6, <2>9, <3>1, <3>2
  <2> QED
    BY <1>4, <2>4, <2>7, <2>8, <2>9 DEF Stop, None
<1> QED
  BY <1>1, <1>3, <1>4
-----------------------------------------------------------------------------
(* The reader.                                                             *)

ReaderInv == ReadsOK /\ HandlesInv /\ ReadsInv /\ BlameInv

\* What the reader knows of its parts, without the handles.
Steady == UNCHANGED <<verifyReads, mode>>

\* A part is read and used.
LEMMA UsePart ==
  ASSUME ReadsOK, ReadsInv, NEW p \in Parts, p # Header, NEW r \in Seq(Results), Len(r) \in 1 .. 2,
         stage \in {"symbols", "decoding"}, p \notin used, Steady,
         Saw(p, r), UseOf(p), UNCHANGED <<blame, stage>>,
         \E a \in {"right", "wrong"} : r = IF verifyReads THEN <<a, a>> ELSE <<a>>
  PROVE  ReadsOK' /\ ReadsInv'
<1> USE DEF Steady
<1>1. reads[p] = <<>> /\ reads \in [Parts -> Seq(Results)]
  BY DEF ReadsOK, ReadsInv
<1>2. reads[p] \o r = r
  BY <1>1
<1>3. /\ reads' \in [Parts -> Seq(Results)] /\ reads'[p] = r
      /\ \A q \in Parts \ {p} : reads'[q] = reads[q]
  BY <1>1, <1>2 DEF Saw
<1>4. ReadsOK'
  <2>1. \A q \in Parts : Len(reads'[q]) <= 2
    <3>1. Len(r) <= 2
      OBVIOUS
    <3>2. \A q \in Parts : Len(reads[q]) <= 2
      BY DEF ReadsOK
    <3> QED
      BY <1>3, <3>1, <3>2
  <2> QED
    BY <1>3, <2>1 DEF ReadsOK
<1>5. used' = used \cup {p}
  BY DEF UseOf
<1>6. \A q \in used' : Sound(q)'
  <2>1. Sound(p)'
    BY <1>3 DEF Sound, Verified
  <2>2. ASSUME NEW q \in used PROVE Sound(q)'
    <3>1. Sound(q) /\ q \in Parts \ {p}
      BY DEF ReadsInv
    <3> QED
      BY <1>3, <3>1 DEF Sound, Verified
  <2> QED
    BY <1>5, <2>1, <2>2
<1> QED
  BY <1>3, <1>4, <1>5, <1>6 DEF ReadsInv

\* The conversion fails as it reads a part.
LEMMA FailPart ==
  ASSUME ReadsOK, ReadsInv, NEW p \in Parts, NEW r \in Seq(Results), Len(r) \in 1 .. 2,
         Len(reads[p] \o r) <= 2, Steady, p \notin used, Saw(p, r), UNCHANGED used,
         stage' = "failed"
  PROVE  ReadsOK' /\ ReadsInv'
<1> USE DEF Steady
<1>1. reads \in [Parts -> Seq(Results)]
  BY DEF ReadsOK
<1>2. reads[p] \o r \in Seq(Results) /\ Len(reads[p] \o r) <= 2
  BY <1>1
<1>3. /\ reads' \in [Parts -> Seq(Results)] /\ reads'[p] = reads[p] \o r
      /\ \A q \in Parts \ {p} : reads'[q] = reads[q]
  BY <1>1, <1>2 DEF Saw
<1>4. ReadsOK'
  BY <1>2, <1>3 DEF ReadsOK
<1>5. ASSUME NEW q \in used' PROVE Sound(q)'
  <2>1. Sound(q) /\ q \in Parts \ {p}
    BY <1>5 DEF ReadsInv
  <2> QED
    BY <1>3, <2>1 DEF Sound, Verified
<1> QED
  BY <1>4, <1>5 DEF ReadsInv

\* Both of a table and of a chunk.
LEMMA PartStep ==
  ASSUME ReadsOK, ReadsInv, BlameInv, NEW p \in Tables \cup Chunks, NEW firsts, NEW x,
         ReadPart(p, firsts, x), firsts \subseteq Results, verifyReads => check[x] = "orig",
         stage \in {"symbols", "decoding"}, p \notin used,
         UNCHANGED <<verifyReads, mode, path>>
  PROVE  /\ ReadsOK' /\ ReadsInv' /\ BlameInv'
         /\ stage' \in {stage, "failed"}
<1>1. p \in Parts /\ p # Header
  BY PartsTyped
<1>2. reads[p] = <<>>
  BY <1>1 DEF ReadsInv
<1>3. PICK r \in Seq(Results) :
        /\ Saw(p, r) /\ Len(r) \in 1 .. 2
        /\ \/ /\ UseOf(p) /\ UNCHANGED <<blame, stage>>
              /\ \E a \in {"right", "wrong"} : r = IF verifyReads THEN <<a, a>> ELSE <<a>>
           \/ UNCHANGED used /\ stage' = "failed" /\ blame' \in {"unreadable", "invalid"}
           \/ /\ UNCHANGED used /\ Stop("misread")
              /\ \/ "impossible" \in Range(r)
                 \/ Cardinality(Range(r)) = 2 /\ "others" \notin Range(r)
  BY <1>1, ReadPartCases
<1>4. blame = None
  BY DEF BlameInv
<1>5. reads' = [reads EXCEPT ![p] = r]
  BY <1>2, <1>3 DEF Saw
<1>6. reads'[p] = r
  BY <1>1, <1>5 DEF ReadsOK
<1>7. CASE /\ UseOf(p) /\ UNCHANGED <<blame, stage>>
           /\ \E a \in {"right", "wrong"} : r = IF verifyReads THEN <<a, a>> ELSE <<a>>
  <2>1. ReadsOK' /\ ReadsInv'
    BY <1>1, <1>3, <1>7, UsePart DEF Steady
  <2>2. BlameInv'
    BY <1>4, <1>7 DEF BlameInv, BlameIsTrue, None
  <2> QED
    BY <1>7, <2>1, <2>2
<1>8. CASE UNCHANGED used /\ stage' = "failed"
  <2>1. Len(reads[p] \o r) <= 2
    <3>1. reads[p] \o r = r
      BY <1>2
    <3> QED
      BY <1>3, <3>1
  <2>2. ReadsOK' /\ ReadsInv'
    BY <1>1, <1>3, <1>8, <2>1, FailPart DEF Steady
  <2>3. CASE blame' \in {"unreadable", "invalid"}
    BY <1>8, <2>2, <2>3 DEF BlameInv, BlameIsTrue
  <2>4. CASE /\ blame' = "misread"
             /\ \/ "impossible" \in Range(r)
                \/ Cardinality(Range(r)) = 2 /\ "others" \notin Range(r)
    <3>1. BlameIsTrue'
      BY <1>1, <1>6, <2>4 DEF BlameIsTrue
    <3> QED
      BY <1>8, <2>2, <3>1 DEF BlameInv
  <2> QED
    BY <1>3, <1>4, <1>8, <2>3, <2>4 DEF Stop, BlameInv
<1> QED
  BY <1>3, <1>7, <1>8 DEF Stop

\* Until the header has been read twice nothing else has, and the second reading either
\* agrees with the first or ends the conversion.
LEMMA HeaderStep ==
  ASSUME TypeOK, ReaderInv, UNCHANGED mode, ReadHeader \/ VerifyHeader
  PROVE  ReaderInv' /\ stage' \in {stage, "tables", "failed"}
<1> USE DEF ReaderInv
<1>1. /\ stage = "header" /\ used = {} /\ blame = None /\ path \in File
      /\ reads \in [Parts -> Seq(Results)] /\ Header \in Parts
      /\ \A p \in Tables \cup Chunks : reads[p] = <<>>
      /\ UNCHANGED <<verifyReads, path, handle, check>>
  BY PartsTyped DEF ReadHeader, VerifyHeader, ReadsInv, ReadsOK, BlameInv, TypeOK, ReaderTypeOK
<1>2. ASSUME UNCHANGED <<used, reads>>, stage' = "failed", blame' = "unreadable" \/ (blame' = "replaced" /\ path # "orig")
      PROVE  ReaderInv'
  <2>1. ReadsOK' /\ ReadsInv' /\ HandlesInv'
    BY <1>1, <1>2 DEF ReadsOK, ReadsInv, HandlesInv, Sound, Verified
  <2>2. BlameIsTrue'
    BY <1>1, <1>2 DEF BlameIsTrue, File
  <2> QED
    BY <1>2, <2>1, <2>2 DEF BlameInv
<1>3. ASSUME NEW r \in Results, reads' = [reads EXCEPT ![Header] = @ \o <<r>>]
      PROVE  /\ reads'[Header] = Append(reads[Header], r)
             /\ Len(reads[Header]) <= 1 => ReadsOK'
             /\ \A p \in Tables \cup Chunks : reads'[p] = <<>>
  <2>1. /\ reads[Header] \o <<r>> = Append(reads[Header], r)
        /\ Append(reads[Header], r) \in Seq(Results)
        /\ Len(Append(reads[Header], r)) = Len(reads[Header]) + 1
        /\ Len(reads[Header]) \in Nat
    BY <1>1
  <2>2. /\ reads'[Header] = Append(reads[Header], r) /\ reads' \in [Parts -> Seq(Results)]
        /\ \A p \in Parts \ {Header} : reads'[p] = reads[p]
    BY <1>1, <1>3, <2>1
  <2>3. \A p \in Tables \cup Chunks : reads'[p] = <<>>
    BY <1>1, <2>2, PartsTyped
  <2>4. Len(reads[Header]) <= 1 => Len(reads'[Header]) <= 2
    BY <2>1, <2>2
  <2>5. Len(reads[Header]) <= 1 => ReadsOK'
    BY <2>2, <2>4 DEF ReadsOK
  <2> QED
    BY <2>2, <2>3, <2>5
<1>4. CASE ReadHeader
  <2>1. CASE Stop("unreadable") /\ UNCHANGED reads
    <3>1. UNCHANGED used
      BY <1>4 DEF ReadHeader
    <3> QED
      BY <1>2, <2>1, <3>1 DEF Stop
  <2>2. ASSUME NEW r \in Sequential("orig") \ {"wrong2"}, Saw(Header, <<r>>), UNCHANGED <<stage, blame>>
        PROVE  ReaderInv' /\ stage' = stage
    <3>1. reads[Header] = <<>> /\ UNCHANGED used /\ r \in Results
      BY <1>4, OutcomesOfOrig DEF ReadHeader
    <3>2. Len(reads[Header]) <= 1 /\ Append(reads[Header], r) = <<r>>
      <4>1. Len(<<>>) = 0 /\ Append(<<>>, r) = <<r>>
        BY <3>1
      <4> QED
        BY <3>1, <4>1
    <3>3. reads' = [reads EXCEPT ![Header] = @ \o <<r>>]
      BY <2>2 DEF Saw
    <3>4. ReadsOK' /\ reads'[Header] = <<r>> /\ \A p \in Tables \cup Chunks : reads'[p] = <<>>
      BY <1>3, <3>1, <3>2, <3>3
    <3>5. ReadsInv' /\ HandlesInv'
      BY <1>1, <2>2, <3>1, <3>4 DEF ReadsInv, HandlesInv
    <3>6. BlameInv'
      BY <1>1, <2>2 DEF BlameInv, BlameIsTrue, None
    <3> QED
      BY <2>2, <3>4, <3>5, <3>6
  <2> QED
    BY <1>4, <2>1, <2>2 DEF ReadHeader, Stop
<1>5. CASE VerifyHeader
  <2>1. CASE (Stop("unreadable") \/ (~SameFile(path) /\ Stop("replaced"))) /\ UNCHANGED <<reads, used>>
    BY <1>2, <2>1 DEF Stop, SameFile
  <2>2. ASSUME SameFile(path), NEW r \in Sequential(path), Saw(Header, <<r>>),
               NEW fault, fault = HeaderFault(reads[Header][1], r),
               \/ fault # None /\ Stop(fault) /\ UNCHANGED used
               \/ fault = None /\ r # "right" /\ Stop("invalid") /\ UNCHANGED used
               \/ fault = None /\ stage' = "tables" /\ UseOf(Header) /\ UNCHANGED blame
        PROVE  ReaderInv' /\ stage' \in {"tables", "failed"}
    <3>0. r \in Results
      BY <2>2, OutcomesOfOrig DEF SameFile
    <3>1. PICK a \in Results \ {"wrong2"} : reads[Header] = <<a>>
      <4>1. Len(reads[Header]) = 1
        BY <1>5 DEF VerifyHeader
      <4>2. reads[Header] # <<>>
        BY <4>1
      <4> QED
        BY <1>1, <4>2 DEF ReadsInv
    <3>2. /\ Len(reads[Header]) <= 1 /\ Append(reads[Header], r) = <<a, r>>
          /\ reads[Header][1] = a
      <4>1. Len(<<a>>) <= 1 /\ Append(<<a>>, r) = <<a, r>> /\ <<a>>[1] = a
        <5>1. Len(<<a>>) = 1 /\ <<a>>[1] = a
          OBVIOUS
        <5>2. Append(<<a>>, r) = <<a, r>>
          BY <3>0, AppendSecond
        <5> QED
          BY <5>1, <5>2
      <4> QED
        BY <3>1, <4>1
    <3>3. ReadsOK' /\ reads'[Header] = <<a, r>> /\ \A p \in Tables \cup Chunks : reads'[p] = <<>>
      <4>1. reads' = [reads EXCEPT ![Header] = @ \o <<r>>]
        BY <2>2 DEF Saw
      <4> QED
        BY <1>3, <3>0, <3>2, <4>1
    <3>4. fault \in {None, "misread", "unreadable"}
      BY <2>2 DEF HeaderFault
    <3>5. fault = None => a = r /\ r \notin Failures
      BY <2>2, <3>2 DEF HeaderFault, None, Failures
    <3>6. fault = "misread" => "impossible" \in {a, r} \/ a # r
      BY <2>2, <3>2 DEF HeaderFault, None, Failures
    <3>7. CASE UNCHANGED used /\ stage' = "failed" /\ blame' \in {"unreadable", "invalid"}
      <4>1. ReadsInv' /\ HandlesInv'
        BY <1>1, <3>7 DEF ReadsInv, HandlesInv
      <4> QED
        BY <3>3, <3>7, <4>1 DEF BlameInv, BlameIsTrue
    <3>8. CASE fault = "misread" /\ Stop("misread") /\ UNCHANGED used
      <4>1. ReadsInv' /\ HandlesInv'
        BY <1>1, <3>8 DEF ReadsInv, HandlesInv, Stop
      <4>2. Range(<<a, r>>) = {a, r}
        BY DEF Range
      <4>3. \/ "impossible" \in Range(reads'[Header])
            \/ Cardinality(Range(reads'[Header])) = 2 /\ "others" \notin Range(reads'[Header])
        BY <3>0, <3>1, <3>3, <3>6, <3>8, <4>2, TwoResults
      <4>4. BlameInv'
        BY <1>1, <3>8, <4>3 DEF BlameInv, BlameIsTrue, Stop
      <4> QED
        BY <3>3, <3>8, <4>1, <4>4 DEF Stop
    <3>9. CASE fault = None /\ stage' = "tables" /\ UseOf(Header) /\ UNCHANGED blame
      <4>1. a = r /\ r \in {"right", "wrong"}
        BY <3>1, <3>5, <3>9 DEF Results
      <4>2. used' = {Header} /\ stage' = "tables"
        BY <1>1, <3>9 DEF UseOf
      <4>3. Sound(Header)'
        BY <3>3, <4>1 DEF Sound, Verified
      <4>4. ReadsInv' /\ HandlesInv'
        BY <1>1, <3>3, <4>2, <4>3 DEF ReadsInv, HandlesInv, Parts
      <4>5. BlameInv'
        BY <1>1, <3>9 DEF BlameInv, BlameIsTrue, None
      <4> QED
        BY <3>3, <4>2, <4>4, <4>5
    <3> QED
      BY <2>2, <3>4, <3>7, <3>8, <3>9 DEF Stop, None
  <2> QED
    <3>1. \/ (Stop("unreadable") \/ (~SameFile(path) /\ Stop("replaced"))) /\ UNCHANGED <<reads, used>>
          \/ SameFile(path) /\ \E r \in Sequential(path) :
               /\ Saw(Header, <<r>>)
               /\ LET fault == HeaderFault(reads[Header][1], r) IN
                  \/ fault # None /\ Stop(fault) /\ UNCHANGED used
                  \/ fault = None /\ r # "right" /\ Stop("invalid") /\ UNCHANGED used
                  \/ fault = None /\ stage' = "tables" /\ UseOf(Header) /\ UNCHANGED blame
      BY <1>5 DEF VerifyHeader
    <3>2. CASE SameFile(path) /\ \E r \in Sequential(path) :
                 /\ Saw(Header, <<r>>)
                 /\ LET fault == HeaderFault(reads[Header][1], r) IN
                    \/ fault # None /\ Stop(fault) /\ UNCHANGED used
                    \/ fault = None /\ r # "right" /\ Stop("invalid") /\ UNCHANGED used
                    \/ fault = None /\ stage' = "tables" /\ UseOf(Header) /\ UNCHANGED blame
      BY <2>2, <3>2
    <3>3. CASE (Stop("unreadable") \/ (~SameFile(path) /\ Stop("replaced"))) /\ UNCHANGED <<reads, used>>
      BY <2>1, <3>3 DEF Stop
    <3> QED
      BY <3>1, <3>2, <3>3
<1> QED
  BY <1>4, <1>5

\* A handle is opened for the second reads, or the conversion ends without having read.
LEMMA OpenCheckCases ==
  ASSUME TypeOK, NEW x \in Worker \cup {"tables"}, OpenCheck(x), blame = None
  PROVE  \/ /\ stage' = "failed" /\ UNCHANGED check
            /\ blame' = "unreadable" \/ (blame' = "replaced" /\ path = "other")
         \/ /\ blame' = None
            /\ check' = [check EXCEPT ![x] = IF verifyReads THEN "orig" ELSE None]
BY DEF OpenCheck, SameFile, Stop, TypeOK, ReaderTypeOK, File

LEMMA WorkersFile == TypeOK => WorkerFile = "orig"
BY DEF TypeOK, ReaderTypeOK, File, WorkerFile, SameFile

\* Without anything new read or used.
LEMMA NothingRead ==
  ASSUME ReadsOK, ReadsInv, UNCHANGED <<verifyReads, mode, reads, used>>,
         \/ stage' = "failed"
         \/ stage \in {"tables", "symbols"} /\ stage' \in {"tables", "symbols"}
         \/ stage = "symbols" /\ stage' = "decoding" /\ Tables \subseteq used
         \/ stage' = stage
  PROVE  ReadsOK' /\ ReadsInv'
<1>1. ReadsOK'
  BY DEF ReadsOK
<1>2. \A p \in used' : Sound(p)'
  BY DEF ReadsInv, Sound, Verified
<1> QED
  BY <1>1, <1>2 DEF ReadsInv

LEMMA ReaderStepKeeps ==
  ASSUME TypeOK, ReaderInv, UNCHANGED mode, ReaderStep
  PROVE  ReaderInv'
<1>0. /\ ReadsOK /\ HandlesInv /\ ReadsInv /\ BlameInv /\ BlameIsTrue
      /\ path \in File
      /\ handle \in [Worker -> File \cup {None}]
      /\ check \in [Worker \cup {"tables"} -> File \cup {None}]
  BY DEF ReaderInv, BlameInv, TypeOK, ReaderTypeOK
<1>1. CASE Replaced
  <2>1. ReadsOK' /\ ReadsInv'
    BY <1>0, <1>1, NothingRead DEF Replaced
  <2>2. HandlesInv'
    BY <1>0, <1>1 DEF Replaced, HandlesInv
  <2>3. BlameInv'
    BY <1>0, <1>1, BlameStays DEF Replaced, BlameInv
  <2> QED
    BY <2>1, <2>2, <2>3 DEF ReaderInv
<1>2. CASE ReadHeader \/ VerifyHeader
  BY <1>2, HeaderStep
<1>3. CASE OpenTables
  <2>1. /\ stage = "tables" /\ blame = None /\ OpenCheck("tables")
        /\ stage' = IF blame' = None THEN "symbols" ELSE "failed"
        /\ UNCHANGED <<verifyReads, path, reads, handle, used>>
    BY <1>0, <1>3 DEF OpenTables, BlameInv
  <2>2. ReadsOK' /\ ReadsInv'
    BY <1>0, <2>1, NothingRead
  <2>3. CASE /\ stage' = "failed" /\ UNCHANGED check
             /\ blame' = "unreadable" \/ (blame' = "replaced" /\ path = "other")
    <3>1. HandlesInv'
      BY <1>0, <2>1, <2>3 DEF HandlesInv
    <3>2. BlameInv'
      BY <2>1, <2>3 DEF BlameInv, BlameIsTrue
    <3> QED
      BY <2>2, <3>1, <3>2 DEF ReaderInv
  <2>4. CASE /\ blame' = None
             /\ check' = [check EXCEPT !["tables"] = IF verifyReads THEN "orig" ELSE None]
    <3>1. stage' = "symbols"
      BY <2>1, <2>4
    <3>2. \A x \in Worker \cup {"tables"} : check'[x] \in {None, "orig"}
      BY <1>0, <2>4 DEF HandlesInv
    <3>3. verifyReads => check'["tables"] = "orig"
      BY <1>0, <2>4
    <3>4. HandlesInv'
      BY <1>0, <2>1, <3>1, <3>2, <3>3 DEF HandlesInv
    <3>5. BlameInv'
      BY <2>4 DEF BlameInv, BlameIsTrue, None
    <3> QED
      BY <2>2, <3>4, <3>5 DEF ReaderInv
  <2> QED
    BY <2>1, <2>3, <2>4, OpenCheckCases
<1>4. ASSUME NEW i \in 1 .. NumTables, ReadTable(i) PROVE ReaderInv'
  <2>1. /\ stage = "symbols" /\ i \in Selected /\ <<"table", i>> \notin used
        /\ ReadPart(<<"table", i>>, Sequential("orig"), "tables")
        /\ UNCHANGED <<verifyReads, path, handle, check>>
    BY <1>4 DEF ReadTable
  <2>2. <<"table", i>> \in Tables
    BY <2>1 DEF Tables
  <2>3. verifyReads => check["tables"] = "orig"
    BY <1>0, <2>1 DEF HandlesInv
  <2>4. ReadsOK' /\ ReadsInv' /\ BlameInv' /\ stage' \in {stage, "failed"}
    BY <1>0, <2>1, <2>2, <2>3, PartStep, OutcomesOfOrig
  <2>5. HandlesInv'
    BY <1>0, <2>1, <2>4 DEF HandlesInv
  <2> QED
    BY <2>4, <2>5 DEF ReaderInv
<1>5. CASE CheckRecordArea
  <2>1. /\ stage = "symbols" /\ Tables \subseteq used /\ blame = None
        /\ UNCHANGED <<verifyReads, path, reads, handle, check, used>>
        /\ \/ stage' = "decoding" /\ UNCHANGED blame
           \/ stage' = "failed" /\ blame' = "invalid"
    BY <1>0, <1>5 DEF CheckRecordArea, BlameInv, Stop
  <2>2. ReadsOK' /\ ReadsInv'
    BY <1>0, <2>1, NothingRead
  <2>3. BlameInv'
    BY <2>1 DEF BlameInv, BlameIsTrue, None
  <2>4. \A w \in Worker : handle[w] = None
    BY <1>0, <2>1 DEF HandlesInv
  <2>5. HandlesInv'
    BY <1>0, <2>1, <2>4 DEF HandlesInv
  <2> QED
    BY <2>2, <2>3, <2>5 DEF ReaderInv
<1>6. ASSUME NEW w \in Worker, NewWorker(w) PROVE ReaderInv'
  <2>1. /\ stage = "decoding" /\ blame = None /\ handle[w] = None /\ OpenCheck(w)
        /\ handle' = [handle EXCEPT ![w] = "orig"]
        /\ stage' = IF blame' = None THEN stage ELSE "failed"
        /\ UNCHANGED <<verifyReads, path, reads, used>>
    BY <1>0, <1>6, WorkersFile DEF NewWorker, BlameInv
  <2>2. ReadsOK' /\ ReadsInv'
    BY <1>0, <2>1, NothingRead
  <2>3. \A v \in Worker : handle'[v] = IF v = w THEN "orig" ELSE handle[v]
    BY <1>0, <2>1
  <2>4. CASE /\ stage' = "failed" /\ UNCHANGED check
             /\ blame' = "unreadable" \/ (blame' = "replaced" /\ path = "other")
    <3>1. HandlesInv'
      BY <1>0, <2>1, <2>3, <2>4 DEF HandlesInv
    <3>2. BlameInv'
      BY <2>1, <2>4 DEF BlameInv, BlameIsTrue
    <3> QED
      BY <2>2, <3>1, <3>2 DEF ReaderInv
  <2>5. CASE /\ blame' = None
             /\ check' = [check EXCEPT ![w] = IF verifyReads THEN "orig" ELSE None]
    <3>1. stage' = "decoding"
      BY <2>1, <2>5
    <3>2. \A x \in Worker \cup {"tables"} :
            check'[x] = IF x = w THEN IF verifyReads THEN "orig" ELSE None ELSE check[x]
      BY <1>0, <2>5
    <3>3. HandlesInv'
      BY <1>0, <2>1, <2>3, <3>1, <3>2 DEF HandlesInv
    <3>4. BlameInv'
      BY <2>5 DEF BlameInv, BlameIsTrue, None
    <3> QED
      BY <2>2, <3>3, <3>4 DEF ReaderInv
  <2> QED
    BY <2>1, <2>4, <2>5, OpenCheckCases
<1>7. ASSUME NEW w \in Worker, NEW c \in 1 .. NumChunks, DecodeChunk(w, c) PROVE ReaderInv'
  <2>1. /\ stage = "decoding" /\ handle[w] # None /\ <<"chunk", c>> \notin used
        /\ ReadPart(<<"chunk", c>>, Outcomes(handle[w], <<>>), w)
        /\ UNCHANGED <<verifyReads, path, handle, check>>
    BY <1>7 DEF DecodeChunk
  <2>2. <<"chunk", c>> \in Chunks
    BY DEF Chunks
  <2>3. handle[w] = "orig" /\ (verifyReads => check[w] = "orig")
    BY <1>0, <2>1 DEF HandlesInv
  <2>4. Outcomes(handle[w], <<>>) \subseteq Results
    BY <2>3, OutcomesOfOrig DEF Results, Failures
  <2>5. ReadsOK' /\ ReadsInv' /\ BlameInv' /\ stage' \in {stage, "failed"}
    BY <1>0, <2>1, <2>2, <2>3, <2>4, PartStep
  <2>6. HandlesInv'
    BY <1>0, <2>1, <2>5 DEF HandlesInv
  <2> QED
    BY <2>5, <2>6 DEF ReaderInv
<1>8. CASE EndRun
  <2>1. /\ stage = "decoding" /\ stage' = "decoded" /\ Chunks \subseteq used
        /\ handle' = [w \in Worker |-> None]
        /\ check' = [x \in Worker \cup {"tables"} |-> None]
        /\ UNCHANGED <<verifyReads, path, blame, reads, used>>
    BY <1>8 DEF EndRun
  <2>2. Parts \subseteq used
    BY <1>0, <2>1 DEF ReadsInv, Parts
  <2>3. ReadsOK' /\ \A p \in used' : Sound(p)'
    BY <1>0, <2>1 DEF ReadsOK, ReadsInv, Sound, Verified
  <2>4. ReadsInv'
    BY <1>0, <2>1, <2>2, <2>3 DEF ReadsInv
  <2>5. HandlesInv'
    BY <2>1 DEF HandlesInv
  <2>6. BlameInv'
    BY <1>0, <2>1, BlameStays DEF BlameInv
  <2> QED
    BY <2>3, <2>4, <2>5, <2>6 DEF ReaderInv
<1> QED
  BY <1>1, <1>2, <1>3, <1>4, <1>5, <1>6, <1>7, <1>8 DEF ReaderStep

\* The types.
Stages == {"header", "tables", "symbols", "decoding", "decoded", "checking",
           "checked", "committed", "failed", "canceled"}
Blames == {None, "unreadable", "misread", "replaced", "invalid"}

LEMMA ReadPartTypes ==
  ASSUME NEW p, NEW firsts, NEW x, ReadPart(p, firsts, x), stage \in Stages, blame \in Blames
  PROVE  stage' \in Stages /\ blame' \in Blames
<1>1. \A r1, r2 : Fault(r1, r2) \in Blames
  BY DEF Fault, Blames
<1>2. ASSUME NEW fault \in Blames, Stop(fault) PROVE stage' \in Stages /\ blame' \in Blames
  BY <1>2 DEF Stop, Stages
<1>3. "invalid" \in Blames
  BY DEF Blames
<1>4. \/ \E r1, r2 : Stop(Fault(r1, r2))
      \/ UNCHANGED <<blame, stage>>
      \/ Stop("invalid")
  BY DEF ReadPart
<1>5. CASE \E r1, r2 : Stop(Fault(r1, r2))
  BY <1>1, <1>2, <1>5
<1> QED
  BY <1>2, <1>3, <1>4, <1>5

LEMMA ReaderTypes ==
  ASSUME TypeOK, ReaderInv, UNCHANGED mode, ReaderStep
  PROVE  ReaderTypeOK' /\ stage' \in Stages
<1>1. ReadsOK' /\ used' \subseteq Parts
  BY ReaderStepKeeps DEF ReaderInv, ReadsInv
<1>2. \A p \in Parts : /\ Len(reads'[p]) <= 2
                       /\ \A i \in DOMAIN reads'[p] :
                            reads'[p][i] \in {"right", "wrong", "wrong2", "others"} \cup Failures
  <2> SUFFICES ASSUME NEW p \in Parts
               PROVE  /\ Len(reads'[p]) <= 2
                      /\ \A i \in DOMAIN reads'[p] :
                           reads'[p][i] \in {"right", "wrong", "wrong2", "others"} \cup Failures
    OBVIOUS
  <2>1. reads'[p] \in Seq(Results) /\ Len(reads'[p]) <= 2
    BY <1>1 DEF ReadsOK
  <2>2. \A i \in DOMAIN reads'[p] : reads'[p][i] \in Results
    BY <2>1
  <2> QED
    BY <2>1, <2>2 DEF Results
<1>3. /\ verifyReads \in BOOLEAN /\ path \in File /\ blame \in Blames /\ stage \in Stages
      /\ handle \in [Worker -> File \cup {None}]
      /\ check \in [Worker \cup {"tables"} -> File \cup {None}]
  BY DEF TypeOK, ReaderTypeOK, Stages, Blames
<1>4. /\ verifyReads' = verifyReads /\ path' \in File
  BY <1>3 DEF ReaderStep, Replaced, ReadHeader, VerifyHeader, OpenTables, ReadTable, CheckRecordArea,
              NewWorker, DecodeChunk, EndRun, File
<1>5. ASSUME NEW x \in Worker \cup {"tables"}, OpenCheck(x)
      PROVE  blame' \in Blames /\ check' \in [Worker \cup {"tables"} -> File \cup {None}]
  <2>1. CASE Stop("unreadable") /\ UNCHANGED check
    BY <1>3, <2>1 DEF Stop, Blames
  <2>2. CASE Stop("replaced") /\ UNCHANGED check
    BY <1>3, <2>2 DEF Stop, Blames
  <2>3. CASE UNCHANGED blame /\ \E f \in File \cup {None} : check' = [check EXCEPT ![x] = f]
    BY <1>3, <2>3
  <2> QED
    BY <1>3, <1>5, <2>1, <2>2, <2>3 DEF OpenCheck
<1>6. /\ blame' \in Blames /\ stage' \in Stages
      /\ handle' \in [Worker -> File \cup {None}]
      /\ check' \in [Worker \cup {"tables"} -> File \cup {None}]
  <2>1. CASE Replaced \/ ReadHeader \/ CheckRecordArea
    BY <1>3, <2>1 DEF Replaced, ReadHeader, CheckRecordArea, Stop, Stages, Blames
  <2>2. CASE VerifyHeader
    <3>1. \A r1, r2 : HeaderFault(r1, r2) \in Blames
      BY DEF HeaderFault, Blames
    <3>2. /\ UNCHANGED <<handle, check>>
          /\ \/ \E fault \in Blames : Stop(fault)
             \/ stage' = "tables" /\ UNCHANGED blame
      BY <2>2, <3>1 DEF VerifyHeader, Blames
    <3> QED
      BY <1>3, <3>2 DEF Stop, Stages
  <2>3. CASE OpenTables
    BY <1>3, <1>5, <2>3 DEF OpenTables, Stages
  <2>4. ASSUME NEW i \in 1 .. NumTables, ReadTable(i)
        PROVE  /\ blame' \in Blames /\ stage' \in Stages /\ UNCHANGED <<handle, check>>
    BY <1>3, <2>4, ReadPartTypes DEF ReadTable
  <2>5. ASSUME NEW w \in Worker, NewWorker(w)
        PROVE  /\ blame' \in Blames /\ stage' \in Stages
               /\ handle' \in [Worker -> File \cup {None}]
               /\ check' \in [Worker \cup {"tables"} -> File \cup {None}]
    BY <1>3, <1>5, <2>5, WorkersFile DEF NewWorker, Stages, File
  <2>6. ASSUME NEW w \in Worker, NEW c \in 1 .. NumChunks, DecodeChunk(w, c)
        PROVE  /\ blame' \in Blames /\ stage' \in Stages /\ UNCHANGED <<handle, check>>
    BY <1>3, <2>6, ReadPartTypes DEF DecodeChunk
  <2>7. CASE EndRun
    BY <1>3, <2>7 DEF EndRun, Stages
  <2> QED
    BY <1>3, <2>1, <2>2, <2>3, <2>4, <2>5, <2>6, <2>7 DEF ReaderStep
<1> QED
  BY <1>1, <1>2, <1>3, <1>4, <1>6 DEF ReaderTypeOK, Blames

LEMMA GateTypes ==
  ASSUME GateTypeOK, GateStep
  PROVE  GateTypeOK'
<1> USE DEF GateTypeOK, Goroutines
<1>1. ASSUME NEW pq, Judge(pq), gate # "over", UNCHANGED <<span, partial, ended>> PROVE GateTypeOK'
  BY <1>1 DEF Judge, Conclude
<1>2. CASE StartGate
  <2>1. CASE Conclude("failed", {"open"}) /\ UNCHANGED <<span, partial, ended>>
    BY <2>1 DEF Conclude
  <2>2. CASE Judge(NoMetrics) /\ UNCHANGED <<span, partial, ended>>
    BY <1>1, <1>2, <2>2 DEF StartGate
  <2>3. CASE /\ gate' = "reading"
             /\ partial' = [i \in DOMAIN span' |-> NoMetrics]
             /\ ended' = [i \in DOMAIN span' |-> "no"]
             /\ UNCHANGED <<verdict, why>>
    BY <1>2, <2>3 DEF StartGate
  <2> QED
    BY <1>2, <2>1, <2>2, <2>3 DEF StartGate
<1>3. ASSUME NEW i \in Goroutines, ReadBatch(i) PROVE GateTypeOK'
  <2>1. /\ DOMAIN span' = DOMAIN span /\ DOMAIN partial' = DOMAIN partial
        /\ UNCHANGED <<gate, verdict>>
    BY <1>3 DEF ReadBatch
  <2>2. ended' = ended \/ \E how \in {"eof", "read", "canceled"} : ended' = [ended EXCEPT ![i] = how]
    BY <1>3 DEF ReadBatch
  <2>3. DOMAIN ended' = DOMAIN ended /\ \A j \in DOMAIN ended' : ended'[j] \in {"no", "eof", "read", "canceled"}
    BY <2>2
  <2> QED
    BY <2>1, <2>3
<1>4. CASE EndGate
  <2>1. gate = "reading" /\ UNCHANGED <<span, partial, ended>>
    BY <1>4 DEF EndGate
  <2>2. \/ Judge(MergeAll(partial))
        \/ \E result \in {"failed", "canceled"} : \E reasons : Conclude(result, reasons)
    BY <1>4 DEF EndGate
  <2> QED
    BY <1>1, <2>1, <2>2 DEF Conclude
<1> QED
  BY <1>2, <1>3, <1>4 DEF GateStep

-----------------------------------------------------------------------------
(* The whole conversion.                                                   *)

\* Away from the reader, what was read and used stays, and the conversion gets past the
\* rows decoded only with all of them.
LEMMA GiveUpKeeps ==
  ASSUME ReadsOK, HandlesInv, ReadsInv, BlameInv, NEW how, GiveUp(how), UNCHANGED mode,
         stage \in {"decoding", "decoded", "checking", "checked"},
         \/ how \in {"failed", "canceled"}
         \/ stage # "decoding" /\ how \in {"checking", "checked", "committed"}
  PROVE  ReaderInv'
<1>1. stage' = how /\ UNCHANGED <<verifyReads, path, blame, reads, handle, check, used>>
  BY DEF GiveUp
<1>2. blame = None
  BY DEF BlameInv
<1>3. ReadsOK' /\ \A p \in used' : Sound(p)'
  BY <1>1 DEF ReadsOK, ReadsInv, Sound, Verified
<1>4. ReadsInv'
  BY <1>1, <1>3 DEF ReadsInv
<1>5. HandlesInv'
  BY <1>1 DEF HandlesInv
<1>6. BlameInv'
  BY <1>1, <1>2 DEF BlameInv, BlameIsTrue, None
<1> QED
  BY <1>3, <1>4, <1>5, <1>6 DEF ReaderInv

LEMMA InitIInv == Init => IInv
<1> SUFFICES ASSUME Init PROVE IInv
  OBVIOUS
<1>1. PICK c \in Contents, m \in Range(Modes) :
        /\ content = c.rows /\ strategy = c.strategy /\ mode = m /\ canceled = FALSE
        /\ ReaderInit(m = "reread") /\ GateInit
  BY DEF Init
<1>2. strategy \in Strategies
  BY <1>1, IntegrityAssumption
<1>3. /\ verifyReads = (mode = "reread") /\ verifyReads \in BOOLEAN /\ path = "orig"
      /\ stage = "header" /\ blame = None
      /\ reads = [p \in Parts |-> <<>>] /\ handle = [w \in Worker |-> None]
      /\ check = [x \in Worker \cup {"tables"} |-> None] /\ used = {}
  BY <1>1 DEF ReaderInit
<1>4. GateTypeOK
  BY <1>1 DEF GateInit, GateTypeOK, Goroutines
<1>5. ReadsOK
  BY <1>3 DEF ReadsOK
<1>6. ReaderTypeOK
  BY <1>3 DEF ReaderTypeOK, File
<1>7. HandlesInv /\ BlameInv /\ PassedInv
  BY <1>3 DEF HandlesInv, BlameInv, BlameIsTrue, PassedInv, None
<1>8. ReadsInv
  BY <1>3, PartsTyped DEF ReadsInv
<1> QED
  BY <1>1, <1>2, <1>3, <1>4, <1>5, <1>6, <1>7, <1>8 DEF IInv, TypeOK

\* The types and the reader's part, where the reader has nothing to do.
LEMMA OtherTypes ==
  ASSUME TypeOK, GateTypeOK', stage' \in Stages, canceled' \in BOOLEAN,
         UNCHANGED <<verifyReads, path, blame, reads, handle, check, used, mode, strategy>>
  PROVE  TypeOK'
<1>1. ReaderTypeOK'
  BY DEF TypeOK, ReaderTypeOK
<1> QED
  BY <1>1 DEF TypeOK, Stages

LEMMA ReaderStays ==
  ASSUME ReaderInv, UNCHANGED readerVars, UNCHANGED mode
  PROVE  ReaderInv'
<1> USE DEF readerVars
<1>1. ReadsOK' /\ HandlesInv' /\ \A p \in used' : Sound(p)'
  BY DEF ReaderInv, ReadsOK, HandlesInv, ReadsInv, Sound, Verified
<1>2. ReadsInv'
  BY <1>1 DEF ReaderInv, ReadsInv
<1>3. BlameInv'
  BY BlameStays DEF ReaderInv, BlameInv
<1> QED
  BY <1>1, <1>2, <1>3 DEF ReaderInv

\* A step by which the conversion ends, or goes on to its next stage.
LEMMA GiveUpStep ==
  ASSUME IInv, NEW how \in Stages, GiveUp(how), UNCHANGED <<mode, strategy, canceled, gateVars>>,
         stage \in {"decoding", "decoded", "checking", "checked"},
         \/ how \in {"failed", "canceled"}
         \/ stage = "decoded" /\ how = IF mode = "none" THEN "checked" ELSE "checking"
         \/ stage = "checking" /\ verdict = "passed" /\ how = "checked"
         \/ stage = "checked" /\ how = "committed"
  PROVE  IInv'
<1>1. ReaderInv'
  BY GiveUpKeeps DEF IInv
<1>2. GateTypeOK' /\ stage' = how
  BY DEF IInv, TypeOK, GateTypeOK, Goroutines, gateVars, GiveUp
<1>3. TypeOK'
  BY <1>2, OtherTypes DEF IInv, TypeOK, GiveUp
<1>4. PassedInv'
  BY <1>2 DEF IInv, PassedInv, gateVars
<1> QED
  BY <1>1, <1>3, <1>4 DEF IInv, ReaderInv

\* The reader leaves the rows decoded at the most.
LEMMA ReaderStage ==
  ASSUME TypeOK, ReaderInv, UNCHANGED mode, ReaderStep
  PROVE  stage' \notin {"checking", "checked", "committed"}
<1>1. CASE ReadHeader \/ VerifyHeader
  <2>1. stage = "header"
    BY <1>1 DEF ReadHeader, VerifyHeader
  <2> QED
    BY <1>1, <2>1, HeaderStep
<1>2. CASE stage \in {"header", "tables", "symbols", "decoding"} /\ Replaced
  BY <1>2 DEF Replaced
<1>3. CASE OpenTables \/ CheckRecordArea \/ EndRun
  BY <1>3 DEF OpenTables, CheckRecordArea, EndRun, Stop
<1>4. ASSUME NEW p, NEW firsts, NEW x, ReadPart(p, firsts, x), stage \in {"symbols", "decoding"}
      PROVE  stage' \notin {"checking", "checked", "committed"}
  BY <1>4 DEF ReadPart, Stop
<1>5. ASSUME NEW i \in 1 .. NumTables, ReadTable(i)
      PROVE  stage' \notin {"checking", "checked", "committed"}
  BY <1>4, <1>5 DEF ReadTable
<1>6. ASSUME NEW w \in Worker, NEW c \in 1 .. NumChunks, DecodeChunk(w, c)
      PROVE  stage' \notin {"checking", "checked", "committed"}
  BY <1>4, <1>6 DEF DecodeChunk
<1>7. ASSUME NEW w \in Worker, NewWorker(w)
      PROVE  stage' \notin {"checking", "checked", "committed"}
  BY <1>7 DEF NewWorker
<1> QED
  BY <1>1, <1>2, <1>3, <1>5, <1>6, <1>7 DEF ReaderStep

LEMMA StepIInv == IInv /\ [Next]_vars => IInv'
<1> SUFFICES ASSUME IInv, [Next]_vars PROVE IInv'
  OBVIOUS
<1>0. TypeOK /\ ReaderInv /\ PassedInv /\ GateTypeOK
  BY DEF IInv, ReaderInv, TypeOK
<1>1. CASE Reading
  <2>1. UNCHANGED <<mode, strategy, canceled, gateVars>> /\ ReaderStep
    BY <1>1 DEF Reading, inputVars
  <2>2. ReaderInv' /\ ReaderTypeOK' /\ stage' \in Stages
    BY <1>0, <2>1, ReaderStepKeeps, ReaderTypes
  <2>3. GateTypeOK'
    BY <1>0, <2>1 DEF GateTypeOK, Goroutines, gateVars
  <2>4. stage' \notin {"checking", "checked", "committed"}
    BY <1>0, <2>1, ReaderStage
  <2>5. TypeOK'
    BY <1>0, <2>1, <2>2, <2>3 DEF TypeOK, Stages
  <2> QED
    BY <2>2, <2>4, <2>5 DEF IInv, ReaderInv, PassedInv
<1>2. CASE Cancel
  <2>1. UNCHANGED <<readerVars, mode, strategy, gateVars>> /\ canceled' = TRUE
    BY <1>2 DEF Cancel, inputVars
  <2>2. ReaderInv'
    BY <1>0, <2>1, ReaderStays
  <2>3. GateTypeOK' /\ PassedInv'
    BY <1>0, <2>1 DEF GateTypeOK, Goroutines, gateVars, PassedInv, readerVars
  <2>4. TypeOK'
    BY <1>0, <2>1, <2>3, OtherTypes DEF TypeOK, Stages, readerVars
  <2> QED
    BY <2>2, <2>3, <2>4 DEF IInv, ReaderInv
<1>3. CASE CancelRun
  <2>1. stage \in {"decoding", "decoded"} /\ GiveUp("canceled") /\ UNCHANGED <<mode, strategy, canceled, gateVars>>
    BY <1>3 DEF CancelRun, inputVars
  <2> QED
    BY <2>1, GiveUpStep DEF Stages
<1>4. CASE CloseWriter
  <2>1. /\ stage = "decoded" /\ UNCHANGED <<mode, strategy, canceled, gateVars>>
        /\ GiveUp(IF mode = "none" THEN "checked" ELSE "checking") \/ GiveUp("failed")
    BY <1>4 DEF CloseWriter
  <2>2. (IF mode = "none" THEN "checked" ELSE "checking") \in Stages /\ "failed" \in Stages
    BY DEF Stages
  <2>3. CASE GiveUp("failed")
    BY <2>1, <2>2, <2>3, GiveUpStep
  <2>4. CASE GiveUp(IF mode = "none" THEN "checked" ELSE "checking")
    BY <2>1, <2>2, <2>4, GiveUpStep
  <2> QED
    BY <2>1, <2>3, <2>4
<1>5. CASE Gate
  <2>1. stage = "checking" /\ GateStep /\ UNCHANGED readerVars
    BY <1>5 DEF Gate
  <2>2. UNCHANGED <<mode, strategy, canceled>>
    BY <2>1 DEF GateStep, StartGate, ReadBatch, EndGate, inputVars
  <2>3. GateTypeOK' /\ ReaderInv'
    BY <1>0, <2>1, <2>2, GateTypes, ReaderStays
  <2>4. TypeOK'
    BY <1>0, <2>1, <2>2, <2>3, OtherTypes DEF TypeOK, Stages, readerVars
  <2>5. PassedInv'
    BY <1>0, <2>1, <2>2 DEF PassedInv, readerVars
  <2> QED
    BY <2>3, <2>4, <2>5 DEF IInv, ReaderInv
<1>6. CASE Report
  <2>1. /\ stage = "checking" /\ UNCHANGED <<mode, strategy, canceled, gateVars>>
        /\ \/ verdict = "passed" /\ GiveUp("checked")
           \/ GiveUp("failed")
           \/ GiveUp("canceled")
    BY <1>6 DEF Report, inputVars
  <2>2. {"checked", "failed", "canceled"} \subseteq Stages
    BY DEF Stages
  <2>3. CASE verdict = "passed" /\ GiveUp("checked")
    BY <2>1, <2>2, <2>3, GiveUpStep
  <2>4. CASE GiveUp("failed")
    BY <2>1, <2>2, <2>4, GiveUpStep
  <2>5. CASE GiveUp("canceled")
    BY <2>1, <2>2, <2>5, GiveUpStep
  <2> QED
    BY <2>1, <2>3, <2>4, <2>5
<1>7. CASE Commit
  <2>1. /\ stage = "checked" /\ UNCHANGED <<mode, strategy, canceled, gateVars>>
        /\ GiveUp("canceled") \/ GiveUp("committed")
    BY <1>7 DEF Commit, inputVars
  <2>2. {"canceled", "committed"} \subseteq Stages
    BY DEF Stages
  <2>3. CASE GiveUp("canceled")
    BY <2>1, <2>2, <2>3, GiveUpStep
  <2>4. CASE GiveUp("committed")
    BY <2>1, <2>2, <2>4, GiveUpStep
  <2> QED
    BY <2>1, <2>3, <2>4
<1>8. CASE UNCHANGED vars
  <2>1. UNCHANGED <<readerVars, mode, strategy, canceled, gateVars>>
    BY <1>8 DEF vars, inputVars
  <2>2. ReaderInv'
    BY <1>0, <2>1, ReaderStays
  <2>3. GateTypeOK' /\ PassedInv'
    BY <1>0, <2>1 DEF GateTypeOK, Goroutines, gateVars, PassedInv, readerVars
  <2>4. TypeOK'
    BY <1>0, <2>1, <2>3, OtherTypes DEF TypeOK, Stages, readerVars
  <2> QED
    BY <2>2, <2>3, <2>4 DEF IInv, ReaderInv
<1> QED
  BY <1>1, <1>2, <1>3, <1>4, <1>5, <1>6, <1>7, <1>8 DEF Next

\* The inductive invariant holds of every conversion: the handles are on the file that
\* was opened, what is used was read as the mode asks, all of it is used before the rows
\* count as decoded, and nothing passes the gate unpassed.
THEOREM Invariant == Spec => []IInv
<1> QED
  BY InitIInv, StepIInv, PTL DEF Spec

\* Every variable keeps its type, with any number of parts, workers and misreads.
THEOREM TypeCorrect == Spec => []TypeOK
<1>1. IInv => TypeOK
  BY DEF IInv
<1> QED
  BY <1>1, Invariant, PTL

\* An error that blames the reading has two readings of one file that differ, or a count
\* that cannot be, to show for it; one that says the input was replaced is right. This
\* is what verifyChunk, ReadSymbols and readHeaderVerified compare before they say so.
THEOREM BlameAlwaysTrue == Spec => []BlameIsTrue
<1>1. IInv => BlameIsTrue
  BY DEF IInv, BlameInv
<1> QED
  BY <1>1, Invariant, PTL

\* Nothing is ever built on bytes of another file than the one whose header was read,
\* whatever takes its path meanwhile: sameOpenFile asks of every handle but the first.
NothingOfAnother == \A p \in used : "others" \notin Range(reads[p])

LEMMA SoundIsOurs ==
  ASSUME IInv, NEW p \in used
  PROVE  "others" \notin Range(reads[p])
<1>1. Sound(p)
  BY DEF IInv, ReadsInv
<1>2. PICK r \in {"right", "wrong"} : reads[p] = <<r, r>> \/ reads[p] = <<r>>
  BY <1>1 DEF Sound
<1>3. Range(<<r, r>>) = {r} /\ Range(<<r>>) = {r}
  BY DEF Range
<1> QED
  BY <1>2, <1>3

THEOREM OneFile == Spec => []NothingOfAnother
<1>1. IInv => NothingOfAnother
  BY SoundIsOurs DEF NothingOfAnother
<1> QED
  BY <1>1, Invariant, PTL

\* A conversion in the mode "reread" gives the output its name only after it has read
\* every part twice, and the same both times, and the gate has passed the output.
ReadTwice ==
  stage = "committed" /\ mode = "reread" =>
    /\ verdict = "passed"
    /\ \A p \in Parts : \E r \in {"right", "wrong"} : reads[p] = <<r, r>>

LEMMA CommittedWasRead == IInv => ReadTwice
<1> SUFFICES ASSUME IInv, stage = "committed", mode = "reread"
             PROVE  /\ verdict = "passed"
                    /\ \A p \in Parts : \E r \in {"right", "wrong"} : reads[p] = <<r, r>>
  BY DEF ReadTwice
<1>1. verdict = "passed"
  BY DEF IInv, PassedInv
<1>2. verifyReads /\ Parts \subseteq used
  BY DEF IInv, ReadsInv
<1>3. \A p \in Parts : Sound(p)
  BY <1>2 DEF IInv, ReadsInv
<1> QED
  BY <1>1, <1>2, <1>3 DEF Sound, Verified

THEOREM CommittedReadTwice == Spec => []ReadTwice
<1> QED
  BY CommittedWasRead, Invariant, PTL

\* The rows are the file's own unless a part of it read wrong.
LEMMA RowsDecoded ==
  ASSUME \A p \in Parts : reads[p] = <<"right", "right">>
  PROVE  Decoded = content
<1>1. \A p \in Parts : Head(reads[p]) = "right"
  OBVIOUS
<1> QED
  BY <1>1 DEF Decoded

LEMMA RereadIsFull == AtLeast("reread", "full")
BY DEF AtLeast, Modes

-----------------------------------------------------------------------------
\* What the metrics count.

-----------------------------------------------------------------------------
(* Induction. A set of numbers that holds 0, and with each number the next, holds all:  *)
(* the least number outside it could have no predecessor.                               *)

LEMMA LeastNumber ==
  ASSUME NEW S \in SUBSET Nat, S # {}
  PROVE  \E x \in S : \A y \in S : x <= y
<1> DEFINE R == OpToRel(<, Nat)
<1>1. IsWellFoundedOn(R, Nat)
  BY NatLessThanWellFounded
<1>2. \A x, y \in S : y < x => <<y, x>> \in R
  BY DEF OpToRel
<1>3. PICK x \in S : \A y \in S : ~(<<y, x>> \in R)
  <2> HIDE DEF R
  <2> QED
    BY <1>1, WFMin
<1>4. \A y \in S : ~(y < x)
  BY <1>2, <1>3
<1> QED
  BY <1>4

LEMMA AllNumbers ==
  ASSUME NEW S, 0 \in S, \A n \in Nat : n \in S => n + 1 \in S
  PROVE  Nat \subseteq S
<1>1. SUFFICES ASSUME Nat \ S # {} PROVE FALSE
  OBVIOUS
<1>2. PICK x \in Nat \ S : \A y \in Nat \ S : x <= y
  <2>1. Nat \ S \in SUBSET Nat
    OBVIOUS
  <2> QED
    BY <1>1, <2>1, LeastNumber
<1>3. x - 1 \in Nat /\ x - 1 < x /\ (x - 1) + 1 = x
  BY <1>2
<1>4. x - 1 \notin S
  BY <1>2, <1>3
<1> QED
  BY <1>2, <1>3, <1>4

-----------------------------------------------------------------------------
(* What a column adds up to. A weight gives each value a number; Total is what the rows  *)
(* at the places I weigh together. It counts pairs, so that it needs no recursion and no *)
(* order: the rows are counted by the weight that is 1 of everything, the nulls by one   *)
(* that is 1 of Null, and a sum by the numbers themselves.                               *)

Weight == [Value -> Nat]
Units(w, s, I) == {p \in I \X Nat : 1 <= p[2] /\ p[2] <= w[s[p[1]]]}
Total(w, s, I) == Cardinality(Units(w, s, I))

LEMMA UnitsOne ==
  ASSUME NEW w \in Weight, NEW S, NEW s \in Seq(Value), NEW i \in DOMAIN s
  PROVE  IsFiniteSet(Units(w, s, {i})) /\ Total(w, s, {i}) = w[s[i]]
<1> DEFINE n == w[s[i]]
           f == [k \in 1 .. n |-> <<i, k>>]
           U == Units(w, s, {i})
<1>1. s[i] \in Value /\ n \in Nat
  BY DEF Weight
<1>2. \A k \in 1 .. n : f[k] \in U
  BY <1>1 DEF Units
<1>3. \A a, b : <<a, b>>[2] = b
  OBVIOUS
<1>4. \A p \in U : p[2] \in 1 .. n /\ p = <<i, p[2]>>
  BY <1>1 DEF Units
<1>5. f \in Bijection(1 .. n, U)
  <2>1. f \in [1 .. n -> U]
    BY <1>2
  <2>2. \A k, l \in 1 .. n : f[k] = f[l] => k = l
    BY <1>3
  <2>3. \A p \in U : \E k \in 1 .. n : f[k] = p
    BY <1>4
  <2> HIDE DEF f, U, n
  <2> QED
    BY <2>1, <2>2, <2>3 DEF Bijection, Injection, Surjection, IsInjective
<1>6. IsFiniteSet(1 .. n) /\ Cardinality(1 .. n) = n
  <2> HIDE DEF n
  <2>1. n \in Int /\ 1 \in Int /\ n >= 0
    BY <1>1
  <2>2. IsFiniteSet(1 .. n) /\ Cardinality(1 .. n) = IF 1 > n THEN 0 ELSE n - 1 + 1
    BY <2>1, FS_Interval
  <2> QED
    BY <2>1, <2>2
<1>7. ExistsBijection(1 .. n, U)
  BY <1>5 DEF ExistsBijection
<1> HIDE DEF U, n, f
<1>8. IsFiniteSet(U) /\ Cardinality(U) = n
  BY <1>6, <1>7, FS_Bijection
<1> QED
  BY <1>8 DEF U, n, Total

LEMMA UnitsUnion ==
  ASSUME NEW w, NEW s, NEW I, NEW J, I \cap J = {},
         IsFiniteSet(Units(w, s, I)), IsFiniteSet(Units(w, s, J))
  PROVE  /\ IsFiniteSet(Units(w, s, I \cup J))
         /\ Total(w, s, I \cup J) = Total(w, s, I) + Total(w, s, J)
<1>1. Units(w, s, I \cup J) = Units(w, s, I) \cup Units(w, s, J)
  BY DEF Units
<1>2. Units(w, s, I) \cap Units(w, s, J) = {}
  BY DEF Units
<1>3. Cardinality({}) = 0
  BY FS_EmptySet
<1>4. Cardinality(Units(w, s, I)) \in Nat /\ Cardinality(Units(w, s, J)) \in Nat
  BY FS_CardinalityType
<1> DEFINE A == Units(w, s, I)
           B == Units(w, s, J)
<1> HIDE DEF A, B
<1>5. IsFiniteSet(A) /\ IsFiniteSet(B)
  BY DEF A, B
<1>6. /\ IsFiniteSet(A \cup B)
      /\ Cardinality(A \cup B) = Cardinality(A) + Cardinality(B) - Cardinality(A \cap B)
  BY <1>5, FS_Union
<1>7. Cardinality(A \cap B) = 0
  BY <1>2, <1>3 DEF A, B
<1>8. Cardinality(A \cup B) = Cardinality(A) + Cardinality(B)
  BY <1>4, <1>6, <1>7 DEF A, B
<1> QED
  BY <1>1, <1>6, <1>8 DEF Total, A, B

LEMMA UnitsNone ==
  ASSUME NEW w, NEW s
  PROVE  IsFiniteSet(Units(w, s, {})) /\ Total(w, s, {}) = 0
<1>1. Units(w, s, {}) = {}
  BY DEF Units
<1> QED
  BY <1>1, FS_EmptySet DEF Total

\* The places of the first n rows, and so any of them, weigh a number.
LEMMA UnitsFinite ==
  ASSUME NEW w \in Weight, NEW s \in Seq(Value), NEW I \in SUBSET DOMAIN s
  PROVE  IsFiniteSet(Units(w, s, I)) /\ Total(w, s, I) \in Nat
<1> DEFINE Good == {n \in Nat : n <= Len(s) => IsFiniteSet(Units(w, s, 1 .. n))}
<1>1. 0 \in Good
  <2>1. 1 .. 0 = {}
    OBVIOUS
  <2> QED
    BY <2>1, UnitsNone
<1>2. ASSUME NEW n \in Nat, n \in Good PROVE n + 1 \in Good
  <2> SUFFICES ASSUME n + 1 <= Len(s) PROVE IsFiniteSet(Units(w, s, 1 .. n + 1))
    OBVIOUS
  <2>1. IsFiniteSet(Units(w, s, 1 .. n))
    BY <1>2
  <2>2. n + 1 \in DOMAIN s
    OBVIOUS
  <2>3. IsFiniteSet(Units(w, s, {n + 1}))
    BY <2>2, UnitsOne
  <2>4. 1 .. n + 1 = (1 .. n) \cup {n + 1} /\ (1 .. n) \cap {n + 1} = {}
    OBVIOUS
  <2>5. IsFiniteSet(Units(w, s, (1 .. n) \cup {n + 1}))
    BY <2>1, <2>3, <2>4, UnitsUnion
  <2> QED
    BY <2>4, <2>5
<1>3. Nat \subseteq Good
  <2> HIDE DEF Good
  <2> QED
    BY <1>1, <1>2, AllNumbers
<1>4. IsFiniteSet(Units(w, s, DOMAIN s))
  <2>1. Len(s) \in Good /\ DOMAIN s = 1 .. Len(s)
    BY <1>3
  <2> QED
    BY <2>1
<1>5. Units(w, s, I) \subseteq Units(w, s, DOMAIN s)
  BY DEF Units
<1> QED
  BY <1>4, <1>5, FS_Subset, FS_CardinalityType DEF Total

\* Rows in another order weigh the same.
LEMMA UnitsMoved ==
  ASSUME NEW w \in Weight, NEW s, NEW t, NEW I, NEW J, NEW f \in Bijection(I, J),
         \A i \in I : t[f[i]] = s[i], IsFiniteSet(Units(w, s, I))
  PROVE  Total(w, t, J) = Total(w, s, I)
<1> DEFINE U == Units(w, s, I)
           T_ == Units(w, t, J)
           g == [p \in U |-> <<f[p[1]], p[2]>>]
<1>0. \A a, b : <<a, b>>[1] = a /\ <<a, b>>[2] = b
  OBVIOUS
<1>1. /\ f \in [I -> J] /\ \A i, j \in I : f[i] = f[j] => i = j
      /\ \A j \in J : \E i \in I : f[i] = j
  BY DEF Bijection, Injection, Surjection, IsInjective
<1>2. ASSUME NEW p \in U PROVE <<f[p[1]], p[2]>> \in T_
  <2>1. p \in I \X Nat /\ 1 <= p[2] /\ p[2] <= w[s[p[1]]]
    BY DEF Units
  <2>2. f[p[1]] \in J /\ t[f[p[1]]] = s[p[1]] /\ p[2] \in Nat
    BY <1>1, <2>1
  <2> QED
    BY <2>1, <2>2 DEF Units
<1>3. g \in [U -> T_]
  BY <1>2
<1>4. ASSUME NEW p \in U, NEW q \in U, g[p] = g[q] PROVE p = q
  <2>1. p \in I \X Nat /\ q \in I \X Nat
    BY DEF Units
  <2>2. p[1] \in I /\ q[1] \in I /\ p = <<p[1], p[2]>> /\ q = <<q[1], q[2]>>
    BY <2>1
  <2>3. g[p] = <<f[p[1]], p[2]>> /\ g[q] = <<f[q[1]], q[2]>>
    OBVIOUS
  <2>4. f[p[1]] = f[q[1]] /\ p[2] = q[2]
    BY <1>0, <1>4, <2>3
  <2> QED
    BY <1>1, <2>2, <2>4
<1>5. ASSUME NEW q \in T_ PROVE \E p \in U : g[p] = q
  <2>1. q \in J \X Nat /\ 1 <= q[2] /\ q[2] <= w[t[q[1]]]
    BY DEF Units
  <2>2. PICK i \in I : f[i] = q[1]
    BY <1>1, <2>1
  <2>3. s[i] = t[q[1]] /\ q = <<q[1], q[2]>> /\ q[2] \in Nat
    BY <2>1, <2>2
  <2>4. <<i, q[2]>> \in U
    BY <2>1, <2>3 DEF Units
  <2>5. g[<<i, q[2]>>] = <<f[i], q[2]>>
    BY <1>0, <2>4
  <2> QED
    BY <2>2, <2>3, <2>4, <2>5
<1> HIDE DEF U, T_, g
<1>6. g \in Bijection(U, T_)
  BY <1>3, <1>4, <1>5 DEF Bijection, Injection, Surjection, IsInjective
<1>7. ExistsBijection(U, T_) /\ IsFiniteSet(U)
  BY <1>6 DEF ExistsBijection, U
<1>8. Cardinality(T_) = Cardinality(U)
  BY <1>7, FS_Bijection
<1> QED
  BY <1>8 DEF Total, U, T_

\* A weight of 0 or 1 counts rows.
LEMMA UnitsCount ==
  ASSUME NEW w \in Weight, NEW s \in Seq(Value), NEW I \in SUBSET DOMAIN s,
         \A v \in Value : w[v] \in {0, 1}
  PROVE  Total(w, s, I) = Cardinality({i \in I : w[s[i]] = 1})
<1> DEFINE U == Units(w, s, I)
           C == {i \in I : w[s[i]] = 1}
           g == [p \in U |-> p[1]]
<1>1. \A i \in I : s[i] \in Value
  OBVIOUS
<1>2. ASSUME NEW p \in U PROVE p[1] \in C /\ p = <<p[1], 1>>
  <2>1. p \in I \X Nat /\ 1 <= p[2] /\ p[2] <= w[s[p[1]]]
    BY DEF Units
  <2>2. p[1] \in I /\ p[2] \in Nat /\ p = <<p[1], p[2]>>
    BY <2>1
  <2>3. w[s[p[1]]] \in {0, 1}
    BY <1>1, <2>2
  <2> QED
    BY <2>1, <2>2, <2>3
<1>3. ASSUME NEW i \in C PROVE <<i, 1>> \in U /\ <<i, 1>>[1] = i
  BY DEF Units
<1>4. g \in [U -> C]
  BY <1>2
<1>5. \A p, q \in U : g[p] = g[q] => p = q
  BY <1>2
<1>6. \A i \in C : \E p \in U : g[p] = i
  <2> SUFFICES ASSUME NEW i \in C PROVE \E p \in U : g[p] = i
    OBVIOUS
  <2>1. <<i, 1>> \in U /\ g[<<i, 1>>] = i
    BY <1>3
  <2> QED
    BY <2>1
<1>7. IsFiniteSet(U)
  BY UnitsFinite
<1> HIDE DEF U, C, g
<1>8. g \in Bijection(U, C)
  BY <1>4, <1>5, <1>6 DEF Bijection, Injection, Surjection, IsInjective
<1>9. Cardinality(C) = Cardinality(U)
  BY <1>7, <1>8, FS_Bijection DEF ExistsBijection
<1> QED
  BY <1>9 DEF Total, U, C

-----------------------------------------------------------------------------
(* What the metrics of a column say of the rows they have taken.                         *)

Ones == [v \in Value |-> 1]
Only(x) == [v \in Value |-> IF v = x THEN 1 ELSE 0]
NotNull == [v \in Value |-> IF v = Null THEN 0 ELSE 1]
Gains == [v \in Value |-> IF v \in Int THEN IF v > 0 THEN v ELSE 0 ELSE 0]
Losses == [v \in Value |-> IF v \in Int THEN IF v < 0 THEN -v ELSE 0 ELSE 0]
Squares == [v \in Value |-> IF v \in Int THEN v * v ELSE 0]

Shown(s, I) == {s[i] : i \in I}
Least(x, N) == IF N = {} THEN x = Unset ELSE x \in N /\ \A y \in N : x <= y
Greatest(x, N) == IF N = {} THEN x = Unset ELSE x \in N /\ \A y \in N : y <= x

\* A column without a NaN, and one whose floats add up without being rounded.
Plain == Int \cup {Null}
Fits(w, s) == Total(w, s, DOMAIN s) <= Mantissa

Tallies(m, s, I, hash) ==
  /\ m.rows = Total(Ones, s, I)
  /\ m.nulls = Total(Only(Null), s, I)
  /\ m.nonNulls = Total(NotNull, s, I)
  /\ hash => m.fp = [v \in Shown(s, I) |-> Total(Only(v), s, I)]
Sums(m, s, I, how) ==
  /\ how = "exact" => m.sum = Total(Gains, s, I) - Total(Losses, s, I)
  /\ how = "float64" /\ Fits(Gains, s) /\ Fits(Losses, s) =>
       m.floatSum = Total(Gains, s, I) - Total(Losses, s, I)
  /\ how = "float64" /\ Fits(Squares, s) => m.floatSumSq = Total(Squares, s, I)
  /\ Least(m.min, Shown(s, I) \ {Null})
  /\ Greatest(m.max, Shown(s, I) \ {Null})
NaNs(m, s, I) == NaN \in Shown(s, I) => m.floatSum = NaN /\ m.floatSumSq = NaN
Counts(m, s, I, how, hash) ==
  /\ Tallies(m, s, I, hash)
  /\ how # "text" /\ s \in Seq(Plain) => Sums(m, s, I, how)
  /\ how = "float64" => NaNs(m, s, I)

LEMMA Weights ==
  /\ Ones \in Weight /\ NotNull \in Weight /\ Gains \in Weight /\ Losses \in Weight
  /\ Squares \in Weight /\ \A x : Only(x) \in Weight
<1>1. Ones \in Weight /\ NotNull \in Weight /\ \A x : Only(x) \in Weight
  BY DEF Weight, Ones, NotNull, Only
<1>2. Gains \in Weight
  BY DEF Weight, Gains
<1>3. Losses \in Weight
  BY DEF Weight, Losses
<1>4. \A v \in Int : v * v \in Nat
  OBVIOUS
<1>5. Squares \in Weight
  BY <1>4 DEF Weight, Squares
<1> QED
  BY <1>1, <1>2, <1>3, <1>5

\* Some of the rows weigh no more than all of them.
LEMMA TotalOfSome ==
  ASSUME NEW w \in Weight, NEW s \in Seq(Value), NEW I \in SUBSET DOMAIN s
  PROVE  Total(w, s, I) \in Nat /\ Total(w, s, DOMAIN s) \in Nat /\ Total(w, s, I) <= Total(w, s, DOMAIN s)
<1>1. IsFiniteSet(Units(w, s, DOMAIN s)) /\ Total(w, s, DOMAIN s) \in Nat /\ Total(w, s, I) \in Nat
  BY UnitsFinite
<1>2. Units(w, s, I) \subseteq Units(w, s, DOMAIN s)
  BY DEF Units
<1> QED
  BY <1>1, <1>2, FS_Subset DEF Total

\* One more row weighs what it weighs.
LEMMA OneMore ==
  ASSUME NEW w \in Weight, NEW s \in Seq(Value), NEW I \in SUBSET DOMAIN s, NEW i \in DOMAIN s, i \notin I
  PROVE  /\ Total(w, s, I) \in Nat /\ w[s[i]] \in Nat
         /\ Total(w, s, I \cup {i}) = Total(w, s, I) + w[s[i]]
<1>1. Total(w, s, {i}) = w[s[i]] /\ IsFiniteSet(Units(w, s, {i}))
  BY UnitsOne
<1>2. Total(w, s, I) \in Nat /\ IsFiniteSet(Units(w, s, I))
  BY UnitsFinite
<1>3. Total(w, s, I \cup {i}) = Total(w, s, I) + Total(w, s, {i})
  <2> DEFINE J == {i}
  <2>1. I \cap J = {}
    OBVIOUS
  <2>2. IsFiniteSet(Units(w, s, I)) /\ IsFiniteSet(Units(w, s, J))
    BY <1>1, <1>2
  <2> HIDE DEF J
  <2>3. Total(w, s, I \cup J) = Total(w, s, I) + Total(w, s, J)
    BY <2>1, <2>2, UnitsUnion, SMTT(20)
  <2> QED
    BY <2>3 DEF J
<1>4. s[i] \in Value
  OBVIOUS
<1> QED
  BY <1>1, <1>2, <1>3, <1>4 DEF Weight

\* The row after the first n weighs what it weighs.
LEMMA NextRow ==
  ASSUME NEW w \in Weight, NEW s \in Seq(Value), NEW n \in Nat, n + 1 <= Len(s)
  PROVE  /\ Total(w, s, 1 .. n) \in Nat /\ w[s[n + 1]] \in Nat
         /\ Total(w, s, (1 .. n) \cup {n + 1}) = Total(w, s, 1 .. n) + w[s[n + 1]]
<1>1. 1 .. n \in SUBSET DOMAIN s /\ n + 1 \in DOMAIN s /\ n + 1 \notin 1 .. n
  OBVIOUS
<1>2. PICK I \in SUBSET DOMAIN s, i \in DOMAIN s : I = 1 .. n /\ i = n + 1
  BY <1>1
<1>3. /\ Total(w, s, I) \in Nat /\ w[s[i]] \in Nat
      /\ Total(w, s, I \cup {i}) = Total(w, s, I) + w[s[i]]
  BY <1>1, <1>2, OneMore
<1> QED
  BY <1>2, <1>3

\* Rows that are each light enough for all of them to be within M are within M together.
LEMMA TotalWithin ==
  ASSUME NEW w \in Weight, NEW s \in Seq(Value), NEW M \in Nat,
         \A i \in DOMAIN s : Len(s) * w[s[i]] <= M
  PROVE  Total(w, s, DOMAIN s) <= M
<1> DEFINE L == Len(s)
           Good == {n \in Nat : n <= L => L * Total(w, s, 1 .. n) <= n * M}
<1>1. L \in Nat /\ DOMAIN s = 1 .. L
  OBVIOUS
<1>2. 0 \in Good
  <2>1. Total(w, s, 1 .. 0) = 0
    <3>1. 1 .. 0 = {}
      OBVIOUS
    <3> QED
      BY <3>1, UnitsNone
  <2> QED
    BY <1>1, <2>1
<1>3. ASSUME NEW n \in Nat, n \in Good PROVE n + 1 \in Good
  <2> SUFFICES ASSUME n + 1 <= L PROVE L * Total(w, s, 1 .. n + 1) <= (n + 1) * M
    OBVIOUS
  <2> DEFINE T_ == Total(w, s, 1 .. n)
             x == w[s[n + 1]]
  <2>1. /\ 1 .. n \in SUBSET DOMAIN s /\ n + 1 \in DOMAIN s
        /\ 1 .. n + 1 = (1 .. n) \cup {n + 1} /\ (1 .. n) \cap {n + 1} = {}
    BY <1>1
  <2>2. T_ \in Nat /\ x \in Nat /\ Total(w, s, (1 .. n) \cup {n + 1}) = T_ + x
    <3>1. n + 1 <= Len(s)
      OBVIOUS
    <3> QED
      BY <3>1, NextRow
  <2>4. Total(w, s, 1 .. n + 1) = T_ + x
    BY <2>1, <2>2
  <2>5. L * T_ <= n * M /\ L * x <= M
    BY <1>1, <1>3, <2>1
  <2> HIDE DEF T_, x, L
  <2>6. L * (T_ + x) = L * T_ + L * x /\ (n + 1) * M = n * M + M /\ L * T_ \in Nat /\ L * x \in Nat /\ n * M \in Nat
    BY <1>1, <2>2
  <2> QED
    BY <2>4, <2>5, <2>6
<1>4. L \in Good
  <2> HIDE DEF Good
  <2>1. Nat \subseteq Good
    BY <1>2, <1>3, AllNumbers
  <2> QED
    BY <1>1, <2>1
<1>5. Total(w, s, DOMAIN s) \in Nat
  BY UnitsFinite
<1>6. CASE L = 0
  <2>1. DOMAIN s = {}
    BY <1>1, <1>6
  <2> QED
    BY <2>1, UnitsNone
<1>7. CASE L # 0
  <2> DEFINE T_ == Total(w, s, DOMAIN s)
  <2>1. L * T_ <= L * M
    BY <1>1, <1>4
  <2> HIDE DEF T_, L
  <2>2. T_ \in Nat /\ L \in Nat /\ L > 0
    BY <1>1, <1>5, <1>7 DEF T_
  <2>3. ~(T_ > M)
    <3> SUFFICES ASSUME T_ >= M + 1 PROVE FALSE
      BY <2>2
    <3>1. PICK k \in Nat : T_ = M + 1 + k
      <4>1. T_ - (M + 1) \in Nat /\ T_ = M + 1 + (T_ - (M + 1))
        BY <2>2
      <4> QED
        BY <4>1
    <3>2. L * T_ = L * M + L + L * k /\ L * k \in Nat /\ L * M \in Nat
      BY <2>2, <3>1
    <3> QED
      BY <2>1, <2>2, <3>2
  <2>4. T_ <= M
    BY <2>2, <2>3
  <2> QED
    BY <2>4 DEF T_
<1> QED
  BY <1>6, <1>7

\* Floating-point addition and squaring are exact up to the mantissa, and keep a NaN.
LEMMA PlusExact ==
  ASSUME NEW a \in Int, NEW b \in Int, a + b <= Mantissa, -Mantissa <= a + b
  PROVE  Plus(a, b) = a + b
<1>1. NaN \notin Int /\ Mantissa \in Nat
  BY ValueAssumption
<1>2. Abs(a + b) <= Mantissa
  BY <1>1 DEF Abs
<1> QED
  BY <1>1, <1>2 DEF Plus, Nearest

LEMMA SquareExact ==
  ASSUME NEW a \in Int, a * a <= Mantissa
  PROVE  Square(a) = a * a
<1>1. NaN \notin Int /\ Mantissa \in Nat
  BY ValueAssumption
<1>2. a * a >= 0 /\ a * a \in Int
  OBVIOUS
<1>3. Abs(a * a) <= Mantissa
  BY <1>2 DEF Abs
<1> QED
  BY <1>1, <1>3 DEF Square, Nearest

LEMMA NaNStays ==
  ASSUME NEW a
  PROVE  Plus(a, NaN) = NaN /\ Plus(NaN, a) = NaN /\ Square(NaN) = NaN
BY DEF Plus, Square

\* A sum of some rows of a column that fits is within the mantissa on both sides.
LEMMA SumFits ==
  ASSUME NEW s \in Seq(Value), NEW I \in SUBSET DOMAIN s, Fits(Gains, s), Fits(Losses, s)
  PROVE  LET sum == Total(Gains, s, I) - Total(Losses, s, I)
         IN  sum \in Int /\ sum <= Mantissa /\ -Mantissa <= sum
<1>1. Mantissa \in Nat
  BY ValueAssumption
<1>2. /\ Total(Gains, s, I) \in Nat /\ Total(Gains, s, DOMAIN s) \in Nat
      /\ Total(Gains, s, I) <= Total(Gains, s, DOMAIN s)
  BY TotalOfSome, Weights
<1>3. /\ Total(Losses, s, I) \in Nat /\ Total(Losses, s, DOMAIN s) \in Nat
      /\ Total(Losses, s, I) <= Total(Losses, s, DOMAIN s)
  BY TotalOfSome, Weights
<1> QED
  BY <1>1, <1>2, <1>3 DEF Fits

LEMMA SquaresFit ==
  ASSUME NEW s \in Seq(Value), NEW I \in SUBSET DOMAIN s, Fits(Squares, s)
  PROVE  Total(Squares, s, I) \in Nat /\ Total(Squares, s, I) <= Mantissa
<1>1. Mantissa \in Nat
  BY ValueAssumption
<1>2. /\ Total(Squares, s, I) \in Nat /\ Total(Squares, s, DOMAIN s) \in Nat
      /\ Total(Squares, s, I) <= Total(Squares, s, DOMAIN s)
  BY TotalOfSome, Weights
<1> QED
  BY <1>1, <1>2 DEF Fits

\* An extremum of two sets of numbers is the extremum of their extrema.
LEMMA LowestOfBoth ==
  ASSUME NEW M \in SUBSET Int, NEW N \in SUBSET Int, NEW a, NEW b, Least(a, M), Least(b, N)
  PROVE  Least(Lowest(a, b), M \cup N)
<1>1. Unset \notin Int /\ NaN \notin Int
  BY ValueAssumption DEF Unset
<1>2. CASE N = {}
  BY <1>1, <1>2 DEF Least, Lowest, Less
<1>3. CASE N # {} /\ M = {}
  BY <1>1, <1>3 DEF Least, Lowest, Less
<1>4. CASE N # {} /\ M # {}
  <2>1. a \in M /\ b \in N /\ a \in Int /\ b \in Int
    BY <1>4 DEF Least
  <2>2. (\A y \in M : a <= y) /\ (\A y \in N : b <= y)
    BY <1>4 DEF Least
  <2>3. CASE b < a
    <3>1. Lowest(a, b) = b
      BY <1>1, <2>1, <2>3 DEF Lowest, Less
    <3>2. \A y \in M \cup N : y \in Int /\ b <= y
      BY <2>1, <2>2, <2>3
    <3> QED
      BY <1>4, <2>1, <3>1, <3>2 DEF Least
  <2>4. CASE ~(b < a)
    <3>1. Lowest(a, b) = a
      BY <1>1, <2>1, <2>4 DEF Lowest, Less
    <3>2. \A y \in M \cup N : y \in Int /\ a <= y
      BY <2>1, <2>2, <2>4
    <3> QED
      BY <1>4, <2>1, <3>1, <3>2 DEF Least
  <2> QED
    BY <2>3, <2>4
<1> QED
  BY <1>2, <1>3, <1>4

LEMMA HighestOfBoth ==
  ASSUME NEW M \in SUBSET Int, NEW N \in SUBSET Int, NEW a, NEW b, Greatest(a, M), Greatest(b, N)
  PROVE  Greatest(Highest(a, b), M \cup N)
<1>1. Unset \notin Int /\ NaN \notin Int
  BY ValueAssumption DEF Unset
<1>2. CASE N = {}
  BY <1>1, <1>2 DEF Greatest, Highest, Less
<1>3. CASE N # {} /\ M = {}
  BY <1>1, <1>3 DEF Greatest, Highest, Less
<1>4. CASE N # {} /\ M # {}
  <2>1. a \in M /\ b \in N /\ a \in Int /\ b \in Int
    BY <1>4 DEF Greatest
  <2>2. (\A y \in M : y <= a) /\ (\A y \in N : y <= b)
    BY <1>4 DEF Greatest
  <2>3. CASE a < b
    <3>1. Highest(a, b) = b
      BY <1>1, <2>1, <2>3 DEF Highest, Less
    <3>2. \A y \in M \cup N : y \in Int /\ y <= b
      BY <2>1, <2>2, <2>3
    <3> QED
      BY <1>4, <2>1, <3>1, <3>2 DEF Greatest
  <2>4. CASE ~(a < b)
    <3>1. Highest(a, b) = a
      BY <1>1, <2>1, <2>4 DEF Highest, Less
    <3>2. \A y \in M \cup N : y \in Int /\ y <= a
      BY <2>1, <2>2, <2>4
    <3> QED
      BY <1>4, <2>1, <3>1, <3>2 DEF Greatest
  <2> QED
    BY <2>3, <2>4
<1> QED
  BY <1>2, <1>3, <1>4

\* The bags of two disjoint sets of places add up.
LEMMA BagsAdd ==
  ASSUME NEW s \in Seq(Value), NEW I \in SUBSET DOMAIN s, NEW J \in SUBSET DOMAIN s, I \cap J = {}
  PROVE  [v \in Shown(s, I) |-> Total(Only(v), s, I)] (+) [v \in Shown(s, J) |-> Total(Only(v), s, J)]
           = [v \in Shown(s, I \cup J) |-> Total(Only(v), s, I \cup J)]
<1> DEFINE A == [v \in Shown(s, I) |-> Total(Only(v), s, I)]
           B == [v \in Shown(s, J) |-> Total(Only(v), s, J)]
           C == [v \in Shown(s, I \cup J) |-> Total(Only(v), s, I \cup J)]
<1>1. Shown(s, I \cup J) = Shown(s, I) \cup Shown(s, J)
  BY DEF Shown
<1>2. ASSUME NEW v, NEW K \in SUBSET DOMAIN s, v \notin Shown(s, K)
      PROVE  Total(Only(v), s, K) = 0
  <2>1. \A i \in K : s[i] \in Value /\ s[i] # v
    BY <1>2 DEF Shown
  <2>2. Units(Only(v), s, K) = {}
    BY <2>1 DEF Units, Only
  <2> QED
    BY <2>2, FS_EmptySet DEF Total
<1>3. ASSUME NEW v
      PROVE  /\ Total(Only(v), s, I) \in Nat /\ Total(Only(v), s, J) \in Nat
             /\ Total(Only(v), s, I \cup J) = Total(Only(v), s, I) + Total(Only(v), s, J)
  BY Weights, UnitsFinite, UnitsUnion
<1>4. ASSUME NEW v \in Shown(s, I) \cup Shown(s, J)
      PROVE  C[v] = (IF v \in DOMAIN A THEN A[v] ELSE 0) + (IF v \in DOMAIN B THEN B[v] ELSE 0)
  <2>1. (IF v \in DOMAIN A THEN A[v] ELSE 0) = Total(Only(v), s, I)
    BY <1>2
  <2>2. (IF v \in DOMAIN B THEN B[v] ELSE 0) = Total(Only(v), s, J)
    BY <1>2
  <2>3. C[v] = Total(Only(v), s, I \cup J)
    BY <1>1
  <2> QED
    BY <1>3, <2>1, <2>2, <2>3
<1>5. C = [v \in DOMAIN A \cup DOMAIN B |->
             (IF v \in DOMAIN A THEN A[v] ELSE 0) + (IF v \in DOMAIN B THEN B[v] ELSE 0)]
  <2>1. DOMAIN C = Shown(s, I) \cup Shown(s, J) /\ DOMAIN A \cup DOMAIN B = Shown(s, I) \cup Shown(s, J)
    BY <1>1
  <2>2. C = [v \in DOMAIN C |-> C[v]]
    OBVIOUS
  <2> HIDE DEF A, B, C
  <2> QED
    BY <1>4, <2>1, <2>2
<1>6. A (+) B = C
  <2> HIDE DEF A, B, C
  <2> QED
    BY <1>5 DEF (+)
<1> QED
  BY <1>6

\* Merge: two partials of disjoint places make one of both.
LEMMA MergeCounts ==
  ASSUME NEW s \in Seq(Value), NEW I \in SUBSET DOMAIN s, NEW J \in SUBSET DOMAIN s, I \cap J = {},
         NEW how, NEW hash, NEW m, NEW o, Counts(m, s, I, how, hash), Counts(o, s, J, how, hash)
  PROVE  Counts(Merge(m, o), s, I \cup J, how, hash)
<1> DEFINE both == Merge(m, o)
<1>1. ASSUME NEW w \in Weight
      PROVE  /\ Total(w, s, I) \in Nat /\ Total(w, s, J) \in Nat
             /\ Total(w, s, I \cup J) = Total(w, s, I) + Total(w, s, J)
  BY UnitsFinite, UnitsUnion
<1>2. /\ both.rows = m.rows + o.rows /\ both.nulls = m.nulls + o.nulls
      /\ both.nonNulls = m.nonNulls + o.nonNulls /\ both.sum = m.sum + o.sum
      /\ both.floatSum = Plus(m.floatSum, o.floatSum)
      /\ both.floatSumSq = Plus(m.floatSumSq, o.floatSumSq) /\ both.min = Lowest(m.min, o.min)
      /\ both.max = Highest(m.max, o.max) /\ both.fp = m.fp (+) o.fp
  BY DEF Merge
<1> HIDE DEF both
<1>3. Tallies(both, s, I \cup J, hash)
  <2>1. /\ both.rows = Total(Ones, s, I \cup J) /\ both.nulls = Total(Only(Null), s, I \cup J)
        /\ both.nonNulls = Total(NotNull, s, I \cup J)
    <3>1. both.rows = Total(Ones, s, I) + Total(Ones, s, J)
      BY <1>2 DEF Counts, Tallies
    <3>2. both.nulls = Total(Only(Null), s, I) + Total(Only(Null), s, J)
      BY <1>2 DEF Counts, Tallies
    <3>3. both.nonNulls = Total(NotNull, s, I) + Total(NotNull, s, J)
      BY <1>2 DEF Counts, Tallies
    <3>4. Ones \in Weight /\ NotNull \in Weight /\ Only(Null) \in Weight
      BY Weights
    <3> QED
      BY <1>1, <3>1, <3>2, <3>3, <3>4
  <2>2. ASSUME hash PROVE both.fp = [v \in Shown(s, I \cup J) |-> Total(Only(v), s, I \cup J)]
    <3>1. /\ m.fp = [v \in Shown(s, I) |-> Total(Only(v), s, I)]
          /\ o.fp = [v \in Shown(s, J) |-> Total(Only(v), s, J)]
      BY <2>2 DEF Counts, Tallies
    <3>2. [v \in Shown(s, I) |-> Total(Only(v), s, I)] (+) [v \in Shown(s, J) |-> Total(Only(v), s, J)]
            = [v \in Shown(s, I \cup J) |-> Total(Only(v), s, I \cup J)]
      BY BagsAdd
    <3>3. both.fp = m.fp (+) o.fp
      BY <1>2
    <3> QED
      BY <3>1, <3>2, <3>3, Zenon
  <2> QED
    BY <2>1, <2>2 DEF Tallies
<1>4. ASSUME how # "text", s \in Seq(Plain) PROVE Sums(both, s, I \cup J, how)
  <2>1. Sums(m, s, I, how) /\ Sums(o, s, J, how)
    BY <1>4 DEF Counts
  <2>2. /\ Total(Gains, s, I \cup J) = Total(Gains, s, I) + Total(Gains, s, J)
        /\ Total(Losses, s, I \cup J) = Total(Losses, s, I) + Total(Losses, s, J)
        /\ Total(Squares, s, I \cup J) = Total(Squares, s, I) + Total(Squares, s, J)
    BY <1>1, Weights
  <2>3. /\ Total(Gains, s, I) \in Nat /\ Total(Gains, s, J) \in Nat
        /\ Total(Losses, s, I) \in Nat /\ Total(Losses, s, J) \in Nat
        /\ Total(Squares, s, I) \in Nat /\ Total(Squares, s, J) \in Nat
    BY <1>1, Weights
  <2>4. ASSUME how = "exact" PROVE both.sum = Total(Gains, s, I \cup J) - Total(Losses, s, I \cup J)
    <3>1. /\ m.sum = Total(Gains, s, I) - Total(Losses, s, I)
          /\ o.sum = Total(Gains, s, J) - Total(Losses, s, J)
      BY <2>1, <2>4 DEF Sums
    <3> QED
      BY <1>2, <2>2, <2>3, <3>1
  <2>5. ASSUME how = "float64", Fits(Gains, s), Fits(Losses, s)
        PROVE  both.floatSum = Total(Gains, s, I \cup J) - Total(Losses, s, I \cup J)
    <3> DEFINE a == Total(Gains, s, I) - Total(Losses, s, I)
               b == Total(Gains, s, J) - Total(Losses, s, J)
               c == Total(Gains, s, I \cup J) - Total(Losses, s, I \cup J)
    <3>1. m.floatSum = a /\ o.floatSum = b
      BY <2>1, <2>5 DEF Sums
    <3>2. c = a + b /\ a \in Int /\ b \in Int
      BY <2>2, <2>3
    <3>3. c \in Int /\ c <= Mantissa /\ -Mantissa <= c
      <4>1. I \cup J \in SUBSET DOMAIN s
        OBVIOUS
      <4> QED
        BY <2>5, <4>1, SumFits
    <3> HIDE DEF a, b, c
    <3>4. Plus(a, b) = a + b
      BY <3>2, <3>3, PlusExact
    <3>5. both.floatSum = c
      BY <1>2, <3>1, <3>2, <3>4
    <3> QED
      BY <3>5 DEF c
  <2>6. ASSUME how = "float64", Fits(Squares, s) PROVE both.floatSumSq = Total(Squares, s, I \cup J)
    <3> DEFINE a == Total(Squares, s, I)
               b == Total(Squares, s, J)
    <3>1. m.floatSumSq = a /\ o.floatSumSq = b
      BY <2>1, <2>6 DEF Sums
    <3>2. a \in Nat /\ b \in Nat /\ Total(Squares, s, I \cup J) = a + b
      BY <2>2, <2>3
    <3>3. a + b <= Mantissa
      <4>1. I \cup J \in SUBSET DOMAIN s
        OBVIOUS
      <4> QED
        BY <2>6, <3>2, <4>1, SquaresFit
    <3> HIDE DEF a, b
    <3>4. Plus(a, b) = a + b
      <4>1. a + b >= 0 /\ Mantissa \in Nat
        BY <3>2, ValueAssumption
      <4> QED
        BY <3>2, <3>3, <4>1, PlusExact
    <3> QED
      BY <1>2, <3>1, <3>2, <3>4
  <2>7. /\ Shown(s, I) \ {Null} \in SUBSET Int /\ Shown(s, J) \ {Null} \in SUBSET Int
        /\ Shown(s, I \cup J) \ {Null} = (Shown(s, I) \ {Null}) \cup (Shown(s, J) \ {Null})
    <3>1. \A i \in DOMAIN s : s[i] \in Plain
      BY <1>4
    <3> QED
      BY <3>1 DEF Shown, Plain
  <2>8. Least(both.min, Shown(s, I \cup J) \ {Null})
    <3>1. Least(m.min, Shown(s, I) \ {Null}) /\ Least(o.min, Shown(s, J) \ {Null})
      BY <2>1 DEF Sums
    <3>2. Least(Lowest(m.min, o.min), (Shown(s, I) \ {Null}) \cup (Shown(s, J) \ {Null}))
      BY <2>7, <3>1, LowestOfBoth
    <3>3. both.min = Lowest(m.min, o.min)
      BY <1>2
    <3> QED
      BY <2>7, <3>2, <3>3, Zenon
  <2>9. Greatest(both.max, Shown(s, I \cup J) \ {Null})
    <3>1. Greatest(m.max, Shown(s, I) \ {Null}) /\ Greatest(o.max, Shown(s, J) \ {Null})
      BY <2>1 DEF Sums
    <3>2. Greatest(Highest(m.max, o.max), (Shown(s, I) \ {Null}) \cup (Shown(s, J) \ {Null}))
      BY <2>7, <3>1, HighestOfBoth
    <3>3. both.max = Highest(m.max, o.max)
      BY <1>2
    <3> QED
      BY <2>7, <3>2, <3>3, Zenon
  <2> QED
    BY <2>4, <2>5, <2>6, <2>8, <2>9 DEF Sums
<1>5. ASSUME how = "float64" PROVE NaNs(both, s, I \cup J)
  <2> SUFFICES ASSUME NaN \in Shown(s, I \cup J) PROVE both.floatSum = NaN /\ both.floatSumSq = NaN
    BY DEF NaNs
  <2>1. NaNs(m, s, I) /\ NaNs(o, s, J)
    BY <1>5 DEF Counts
  <2>2. NaN \in Shown(s, I) \/ NaN \in Shown(s, J)
    BY DEF Shown
  <2> QED
    BY <1>2, <2>1, <2>2, NaNStays DEF NaNs
<1> QED
  BY <1>3, <1>4, <1>5 DEF Counts, both

\* Observe: one more row.
LEMMA ObserveCounts ==
  ASSUME NEW s \in Seq(Value), NEW I \in SUBSET DOMAIN s, NEW i \in DOMAIN s, i \notin I,
         NEW how, NEW hash, NEW m, Counts(m, s, I, how, hash)
  PROVE  Counts(Observe(m, s[i], how, hash), s, I \cup {i}, how, hash)
<1> DEFINE v == s[i]
           more == Observe(m, v, how, hash)
           counted == v # Null /\ how # "text"
           float == v # Null /\ how = "float64"
<1>1. ASSUME NEW w \in Weight
      PROVE  /\ Total(w, s, I) \in Nat /\ w[v] \in Nat
             /\ Total(w, s, I \cup {i}) = Total(w, s, I) + w[v]
  BY OneMore
<1>2. /\ more.rows = m.rows + 1
      /\ more.nulls = m.nulls + (IF v = Null THEN 1 ELSE 0)
      /\ more.nonNulls = m.nonNulls + (IF v = Null THEN 0 ELSE 1)
      /\ more.sum = IF counted /\ ~float THEN m.sum + v ELSE m.sum
      /\ more.floatSum = IF float THEN Plus(m.floatSum, v) ELSE m.floatSum
      /\ more.floatSumSq = IF float THEN Plus(m.floatSumSq, Square(v)) ELSE m.floatSumSq
      /\ more.min = IF counted THEN Lowest(m.min, v) ELSE m.min
      /\ more.max = IF counted THEN Highest(m.max, v) ELSE m.max
      /\ more.fp = IF hash THEN m.fp (+) SetToBag({v}) ELSE m.fp
  BY DEF Observe
<1>3. v \in Value
  OBVIOUS
<1> HIDE DEF v, more
<1>4. Tallies(more, s, I \cup {i}, hash)
  <2>1. more.rows = Total(Ones, s, I \cup {i})
    <3>1. m.rows = Total(Ones, s, I) /\ Ones[v] = 1
      BY <1>3 DEF Counts, Tallies, Ones
    <3> QED
      BY <1>1, <1>2, <3>1, Weights
  <2>2. more.nulls = Total(Only(Null), s, I \cup {i})
    <3>1. m.nulls = Total(Only(Null), s, I) /\ Only(Null)[v] = IF v = Null THEN 1 ELSE 0
      BY <1>3 DEF Counts, Tallies, Only
    <3>2. Total(Only(Null), s, I \cup {i}) = Total(Only(Null), s, I) + Only(Null)[v]
      BY <1>1, Weights
    <3> QED
      BY <1>2, <3>1, <3>2, Zenon
  <2>3. more.nonNulls = Total(NotNull, s, I \cup {i})
    <3>1. m.nonNulls = Total(NotNull, s, I) /\ NotNull[v] = IF v = Null THEN 0 ELSE 1
      BY <1>3 DEF Counts, Tallies, NotNull
    <3>2. Total(NotNull, s, I \cup {i}) = Total(NotNull, s, I) + NotNull[v]
      BY <1>1, Weights
    <3> QED
      BY <1>2, <3>1, <3>2, Zenon
  <2>4. ASSUME hash PROVE more.fp = [x \in Shown(s, I \cup {i}) |-> Total(Only(x), s, I \cup {i})]
    <3>1. m.fp = [x \in Shown(s, I) |-> Total(Only(x), s, I)]
      BY <2>4 DEF Counts, Tallies
    <3>2. Shown(s, {i}) = {v}
      BY DEF Shown, v
    <3>3. Total(Only(v), s, {i}) = 1
      <4>1. Only(v)[v] = 1
        BY <1>3 DEF Only
      <4> QED
        BY <4>1, Weights, UnitsOne DEF v
    <3>4. SetToBag({v}) = [x \in Shown(s, {i}) |-> Total(Only(x), s, {i})]
      BY <3>2, <3>3 DEF SetToBag
    <3>5. [x \in Shown(s, I) |-> Total(Only(x), s, I)] (+) [x \in Shown(s, {i}) |-> Total(Only(x), s, {i})]
            = [x \in Shown(s, I \cup {i}) |-> Total(Only(x), s, I \cup {i})]
      <4>1. {i} \in SUBSET DOMAIN s /\ I \cap {i} = {}
        OBVIOUS
      <4> QED
        BY <4>1, BagsAdd
    <3>6. more.fp = m.fp (+) SetToBag({v})
      BY <1>2, <2>4
    <3> QED
      BY <3>1, <3>4, <3>5, <3>6, Zenon
  <2> QED
    BY <2>1, <2>2, <2>3, <2>4 DEF Tallies
<1>5. ASSUME how # "text", s \in Seq(Plain) PROVE Sums(more, s, I \cup {i}, how)
  <2>0. Sums(m, s, I, how)
    BY <1>5 DEF Counts
  <2>1. /\ Total(Gains, s, I \cup {i}) = Total(Gains, s, I) + Gains[v]
        /\ Total(Losses, s, I \cup {i}) = Total(Losses, s, I) + Losses[v]
        /\ Total(Squares, s, I \cup {i}) = Total(Squares, s, I) + Squares[v]
    BY <1>1, Weights
  <2>2. Total(Gains, s, I) \in Nat /\ Total(Losses, s, I) \in Nat /\ Total(Squares, s, I) \in Nat
    BY <1>1, Weights
  <2>3. \A j \in DOMAIN s : s[j] \in Plain
    BY <1>5
  <2>4. Shown(s, I) \ {Null} \in SUBSET Int /\ v \in Plain
    BY <2>3 DEF Shown, Plain, v
  <2>5. Shown(s, I \cup {i}) \ {Null} = (Shown(s, I) \ {Null}) \cup ({v} \ {Null})
    BY DEF Shown, v
  <2>6. CASE v = Null
    <3>1. Gains[v] = 0 /\ Losses[v] = 0 /\ Squares[v] = 0
      BY <1>3, <2>6, ValueAssumption DEF Gains, Losses, Squares
    <3>2. Shown(s, I \cup {i}) \ {Null} = Shown(s, I) \ {Null}
      BY <2>5, <2>6
    <3>3. /\ more.sum = m.sum /\ more.floatSum = m.floatSum /\ more.floatSumSq = m.floatSumSq /\ more.min = m.min /\ more.max = m.max
      BY <1>2, <2>6
    <3>4. /\ Total(Gains, s, I \cup {i}) = Total(Gains, s, I)
          /\ Total(Losses, s, I \cup {i}) = Total(Losses, s, I)
          /\ Total(Squares, s, I \cup {i}) = Total(Squares, s, I)
      BY <2>1, <2>2, <3>1
    <3> QED
      BY <2>0, <3>2, <3>3, <3>4 DEF Sums
  <2>7. CASE v # Null
    <3>1. v \in Int /\ v # NaN /\ NaN \notin Int
      BY <2>4, <2>7, ValueAssumption DEF Plain
    <3>2. Gains[v] - Losses[v] = v /\ Gains[v] \in Nat /\ Losses[v] \in Nat
      BY <1>3, <3>1 DEF Gains, Losses
    <3>3. Squares[v] = v * v
      BY <1>3, <3>1 DEF Squares
    <3>4. I \cup {i} \in SUBSET DOMAIN s
      OBVIOUS
    <3>5. ASSUME how = "exact" PROVE more.sum = Total(Gains, s, I \cup {i}) - Total(Losses, s, I \cup {i})
      <4>1. more.sum = m.sum + v
        BY <1>2, <2>7, <3>5
      <4>2. m.sum = Total(Gains, s, I) - Total(Losses, s, I)
        BY <2>0, <3>5 DEF Sums
      <4> QED
        BY <2>1, <2>2, <3>1, <3>2, <4>1, <4>2
    <3>6. ASSUME how = "float64", Fits(Gains, s), Fits(Losses, s)
          PROVE  more.floatSum = Total(Gains, s, I \cup {i}) - Total(Losses, s, I \cup {i})
      <4> DEFINE a == Total(Gains, s, I) - Total(Losses, s, I)
                 c == Total(Gains, s, I \cup {i}) - Total(Losses, s, I \cup {i})
      <4>1. more.floatSum = Plus(m.floatSum, v)
        BY <1>2, <2>7, <3>6
      <4>2. m.floatSum = a
        BY <2>0, <3>6 DEF Sums
      <4>3. c = a + v /\ a \in Int
        <5> DEFINE p == Total(Gains, s, I)
                   q == Total(Losses, s, I)
                   g == Gains[v]
                   l == Losses[v]
        <5>1. c = (p + g) - (q + l) /\ a = p - q
          BY <2>1
        <5>2. p \in Int /\ q \in Int /\ g \in Int /\ l \in Int /\ v = g - l
          BY <2>2, <3>2
        <5> HIDE DEF a, c, p, q, g, l
        <5> QED
          BY <5>1, <5>2
      <4>4. c \in Int /\ c <= Mantissa /\ -Mantissa <= c
        BY <3>4, <3>6, SumFits
      <4> HIDE DEF a, c
      <4>5. Plus(a, v) = a + v
        BY <3>1, <4>3, <4>4, PlusExact
      <4>6. more.floatSum = c
        BY <4>1, <4>2, <4>3, <4>5
      <4> QED
        BY <4>6 DEF c
    <3>7. more.min = Lowest(m.min, v) /\ more.max = Highest(m.max, v)
      BY <1>2, <1>5, <2>7
    <3>8. {v} \ {Null} = {v} /\ Least(v, {v}) /\ Greatest(v, {v}) /\ {v} \in SUBSET Int
      BY <2>7, <3>1 DEF Least, Greatest
    <3>9. Least(more.min, Shown(s, I \cup {i}) \ {Null})
      <4>1. Least(m.min, Shown(s, I) \ {Null})
        BY <2>0 DEF Sums
      <4>2. Least(Lowest(m.min, v), (Shown(s, I) \ {Null}) \cup {v})
        BY <2>4, <3>8, <4>1, LowestOfBoth
      <4> QED
        BY <2>5, <3>7, <3>8, <4>2, Zenon
    <3>10. Greatest(more.max, Shown(s, I \cup {i}) \ {Null})
      <4>1. Greatest(m.max, Shown(s, I) \ {Null})
        BY <2>0 DEF Sums
      <4>2. Greatest(Highest(m.max, v), (Shown(s, I) \ {Null}) \cup {v})
        BY <2>4, <3>8, <4>1, HighestOfBoth
      <4> QED
        BY <2>5, <3>7, <3>8, <4>2, Zenon
    <3>11. ASSUME how = "float64", Fits(Squares, s) PROVE more.floatSumSq = Total(Squares, s, I \cup {i})
      <4> DEFINE a == Total(Squares, s, I)
                 x == v * v
      <4>1. more.floatSumSq = Plus(m.floatSumSq, Square(v))
        BY <1>2, <2>7, <3>11
      <4>2. m.floatSumSq = a
        BY <2>0, <3>11 DEF Sums
      <4>3. a \in Nat /\ x \in Int /\ x >= 0 /\ Total(Squares, s, I \cup {i}) = a + x
        BY <2>1, <2>2, <3>1, <3>3
      <4>4. a + x <= Mantissa
        BY <3>4, <3>11, <4>3, SquaresFit
      <4>5. Mantissa \in Nat
        BY ValueAssumption
      <4>6. Square(v) = x
        <5>1. v * v <= Mantissa
          <6> HIDE DEF a
          <6> QED
            BY <4>3, <4>4, <4>5
        <5> QED
          BY <3>1, <5>1, SquareExact
      <4> HIDE DEF a, x
      <4>7. Plus(a, x) = a + x
        <5>1. -Mantissa <= a + x
          BY <4>3, <4>5
        <5> QED
          BY <4>3, <4>4, <5>1, PlusExact
      <4> QED
        BY <4>1, <4>2, <4>3, <4>6, <4>7
    <3> QED
      BY <3>5, <3>6, <3>9, <3>10, <3>11 DEF Sums
  <2> QED
    BY <2>6, <2>7
<1>6. ASSUME how = "float64" PROVE NaNs(more, s, I \cup {i})
  <2> SUFFICES ASSUME NaN \in Shown(s, I \cup {i}) PROVE more.floatSum = NaN /\ more.floatSumSq = NaN
    BY DEF NaNs
  <2>1. NaNs(m, s, I)
    BY <1>6 DEF Counts
  <2>2. NaN \in Shown(s, I) \/ v = NaN
    BY DEF Shown, v
  <2>3. CASE v = NaN
    BY <1>2, <1>6, <2>3, NaNStays, ValueAssumption
  <2>4. CASE NaN \in Shown(s, I)
    BY <1>2, <2>1, <2>4, NaNStays DEF NaNs
  <2> QED
    BY <2>2, <2>3, <2>4
<1>7. Counts(more, s, I \cup {i}, how, hash)
  BY <1>4, <1>5, <1>6 DEF Counts
<1> QED
  BY <1>7 DEF more, v

\* Before the first row there is nothing to count.
LEMMA NothingCounts ==
  ASSUME NEW s, NEW how, NEW hash
  PROVE  Counts(NoMetrics, s, {}, how, hash)
<1>1. \A w : Total(w, s, {}) = 0
  BY UnitsNone
<1>2. Shown(s, {}) = {}
  BY DEF Shown
<1>3. EmptyBag = [v \in Shown(s, {}) |-> Total(Only(v), s, {})]
  BY <1>2 DEF EmptyBag, SetToBag
<1>4. Tallies(NoMetrics, s, {}, hash)
  BY <1>1, <1>3 DEF Tallies, NoMetrics
<1>5. Sums(NoMetrics, s, {}, how) /\ NaNs(NoMetrics, s, {})
  BY <1>1, <1>2 DEF Sums, NaNs, NoMetrics, Least, Greatest
<1> QED
  BY <1>4, <1>5 DEF Counts

\* Several rows: those behind the place p, n of them.
LEMMA ObserveAllCounts ==
  ASSUME NEW s \in Seq(Value), NEW lo \in Nat \ {0}, NEW p \in Nat, lo <= p + 1,
         NEW rows \in Seq(Value), p + Len(rows) <= Len(s),
         \A k \in 1 .. Len(rows) : rows[k] = s[p + k],
         NEW how, NEW hash, NEW m, Counts(m, s, lo .. p, how, hash)
  PROVE  Counts(ObserveAll(m, rows, how, hash), s, lo .. p + Len(rows), how, hash)
<1> DEFINE L == Len(rows)
           Folds(f, n) == f = [k \in 0 .. n |-> IF k = 0 THEN m ELSE Observe(f[k - 1], rows[k], how, hash)]
           Good == {n \in Nat : n <= L => \E f : Folds(f, n)}
<1>1. L \in Nat
  OBVIOUS
<1>2. 0 \in Good
  <2> DEFINE f == [k \in 0 .. 0 |-> m]
  <2>1. Folds(f, 0)
    <3>1. f = [k \in 0 .. 0 |-> IF k = 0 THEN m ELSE Observe(f[k - 1], rows[k], how, hash)]
      OBVIOUS
    <3> QED
      BY <3>1
  <2> QED
    BY <2>1
<1>3. ASSUME NEW n \in Nat, n \in Good PROVE n + 1 \in Good
  <2> SUFFICES ASSUME n + 1 <= L PROVE \E f : Folds(f, n + 1)
    OBVIOUS
  <2>1. PICK f : Folds(f, n)
    BY <1>3
  <2> DEFINE g == [k \in 0 .. n + 1 |-> IF k = n + 1 THEN Observe(f[n], rows[n + 1], how, hash) ELSE f[k]]
  <2>2. ASSUME NEW k \in 0 .. n + 1
        PROVE  g[k] = IF k = 0 THEN m ELSE Observe(g[k - 1], rows[k], how, hash)
    <3>1. CASE k = n + 1
      <4>1. k - 1 = n /\ n \in 0 .. n + 1 /\ n # n + 1 /\ k # 0
        BY <3>1
      <4>2. g[k] = Observe(f[n], rows[k], how, hash) /\ g[n] = f[n]
        BY <3>1, <4>1
      <4> QED
        BY <4>1, <4>2
    <3>2. CASE k = 0
      <4>1. 0 \in 0 .. n /\ 0 # n + 1
        OBVIOUS
      <4>2. f[0] = m
        BY <2>1, <4>1
      <4> QED
        BY <3>2, <4>1, <4>2
    <3>3. CASE k # 0 /\ k # n + 1
      <4>1. k \in 0 .. n /\ k - 1 \in 0 .. n /\ k - 1 # n + 1 /\ k - 1 \in 0 .. n + 1
        BY <3>3
      <4>2. f[k] = Observe(f[k - 1], rows[k], how, hash)
        BY <2>1, <3>3, <4>1
      <4>3. g[k] = f[k] /\ g[k - 1] = f[k - 1]
        BY <3>3, <4>1
      <4> QED
        BY <3>3, <4>2, <4>3
    <3> QED
      BY <3>1, <3>2, <3>3
  <2>3. g = [k \in 0 .. n + 1 |-> g[k]]
    OBVIOUS
  <2>4. Folds(g, n + 1)
    <3> HIDE DEF g
    <3> QED
      BY <2>2, <2>3
  <2> QED
    BY <2>4
<1>4. \E f : Folds(f, L)
  <2> HIDE DEF Good, Folds
  <2>1. Nat \subseteq Good
    BY <1>2, <1>3, AllNumbers
  <2> QED
    BY <1>1, <2>1 DEF Good
<1> DEFINE upTo == CHOOSE f : Folds(f, L)
<1>5. Folds(upTo, L)
  <2> HIDE DEF Folds
  <2> QED
    BY <1>4
<1>6. ObserveAll(m, rows, how, hash) = upTo[L]
  BY DEF ObserveAll
<1> HIDE DEF upTo
<1> DEFINE Right == {n \in Nat : n <= L => Counts(upTo[n], s, lo .. p + n, how, hash)}
<1>7. 0 \in Right
  <2>1. upTo[0] = m
    <3>1. 0 \in 0 .. L
      BY <1>1
    <3> QED
      BY <1>5, <3>1
  <2>2. p + 0 = p
    OBVIOUS
  <2> QED
    BY <2>1, <2>2
<1>8. ASSUME NEW n \in Nat, n \in Right PROVE n + 1 \in Right
  <2> SUFFICES ASSUME n + 1 <= L PROVE Counts(upTo[n + 1], s, lo .. p + (n + 1), how, hash)
    OBVIOUS
  <2>1. Counts(upTo[n], s, lo .. p + n, how, hash)
    BY <1>1, <1>8
  <2>2. upTo[n + 1] = Observe(upTo[n], rows[n + 1], how, hash)
    <3>1. n + 1 \in 0 .. L /\ n + 1 # 0 /\ (n + 1) - 1 = n
      BY <1>1
    <3> QED
      BY <1>5, <3>1
  <2>3. rows[n + 1] = s[p + (n + 1)]
    BY <1>1
  <2>4. p + (n + 1) \in DOMAIN s /\ p + (n + 1) \notin lo .. p + n /\ lo .. p + n \in SUBSET DOMAIN s
    BY <1>1
  <2>5. Counts(Observe(upTo[n], s[p + (n + 1)], how, hash), s, (lo .. p + n) \cup {p + (n + 1)}, how, hash)
    BY <2>1, <2>4, ObserveCounts
  <2>6. (lo .. p + n) \cup {p + (n + 1)} = lo .. p + (n + 1)
    BY <1>1
  <2> QED
    BY <2>2, <2>3, <2>5, <2>6, Zenon
<1>9. L \in Right
  <2> HIDE DEF Right
  <2>1. Nat \subseteq Right
    BY <1>7, <1>8, AllNumbers
  <2> QED
    BY <1>1, <2>1
<1> QED
  BY <1>1, <1>6, <1>9

\* Several partials: those of the stretches of rows that h bounds.
LEMMA MergeAllCounts ==
  ASSUME NEW s \in Seq(Value), NEW S, NEW partials \in Seq(S), NEW h \in [0 .. Len(partials) -> 0 .. Len(s)],
         h[0] = 0, \A n \in 1 .. Len(partials) : h[n - 1] <= h[n], NEW how, NEW hash,
         \A n \in 1 .. Len(partials) : Counts(partials[n], s, h[n - 1] + 1 .. h[n], how, hash)
  PROVE  Counts(MergeAll(partials), s, 1 .. h[Len(partials)], how, hash)
<1> DEFINE L == Len(partials)
           Folds(f, n) == f = [k \in 0 .. n |-> IF k = 0 THEN NoMetrics ELSE Merge(f[k - 1], partials[k])]
           Good == {n \in Nat : n <= L => \E f : Folds(f, n)}
<1>1. L \in Nat
  OBVIOUS
<1>2. 0 \in Good
  <2> DEFINE f == [k \in 0 .. 0 |-> NoMetrics]
  <2>1. Folds(f, 0)
    <3>1. f = [k \in 0 .. 0 |-> IF k = 0 THEN NoMetrics ELSE Merge(f[k - 1], partials[k])]
      OBVIOUS
    <3> QED
      BY <3>1
  <2> QED
    BY <2>1
<1>3. ASSUME NEW n \in Nat, n \in Good PROVE n + 1 \in Good
  <2> SUFFICES ASSUME n + 1 <= L PROVE \E f : Folds(f, n + 1)
    OBVIOUS
  <2>1. PICK f : Folds(f, n)
    BY <1>3
  <2> DEFINE g == [k \in 0 .. n + 1 |-> IF k = n + 1 THEN Merge(f[n], partials[n + 1]) ELSE f[k]]
  <2>2. ASSUME NEW k \in 0 .. n + 1
        PROVE  g[k] = IF k = 0 THEN NoMetrics ELSE Merge(g[k - 1], partials[k])
    <3>1. CASE k = n + 1
      <4>1. k - 1 = n /\ n \in 0 .. n + 1 /\ n # n + 1 /\ k # 0
        BY <3>1
      <4>2. g[k] = Merge(f[n], partials[k]) /\ g[n] = f[n]
        BY <3>1, <4>1
      <4> QED
        BY <4>1, <4>2
    <3>2. CASE k = 0
      <4>1. 0 \in 0 .. n /\ 0 # n + 1
        OBVIOUS
      <4>2. f[0] = NoMetrics
        BY <2>1, <4>1
      <4> QED
        BY <3>2, <4>1, <4>2
    <3>3. CASE k # 0 /\ k # n + 1
      <4>1. k \in 0 .. n /\ k - 1 \in 0 .. n /\ k - 1 # n + 1 /\ k - 1 \in 0 .. n + 1
        BY <3>3
      <4>2. f[k] = Merge(f[k - 1], partials[k])
        BY <2>1, <3>3, <4>1
      <4>3. g[k] = f[k] /\ g[k - 1] = f[k - 1]
        BY <3>3, <4>1
      <4> QED
        BY <3>3, <4>2, <4>3
    <3> QED
      BY <3>1, <3>2, <3>3
  <2>3. g = [k \in 0 .. n + 1 |-> g[k]]
    OBVIOUS
  <2>4. Folds(g, n + 1)
    <3> HIDE DEF g
    <3> QED
      BY <2>2, <2>3
  <2> QED
    BY <2>4
<1>4. \E f : Folds(f, L)
  <2> HIDE DEF Good, Folds
  <2>1. Nat \subseteq Good
    BY <1>2, <1>3, AllNumbers
  <2> QED
    BY <1>1, <2>1 DEF Good
<1> DEFINE upTo == CHOOSE f : Folds(f, L)
<1>5. Folds(upTo, L)
  <2> HIDE DEF Folds
  <2> QED
    BY <1>4
<1>6. MergeAll(partials) = upTo[L]
  BY DEF MergeAll
<1> HIDE DEF upTo
<1> DEFINE Right == {n \in Nat : n <= L => Counts(upTo[n], s, 1 .. h[n], how, hash)}
<1>7. 0 \in Right
  <2>1. upTo[0] = NoMetrics
    <3>1. 0 \in 0 .. L
      BY <1>1
    <3> QED
      BY <1>5, <3>1
  <2>2. 1 .. h[0] = {}
    OBVIOUS
  <2>3. Counts(NoMetrics, s, {}, how, hash)
    BY NothingCounts
  <2>4. Counts(upTo[0], s, 1 .. h[0], how, hash)
    BY <2>1, <2>2, <2>3, Zenon
  <2> QED
    BY <2>4
<1>8. ASSUME NEW n \in Nat, n \in Right PROVE n + 1 \in Right
  <2> SUFFICES ASSUME n + 1 <= L PROVE Counts(upTo[n + 1], s, 1 .. h[n + 1], how, hash)
    OBVIOUS
  <2>1. Counts(upTo[n], s, 1 .. h[n], how, hash)
    BY <1>1, <1>8
  <2>2. /\ n + 1 \in 0 .. L /\ n + 1 # 0 /\ (n + 1) - 1 = n /\ n \in 0 .. L /\ n + 1 \in 1 .. L
    BY <1>1
  <2>3. upTo[n + 1] = Merge(upTo[n], partials[n + 1])
    BY <1>5, <2>2
  <2>4. /\ h[n] \in 0 .. Len(s) /\ h[n + 1] \in 0 .. Len(s) /\ h[n] <= h[n + 1]
        /\ Counts(partials[n + 1], s, h[n] + 1 .. h[n + 1], how, hash)
    <3>1. Counts(partials[n + 1], s, h[(n + 1) - 1] + 1 .. h[n + 1], how, hash) /\ h[(n + 1) - 1] <= h[n + 1]
      BY <2>2
    <3> QED
      BY <2>2, <3>1
  <2>5. /\ 1 .. h[n] \in SUBSET DOMAIN s /\ h[n] + 1 .. h[n + 1] \in SUBSET DOMAIN s
        /\ (1 .. h[n]) \cap (h[n] + 1 .. h[n + 1]) = {}
        /\ (1 .. h[n]) \cup (h[n] + 1 .. h[n + 1]) = 1 .. h[n + 1]
    BY <2>4
  <2>6. Counts(Merge(upTo[n], partials[n + 1]), s, (1 .. h[n]) \cup (h[n] + 1 .. h[n + 1]), how, hash)
    BY <2>1, <2>4, <2>5, MergeCounts
  <2> QED
    BY <2>3, <2>5, <2>6, Zenon
<1>9. L \in Right
  <2> HIDE DEF Right
  <2>1. Nat \subseteq Right
    BY <1>7, <1>8, AllNumbers
  <2> QED
    BY <1>1, <2>1
<1> QED
  BY <1>1, <1>6, <1>9

-----------------------------------------------------------------------------
(* How the rows are divided. Blocks of size rows each, the last one excepted.            *)

Bound(rows, size, n) == LeastOf(n * size, Len(rows))

LEMMA BlockBounds ==
  ASSUME NEW rows \in Seq(Value), NEW size \in Nat \ {0}, NEW K \in Nat,
         K > 0 => (K - 1) * size < Len(rows), Len(rows) <= K * size
  PROVE  /\ \A n \in 0 .. K : Bound(rows, size, n) \in 0 .. Len(rows)
         /\ Bound(rows, size, 0) = 0 /\ Bound(rows, size, K) = Len(rows)
         /\ \A n \in 1 .. K : /\ Bound(rows, size, n - 1) = (n - 1) * size
                              /\ Bound(rows, size, n - 1) < Bound(rows, size, n)
<1> DEFINE L == Len(rows)
<1>1. L \in Nat
  OBVIOUS
<1>2. \A n \in Nat : n * size \in Nat
  OBVIOUS
<1>3. ASSUME NEW a \in Nat, NEW b \in Nat, a <= b PROVE a * size <= b * size
  BY <1>3
<1>4. \A n \in 0 .. K : Bound(rows, size, n) \in 0 .. L
  BY <1>1, <1>2 DEF Bound, LeastOf
<1>5. Bound(rows, size, 0) = 0
  <2>1. 0 * size = 0
    OBVIOUS
  <2> QED
    BY <1>1, <2>1 DEF Bound, LeastOf
<1>6. Bound(rows, size, K) = L
  BY <1>1, <1>2 DEF Bound, LeastOf
<1>7. ASSUME NEW n \in 1 .. K
      PROVE  Bound(rows, size, n - 1) = (n - 1) * size /\ Bound(rows, size, n - 1) < Bound(rows, size, n)
  <2>1. n \in Nat /\ n - 1 \in Nat /\ K - 1 \in Nat /\ n - 1 <= K - 1
    OBVIOUS
  <2>2. (n - 1) * size \in Nat /\ (n - 1) * size <= (K - 1) * size /\ (K - 1) * size \in Nat
    BY <1>2, <1>3, <2>1
  <2>3. (n - 1) * size < L
    BY <1>1, <2>1, <2>2
  <2>4. n * size = (n - 1) * size + size
    BY <2>1
  <2> DEFINE x == (n - 1) * size
             y == n * size
  <2>5. x \in Nat /\ x < L /\ y = x + size
    BY <2>2, <2>3, <2>4
  <2> HIDE DEF x, y
  <2>6. LeastOf(x, L) = x /\ x < LeastOf(y, L)
    BY <1>1, <2>5 DEF LeastOf
  <2> QED
    BY <2>6 DEF Bound, x, y
<1> QED
  BY <1>4, <1>5, <1>6, <1>7

\* Dividing and rounding up.
LEMMA RoundedUp ==
  ASSUME NEW a \in Nat \ {0}, NEW b \in Nat \ {0}
  PROVE  LET q == (a + b - 1) \div b
         IN  q \in Nat \ {0} /\ a <= q * b /\ (q - 1) * b < a
<1> DEFINE q == (a + b - 1) \div b
           r == (a + b - 1) % b
<1>1. a + b - 1 \in Nat /\ b > 0
  OBVIOUS
<1>2. q \in Int /\ r \in 0 .. b - 1 /\ a + b - 1 = b * q + r
  BY <1>1
<1> HIDE DEF q, r
<1>3. a <= b * q /\ b * q <= a + b - 1
  BY <1>2
<1>4. q > 0
  <2>1. ~(q <= 0)
    <3> SUFFICES ASSUME q <= 0 PROVE FALSE
      OBVIOUS
    <3>1. b * q <= 0
      BY <1>2
    <3> QED
      BY <1>2, <1>3, <3>1
  <2> QED
    BY <1>2, <2>1
<1>5. b * q = q * b /\ (q - 1) * b = q * b - b
  BY <1>2
<1>6. a <= q * b /\ (q - 1) * b < a
  <2> DEFINE x == q * b
  <2>1. x \in Int /\ b * q = x /\ (q - 1) * b = x - b
    BY <1>2, <1>5
  <2> HIDE DEF x
  <2>2. a <= x /\ x - b < a
    BY <1>3, <2>1
  <2> QED
    BY <2>1, <2>2 DEF x
<1> QED
  BY <1>2, <1>4, <1>6 DEF q

\* The blocks the gate deals out leave no row out and hold none twice.
LEMMA SpansCover ==
  ASSUME NEW rows \in Seq(Value), rows # <<>>
  PROVE  \E size \in Nat \ {0}, K \in Nat \ {0} :
           /\ (K - 1) * size < Len(rows) /\ Len(rows) <= K * size
           /\ Spans(rows) = [i \in 1 .. K |-> SubSeq(rows, (i - 1) * size + 1, Bound(rows, size, i))]
<1> DEFINE L == Len(rows)
           R == RowGroupRows
           groups == NumGroups(rows)
           workers == LeastOf(Workers, groups)
           per == (groups + workers - 1) \div workers
           size == per * R
           K == (groups + per - 1) \div per
<1>1. L \in Nat \ {0} /\ R \in Nat \ {0} /\ Workers \in Nat \ {0}
  BY GateAssumption
<1>2. groups \in Nat \ {0} /\ (groups - 1) * R < L /\ L <= groups * R
  BY <1>1, RoundedUp DEF NumGroups
<1>3. workers \in Nat \ {0}
  <2> HIDE DEF groups
  <2> QED
    BY <1>1, <1>2 DEF LeastOf
<1>4. per \in Nat \ {0}
  <2> HIDE DEF groups, workers
  <2> QED
    BY <1>2, <1>3, RoundedUp
<1>5. K \in Nat \ {0} /\ groups <= K * per /\ (K - 1) * per < groups
  <2> HIDE DEF groups, per
  <2> QED
    BY <1>2, <1>4, RoundedUp
<1>6. Spans(rows) = [i \in 1 .. K |-> SubSeq(rows, (i - 1) * size + 1, LeastOf(i * size, L))]
  BY DEF Spans
<1> HIDE DEF groups, workers, per, K, R, L
<1>7. size \in Nat \ {0}
  BY <1>1, <1>4
<1>8. (K - 1) * size < L
  <2> DEFINE a == (K - 1) * per
  <2>1. a \in Nat /\ a <= groups - 1
    BY <1>2, <1>4, <1>5
  <2>2. (K - 1) * size = a * R
    BY <1>1, <1>4, <1>5
  <2> HIDE DEF a
  <2>3. a * R <= (groups - 1) * R
    BY <1>1, <1>2, <2>1
  <2>4. a * R \in Int /\ (groups - 1) * R \in Int
    BY <1>1, <1>2, <2>1
  <2>5. a * R < L
    BY <1>1, <1>2, <2>3, <2>4
  <2> QED
    BY <2>2, <2>5
<1>9. L <= K * size
  <2> DEFINE a == K * per
  <2>1. a \in Nat /\ groups <= a
    BY <1>2, <1>4, <1>5
  <2>2. K * size = a * R
    BY <1>1, <1>4, <1>5
  <2> HIDE DEF a
  <2>3. groups * R <= a * R
    BY <1>1, <1>2, <2>1
  <2>4. a * R \in Int /\ groups * R \in Int
    BY <1>1, <1>2, <2>1
  <2>5. L <= a * R
    BY <1>1, <1>2, <2>3, <2>4
  <2> QED
    BY <2>2, <2>5
<1>10. Spans(rows) = [i \in 1 .. K |-> SubSeq(rows, (i - 1) * size + 1, Bound(rows, size, i))]
  BY <1>6 DEF Bound, L
<1> QED
  BY <1>5, <1>7, <1>8, <1>9, <1>10 DEF L

LEMMA AsSequence ==
  ASSUME NEW K \in Nat, NEW f, f = [i \in 1 .. K |-> f[i]]
  PROVE  f \in Seq({f[i] : i \in 1 .. K}) /\ Len(f) = K
<1> DEFINE S == {f[i] : i \in 1 .. K}
           g == [i \in 1 .. K |-> f[i]]
<1>1. g \in Seq(S) /\ Len(g) = K
  OBVIOUS
<1> HIDE DEF g
<1> QED
  BY <1>1 DEF g

\* A stretch of rows, place by place.
LEMMA Stretch ==
  ASSUME NEW S, NEW rows \in Seq(S), NEW p \in Nat, NEW q \in Nat, p <= q, q <= Len(rows)
  PROVE  LET part == SubSeq(rows, p + 1, q)
         IN  part \in Seq(S) /\ Len(part) = q - p /\ \A k \in 1 .. Len(part) : part[k] = rows[p + k]
<1> DEFINE part == SubSeq(rows, p + 1, q)
<1>1. CASE p = q
  <2>1. part = <<>>
    BY <1>1
  <2> QED
    BY <1>1, <2>1
<1>2. CASE p < q
  <2>1. \A i \in p + 1 .. q : rows[i] \in S
    OBVIOUS
  <2>2. part \in Seq(S) /\ Len(part) = q - p
    BY <1>2
  <2>3. \A k \in 1 .. Len(part) : part[k] = rows[p + k]
    <3>1. \A k \in 1 .. q - p : part[k] = rows[p + k]
      BY <1>2
    <3> QED
      BY <2>2, <3>1
  <2> QED
    BY <2>2, <2>3
<1> QED
  BY <1>1, <1>2

-----------------------------------------------------------------------------
\* What the writer and the source count.

-----------------------------------------------------------------------------
(* The rows decoded, and what was counted of them.                                       *)

LEMMA WithoutNaN ==
  ASSUME NEW s \in Seq(Value), NaN \notin Range(s)
  PROVE  s \in Seq(Plain)
<1>1. \A i \in 1 .. Len(s) : s[i] \in Plain
  BY DEF Range, Value, Number, Plain
<1> QED
  BY <1>1 DEF Plain

LEMMA DecodedTyped ==
  ASSUME NEW S, Plain \subseteq S, content \in Seq(S)
  PROVE  Decoded \in Seq(S) /\ Len(Decoded) = Len(content)
<1>1. Misread(content) \in Seq(S) /\ Len(Misread(content)) = Len(content)
  <2>1. 1 \in S /\ 2 \in S
    BY DEF Plain
  <2>2. Misread(content) = [i \in 1 .. Len(content) |-> IF content[i] = 1 THEN 2 ELSE 1]
    BY DEF Misread
  <2> QED
    BY <2>1, <2>2
<1> QED
  BY <1>1 DEF Decoded

\* The library may lose, repeat, alter or reorder rows, and makes no new kind of value.
LEMMA WrittenTyped ==
  ASSUME NEW S, Plain \subseteq S, Decoded \in Seq(S), NEW w \in Written(Decoded)
  PROVE  w.rows \in Seq(S)
<1> DEFINE d == Decoded
           n == Len(d)
<1>0. d \in Seq(S) /\ n \in Nat /\ 1 \in S /\ 2 \in S /\ Null \in S
  BY DEF Plain
<1>1. w.rows \in {d, <<>>, Front(d), d \o ChunkRows(1), Reverse(d), [d EXCEPT ![1] = Null],
                  [d EXCEPT ![n] = IF @ = 1 THEN 2 ELSE 1]}
  <2> DEFINE altered == {d, <<>>, Front(d), d \o ChunkRows(1), Reverse(d), [d EXCEPT ![1] = Null],
                         [d EXCEPT ![n] = IF @ = 1 THEN 2 ELSE 1]}
  <2>1. w \in [rows : altered, schema : {TRUE}] \cup {[rows |-> d, schema |-> FALSE]}
    BY DEF Written
  <2>2. d \in altered
    OBVIOUS
  <2> HIDE DEF altered, d, n
  <2>3. ASSUME w \in [rows : altered, schema : {TRUE}] PROVE w.rows \in altered
    BY <2>3
  <2>4. ASSUME w = [rows |-> d, schema |-> FALSE] PROVE w.rows \in altered
    BY <2>2, <2>4
  <2>5. w.rows \in altered
    BY <2>1, <2>3, <2>4
  <2> QED
    BY <2>5 DEF altered
<1>2. Front(d) \in Seq(S)
  <2>1. \A i \in 1 .. n - 1 : d[i] \in S
    BY <1>0
  <2>2. SubSeq(d, 1, n - 1) \in Seq(S)
    BY <1>0, <2>1, SubSeqProperties
  <2> QED
    BY <2>2 DEF Front
<1>3. ChunkRows(1) \in Seq(S)
  <2> DEFINE e == LeastOf(BatchRows, n)
  <2>1. e \in Int /\ e <= n
    BY <1>0, GateAssumption DEF LeastOf
  <2>2. ChunkRows(1) = SubSeq(d, 1, e)
    <3>1. BatchRows \in Nat
      BY GateAssumption
    <3>2. (1 - 1) * BatchRows + 1 = 1 /\ 1 * BatchRows = BatchRows
      BY <3>1
    <3> QED
      BY <3>2 DEF ChunkRows
  <2>3. \A i \in 1 .. e : d[i] \in S
    BY <1>0, <2>1
  <2> HIDE DEF e, d
  <2>4. SubSeq(d, 1, e) \in Seq(S)
    BY <2>1, <2>3, SubSeqProperties
  <2> QED
    BY <2>2, <2>4
<1>4. d \o ChunkRows(1) \in Seq(S)
  BY <1>0, <1>3
<1>5. Reverse(d) \in Seq(S)
  <2>1. Reverse(d) = [i \in 1 .. n |-> d[(n - i) + 1]]
    BY DEF Reverse
  <2>2. \A i \in 1 .. n : d[(n - i) + 1] \in S
    BY <1>0
  <2> HIDE DEF d, n
  <2>3. [i \in 1 .. n |-> d[(n - i) + 1]] \in Seq(S)
    BY <1>0, <2>2
  <2> QED
    BY <2>1, <2>3
<1>6. ASSUME NEW k, NEW x \in S PROVE [d EXCEPT ![k] = x] \in Seq(S)
  <2>1. [d EXCEPT ![k] = x] = [i \in 1 .. n |-> IF i = k THEN x ELSE d[i]]
    BY <1>0
  <2>2. \A i \in 1 .. n : (IF i = k THEN x ELSE d[i]) \in S
    BY <1>0
  <2> HIDE DEF d, n
  <2>3. [i \in 1 .. n |-> IF i = k THEN x ELSE d[i]] \in Seq(S)
    BY <1>0, <2>2
  <2> QED
    BY <2>1, <2>3
<1>7. [d EXCEPT ![1] = Null] \in Seq(S)
  BY <1>0, <1>6
<1>8. [d EXCEPT ![n] = IF @ = 1 THEN 2 ELSE 1] \in Seq(S)
  <2>1. (IF d[n] = 1 THEN 2 ELSE 1) \in S
    BY <1>0
  <2>2. [d EXCEPT ![n] = IF d[n] = 1 THEN 2 ELSE 1] \in Seq(S)
    BY <1>6, <2>1
  <2> QED
    BY <2>2
<1>9. <<>> \in Seq(S)
  OBVIOUS
<1> HIDE DEF d, n
<1> QED
  BY <1>0, <1>1, <1>2, <1>4, <1>5, <1>7, <1>8, <1>9

\* MetricsOf: a stretch of rows on its own.
LEMMA StretchCounts ==
  ASSUME NEW s \in Seq(Value), NEW p \in Nat, NEW q \in Nat, p <= q, q <= Len(s), NEW how, NEW hash
  PROVE  Counts(MetricsOf(SubSeq(s, p + 1, q), how, hash), s, p + 1 .. q, how, hash)
<1> DEFINE rows == SubSeq(s, p + 1, q)
<1>1. rows \in Seq(Value) /\ Len(rows) = q - p /\ \A k \in 1 .. Len(rows) : rows[k] = s[p + k]
  BY Stretch
<1>2. Counts(NoMetrics, s, p + 1 .. p, how, hash)
  <2>1. p + 1 .. p = {}
    OBVIOUS
  <2> QED
    BY <2>1, NothingCounts
<1> HIDE DEF rows
<1>3. p + 1 \in Nat \ {0} /\ p + 1 <= p + 1 /\ p + Len(rows) <= Len(s) /\ p + Len(rows) = q
  BY <1>1
<1>4. Counts(ObserveAll(NoMetrics, rows, how, hash), s, p + 1 .. p + Len(rows), how, hash)
  BY <1>1, <1>2, <1>3, ObserveAllCounts
<1> QED
  BY <1>3, <1>4 DEF rows, MetricsOf

\* The metrics of the source are those of the rows decoded, all of them, however they were
\* dealt out in chunks.
LEMMA SourceCounts ==
  ASSUME Decoded \in Seq(Value), Len(Decoded) > (NumChunks - 1) * BatchRows,
         Len(Decoded) <= NumChunks * BatchRows, NEW how, NEW hash
  PROVE  Counts(MergeAll([c \in 1 .. NumChunks |-> MetricsOf(ChunkRows(c), how, hash)]),
                Decoded, DOMAIN Decoded, how, hash)
<1> DEFINE d == Decoded
           size == BatchRows
           K == NumChunks
           h == [n \in 0 .. K |-> Bound(d, size, n)]
           parts == [c \in 1 .. K |-> MetricsOf(ChunkRows(c), how, hash)]
<1>1. K \in Nat /\ size \in Nat \ {0} /\ d \in Seq(Value)
  BY GateAssumption, ReadAssumption
<1>2. /\ \A n \in 0 .. K : Bound(d, size, n) \in 0 .. Len(d)
      /\ Bound(d, size, 0) = 0 /\ Bound(d, size, K) = Len(d)
      /\ \A n \in 1 .. K : /\ Bound(d, size, n - 1) = (n - 1) * size
                           /\ Bound(d, size, n - 1) < Bound(d, size, n)
  BY <1>1, BlockBounds
<1>3. parts \in Seq({parts[c] : c \in 1 .. K}) /\ Len(parts) = K
  <2>1. parts = [c \in 1 .. K |-> parts[c]]
    OBVIOUS
  <2> HIDE DEF parts, K
  <2> QED
    BY <1>1, <2>1, AsSequence
<1>4. ASSUME NEW c \in 1 .. K
      PROVE  /\ h[c - 1] = Bound(d, size, c - 1) /\ h[c] = Bound(d, size, c) /\ h[c - 1] <= h[c]
             /\ Counts(parts[c], d, h[c - 1] + 1 .. h[c], how, hash)
  <2>1. c - 1 \in 0 .. K /\ c \in 0 .. K
    BY <1>1
  <2>2. h[c - 1] = Bound(d, size, c - 1) /\ h[c] = Bound(d, size, c)
    BY <2>1
  <2>3. h[c - 1] \in Nat /\ h[c] \in Nat /\ h[c - 1] <= h[c] /\ h[c] <= Len(d)
    <3>1. /\ Bound(d, size, c - 1) \in 0 .. Len(d) /\ Bound(d, size, c) \in 0 .. Len(d)
          /\ Bound(d, size, c - 1) < Bound(d, size, c)
      BY <1>2, <2>1
    <3> HIDE DEF h
    <3> QED
      BY <1>1, <2>2, <3>1
  <2>4. ChunkRows(c) = SubSeq(d, h[c - 1] + 1, h[c])
    <3>1. h[c - 1] = (c - 1) * size
      BY <1>2, <2>2
    <3> QED
      BY <2>2, <3>1 DEF ChunkRows, Bound
  <2>5. parts[c] = MetricsOf(ChunkRows(c), how, hash)
    OBVIOUS
  <2> HIDE DEF h, parts, d
  <2>6. Counts(MetricsOf(SubSeq(d, h[c - 1] + 1, h[c]), how, hash), d, h[c - 1] + 1 .. h[c], how, hash)
    BY <1>1, <2>3, StretchCounts
  <2> QED
    BY <2>2, <2>3, <2>4, <2>5, <2>6
<1>5. h \in [0 .. Len(parts) -> 0 .. Len(d)] /\ h[0] = 0 /\ h[Len(parts)] = Len(d)
  BY <1>1, <1>2, <1>3
<1> HIDE DEF h, parts, d, K
<1>6. Counts(MergeAll(parts), d, 1 .. h[Len(parts)], how, hash)
  BY <1>1, <1>3, <1>4, <1>5, MergeAllCounts
<1>7. 1 .. h[Len(parts)] = DOMAIN d
  BY <1>1, <1>5
<1> QED
  BY <1>6, <1>7 DEF parts, d, K

-----------------------------------------------------------------------------
\* What two files with the same metrics have in common.

-----------------------------------------------------------------------------
(* The comparison.                                                                       *)

\* The numbers of rows that the metrics hold are those the properties speak of.
LEMMA CountsRows ==
  ASSUME NEW s \in Seq(Value)
  PROVE  /\ Total(Ones, s, DOMAIN s) = Len(s)
         /\ Total(Only(Null), s, DOMAIN s) = Nulls(s)
         /\ [v \in Shown(s, DOMAIN s) |-> Total(Only(v), s, DOMAIN s)] = BagOf(s)
         /\ Shown(s, DOMAIN s) = Range(s)
<1>1. \A i \in DOMAIN s : s[i] \in Value
  OBVIOUS
<1>2. Total(Ones, s, DOMAIN s) = Len(s)
  <2>1. \A v \in Value : Ones[v] \in {0, 1}
    BY DEF Ones
  <2>2. {i \in DOMAIN s : Ones[s[i]] = 1} = 1 .. Len(s)
    BY <1>1 DEF Ones
  <2>3. Total(Ones, s, DOMAIN s) = Cardinality({i \in DOMAIN s : Ones[s[i]] = 1})
    BY <2>1, Weights, UnitsCount
  <2>4. Cardinality(1 .. Len(s)) = Len(s)
    <3>1. Len(s) \in Int /\ 1 \in Int /\ Len(s) >= 0
      OBVIOUS
    <3>2. Cardinality(1 .. Len(s)) = IF 1 > Len(s) THEN 0 ELSE Len(s) - 1 + 1
      BY <3>1, FS_Interval
    <3> QED
      BY <3>1, <3>2
  <2> QED
    BY <2>2, <2>3, <2>4
<1>3. ASSUME NEW v PROVE Total(Only(v), s, DOMAIN s) = Cardinality({i \in DOMAIN s : s[i] = v})
  <2>1. \A x \in Value : Only(v)[x] \in {0, 1}
    BY DEF Only
  <2>2. {i \in DOMAIN s : Only(v)[s[i]] = 1} = {i \in DOMAIN s : s[i] = v}
    BY <1>1 DEF Only
  <2>3. Total(Only(v), s, DOMAIN s) = Cardinality({i \in DOMAIN s : Only(v)[s[i]] = 1})
    BY <2>1, Weights, UnitsCount
  <2> QED
    BY <2>2, <2>3
<1>4. Shown(s, DOMAIN s) = Range(s)
  BY DEF Shown, Range
<1>5. Total(Only(Null), s, DOMAIN s) = Nulls(s)
  BY <1>3 DEF Nulls
<1>6. [v \in Shown(s, DOMAIN s) |-> Total(Only(v), s, DOMAIN s)] = BagOf(s)
  BY <1>3, <1>4 DEF BagOf
<1> QED
  BY <1>2, <1>4, <1>5, <1>6

\* The same rows in any order: a place for each place.
LEMMA SameRowsMoved ==
  ASSUME NEW a \in Seq(Value), NEW b \in Seq(Value), SameRows(a, b)
  PROVE  \E f \in Bijection(DOMAIN a, DOMAIN b) : \A i \in DOMAIN a : b[f[i]] = a[i]
<1> DEFINE At(s, v) == {i \in DOMAIN s : s[i] = v}
<1>1. /\ Range(a) = Range(b)
      /\ \A v \in Range(a) : Cardinality(At(a, v)) = Cardinality(At(b, v))
  <2>1. BagOf(a) = BagOf(b)
    BY DEF SameRows
  <2>2. DOMAIN BagOf(a) = Range(a) /\ DOMAIN BagOf(b) = Range(b)
    BY DEF BagOf
  <2>3. Range(a) = Range(b)
    BY <2>1, <2>2
  <2>4. ASSUME NEW v \in Range(a) PROVE Cardinality(At(a, v)) = Cardinality(At(b, v))
    <3>1. BagOf(a)[v] = Cardinality(At(a, v)) /\ BagOf(b)[v] = Cardinality(At(b, v))
      BY <2>3 DEF BagOf
    <3> QED
      BY <2>1, <3>1
  <2> QED
    BY <2>3, <2>4
<1>2. ASSUME NEW s \in Seq(Value), NEW v PROVE IsFiniteSet(At(s, v))
  <2>1. IsFiniteSet(1 .. Len(s)) /\ At(s, v) \in SUBSET (1 .. Len(s))
    BY FS_Interval
  <2> QED
    BY <2>1, FS_Subset
<1>3. \A v \in Range(a) : Bijection(At(a, v), At(b, v)) # {}
  <2> SUFFICES ASSUME NEW v \in Range(a) PROVE Bijection(At(a, v), At(b, v)) # {}
    OBVIOUS
  <2> DEFINE A == At(a, v)
             B == At(b, v)
  <2>1. IsFiniteSet(A) /\ IsFiniteSet(B) /\ Cardinality(A) = Cardinality(B)
    BY <1>1, <1>2
  <2> HIDE DEF A, B, At
  <2>2. ExistsBijection(A, B)
    BY <2>1, FS_SameCardinalityBij
  <2> QED
    BY <2>2 DEF ExistsBijection, A, B
<1> DEFINE to == [v \in Range(a) |-> CHOOSE g \in Bijection(At(a, v), At(b, v)) : TRUE]
           f == [i \in DOMAIN a |-> to[a[i]][i]]
<1>4. ASSUME NEW v \in Range(a)
      PROVE  /\ to[v] \in [At(a, v) -> At(b, v)]
             /\ \A i, j \in At(a, v) : to[v][i] = to[v][j] => i = j
             /\ \A j \in At(b, v) : \E i \in At(a, v) : to[v][i] = j
  <2> DEFINE A == At(a, v)
             B == At(b, v)
  <2>1. to[v] = CHOOSE g \in Bijection(A, B) : TRUE
    OBVIOUS
  <2>2. \E g : g \in Bijection(A, B)
    BY <1>3
  <2> DEFINE g == to[v]
  <2>3. g \in Bijection(A, B)
    <3> HIDE DEF to, A, B, At
    <3> QED
      BY <2>1, <2>2, Zenon
  <2>4. /\ g \in [A -> B] /\ \A i, j \in A : g[i] = g[j] => i = j
        /\ \A j \in B : \E i \in A : g[i] = j
    <3> HIDE DEF g, A, B
    <3> QED
      BY <2>3 DEF Bijection, Injection, Surjection, IsInjective
  <2> QED
    BY <2>4
<1>5. \A i \in DOMAIN a : a[i] \in Range(a) /\ i \in At(a, a[i])
  BY DEF Range
<1>6. \A j \in DOMAIN b : b[j] \in Range(a) /\ j \in At(b, b[j])
  BY <1>1 DEF Range
<1>7. ASSUME NEW i \in DOMAIN a PROVE f[i] \in DOMAIN b /\ b[f[i]] = a[i]
  <2>1. f[i] = to[a[i]][i]
    OBVIOUS
  <2>2. to[a[i]][i] \in At(b, a[i])
    <3> HIDE DEF to, At
    <3> QED
      BY <1>4, <1>5
  <2> QED
    BY <2>1, <2>2
<1>8. ASSUME NEW i \in DOMAIN a, NEW j \in DOMAIN a, f[i] = f[j] PROVE i = j
  <2>1. a[i] = a[j]
    BY <1>7, <1>8
  <2>2. f[i] = to[a[i]][i] /\ f[j] = to[a[i]][j]
    BY <2>1
  <2>3. i \in At(a, a[i]) /\ j \in At(a, a[i]) /\ a[i] \in Range(a)
    BY <1>5, <2>1
  <2> HIDE DEF to, At, f
  <2>4. to[a[i]][i] = to[a[i]][j]
    BY <1>8, <2>2
  <2> QED
    BY <1>4, <2>3, <2>4
<1>9. ASSUME NEW j \in DOMAIN b PROVE \E i \in DOMAIN a : f[i] = j
  <2>1. b[j] \in Range(a) /\ j \in At(b, b[j])
    BY <1>6
  <2>2. PICK i \in At(a, b[j]) : to[b[j]][i] = j
    <3> HIDE DEF to, At
    <3> QED
      BY <1>4, <2>1
  <2>3. i \in DOMAIN a /\ a[i] = b[j]
    OBVIOUS
  <2>4. f[i] = to[a[i]][i]
    BY <2>3
  <2> HIDE DEF to, At, f
  <2> QED
    BY <2>2, <2>3, <2>4
<1>10. f \in [DOMAIN a -> DOMAIN b]
  BY <1>7
<1> HIDE DEF f
<1>11. f \in Bijection(DOMAIN a, DOMAIN b)
  BY <1>8, <1>9, <1>10 DEF Bijection, Injection, Surjection, IsInjective
<1> QED
  BY <1>7, <1>11

LEMMA SameRowsTotal ==
  ASSUME NEW a \in Seq(Value), NEW b \in Seq(Value), SameRows(a, b), NEW w \in Weight
  PROVE  Total(w, a, DOMAIN a) = Total(w, b, DOMAIN b)
<1>1. PICK f \in Bijection(DOMAIN a, DOMAIN b) : \A i \in DOMAIN a : b[f[i]] = a[i]
  BY SameRowsMoved
<1>2. IsFiniteSet(Units(w, a, DOMAIN a))
  BY UnitsFinite
<1> QED
  BY <1>1, <1>2, UnitsMoved

\* Two extrema of one set of numbers are one.
LEMMA OneExtremum ==
  ASSUME NEW N \in SUBSET Int, NEW x, NEW y
  PROVE  /\ Least(x, N) /\ Least(y, N) => x = y
         /\ Greatest(x, N) /\ Greatest(y, N) => x = y
<1>1. CASE N = {}
  BY <1>1 DEF Least, Greatest
<1>2. CASE N # {}
  <2>1. ASSUME Least(x, N), Least(y, N) PROVE x = y
    <3>1. x \in Int /\ y \in Int /\ x <= y /\ y <= x
      BY <1>2, <2>1 DEF Least
    <3> QED
      BY <3>1
  <2>2. ASSUME Greatest(x, N), Greatest(y, N) PROVE x = y
    <3>1. x \in Int /\ y \in Int /\ x <= y /\ y <= x
      BY <1>2, <2>2 DEF Greatest
    <3> QED
      BY <3>1
  <2> QED
    BY <2>1, <2>2
<1> QED
  BY <1>1, <1>2

\* And two sets with one least number have the same numbers below which there is none.
LEMMA OneLeast ==
  ASSUME NEW M \in SUBSET Int, NEW N \in SUBSET Int, NEW m, Least(m, M), Least(m, N), NEW x \in Int
  PROVE  (\A y \in M : ~Less(y, x)) <=> (\A y \in N : ~Less(y, x))
<1>1. Unset \notin Int /\ NaN \notin Int
  BY ValueAssumption DEF Unset
<1>2. CASE M = {}
  <2>1. N = {}
    BY <1>1, <1>2 DEF Least
  <2> QED
    BY <1>2, <2>1
<1>3. CASE M # {}
  <2>1. N # {} /\ m \in M /\ m \in N /\ m \in Int /\ (\A y \in M : m <= y) /\ (\A y \in N : m <= y)
    BY <1>1, <1>3 DEF Least
  <2>2. \A y \in Int : Less(y, x) <=> y < x
    BY <1>1 DEF Less
  <2> QED
    BY <2>1, <2>2
<1> QED
  BY <1>2, <1>3

\* A column whose numbers are small enough for its length fits.
LEMMA SmallFit ==
  ASSUME NEW s \in Seq(Value), s \in Seq(Plain)
  PROVE  /\ (\A x \in Numbers(s) : Len(s) * Abs(x) <= Mantissa) => Fits(Gains, s) /\ Fits(Losses, s)
         /\ (\A x \in Numbers(s) : Len(s) * (x * x) <= Mantissa) => Fits(Squares, s)
<1>1. Mantissa \in Nat /\ Len(s) \in Nat /\ Len(s) * 0 = 0 /\ Null \notin Int
  BY ValueAssumption
<1>2. \A i \in DOMAIN s : s[i] = Null \/ (s[i] \in Int /\ s[i] \in Numbers(s))
  <2>1. \A i \in DOMAIN s : s[i] \in Plain
    OBVIOUS
  <2> QED
    BY <1>1, <2>1 DEF Numbers, Range, Plain
<1>3. \A i \in DOMAIN s : s[i] \in Value
  OBVIOUS
<1>4. ASSUME \A x \in Numbers(s) : Len(s) * Abs(x) <= Mantissa
      PROVE  Fits(Gains, s) /\ Fits(Losses, s)
  <2>1. ASSUME NEW i \in DOMAIN s
        PROVE  Len(s) * Gains[s[i]] <= Mantissa /\ Len(s) * Losses[s[i]] <= Mantissa
    <3>1. Gains[s[i]] \in {0, Abs(s[i])} /\ Losses[s[i]] \in {0, Abs(s[i])}
      BY <1>2, <1>3 DEF Gains, Losses, Abs
    <3>2. s[i] # Null => Len(s) * Abs(s[i]) <= Mantissa
      BY <1>2, <1>4
    <3>3. s[i] = Null => Gains[s[i]] = 0 /\ Losses[s[i]] = 0
      BY <1>1, <1>3 DEF Gains, Losses
    <3>4. 0 <= Mantissa
      BY <1>1
    <3> QED
      BY <1>1, <3>1, <3>2, <3>3, <3>4, Zenon
  <2>2. Gains \in Weight /\ Losses \in Weight
    BY Weights
  <2> QED
    BY <1>1, <2>1, <2>2, TotalWithin DEF Fits
<1>5. ASSUME \A x \in Numbers(s) : Len(s) * (x * x) <= Mantissa
      PROVE  Fits(Squares, s)
  <2>1. ASSUME NEW i \in DOMAIN s PROVE Len(s) * Squares[s[i]] <= Mantissa
    <3>1. s[i] = Null => Squares[s[i]] = 0
      BY <1>1, <1>3 DEF Squares
    <3>2. s[i] # Null => Squares[s[i]] = s[i] * s[i] /\ Len(s) * (s[i] * s[i]) <= Mantissa
      BY <1>2, <1>3, <1>5 DEF Squares
    <3>3. 0 <= Mantissa
      BY <1>1
    <3> QED
      BY <1>1, <3>1, <3>2, <3>3, Zenon
  <2>2. Squares \in Weight
    BY Weights
  <2> QED
    BY <1>1, <2>1, <2>2, TotalWithin DEF Fits
<1> QED
  BY <1>4, <1>5

\* What the gate passes it has compared, and what it finds is there, or comes of the
\* grouping.
LEMMA FindingsRight ==
  ASSUME Decoded \in Seq(Value), out.rows \in Seq(Value), strategy \in Strategies,
         Counts(source, Decoded, DOMAIN Decoded, strategy, Hashing),
         NEW pq, Counts(pq, out.rows, DOMAIN out.rows, strategy, Hashing)
  PROVE  /\ Findings(pq) = {} =>
              /\ out.schema /\ Len(out.rows) = Len(Decoded) /\ Nulls(out.rows) = Nulls(Decoded)
              /\ AtLeast(mode, "full") => SameRows(out.rows, Decoded)
         /\ Findings(pq) = {} /\ out.rows \in Seq(Plain) /\ Decoded \in Seq(Plain)
              /\ AtLeast(mode, "numeric") /\ strategy # "text" =>
              \A x \in Numbers(out.rows) \cup Numbers(Decoded) :
                (\A y \in Numbers(out.rows) : ~Less(y, x)) <=> (\A y \in Numbers(Decoded) : ~Less(y, x))
         /\ /\ out.schema /\ SameRows(out.rows, Decoded)
            /\ strategy = "exact" => Decoded \in Seq(Plain)
            => Findings(pq) \subseteq GroupingMatters
<1> DEFINE d == Decoded
           r == out.rows
<1>0. d \in Seq(Value) /\ r \in Seq(Value)
  OBVIOUS
<1>1. /\ source.rows = Total(Ones, d, DOMAIN d) /\ pq.rows = Total(Ones, r, DOMAIN r)
      /\ source.nulls = Total(Only(Null), d, DOMAIN d) /\ pq.nulls = Total(Only(Null), r, DOMAIN r)
      /\ source.nonNulls = Total(NotNull, d, DOMAIN d) /\ pq.nonNulls = Total(NotNull, r, DOMAIN r)
  BY DEF Counts, Tallies
<1>2. ASSUME AtLeast(mode, "full") PROVE source.fp = BagOf(d) /\ pq.fp = BagOf(r)
  <2>1. /\ source.fp = [v \in Shown(d, DOMAIN d) |-> Total(Only(v), d, DOMAIN d)]
        /\ pq.fp = [v \in Shown(r, DOMAIN r) |-> Total(Only(v), r, DOMAIN r)]
    BY <1>2 DEF Counts, Tallies, Hashing
  <2> HIDE DEF d, r
  <2>2. /\ [v \in Shown(d, DOMAIN d) |-> Total(Only(v), d, DOMAIN d)] = BagOf(d)
        /\ [v \in Shown(r, DOMAIN r) |-> Total(Only(v), r, DOMAIN r)] = BagOf(r)
    BY <1>0, CountsRows
  <2> QED
    BY <2>1, <2>2, Zenon
<1>3. ASSUME strategy # "text", d \in Seq(Plain), r \in Seq(Plain)
      PROVE  /\ Sums(source, d, DOMAIN d, strategy) /\ Sums(pq, r, DOMAIN r, strategy)
             /\ Shown(d, DOMAIN d) \ {Null} = Numbers(d) /\ Shown(r, DOMAIN r) \ {Null} = Numbers(r)
             /\ Numbers(d) \in SUBSET Int /\ Numbers(r) \in SUBSET Int
  <2>1. Sums(source, d, DOMAIN d, strategy) /\ Sums(pq, r, DOMAIN r, strategy)
    BY <1>3 DEF Counts
  <2>2. \A s \in Seq(Plain) : Shown(s, DOMAIN s) \ {Null} = Numbers(s) /\ Numbers(s) \in SUBSET Int
    <3> SUFFICES ASSUME NEW s \in Seq(Plain)
                 PROVE  Shown(s, DOMAIN s) \ {Null} = Numbers(s) /\ Numbers(s) \in SUBSET Int
      OBVIOUS
    <3>1. \A i \in DOMAIN s : s[i] \in Plain
      OBVIOUS
    <3> QED
      BY <3>1 DEF Shown, Numbers, Range, Plain
  <2> HIDE DEF d, r
  <2> QED
    BY <1>3, <2>1, <2>2
<1>4. Findings(pq) = {} =>
        pq.rows = source.rows /\ out.schema
        /\ \A metric \in Compared(mode, strategy) \ FloatSums : source[metric] = pq[metric]
  BY DEF Findings, Differences
<1>5. /\ "nulls" \in Compared(mode, strategy)
      /\ AtLeast(mode, "full") <=> "fp" \in Compared(mode, strategy)
      /\ AtLeast(mode, "numeric") /\ strategy # "text" => "min" \in Compared(mode, strategy)
      /\ strategy = "text" => Compared(mode, strategy) \subseteq {"nulls", "nonNulls", "fp"}
      /\ strategy = "exact" => Compared(mode, strategy) \subseteq {"nulls", "nonNulls", "sum", "min", "max", "fp"}
      /\ strategy = "float64" =>
           Compared(mode, strategy) \subseteq {"nulls", "nonNulls", "floatSum", "floatSumSq", "min", "max", "fp"}
      /\ {"nulls", "nonNulls", "min", "max", "fp"} \cap FloatSums = {}
  BY DEF Compared, Aggregates, Strategies, FloatSums
<1>6. ASSUME Findings(pq) = {}
      PROVE  /\ out.schema /\ Len(r) = Len(d) /\ Nulls(r) = Nulls(d)
             /\ AtLeast(mode, "full") => SameRows(r, d)
  <2>1. out.schema /\ pq.rows = source.rows
    BY <1>4, <1>6
  <2>2. source.nulls = pq.nulls
    BY <1>4, <1>5, <1>6
  <2>3. AtLeast(mode, "full") => source.fp = pq.fp
    BY <1>4, <1>5, <1>6
  <2> HIDE DEF d, r
  <2>4. /\ Total(Ones, d, DOMAIN d) = Len(d) /\ Total(Ones, r, DOMAIN r) = Len(r)
        /\ Total(Only(Null), d, DOMAIN d) = Nulls(d) /\ Total(Only(Null), r, DOMAIN r) = Nulls(r)
    BY <1>0, CountsRows
  <2>5. AtLeast(mode, "full") => BagOf(r) = BagOf(d)
    BY <1>2, <2>3
  <2> QED
    BY <1>1, <2>1, <2>2, <2>4, <2>5 DEF SameRows
<1>7. ASSUME Findings(pq) = {}, r \in Seq(Plain), d \in Seq(Plain), AtLeast(mode, "numeric"), strategy # "text",
             NEW x \in Numbers(r) \cup Numbers(d)
      PROVE  (\A y \in Numbers(r) : ~Less(y, x)) <=> (\A y \in Numbers(d) : ~Less(y, x))
  <2>1. source.min = pq.min
    BY <1>4, <1>5, <1>7
  <2> HIDE DEF d, r
  <2>2. Least(source.min, Numbers(d)) /\ Least(pq.min, Numbers(r))
    BY <1>3, <1>7 DEF Sums
  <2>3. Numbers(d) \in SUBSET Int /\ Numbers(r) \in SUBSET Int /\ x \in Int
    BY <1>3, <1>7
  <2>4. Least(pq.min, Numbers(d))
    BY <2>1, <2>2
  <2> QED
    BY <2>2, <2>3, <2>4, OneLeast
<1>8. ASSUME out.schema, SameRows(r, d), strategy = "exact" => d \in Seq(Plain)
      PROVE  Findings(pq) \subseteq GroupingMatters
  <2>0. Range(r) = Range(d) /\ Len(r) = Len(d)
    <3>1. DOMAIN BagOf(r) = Range(r) /\ DOMAIN BagOf(d) = Range(d)
      BY DEF BagOf
    <3>2. Range(r) = Range(d)
      BY <1>8, <3>1 DEF SameRows
    <3>3. Total(Ones, r, DOMAIN r) = Total(Ones, d, DOMAIN d)
      <4> HIDE DEF r, d
      <4> QED
        BY <1>0, <1>8, SameRowsTotal, Weights
    <3>4. Total(Ones, r, DOMAIN r) = Len(r) /\ Total(Ones, d, DOMAIN d) = Len(d)
      <4> HIDE DEF r, d
      <4> QED
        BY <1>0, CountsRows
    <3> QED
      BY <3>2, <3>3, <3>4
  <2>1. \A w \in Weight : Total(w, r, DOMAIN r) = Total(w, d, DOMAIN d)
    <3> HIDE DEF r, d
    <3> QED
      BY <1>0, <1>8, SameRowsTotal
  <2>2. pq.rows = source.rows /\ source.nulls = pq.nulls /\ source.nonNulls = pq.nonNulls
    BY <1>1, <2>1, Weights
  <2>3. AtLeast(mode, "full") => source.fp = pq.fp
    BY <1>2, <1>8 DEF SameRows
  <2>4. ASSUME strategy # "text", d \in Seq(Plain)
        PROVE  /\ strategy = "exact" => source.sum = pq.sum
               /\ strategy = "float64" /\ "floatSum" \notin RoundedSums => source.floatSum = pq.floatSum
               /\ strategy = "float64" /\ "floatSumSq" \notin RoundedSums => source.floatSumSq = pq.floatSumSq
               /\ source.min = pq.min /\ source.max = pq.max
    <3>0. r \in Seq(Plain)
      <4> HIDE DEF r, d
      <4>1. \A i \in DOMAIN r : r[i] \in Range(d)
        BY <2>0 DEF Range
      <4>2. Range(d) \subseteq Plain
        <5>1. \A i \in DOMAIN d : d[i] \in Plain
          BY <2>4
        <5> QED
          BY <5>1 DEF Range
      <4>3. \A i \in 1 .. Len(r) : r[i] \in Plain
        BY <1>0, <4>1, <4>2
      <4> QED
        BY <1>0, <4>3
    <3>1. Sums(source, d, DOMAIN d, strategy) /\ Sums(pq, r, DOMAIN r, strategy)
      BY <1>3, <2>4, <3>0
    <3>2. /\ Total(Gains, r, DOMAIN r) = Total(Gains, d, DOMAIN d)
          /\ Total(Losses, r, DOMAIN r) = Total(Losses, d, DOMAIN d)
          /\ Total(Squares, r, DOMAIN r) = Total(Squares, d, DOMAIN d)
      BY <2>1, Weights
    <3>3. strategy = "exact" => source.sum = pq.sum
      BY <3>1, <3>2 DEF Sums
    <3>4. Numbers(r) = Numbers(d)
      BY <2>0 DEF Numbers
    <3>7. \A x \in Numbers(d) : x \in Int /\ Abs(x) \in Int /\ x * x \in Int
      BY <1>3, <2>4, <3>0 DEF Abs
    <3>8. Mantissa \in Int /\ Len(d) \in Int
      BY ValueAssumption
    <3>9. ASSUME strategy = "float64", "floatSum" \notin RoundedSums PROVE source.floatSum = pq.floatSum
      <4>1. \A x \in Numbers(d) : ~(Len(d) * Abs(x) > Mantissa)
        BY <3>9 DEF RoundedSums, FloatSums
      <4>2. \A x \in Numbers(d) : Len(d) * Abs(x) <= Mantissa
        <5> HIDE DEF d
        <5> QED
          BY <3>7, <3>8, <4>1
      <4>3. Fits(Gains, d) /\ Fits(Losses, d)
        <5> HIDE DEF d
        <5> QED
          BY <1>0, <2>4, <4>2, SmallFit
      <4>4. Fits(Gains, r) /\ Fits(Losses, r)
        BY <3>2, <4>3 DEF Fits
      <4> QED
        BY <3>1, <3>2, <3>9, <4>3, <4>4 DEF Sums
    <3>10. ASSUME strategy = "float64", "floatSumSq" \notin RoundedSums PROVE source.floatSumSq = pq.floatSumSq
      <4>1. \A x \in Numbers(d) : ~(Len(d) * (x * x) > Mantissa)
        BY <3>10 DEF RoundedSums, FloatSums
      <4>2. \A x \in Numbers(d) : Len(d) * (x * x) <= Mantissa
        <5> HIDE DEF d
        <5> QED
          BY <3>7, <3>8, <4>1
      <4>3. Fits(Squares, d)
        <5> HIDE DEF d
        <5> QED
          BY <1>0, <2>4, <4>2, SmallFit
      <4>4. Fits(Squares, r)
        BY <3>2, <4>3 DEF Fits
      <4> QED
        BY <3>1, <3>2, <3>10, <4>3, <4>4 DEF Sums
    <3>5. /\ Least(source.min, Numbers(d)) /\ Least(pq.min, Numbers(r))
          /\ Greatest(source.max, Numbers(d)) /\ Greatest(pq.max, Numbers(r))
          /\ Numbers(d) \in SUBSET Int
      <4>1. Shown(d, DOMAIN d) \ {Null} = Numbers(d) /\ Shown(r, DOMAIN r) \ {Null} = Numbers(r)
        BY <1>3, <2>4, <3>0
      <4>2. Numbers(d) \in SUBSET Int
        BY <1>3, <2>4, <3>0
      <4>3. /\ Least(source.min, Shown(d, DOMAIN d) \ {Null}) /\ Least(pq.min, Shown(r, DOMAIN r) \ {Null})
            /\ Greatest(source.max, Shown(d, DOMAIN d) \ {Null}) /\ Greatest(pq.max, Shown(r, DOMAIN r) \ {Null})
        BY <3>1 DEF Sums
      <4> HIDE DEF d, r
      <4> QED
        BY <4>1, <4>2, <4>3, Zenon
    <3>6. source.min = pq.min /\ source.max = pq.max
      <4> HIDE DEF d, r
      <4>1. Least(pq.min, Numbers(d)) /\ Greatest(pq.max, Numbers(d))
        BY <3>4, <3>5, Zenon
      <4> QED
        BY <3>5, <4>1, OneExtremum
    <3> QED
      BY <3>3, <3>6, <3>9, <3>10
  <2>5. ASSUME strategy = "float64", NaN \in Range(d)
        PROVE  source.floatSum = pq.floatSum /\ source.floatSumSq = pq.floatSumSq
    <3>1. NaNs(source, d, DOMAIN d) /\ NaNs(pq, r, DOMAIN r)
      BY <2>5 DEF Counts
    <3> HIDE DEF d, r
    <3>2. Shown(d, DOMAIN d) = Range(d) /\ Shown(r, DOMAIN r) = Range(r)
      BY <1>0, CountsRows
    <3> QED
      BY <2>0, <2>5, <3>1, <3>2 DEF NaNs
  <2>6. ASSUME strategy = "float64", NaN \notin Range(d) PROVE d \in Seq(Plain)
    <3> HIDE DEF d
    <3>1. \A i \in 1 .. Len(d) : d[i] \in Plain
      BY <1>0, <2>6 DEF Range, Plain, Value, Number
    <3> QED
      BY <1>0, <3>1
  <2>7. ASSUME NEW metric \in Compared(mode, strategy), source[metric] # pq[metric]
        PROVE  metric \in GroupingMatters
    <3>1. metric \notin {"nulls", "nonNulls"}
      BY <2>2, <2>7
    <3>2. metric # "fp"
      BY <1>5, <2>3, <2>7
    <3>3. strategy # "text"
      BY <1>5, <2>7, <3>1, <3>2
    <3>4. strategy # "exact"
      BY <1>5, <1>8, <2>4, <2>7, <3>1, <3>2
    <3>5. strategy = "float64"
      BY <3>3, <3>4 DEF Strategies
    <3>6. metric \in {"floatSum", "floatSumSq", "min", "max"}
      BY <1>5, <2>7, <3>1, <3>2, <3>5
    <3>7. CASE NaN \in Range(d)
      BY <2>5, <2>7, <3>5, <3>6, <3>7 DEF GroupingMatters
    <3>8. CASE NaN \notin Range(d)
      <4>1. metric \in RoundedSums
        BY <2>4, <2>6, <2>7, <3>5, <3>6, <3>8
      <4> QED
        BY <3>5, <3>8, <4>1 DEF GroupingMatters
    <3> QED
      BY <3>7, <3>8
  <2>8. ASSUME NEW metric \in Findings(pq) PROVE metric \in Compared(mode, strategy) /\ source[metric] # pq[metric]
    <3>1. metric \in Differences(source, pq, mode, strategy)
      BY <1>8, <2>2, <2>8 DEF Findings
    <3> QED
      BY <3>1 DEF Differences, Close
  <2> QED
    BY <2>7, <2>8
<1> QED
  BY <1>6, <1>7, <1>8

-----------------------------------------------------------------------------
\* What is right of the gate in every state.

-----------------------------------------------------------------------------
(* The verdict. While the gate reads, each goroutine has counted its block up to the     *)
(* place it has come to and holds the rows behind that place.                            *)

HasRead(i, lo, p, hi) ==
  /\ p \in lo .. hi
  /\ span[i] \in Seq(Value) /\ Len(span[i]) = hi - p
  /\ \A k \in 1 .. Len(span[i]) : span[i][k] = out.rows[p + k]
  /\ Counts(partial[i], out.rows, lo + 1 .. p, strategy, Hashing)
  /\ ended[i] = "eof" => p = hi
BlocksRead ==
  \E size \in Nat \ {0}, K \in Nat \ {0} :
    /\ (K - 1) * size < Len(out.rows) /\ Len(out.rows) <= K * size
    /\ DOMAIN span = 1 .. K /\ partial = [i \in 1 .. K |-> partial[i]]
    /\ \A i \in 1 .. K : \E p \in Nat :
         HasRead(i, Bound(out.rows, size, i - 1), p, Bound(out.rows, size, i))

SourceRight ==
  /\ Counts(source, Decoded, DOMAIN Decoded, strategy, Hashing)
  /\ out.rows \in Seq(Value) /\ (Decoded \in Seq(Plain) => out.rows \in Seq(Plain))

ContentInv ==
  /\ content \in Seq(Value) /\ (strategy = "exact" => content \in Seq(Plain))
  /\ Len(content) > (NumChunks - 1) * BatchRows /\ Len(content) <= NumChunks * BatchRows

\* What VerdictTrue says, and that a goroutine stops only once the context is done.
PassedRight ==
  /\ out.schema /\ Len(out.rows) = Len(Decoded) /\ Nulls(out.rows) = Nulls(Decoded)
  /\ AtLeast(mode, "full") => SameRows(out.rows, Decoded)
ExtremesRight ==
  AtLeast(mode, "numeric") /\ strategy # "text" =>
    \A x \in Numbers(out.rows) \cup Numbers(Decoded) :
      (\A y \in Numbers(out.rows) : ~Less(y, x)) <=> (\A y \in Numbers(Decoded) : ~Less(y, x))
VerdictInv ==
  /\ verdict = "passed" => PassedRight /\ (NaN \notin Range(Decoded) => ExtremesRight)
  /\ verdict = "failed" =>
       \/ ~out.schema \/ ~SameRows(out.rows, Decoded) \/ NotReadBack
       \/ why # {} /\ why \subseteq GroupingMatters
  /\ verdict = "canceled" => \E i \in Goroutines : ended[i] = "canceled"
StopInv == \A i \in Goroutines : ended[i] = "canceled" => canceled

\* From the end of the writing on, the rows decoded and those written stay what they are.
AfterWriting == {"checking", "checked", "committed", "failed", "canceled"}

GateInv ==
  /\ ContentInv
  /\ gate # "idle" => stage \in AfterWriting
  /\ stage = "checking" \/ gate # "idle" => SourceRight
  /\ gate = "reading" => BlocksRead
  /\ VerdictInv /\ StopInv

LEMMA GateInvInit == Init => GateInv
<1> SUFFICES ASSUME Init PROVE GateInv
  OBVIOUS
<1>1. PICK c \in Contents : content = c.rows /\ strategy = c.strategy
  BY DEF Init
<1>2. ContentInv
  <2>1. strategy = "exact" => content \in Seq(Plain)
    BY <1>1, IntegrityAssumption, WithoutNaN
  <2> QED
    BY <1>1, <2>1, IntegrityAssumption DEF ContentInv
<1>3. gate = "idle" /\ stage = "header" /\ verdict = "none" /\ span = <<>>
  BY DEF Init, ReaderInit, GateInit
<1> QED
  BY <1>2, <1>3 DEF GateInv, VerdictInv, StopInv, Goroutines

\* A step that touches none of it.
LEMMA GateInvStays ==
  ASSUME GateInv, UNCHANGED <<reads, content, inputVars, gateVars>>,
         gate # "idle" => stage' \in AfterWriting, stage' = "checking" => stage = "checking",
         canceled => canceled'
  PROVE  GateInv'
<1> USE DEF inputVars, gateVars
<1>1. Decoded' = Decoded
  BY DEF Decoded
<1>2. ContentInv'
  BY DEF GateInv, ContentInv
<1>3. SourceRight => SourceRight'
  BY <1>1 DEF SourceRight, Hashing
<1>4. BlocksRead => BlocksRead'
  <2>1. Hashing' = Hashing
    BY DEF Hashing
  <2>2. ASSUME NEW i, NEW lo, NEW p, NEW hi, HasRead(i, lo, p, hi) PROVE HasRead(i, lo, p, hi)'
    BY <2>1, <2>2 DEF HasRead
  <2> QED
    BY <2>2 DEF BlocksRead
<1>5. (PassedRight => PassedRight') /\ (ExtremesRight => ExtremesRight')
  BY <1>1 DEF PassedRight, ExtremesRight
<1>6. NotReadBack <=> NotReadBack'
  BY DEF NotReadBack, Goroutines
<1>7. GroupingMatters' = GroupingMatters
  BY <1>1 DEF GroupingMatters, RoundedSums
<1>8. VerdictInv'
  BY <1>1, <1>5, <1>6, <1>7 DEF GateInv, VerdictInv, Goroutines
<1>9. StopInv'
  BY DEF GateInv, StopInv, Goroutines
<1> QED
  BY <1>2, <1>3, <1>4, <1>8, <1>9 DEF GateInv

\* Before the gate starts there is nothing to be right about but the source.
LEMMA GateInvBefore ==
  ASSUME GateInv, UNCHANGED <<strategy, canceled, content, gateVars>>, gate = "idle", verdict = "none",
         stage' = "checking" => SourceRight'
  PROVE  GateInv'
<1>1. ContentInv'
  BY DEF GateInv, ContentInv
<1>2. gate' = "idle" /\ verdict' = "none" /\ StopInv'
  BY DEF gateVars, GateInv, StopInv, Goroutines
<1> QED
  BY <1>1, <1>2 DEF GateInv, VerdictInv

LEMMA ReaderGuard ==
  ASSUME ReaderStep
  PROVE  stage \in {"header", "tables", "symbols", "decoding"}
BY DEF ReaderStep, ReadHeader, VerifyHeader, OpenTables, ReadTable, CheckRecordArea, NewWorker,
       DecodeChunk, EndRun

\* The writer is closed: the source's metrics are merged, and the file is what the library
\* made of the rows.
LEMMA CloseWriterCounts ==
  ASSUME IInv, GateInv, CloseWriter
  PROVE  GateInv'
<1>1. stage = "decoded" /\ UNCHANGED <<mode, strategy, canceled, content, gateVars, reads>>
  BY DEF CloseWriter, GiveUp
<1>2. gate = "idle" /\ verdict = "none"
  BY <1>1 DEF GateInv, IInv, TypeOK, GateTypeOK, AfterWriting
<1>3. Decoded' = Decoded
  BY <1>1 DEF Decoded
<1>4. ContentInv
  BY DEF GateInv
<1>5. Decoded \in Seq(Value) /\ Len(Decoded) = Len(content)
  BY <1>4, DecodedTyped DEF ContentInv, Plain, Value, Number
<1>7. ASSUME stage' = "checking" PROVE SourceRight'
  <2>1. /\ source' = MergeAll([c \in 1 .. NumChunks |-> MetricsOf(ChunkRows(c), strategy, Hashing)])
        /\ out' \in Written(Decoded)
    BY <1>7 DEF CloseWriter, GiveUp
  <2>2. Counts(source', Decoded, DOMAIN Decoded, strategy, Hashing)
    BY <1>4, <1>5, <2>1, SourceCounts DEF ContentInv
  <2>3. out'.rows \in Seq(Value)
    <3>1. Plain \subseteq Value
      BY DEF Plain, Value, Number
    <3> QED
      BY <1>5, <2>1, <3>1, WrittenTyped
  <2>4. Decoded \in Seq(Plain) => out'.rows \in Seq(Plain)
    BY <2>1, WrittenTyped
  <2>5. Hashing' = Hashing
    BY <1>1 DEF Hashing
  <2> QED
    BY <1>1, <1>3, <2>2, <2>3, <2>4, <2>5 DEF SourceRight
<1> QED
  BY <1>1, <1>2, <1>7, GateInvBefore

LEMMA DecodedPlain ==
  ASSUME GateInv
  PROVE  /\ Decoded \in Seq(Value) /\ (strategy = "exact" => Decoded \in Seq(Plain))
         /\ NaN \notin Range(Decoded) => Decoded \in Seq(Plain)
<1>1. ContentInv
  BY DEF GateInv
<1>2. Decoded \in Seq(Value)
  BY <1>1, DecodedTyped DEF ContentInv, Plain, Value, Number
<1>3. strategy = "exact" => Decoded \in Seq(Plain)
  BY <1>1, DecodedTyped DEF ContentInv
<1> QED
  BY <1>2, <1>3, WithoutNaN

\* What is right of the source and of the two files stays so while the gate works.
LEMMA InputsStay ==
  ASSUME GateInv, UNCHANGED <<reads, content, inputVars>>, stage = "checking", stage' = "checking"
  PROVE  /\ ContentInv' /\ SourceRight' /\ SourceRight /\ Decoded' = Decoded /\ GroupingMatters' = GroupingMatters
         /\ (PassedRight <=> PassedRight') /\ (ExtremesRight <=> ExtremesRight')
         /\ (SameRows(out.rows, Decoded) <=> SameRows(out.rows, Decoded)')
<1> USE DEF inputVars
<1>1. Decoded' = Decoded
  BY DEF Decoded
<1>2. ContentInv'
  BY DEF GateInv, ContentInv
<1>3. SourceRight /\ SourceRight'
  BY <1>1 DEF GateInv, SourceRight, Hashing
<1>4. (PassedRight <=> PassedRight') /\ (ExtremesRight <=> ExtremesRight')
  BY <1>1 DEF PassedRight, ExtremesRight
<1>5. GroupingMatters' = GroupingMatters
  BY <1>1 DEF GroupingMatters, RoundedSums
<1> QED
  BY <1>1, <1>2, <1>3, <1>4, <1>5

\* The gate judges by metrics that count the file.
LEMMA JudgeRight ==
  ASSUME IInv, GateInv, UNCHANGED <<reads, content, inputVars>>, stage = "checking", stage' = "checking", StopInv',
         NEW pq, Counts(pq, out.rows, DOMAIN out.rows, strategy, Hashing), Judge(pq)
  PROVE  GateInv'
<1>1. /\ ContentInv' /\ SourceRight' /\ SourceRight /\ Decoded' = Decoded /\ GroupingMatters' = GroupingMatters
      /\ (PassedRight <=> PassedRight') /\ (ExtremesRight <=> ExtremesRight')
      /\ (SameRows(out.rows, Decoded) <=> SameRows(out.rows, Decoded)') /\ out' = out
  BY InputsStay DEF inputVars
<1>2. /\ Decoded \in Seq(Value) /\ (strategy = "exact" => Decoded \in Seq(Plain))
      /\ NaN \notin Range(Decoded) => Decoded \in Seq(Plain)
  BY DecodedPlain
<1>3. /\ gate' = "over" /\ verdict' = (IF Findings(pq) = {} THEN "passed" ELSE "failed") /\ why' = Findings(pq)
  BY DEF Judge, Conclude
<1>4. strategy \in Strategies
  BY DEF IInv, TypeOK
<1>5. /\ Findings(pq) = {} => PassedRight
      /\ Findings(pq) = {} /\ NaN \notin Range(Decoded) => ExtremesRight
      /\ out.schema /\ SameRows(out.rows, Decoded) => Findings(pq) \subseteq GroupingMatters
  BY <1>1, <1>2, <1>4, FindingsRight DEF SourceRight, PassedRight, ExtremesRight
<1>6. VerdictInv'
  <2>1. verdict' = "passed" => PassedRight' /\ (NaN \notin Range(Decoded') => ExtremesRight')
    BY <1>1, <1>3, <1>5
  <2>2. verdict' = "failed" =>
          ~out'.schema \/ ~SameRows(out.rows, Decoded)' \/ (why' # {} /\ why' \subseteq GroupingMatters')
    BY <1>1, <1>3, <1>5
  <2>3. verdict' # "canceled"
    BY <1>3
  <2> QED
    BY <2>1, <2>2, <2>3 DEF VerdictInv
<1> QED
  BY <1>1, <1>3, <1>6 DEF GateInv, AfterWriting

\* The gate starts: what cannot be opened fails, a file without rows is judged as it is,
\* and the rows of any other are dealt out.
LEMMA StartGateRight ==
  ASSUME IInv, GateInv, stage = "checking", stage' = "checking", UNCHANGED <<reads, content>>, StartGate
  PROVE  GateInv'
<1>1. UNCHANGED <<inputVars, canceled>> /\ gate = "idle" /\ verdict = "none"
  BY DEF StartGate, IInv, TypeOK, GateTypeOK
<1>2. /\ ContentInv' /\ SourceRight' /\ SourceRight /\ out' = out
  BY <1>1, InputsStay DEF inputVars
<1>6. UNCHANGED <<span, ended>> => StopInv'
  BY <1>1 DEF GateInv, StopInv, Goroutines
<1>3. CASE Conclude("failed", {"open"}) /\ UNCHANGED <<span, partial, ended>>
  <2>1. gate' = "over" /\ verdict' = "failed" /\ why' = {"open"}
    BY <1>3 DEF Conclude
  <2>2. NotReadBack'
    BY <2>1 DEF NotReadBack
  <2>3. VerdictInv'
    BY <2>1, <2>2 DEF VerdictInv
  <2> QED
    BY <1>2, <1>3, <1>6, <2>1, <2>3 DEF GateInv, AfterWriting
<1>4. CASE out.rows = <<>> /\ Judge(NoMetrics) /\ UNCHANGED <<span, partial, ended>>
  <2>1. DOMAIN out.rows = {}
    BY <1>4
  <2>2. Counts(NoMetrics, out.rows, DOMAIN out.rows, strategy, Hashing)
    BY <2>1, NothingCounts
  <2> QED
    BY <1>1, <1>4, <1>6, <2>2, JudgeRight
<1>5. CASE /\ out.rows # <<>> /\ gate' = "reading" /\ span' = Spans(out.rows)
           /\ partial' = [i \in DOMAIN span' |-> NoMetrics] /\ ended' = [i \in DOMAIN span' |-> "no"]
           /\ UNCHANGED <<verdict, why>>
  <2>0. out.rows \in Seq(Value)
    BY <1>2 DEF SourceRight
  <2>1. PICK size \in Nat \ {0}, K \in Nat \ {0} :
          /\ (K - 1) * size < Len(out.rows) /\ Len(out.rows) <= K * size
          /\ Spans(out.rows) = [i \in 1 .. K |-> SubSeq(out.rows, (i - 1) * size + 1, Bound(out.rows, size, i))]
    BY <1>5, <2>0, SpansCover
  <2>2. /\ \A n \in 0 .. K : Bound(out.rows, size, n) \in 0 .. Len(out.rows)
        /\ \A n \in 1 .. K : /\ Bound(out.rows, size, n - 1) = (n - 1) * size
                             /\ Bound(out.rows, size, n - 1) < Bound(out.rows, size, n)
    BY <2>0, <2>1, BlockBounds
  <2>3. DOMAIN span' = 1 .. K /\ partial' = [i \in 1 .. K |-> partial'[i]]
    BY <1>5, <2>1
  <2>4. ASSUME NEW i \in 1 .. K
        PROVE  \E p \in Nat : HasRead(i, Bound(out.rows, size, i - 1), p, Bound(out.rows, size, i))'
    <3> DEFINE lo == Bound(out.rows, size, i - 1)
               hi == Bound(out.rows, size, i)
    <3>1. lo \in Nat /\ hi \in Nat /\ lo <= hi /\ hi <= Len(out.rows) /\ lo = (i - 1) * size
      <4>1. i - 1 \in 0 .. K /\ i \in 0 .. K
        OBVIOUS
      <4>2. lo \in 0 .. Len(out.rows) /\ hi \in 0 .. Len(out.rows) /\ lo < hi /\ lo = (i - 1) * size
        BY <2>2, <4>1
      <4> HIDE DEF lo, hi
      <4> QED
        BY <2>0, <4>2
    <3>2. span'[i] = SubSeq(out.rows, lo + 1, hi)
      BY <1>5, <2>1, <3>1
    <3>3. partial'[i] = NoMetrics /\ ended'[i] = "no"
      BY <1>5, <2>3
    <3>0. lo' = lo /\ hi' = hi
      BY <1>2
    <3> HIDE DEF lo, hi
    <3>4. /\ span'[i] \in Seq(Value) /\ Len(span'[i]) = hi - lo
          /\ \A k \in 1 .. Len(span'[i]) : span'[i][k] = out.rows[lo + k]
      <4> HIDE DEF Value
      <4>1. LET part == SubSeq(out.rows, lo + 1, hi)
            IN  part \in Seq(Value) /\ Len(part) = hi - lo /\ \A k \in 1 .. Len(part) : part[k] = out.rows[lo + k]
        BY <2>0, <3>1, Stretch
      <4> QED
        BY <3>2, <4>1
    <3>5. lo + 1 .. lo = {} /\ lo \in lo .. hi
      BY <3>1
    <3>6. Counts(partial'[i], out.rows, lo + 1 .. lo, strategy', Hashing')
      BY <3>3, <3>5, NothingCounts
    <3>7. HasRead(i, lo, lo, hi)'
      BY <1>2, <3>0, <3>3, <3>4, <3>5, <3>6 DEF HasRead
    <3> QED
      BY <1>2, <3>1, <3>7 DEF lo, hi
  <2>5. BlocksRead'
    <3>1. /\ (K - 1) * size < Len(out'.rows) /\ Len(out'.rows) <= K * size
          /\ DOMAIN span' = 1 .. K /\ partial' = [i \in 1 .. K |-> partial'[i]]
      BY <1>2, <2>1, <2>3
    <3>2. \A i \in 1 .. K : \E p \in Nat :
            HasRead(i, Bound(out.rows, size, i - 1), p, Bound(out.rows, size, i))'
      BY <2>4
    <3> QED
      BY <3>1, <3>2 DEF BlocksRead
  <2>6. VerdictInv'
    BY <1>1, <1>5 DEF VerdictInv
  <2>7. StopInv'
    BY <1>5 DEF StopInv, Goroutines
  <2> QED
    BY <1>2, <1>5, <2>5, <2>6, <2>7 DEF GateInv, AfterWriting
<1> QED
  BY <1>3, <1>4, <1>5 DEF StartGate

\* One turn of a goroutine: it stops where it is, it is at the end of its block, or it
\* counts its next rows.
LEMMA ReadBatchRight ==
  ASSUME IInv, GateInv, stage = "checking", stage' = "checking", UNCHANGED <<reads, content>>,
         NEW j \in Goroutines, ReadBatch(j)
  PROVE  GateInv'
<1>1. /\ UNCHANGED <<inputVars, canceled, gate, verdict, why>> /\ gate = "reading" /\ verdict = "none"
      /\ ended[j] = "no" /\ DOMAIN ended = Goroutines /\ DOMAIN partial = Goroutines
  BY DEF ReadBatch, IInv, TypeOK, GateTypeOK
<1>2. /\ ContentInv' /\ SourceRight' /\ SourceRight /\ out' = out /\ strategy' = strategy /\ Hashing' = Hashing
  BY <1>1, InputsStay DEF inputVars, Hashing
<1>3. BlocksRead
  BY <1>1 DEF GateInv
<1>4. PICK size \in Nat \ {0}, K \in Nat \ {0} :
        /\ (K - 1) * size < Len(out.rows) /\ Len(out.rows) <= K * size
        /\ DOMAIN span = 1 .. K /\ partial = [i \in 1 .. K |-> partial[i]]
        /\ \A i \in 1 .. K : \E p \in Nat :
             HasRead(i, Bound(out.rows, size, i - 1), p, Bound(out.rows, size, i))
  BY <1>3 DEF BlocksRead
<1> DEFINE lo(i) == Bound(out.rows, size, i - 1)
           hi(i) == Bound(out.rows, size, i)
<1>5. j \in 1 .. K /\ DOMAIN ended = 1 .. K
  BY <1>1, <1>4 DEF Goroutines
<1>6. PICK p \in Nat : HasRead(j, lo(j), p, hi(j))
  BY <1>4, <1>5
<1>7. out.rows \in Seq(Value)
  BY <1>2 DEF SourceRight
<1>8. hi(j) <= Len(out.rows) /\ lo(j) \in Nat /\ hi(j) \in Nat
  <2>1. \A n \in 0 .. K : Bound(out.rows, size, n) \in 0 .. Len(out.rows)
    BY <1>4, <1>7, BlockBounds
  <2>2. j - 1 \in 0 .. K /\ j \in 0 .. K /\ Len(out.rows) \in Nat
    BY <1>5, <1>7
  <2>3. lo(j) \in 0 .. Len(out.rows) /\ hi(j) \in 0 .. Len(out.rows)
    BY <2>1, <2>2
  <2> HIDE DEF lo, hi
  <2> QED
    BY <2>2, <2>3
<1>9. \A i \in 1 .. K : lo(i)' = lo(i) /\ hi(i)' = hi(i)
  BY <1>2
<1>10. ASSUME NEW i \in 1 .. K, i # j,
              span'[i] = span[i], partial'[i] = partial[i], ended'[i] = ended[i]
       PROVE  \E q \in Nat : HasRead(i, lo(i), q, hi(i))'
  <2>1. PICK q \in Nat : HasRead(i, lo(i), q, hi(i))
    BY <1>4
  <2> HIDE DEF lo, hi
  <2>2. HasRead(i, lo(i), q, hi(i))'
    BY <1>2, <1>9, <1>10, <2>1 DEF HasRead
  <2> QED
    BY <2>2
<1>11. ASSUME DOMAIN span' = 1 .. K, partial' = [i \in 1 .. K |-> partial'[i]],
              \A i \in 1 .. K \ {j} : span'[i] = span[i] /\ partial'[i] = partial[i] /\ ended'[i] = ended[i],
              \E q \in Nat : HasRead(j, lo(j), q, hi(j))', ended'[j] = "canceled" => canceled
       PROVE  GateInv'
  <2>1. \A i \in 1 .. K : \E q \in Nat : HasRead(i, lo(i), q, hi(i))'
    <3> HIDE DEF lo, hi
    <3> QED
      BY <1>10, <1>11
  <2>2. (K - 1) * size < Len(out'.rows) /\ Len(out'.rows) <= K * size
    BY <1>2, <1>4
  <2>3. BlocksRead'
    BY <1>11, <2>1, <2>2 DEF BlocksRead
  <2>4. VerdictInv'
    BY <1>1 DEF VerdictInv
  <2>5. StopInv'
    BY <1>1, <1>4, <1>11 DEF GateInv, StopInv, Goroutines
  <2> QED
    BY <1>1, <1>2, <2>3, <2>4, <2>5 DEF GateInv, AfterWriting
<1>12. ASSUME UNCHANGED <<span, partial>>, NEW how, ended' = [ended EXCEPT ![j] = how],
              how = "read" \/ (how = "canceled" /\ canceled) \/ (how = "eof" /\ EndOfBlock(j))
       PROVE  GateInv'
  <2>1. ended'[j] = how /\ \A i \in 1 .. K \ {j} : ended'[i] = ended[i]
    BY <1>5, <1>12
  <2>2. how = "eof" => p = hi(j)
    <3> SUFFICES ASSUME how = "eof" PROVE p = hi(j)
      OBVIOUS
    <3>1. span[j] = <<>> /\ Len(span[j]) = 0
      BY <1>12 DEF EndOfBlock
    <3> HIDE DEF lo, hi
    <3>2. hi(j) - p = 0
      BY <1>6, <3>1 DEF HasRead
    <3> QED
      BY <1>8, <3>2
  <2>3. HasRead(j, lo(j), p, hi(j))'
    <3> HIDE DEF lo, hi
    <3>1. span' = span /\ partial' = partial
      BY <1>12
    <3>2. ended'[j] = "eof" => p = hi(j)
      BY <2>1, <2>2
    <3>3. lo(j)' = lo(j) /\ hi(j)' = hi(j)
      BY <1>5, <1>9
    <3> QED
      BY <1>2, <1>6, <3>1, <3>2, <3>3 DEF HasRead
  <2>4. partial' = [i \in 1 .. K |-> partial'[i]] /\ DOMAIN span' = 1 .. K
    BY <1>4, <1>12
  <2> HIDE DEF lo, hi
  <2> QED
    BY <1>11, <1>12, <2>1, <2>3, <2>4
<1>13. ASSUME ~EndOfBlock(j), UNCHANGED ended, NEW n, n = LeastOf(BatchRows, Len(span[j])),
              partial' = [partial EXCEPT ![j] = ObserveAll(@, SubSeq(span[j], 1, n), strategy, Hashing)],
              span' = [span EXCEPT ![j] = SubSeq(@, n + 1, Len(@))]
       PROVE  GateInv'
  <2> DEFINE rows == SubSeq(span[j], 1, n)
             rest == SubSeq(span[j], n + 1, Len(span[j]))
  <2>1. /\ partial'[j] = ObserveAll(partial[j], rows, strategy, Hashing) /\ span'[j] = rest
        /\ \A i \in 1 .. K \ {j} : span'[i] = span[i] /\ partial'[i] = partial[i] /\ ended'[i] = ended[i]
        /\ DOMAIN span' = 1 .. K /\ partial' = [i \in 1 .. K |-> partial'[i]]
    <3>1. DOMAIN partial = 1 .. K
      BY <1>4
    <3> QED
      BY <1>4, <1>5, <1>13, <3>1
  <2> HIDE DEF lo, hi
  <2>2. /\ p \in lo(j) .. hi(j) /\ span[j] \in Seq(Value) /\ Len(span[j]) = hi(j) - p
        /\ \A k \in 1 .. Len(span[j]) : span[j][k] = out.rows[p + k]
        /\ Counts(partial[j], out.rows, lo(j) + 1 .. p, strategy, Hashing)
    BY <1>6 DEF HasRead
  <2>3. n \in Nat /\ n <= Len(span[j])
    BY <1>13, <2>2, GateAssumption DEF LeastOf
  <2>4. /\ rows \in Seq(Value) /\ Len(rows) = n
        /\ \A k \in 1 .. Len(rows) : rows[k] = out.rows[p + k]
    <3>1. rows = SubSeq(span[j], 0 + 1, n) /\ 0 \in Nat /\ 0 <= n
      BY <2>3
    <3> HIDE DEF rows
    <3>2. rows \in Seq(Value) /\ Len(rows) = n - 0 /\ \A k \in 1 .. Len(rows) : rows[k] = span[j][0 + k]
      <4> HIDE DEF Value
      <4>1. span[j] \in Seq(Value) /\ 0 \in Nat /\ n \in Nat /\ 0 <= n /\ n <= Len(span[j])
        BY <2>2, <2>3
      <4> QED
        BY <3>1, <4>1, Stretch, SMTT(20)
    <3>3. rows \in Seq(Value) /\ Len(rows) = n
      BY <2>3, <3>2
    <3>4. ASSUME NEW k \in 1 .. Len(rows) PROVE rows[k] = out.rows[p + k]
      <4>1. k \in 1 .. Len(span[j]) /\ 0 + k = k
        BY <2>2, <2>3, <3>3
      <4> QED
        BY <2>2, <3>2, <4>1
    <3> QED
      BY <3>3, <3>4
  <2>5. /\ rest \in Seq(Value) /\ Len(rest) = hi(j) - (p + n)
        /\ \A k \in 1 .. Len(rest) : rest[k] = out.rows[(p + n) + k]
    <3>0. Len(span[j]) \in Nat
      BY <2>2
    <3>1. rest \in Seq(Value) /\ Len(rest) = Len(span[j]) - n /\ \A k \in 1 .. Len(rest) : rest[k] = span[j][n + k]
      <4> DEFINE block == span[j]
                 m == Len(block)
      <4>1. block \in Seq(Value) /\ n \in Nat /\ m \in Nat /\ n <= m /\ m <= Len(block)
        BY <2>2, <2>3, <3>0
      <4>2. rest = SubSeq(block, n + 1, m)
        OBVIOUS
      <4>3. Len(span[j]) = m /\ span[j] = block
        OBVIOUS
      <4> HIDE DEF Value, block, m, rest
      <4>4. /\ SubSeq(block, n + 1, m) \in Seq(Value) /\ Len(SubSeq(block, n + 1, m)) = m - n
            /\ \A k \in 1 .. Len(SubSeq(block, n + 1, m)) : SubSeq(block, n + 1, m)[k] = block[n + k]
        BY <4>1, Stretch, SMTT(20)
      <4> QED
        BY <4>2, <4>3, <4>4
    <3> HIDE DEF rest
    <3>2. Len(rest) = hi(j) - (p + n)
      BY <1>8, <2>2, <2>3, <3>1
    <3>3. ASSUME NEW k \in 1 .. Len(rest) PROVE rest[k] = out.rows[(p + n) + k]
      <4>1. n + k \in 1 .. Len(span[j]) /\ (p + n) + k = p + (n + k)
        BY <2>3, <3>0, <3>1
      <4> QED
        BY <2>2, <3>1, <4>1
    <3> QED
      BY <3>1, <3>2, <3>3
  <2>6. lo(j) + 1 \in Nat \ {0} /\ lo(j) + 1 <= p + 1 /\ p + Len(rows) <= Len(out.rows)
    <3> HIDE DEF rows
    <3>1. n <= hi(j) - p /\ Len(out.rows) \in Nat
      BY <1>7, <2>2, <2>3
    <3> QED
      BY <1>8, <2>2, <2>3, <2>4, <3>1
  <2>7. Counts(partial'[j], out.rows, lo(j) + 1 .. p + n, strategy, Hashing)
    <3> HIDE DEF rows
    <3>1. Counts(ObserveAll(partial[j], rows, strategy, Hashing), out.rows, lo(j) + 1 .. p + Len(rows), strategy, Hashing)
      BY <1>7, <2>2, <2>4, <2>6, ObserveAllCounts
    <3> QED
      BY <2>1, <2>4, <3>1
  <2>8. p + n \in Nat /\ p + n \in lo(j) .. hi(j)
    BY <1>8, <2>2, <2>3
  <2>9. HasRead(j, lo(j), p + n, hi(j))'
    <3> HIDE DEF rest
    <3>1. lo(j)' = lo(j) /\ hi(j)' = hi(j) /\ ended'[j] # "eof"
      BY <1>1, <1>5, <1>9, <1>13
    <3> QED
      BY <1>2, <2>1, <2>5, <2>7, <2>8, <3>1 DEF HasRead
  <2> QED
    BY <1>1, <1>11, <1>13, <2>1, <2>8, <2>9
<1> QED
  BY <1>12, <1>13 DEF ReadBatch

\* All goroutines have ended, and each at the end of its block: what they counted, merged in
\* the order of the blocks, counts the file.
LEMMA MergedRight ==
  ASSUME IInv, SourceRight, BlocksRead, Erred = {}, \A i \in Goroutines : ended[i] # "no"
  PROVE  Counts(MergeAll(partial), out.rows, DOMAIN out.rows, strategy, Hashing)
<1> DEFINE r == out.rows
<1>1. PICK size \in Nat \ {0}, K \in Nat \ {0} :
        /\ (K - 1) * size < Len(r) /\ Len(r) <= K * size
        /\ DOMAIN span = 1 .. K /\ partial = [i \in 1 .. K |-> partial[i]]
        /\ \A i \in 1 .. K : \E p \in Nat : HasRead(i, Bound(r, size, i - 1), p, Bound(r, size, i))
  BY DEF BlocksRead
<1>2. \A i \in 1 .. K : ended[i] = "eof"
  BY <1>1 DEF Erred, Goroutines, IInv, TypeOK, GateTypeOK
<1>3. r \in Seq(Value)
  BY DEF SourceRight
<1> DEFINE h == [n \in 0 .. K |-> Bound(r, size, n)]
<1>4. /\ \A n \in 0 .. K : Bound(r, size, n) \in 0 .. Len(r)
      /\ Bound(r, size, 0) = 0 /\ Bound(r, size, K) = Len(r)
      /\ \A n \in 1 .. K : Bound(r, size, n - 1) < Bound(r, size, n)
  <2> HIDE DEF r
  <2> QED
    BY <1>1, <1>3, BlockBounds
<1>5. partial \in Seq({partial[i] : i \in 1 .. K}) /\ Len(partial) = K
  BY <1>1, AsSequence
<1>6. ASSUME NEW i \in 1 .. K
      PROVE  h[i - 1] <= h[i] /\ Counts(partial[i], r, h[i - 1] + 1 .. h[i], strategy, Hashing)
  <2>1. i - 1 \in 0 .. K /\ i \in 0 .. K
    OBVIOUS
  <2>2. h[i - 1] = Bound(r, size, i - 1) /\ h[i] = Bound(r, size, i)
    BY <2>1
  <2>3. PICK p \in Nat : HasRead(i, Bound(r, size, i - 1), p, Bound(r, size, i))
    BY <1>1
  <2> HIDE DEF h
  <2>4. p = h[i] /\ Counts(partial[i], r, h[i - 1] + 1 .. p, strategy, Hashing)
    BY <1>2, <2>2, <2>3 DEF HasRead
  <2>5. h[i - 1] <= h[i]
    <3>1. Bound(r, size, i - 1) \in 0 .. Len(r) /\ Bound(r, size, i) \in 0 .. Len(r)
          /\ Bound(r, size, i - 1) < Bound(r, size, i)
      BY <1>4, <2>1
    <3>2. Len(r) \in Nat
      BY <1>3
    <3> HIDE DEF r
    <3> QED
      BY <2>2, <3>1, <3>2
  <2> QED
    BY <2>4, <2>5
<1>7. h \in [0 .. Len(partial) -> 0 .. Len(r)] /\ h[0] = 0 /\ h[Len(partial)] = Len(r)
  BY <1>4, <1>5
<1> HIDE DEF h, r
<1>8. Counts(MergeAll(partial), r, 1 .. h[Len(partial)], strategy, Hashing)
  BY <1>3, <1>5, <1>6, <1>7, MergeAllCounts
<1>9. 1 .. h[Len(partial)] = DOMAIN r
  BY <1>3, <1>7
<1> QED
  BY <1>8, <1>9 DEF r

\* The goroutines have ended: without an error the merged metrics are judged, with one the
\* first of them says how the gate ends.
LEMMA EndGateRight ==
  ASSUME IInv, GateInv, stage = "checking", stage' = "checking", UNCHANGED <<reads, content>>, EndGate
  PROVE  GateInv'
<1>1. UNCHANGED <<inputVars, canceled, span, ended>> /\ gate = "reading" /\ verdict = "none"
      /\ \A i \in Goroutines : ended[i] # "no"
  BY DEF EndGate, IInv, TypeOK, GateTypeOK
<1>2. ContentInv' /\ SourceRight' /\ SourceRight /\ StopInv'
  BY <1>1, InputsStay DEF GateInv, StopInv, Goroutines
<1>3. BlocksRead
  BY <1>1 DEF GateInv
<1>7. ASSUME Erred # {} PROVE FirstErred \in Goroutines
  <2>1. Erred \subseteq Goroutines /\ Goroutines \subseteq Nat
    BY <1>3 DEF Erred, Goroutines, BlocksRead
  <2>2. \E i \in Erred : \A j \in Erred : i <= j
    BY <1>7, <2>1, LeastNumber
  <2>3. FirstErred \in Erred
    <3> HIDE DEF Erred
    <3> QED
      BY <2>2 DEF FirstErred
  <2> QED
    BY <2>1, <2>3
<1>4. CASE Erred = {} /\ Judge(MergeAll(partial))
  BY <1>1, <1>2, <1>3, <1>4, MergedRight, JudgeRight
<1>5. CASE Erred # {} /\ ended[FirstErred] = "read" /\ Conclude("failed", {"read"})
  <2>1. FirstErred \in Goroutines
    BY <1>5, <1>7
  <2>2. NotReadBack'
    <3>1. ended'[FirstErred] = "read" /\ FirstErred \in Goroutines /\ span' = span /\ ended' = ended
      BY <1>1, <1>5, <2>1
    <3>2. \E i \in Goroutines : ended[i] = "read"
      BY <1>5, <2>1
    <3> QED
      BY <3>1, <3>2 DEF NotReadBack, Goroutines
  <2>3. gate' = "over" /\ verdict' = "failed"
    BY <1>5 DEF Conclude
  <2> QED
    BY <1>2, <2>2, <2>3 DEF GateInv, VerdictInv, AfterWriting
<1>6. CASE Erred # {} /\ ended[FirstErred] = "canceled" /\ Conclude("canceled", {})
  <2>1. gate' = "over" /\ verdict' = "canceled"
    BY <1>6 DEF Conclude
  <2>2. \E i \in Goroutines' : ended'[i] = "canceled"
    BY <1>1, <1>6, <1>7 DEF Goroutines
  <2> QED
    BY <1>2, <2>1, <2>2 DEF GateInv, VerdictInv, AfterWriting
<1> QED
  BY <1>4, <1>5, <1>6 DEF EndGate

LEMMA StepGateInv == IInv /\ GateInv /\ [Next]_vars => GateInv'
<1> SUFFICES ASSUME IInv, GateInv, [Next]_vars PROVE GateInv'
  OBVIOUS
<1>0. GateTypeOK
  BY DEF IInv, TypeOK
<1>1. CASE Reading
  <2>1. ReaderStep /\ UNCHANGED <<strategy, canceled, content, gateVars>> /\ UNCHANGED mode
    BY <1>1 DEF Reading, inputVars
  <2>2. gate = "idle" /\ verdict = "none"
    BY <1>0, <2>1, ReaderGuard DEF GateInv, GateTypeOK, AfterWriting
  <2>3. stage' # "checking"
    BY <2>1, ReaderStage DEF IInv, ReaderInv
  <2> QED
    BY <2>1, <2>2, <2>3, GateInvBefore
<1>2. CASE Cancel
  <2>1. UNCHANGED <<reads, stage, content, inputVars, gateVars>> /\ canceled'
    BY <1>2 DEF Cancel, readerVars
  <2> QED
    BY <2>1, GateInvStays DEF GateInv
<1>3. CASE CancelRun
  <2>1. UNCHANGED <<reads, canceled, content, inputVars, gateVars>> /\ stage' = "canceled"
    BY <1>3 DEF CancelRun, GiveUp
  <2> QED
    BY <2>1, GateInvStays DEF AfterWriting
<1>4. CASE CloseWriter
  BY <1>4, CloseWriterCounts
<1>5. CASE Gate
  <2>1. GateStep /\ UNCHANGED <<reads, content>> /\ stage = "checking" /\ stage' = "checking"
    BY <1>5 DEF Gate, readerVars
  <2>2. CASE StartGate
    BY <2>1, <2>2, StartGateRight
  <2>3. ASSUME NEW i \in Goroutines, ReadBatch(i) PROVE GateInv'
    BY <2>1, <2>3, ReadBatchRight
  <2>4. CASE EndGate
    BY <2>1, <2>4, EndGateRight
  <2> QED
    BY <2>1, <2>2, <2>3, <2>4 DEF GateStep
<1>6. CASE Report \/ Commit
  <2>1. UNCHANGED <<reads, canceled, content, inputVars, gateVars>> /\ stage' \in AfterWriting \ {"checking"}
    BY <1>6 DEF Report, Commit, GiveUp, AfterWriting
  <2> QED
    BY <2>1, GateInvStays
<1>7. CASE UNCHANGED vars
  <2>1. UNCHANGED <<reads, stage, canceled, content, inputVars, gateVars>>
    BY <1>7 DEF vars, readerVars
  <2> QED
    BY <2>1, GateInvStays DEF GateInv
<1> QED
  BY <1>1, <1>2, <1>3, <1>4, <1>5, <1>6, <1>7 DEF Next

\* In every state the metrics count the rows they were taken from: those of the source all
\* rows decoded, once the writer is closed, and those of a goroutine of the gate the rows of
\* its block that it has read.
THEOREM GateCounts == Spec => []GateInv
<1> QED
  BY InitIInv, StepIInv, GateInvInit, StepGateInv, PTL DEF Spec

\* The gate passes a file only if what its mode promises to compare is the same in the
\* file and in the rows decoded, and fails one only if it differs, could not be read back,
\* or has a float64 column whose extrema or sums the grouping alone can change: a NaN in
\* it, or a sum that is rounded. That is so for any rows, however they are dealt out in
\* chunks, row groups, blocks and batches, for a mantissa of any width and any tolerance,
\* and whatever fails or is cancelled meanwhile; and a gate is cancelled only if a
\* goroutine stopped for a context that was done.
THEOREM VerdictAlwaysTrue == Spec => []VerdictTrue
<1>1. GateInv => VerdictTrue
  BY DEF GateInv, VerdictInv, StopInv, PassedRight, ExtremesRight, VerdictTrue
<1> QED
  BY <1>1, GateCounts, PTL

LEMMA EndsFromGate == IInv /\ GateInv => EndToEnd
<1> SUFFICES ASSUME IInv, GateInv PROVE EndToEnd
  OBVIOUS
<1>1. \A p \in used : "others" \notin Range(reads[p])
  BY SoundIsOurs
<1>2. ASSUME stage = "committed", mode = "reread", ~SameRows(out.rows, content)
      PROVE  \E p \in Parts : reads[p] = <<"wrong", "wrong">>
  <2>1. /\ verdict = "passed"
        /\ \A p \in Parts : \E r \in {"right", "wrong"} : reads[p] = <<r, r>>
    BY <1>2, CommittedWasRead DEF ReadTwice
  <2>2. SameRows(out.rows, Decoded)
    BY <1>2, <2>1, RereadIsFull DEF GateInv, VerdictInv, PassedRight
  <2>3. SUFFICES ASSUME \A p \in Parts : reads[p] # <<"wrong", "wrong">> PROVE FALSE
    OBVIOUS
  <2>4. Decoded = content
    BY <2>1, <2>3, RowsDecoded
  <2> QED
    BY <1>2, <2>2, <2>4
<1> QED
  BY <1>1, <1>2 DEF EndToEnd

\* The two ends of a conversion agree: the rows in the file that "reread" gave its name are
\* the rows of the QVD, each as often, unless a part of the QVD read wrong twice in the same
\* way. This holds of a column with a NaN too: what is compared last is how often each
\* value occurs, and no extremum.
THEOREM EndsAgree == Spec => []EndToEnd
<1> QED
  BY EndsFromGate, Invariant, GateCounts, PTL
=============================================================================
