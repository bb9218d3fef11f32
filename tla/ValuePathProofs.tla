-------------------------- MODULE ValuePathProofs --------------------------
(***************************************************************************)
(* Proofs about ValuePath and its parts. For every header: comparing       *)
(* neighbours in the order of their first bits finds every two fields that *)
(* share one. For every file and every policy: the names of the columns    *)
(* differ, and the first field of a name keeps it, however Resolve types   *)
(* them; and, by a case analysis of Resolve for any set of symbols, the    *)
(* types hold what they were chosen for. For every layout and any size of  *)
(* bytes and words: what Build writes Validate accepts, its symbols and    *)
(* indices are read back, and a damage reaches no column but its own; so   *)
(* every row that is decoded has the values it was written with.           *)
(***************************************************************************)
EXTENDS ValuePath, FiniteSetTheorems, SequenceTheorems, WellFoundedInduction, TLAPS

-----------------------------------------------------------------------------
(* The header.                                                             *)

LEMMA FieldsTyped ==
  ASSUME NEW h \in TableHeader, NEW i \in DOMAIN h.fields
  PROVE  /\ h.fields[i].offset \in Int /\ h.fields[i].width \in Int
         /\ Ends(h.fields[i]) \in Int
<1>1. h.fields \in Seq(FieldHeader) /\ i \in 1 .. Len(h.fields)
  BY DEF TableHeader
<1>2. h.fields[i] \in FieldHeader
  BY <1>1
<1> QED
  BY <1>2 DEF FieldHeader, Ends

\* Of two fields in the order of their offsets, the first ends before the
\* second begins, or its neighbour already begins too early.
LEMMA OrderedApart ==
  ASSUME NEW h \in TableHeader, NEW n \in Nat, NEW p \in [1 .. n -> DOMAIN h.fields],
         InOrder(h, p),
         \A k \in DOMAIN p \ {1} : h.fields[p[k]].offset >= Ends(h.fields[p[k - 1]]),
         NEW j \in 1 .. n, NEW k \in 1 .. n, j < k
  PROVE  Ends(h.fields[p[j]]) <= h.fields[p[k]].offset
<1>1. j + 1 \in DOMAIN p \ {1} /\ k \in DOMAIN p
  OBVIOUS
<1>2. \A i \in DOMAIN h.fields : h.fields[i].offset \in Int /\ Ends(h.fields[i]) \in Int
  BY FieldsTyped
<1>3. p[j] \in DOMAIN h.fields /\ p[j + 1] \in DOMAIN h.fields /\ p[k] \in DOMAIN h.fields
  BY <1>1
<1>4. h.fields[p[j + 1]].offset >= Ends(h.fields[p[j]])
  <2>1. h.fields[p[j + 1]].offset >= Ends(h.fields[p[(j + 1) - 1]])
    BY <1>1
  <2>2. (j + 1) - 1 = j
    OBVIOUS
  <2> QED
    BY <2>1, <2>2
<1>5. h.fields[p[j + 1]].offset <= h.fields[p[k]].offset
  <2>1. CASE j + 1 = k
    BY <2>1, <1>2, <1>3
  <2>2. CASE j + 1 < k
    BY <2>2, <1>1 DEF InOrder
  <2> QED
    BY <2>1, <2>2
<1> QED
  BY <1>2, <1>3, <1>4, <1>5

\* Whatever Validate accepts, two fields never share a bit of the record.
THEOREM AcceptedApart ==
  ASSUME NEW h \in TableHeader, Validate(h)
  PROVE  NoSharedBits(h)
<1>1. PICK p \in Bijection(1 .. Cardinality(Occupied(h)), Occupied(h)) :
        /\ InOrder(h, p)
        /\ \A k \in DOMAIN p \ {1} : h.fields[p[k]].offset >= Ends(h.fields[p[k - 1]])
  BY DEF Validate, CheckBitRanges
<1> SUFFICES ASSUME NEW a \in DOMAIN h.fields, NEW b \in DOMAIN h.fields, a # b,
                    NEW x \in BitsOf(h.fields[a]), x \in BitsOf(h.fields[b])
             PROVE  FALSE
  BY DEF NoSharedBits
<1>2. /\ h.fields[a].offset \in Int /\ h.fields[a].width \in Int
      /\ h.fields[b].offset \in Int /\ h.fields[b].width \in Int
  BY FieldsTyped
<1>3. /\ x \in Int
      /\ h.fields[a].offset <= x /\ x < Ends(h.fields[a])
      /\ h.fields[b].offset <= x /\ x < Ends(h.fields[b])
  BY <1>2 DEF BitsOf, Ends
<1>4. a \in Occupied(h) /\ b \in Occupied(h)
  BY <1>2, <1>3 DEF Occupied, Ends
<1> DEFINE n == Cardinality(Occupied(h))
<1>5. p \in [1 .. n -> Occupied(h)] /\ \A t \in Occupied(h) : \E s \in 1 .. n : p[s] = t
  BY DEF Bijection, Injection, Surjection
<1>6. PICK j \in 1 .. n, k \in 1 .. n : p[j] = a /\ p[k] = b
  BY <1>4, <1>5
<1>7. n \in Nat
  <2>1. IsFiniteSet(DOMAIN h.fields)
    <3>1. DOMAIN h.fields = 1 .. Len(h.fields) /\ Len(h.fields) \in Nat
      BY DEF TableHeader
    <3>2. \A m \in Nat : IsFiniteSet(1 .. m)
      BY FS_Interval
    <3> QED
      BY <3>1, <3>2
  <2>2. Occupied(h) \subseteq DOMAIN h.fields
    BY DEF Occupied
  <2> QED
    BY <2>1, <2>2, FS_Subset, FS_CardinalityType
<1>8. p \in [1 .. n -> DOMAIN h.fields]
  BY <1>5 DEF Occupied
<1> HIDE DEF n
<1>9. CASE j < k
  <2>1. Ends(h.fields[a]) <= h.fields[b].offset
    BY <1>1, <1>6, <1>7, <1>8, <1>9, OrderedApart
  <2> QED
    BY <2>1, <1>2, <1>3 DEF Ends
<1>10. CASE k < j
  <2>1. Ends(h.fields[b]) <= h.fields[a].offset
    BY <1>1, <1>6, <1>7, <1>8, <1>10, OrderedApart
  <2> QED
    BY <2>1, <1>2, <1>3 DEF Ends
<1> QED
  BY <1>6, <1>9, <1>10

\* DecodeRecord's own check of the range never fails on a record of the length
\* the header gives: every bit of every field lies in it.
THEOREM AcceptedInRecord ==
  ASSUME NEW h \in TableHeader, Validate(h)
  PROVE  BitsInRecord(h)
<1> SUFFICES ASSUME h.records > 0, NEW i \in DOMAIN h.fields, NEW x \in BitsOf(h.fields[i])
             PROVE  x \in 0 .. (h.recordBytes * ByteBits - 1)
  BY DEF BitsInRecord
<1>1. h.fields[i].offset >= 0 /\ Ends(h.fields[i]) <= h.recordBytes * ByteBits
  BY DEF Validate, FieldValid
<1>2. /\ h.fields[i].offset \in Int /\ Ends(h.fields[i]) \in Int
      /\ h.recordBytes * ByteBits \in Int
  <2>1. h.recordBytes \in Int /\ ByteBits \in Int
    BY WordAssumption DEF TableHeader
  <2>2. \A m, n \in Int : m * n \in Int
    OBVIOUS
  <2>3. h.fields[i].offset \in Int /\ Ends(h.fields[i]) \in Int
    BY FieldsTyped
  <2> QED
    BY <2>1, <2>2, <2>3
<1> QED
  BY <1>1, <1>2 DEF BitsOf
-----------------------------------------------------------------------------
(* The names of the columns.                                               *)

Settled == DOMAIN out \ pending

\* What ResolveSchema may be called with, whoever calls it.
InputTyped ==
  /\ input.options \in Options
  /\ input.fields \in Seq([name : Names, col : QvdColumns])

\* The columns are those of the fields before position.
ColumnsInv ==
  /\ InputTyped
  /\ position \in 1..(Len(Fields) + 1)
  /\ IsFiniteSet(DOMAIN out)
  /\ DOMAIN out \subseteq (1..(position - 1)) \X {"value", "text"}
  /\ phase = "resolving" => seen = {}

\* The reserved names are finitely many, so one is free; they include what is asked for.
ReservedInv ==
  /\ IsFiniteSet(taken)
  /\ seen \subseteq taken
  /\ \A c \in DOMAIN out : Asked(c) \in taken

\* What is settled has claimed its name, and what is pending asks for its own.
ClaimsInv ==
  /\ DOMAIN name = DOMAIN out
  /\ pending \subseteq DOMAIN out
  /\ \A c \in Settled : name[c] \in seen
  /\ \A x \in seen : \E c \in Settled : name[c] = x
  /\ \A c \in pending : name[c] = Asked(c)

UniqueInv == \A c, d \in Settled : name[c] = name[d] => c = d

\* A new name is one that no column asks for, and the settled came first.
OwnershipInv ==
  /\ \A c \in Settled : name[c] = Asked(c) \/ \A d \in DOMAIN out : name[c] # Asked(d)
  /\ \A c \in Settled, d \in pending : Before(c, d)

FirstOfItsName(c) ==
  ~Generated(c) /\ \A i \in 1..(c[1] - 1) : Fields[i].name # Fields[c[1]].name

KeepInv == \A c \in Settled : FirstOfItsName(c) => name[c] = Asked(c)

NamingInv == ReservedInv /\ ClaimsInv /\ UniqueInv /\ OwnershipInv /\ KeepInv

IInv ==
  /\ ColumnsInv
  /\ phase \in {"resolving", "naming", "resolved", "failed"}
  /\ phase \in {"naming", "resolved"} => NamingInv
  /\ phase = "resolved" => pending = {}
-----------------------------------------------------------------------------
\* A set of naturals has a least.
LEMMA LeastExists ==
  ASSUME NEW S \in SUBSET Nat, S # {}
  PROVE  \E x \in S : \A y \in S : x <= y
<1> DEFINE R == OpToRel(<, Nat)
<1>1. IsWellFoundedOn(R, Nat)
  BY NatLessThanWellFounded
<1>2. \A x, y \in S : y < x => <<y, x>> \in R
  BY DEF OpToRel
<1> HIDE DEF R
<1>3. PICK x \in S : \A y \in S : ~(<<y, x>> \in R)
  BY <1>1, WFMin
<1>4. \A y \in S : ~(y < x)
  BY <1>2, <1>3
<1> QED
  BY <1>4

\* It is what Min says.
LEMMA MinInSet ==
  ASSUME NEW S \in SUBSET Nat, S # {}
  PROVE  Min(S) \in S
BY LeastExists DEF Min

LEMMA LeastIsMin ==
  ASSUME NEW S \in SUBSET Nat, S # {}
  PROVE  Min(S) \in S /\ \A y \in S : Min(S) <= y
BY LeastExists DEF Min

\* nextFreeName ends: more suffixes are tried than names are reserved.
LEMMA FreeNameExists ==
  ASSUME NEW used, IsFiniteSet(used), NEW own \in Names
  PROVE  \E n \in 2..(Cardinality(used) + 2) : Suffixed(own, n) \notin used
<1> DEFINE K == Cardinality(used)
           S == 2..(K + 2)
           f == [n \in S |-> Suffixed(own, n)]
<1>1. K \in Nat
  BY FS_CardinalityType
<1>2. IsFiniteSet(S) /\ Cardinality(S) = K + 1
  <2>1. /\ IsFiniteSet(2..(K + 2))
        /\ Cardinality(2..(K + 2)) = IF 2 > K + 2 THEN 0 ELSE (K + 2) - 2 + 1
    <3> HIDE DEF K
    <3> QED BY <1>1, FS_Interval
  <2> QED BY <1>1, <2>1
<1>3. SUFFICES ASSUME \A n \in S : Suffixed(own, n) \in used
               PROVE  FALSE
  OBVIOUS
<1>4. f \in [S -> used]
  BY <1>3
<1>5. PICK x, y \in S : x # y /\ f[x] = f[y]
  <2> HIDE DEF f, S, K
  <2>1. K < K + 1
    BY <1>1
  <2> QED BY <1>2, <1>4, <2>1, FS_PigeonHole DEF K
<1>6. Append(own.suffix, x) = Append(own.suffix, y)
  BY <1>5 DEF Suffixed
<1>7. own.suffix \in Seq(Nat) /\ x \in Nat /\ y \in Nat
  BY <1>1, <1>5 DEF Names
<1>8. x = y
  <2> DEFINE s == own.suffix
  <2>1. Append(s, x)[Len(s) + 1] = x /\ Append(s, y)[Len(s) + 1] = y
    BY <1>7
  <2> QED BY <1>6, <2>1
<1> QED BY <1>5, <1>8

\* A suffix that is given is free, and the name is one.
LEMMA NextFreeNameIsFree ==
  ASSUME NEW used, IsFiniteSet(used), NEW own \in Names
  PROVE  NextFreeName(own, used) \in Names \ used
<1> DEFINE Free == {n \in 2..(Cardinality(used) + 2) : Suffixed(own, n) \notin used}
<1>1. Cardinality(used) \in Nat
  BY FS_CardinalityType
<1>2. Free \in SUBSET Nat /\ Free # {}
  BY <1>1, FreeNameExists
<1>3. Min(Free) \in Free
  <2> HIDE DEF Free
  <2> QED BY <1>2, MinInSet
<1>4. Suffixed(own, Min(Free)) \in Names
  BY <1>1, <1>3 DEF Suffixed, Names
<1> QED
  BY <1>3, <1>4 DEF NextFreeName
-----------------------------------------------------------------------------
LEMMA AskedInNames ==
  ASSUME ColumnsInv, NEW c \in DOMAIN out
  PROVE  Asked(c) \in Names
<1>1. c[1] \in 1..Len(Fields)
  BY DEF ColumnsInv, InputTyped, Fields
<1>2. Fields[c[1]] \in [name : Names, col : QvdColumns]
  BY <1>1, ElementOfSeq DEF ColumnsInv, InputTyped, Fields
<1> QED
  BY <1>2 DEF Asked, Suffixed, Text, Names

\* Nothing is resolved yet.
Beginning ==
  /\ phase = "resolving" /\ position = 1
  /\ out = <<>> /\ name = <<>>
  /\ pending = {} /\ seen = {} /\ taken = {}

LEMMA BeginningInv == InputTyped /\ Beginning => IInv
<1> SUFFICES ASSUME InputTyped, Beginning PROVE IInv
  OBVIOUS
<1>1. DOMAIN out = {}
  BY DEF Beginning
<1> QED
  BY <1>1, FS_EmptySet DEF Beginning, IInv, ColumnsInv, InputTyped, Fields

LEMMA InitBegins == Init => InputTyped /\ Beginning
BY InputsAssumption DEF Init, InputTyped, Beginning

LEMMA InitInv == Init => IInv
BY BeginningInv, InitBegins

\* One field more: its columns are finitely many, and no name is claimed yet.
LEMMA ResolveFieldInv == IInv /\ ResolveField => IInv'
<1> SUFFICES ASSUME IInv, ResolveField PROVE IInv'
  OBVIOUS
<1> USE DEF IInv, ColumnsInv, InputTyped
<1>1. Len(Fields) \in Nat /\ Fields' = Fields
  BY DEF InputTyped, ResolveField, Fields
<1>2. CASE phase' = "failed"
  BY <1>1, <1>2 DEF ResolveField, Fields
<1>3. CASE phase' # "failed"
  <2> DEFINE value == <<position, "value">>
             text == <<position, "text">>
  <2>1. /\ phase' = "resolving" /\ position' = position + 1
        /\ DOMAIN out \subseteq DOMAIN out'
        /\ DOMAIN out' \subseteq DOMAIN out \cup {value, text}
    BY <1>3 DEF ResolveField
  <2>2. IsFiniteSet({value, text})
    <3> HIDE DEF value, text
    <3>1. IsFiniteSet({value}) /\ IsFiniteSet({text})
      BY FS_Singleton
    <3>2. {value, text} = {value} \cup {text}
      OBVIOUS
    <3>3. IsFiniteSet({value} \cup {text})
      BY <3>1, FS_Union
    <3> QED BY <3>2, <3>3
  <2>3. IsFiniteSet(DOMAIN out \cup {value, text})
    <3> HIDE DEF value, text
    <3> QED BY <2>2, FS_Union
  <2>4. IsFiniteSet(DOMAIN out')
    BY <2>1, <2>3, FS_Subset
  <2>5. DOMAIN out' \subseteq (1..(position' - 1)) \X {"value", "text"}
    BY <2>1
  <2> QED
    BY <1>1, <2>1, <2>4, <2>5 DEF ResolveField, Fields
<1> QED BY <1>2, <1>3

\* Every name that is asked for is reserved, and none is claimed.
LEMMA StartNamingInv == IInv /\ StartNaming => IInv'
<1> SUFFICES ASSUME IInv, StartNaming PROVE IInv'
  OBVIOUS
<1> DEFINE ask == [c \in DOMAIN out |-> Asked(c)]
           asked == {Asked(c) : c \in DOMAIN out}
<1>1. ColumnsInv'
  BY DEF IInv, StartNaming, ColumnsInv, InputTyped, Fields
<1>2. \A c : Asked(c)' = Asked(c)
  BY DEF StartNaming, Asked, Fields, Generated
<1>3. IsFiniteSet(asked)
  <2>1. ask \in Surjection(DOMAIN out, asked)
    BY DEF Surjection
  <2>2. IsFiniteSet(DOMAIN out)
    BY DEF IInv, ColumnsInv
  <2> HIDE DEF ask, asked
  <2> QED BY <2>1, <2>2, FS_Surjection
<1>4. /\ taken' = asked /\ seen' = {} /\ name' = ask /\ pending' = DOMAIN out
      /\ out' = out /\ phase' = "naming"
  BY DEF StartNaming, IInv, ColumnsInv
<1>5. ReservedInv'
  BY <1>2, <1>3, <1>4 DEF ReservedInv
<1>6. ClaimsInv' /\ UniqueInv' /\ OwnershipInv' /\ KeepInv'
  BY <1>2, <1>4 DEF ClaimsInv, UniqueInv, OwnershipInv, KeepInv, Settled
<1> QED
  BY <1>1, <1>4, <1>5, <1>6 DEF IInv, NamingInv

\* The next column claims a name nobody has.
LEMMA ClaimInv == ASSUME NEW c \in pending PROVE IInv /\ Claim(c) => IInv'
<1> SUFFICES ASSUME IInv, Claim(c) PROVE IInv'
  OBVIOUS
<1>1. NamingInv /\ c \in DOMAIN out /\ c \notin Settled
  BY DEF IInv, Claim, NamingInv, ClaimsInv, Settled
<1>2. ColumnsInv'
  BY DEF IInv, Claim, ColumnsInv, InputTyped, Fields
<1>3. \A d, e : Asked(d)' = Asked(d) /\ Before(d, e)' = Before(d, e)
  BY DEF Claim, Asked, Fields, Generated, Before
<1>4. /\ Settled' = Settled \cup {c} /\ name' = name /\ out' = out /\ taken' = taken
      /\ seen' = seen \cup {name[c]} /\ pending' = pending \ {c}
      /\ phase' = phase /\ phase = "naming"
  BY <1>1 DEF Claim, Settled
<1>5. ReservedInv'
  BY <1>1, <1>3, <1>4 DEF NamingInv, ReservedInv, ClaimsInv
<1>6. ClaimsInv'
  BY <1>1, <1>3, <1>4 DEF NamingInv, ClaimsInv
<1>7. UniqueInv'
  BY <1>1, <1>4 DEF NamingInv, UniqueInv, ClaimsInv, Claim
<1>8. OwnershipInv'
  <2>1. \A d \in pending : Before(c, d)
    BY DEF Claim, First
  <2> QED
    BY <1>1, <1>3, <1>4, <2>1 DEF NamingInv, OwnershipInv, ClaimsInv
<1>9. KeepInv'
  <2>1. \A d : FirstOfItsName(d)' = FirstOfItsName(d)
    BY DEF Claim, FirstOfItsName, Fields, Generated
  <2> QED
    BY <1>1, <1>3, <1>4, <2>1 DEF NamingInv, KeepInv, ClaimsInv
<1> QED
  BY <1>2, <1>4, <1>5, <1>6, <1>7, <1>8, <1>9 DEF IInv, NamingInv

\* The column that has its name already came first in the file, or is the field whose
\* name a generated column asks for.
LEMMA CollidesLater ==
  ASSUME IInv, phase = "naming", NEW c \in pending, name[c] \in seen
  PROVE  ~FirstOfItsName(c)
<1> SUFFICES ASSUME FirstOfItsName(c) PROVE FALSE
  OBVIOUS
<1>1. NamingInv /\ ColumnsInv /\ c \in DOMAIN out /\ c \notin Settled
  BY DEF IInv, NamingInv, ClaimsInv, Settled
<1>2. PICK d \in Settled : name[d] = name[c]
  BY <1>1 DEF NamingInv, ClaimsInv
<1>3. name[c] = Asked(c) /\ Asked(d) = Asked(c) /\ Before(d, c)
  BY <1>1, <1>2 DEF NamingInv, ClaimsInv, OwnershipInv
<1>4. ~Generated(c) /\ ~Generated(d) /\ d[1] <= c[1]
  BY <1>3 DEF FirstOfItsName, Before
<1>5. Fields[d[1]].name = Fields[c[1]].name
  BY <1>3, <1>4 DEF Asked
<1>6. c \in Nat \X {"value", "text"} /\ d \in (Nat \ {0}) \X {"value", "text"}
  BY <1>1, <1>2 DEF ColumnsInv, Settled
<1>7. d[1] # c[1]
  <2>1. c[2] = "value" /\ d[2] = "value"
    BY <1>4, <1>6 DEF Generated
  <2>2. c = <<c[1], c[2]>> /\ d = <<d[1], d[2]>>
    BY <1>6
  <2> QED BY <1>1, <1>2, <2>1, <2>2
<1>8. d[1] \in 1..(c[1] - 1)
  BY <1>4, <1>6, <1>7
<1> QED
  BY <1>5, <1>8 DEF FirstOfItsName

\* The next column takes a free name, which no column asks for.
LEMMA RenameInv ==
  ASSUME NEW c \in pending
  PROVE  IInv /\ Collide(c) => IInv'
<1> SUFFICES ASSUME IInv, Collide(c) PROVE IInv'
  OBVIOUS
<1>0. ColumnsInv'
  BY DEF IInv, Collide, Rename, ColumnsInv, InputTyped, Fields
<1>a. CASE phase' = "failed"
  BY <1>0, <1>a DEF IInv
<1>b. CASE phase' # "failed"
  <2> DEFINE free == NextFreeName(name[c], taken)
  <2>1. NamingInv /\ ColumnsInv /\ c \in DOMAIN out /\ c \notin Settled /\ phase = "naming"
    BY DEF IInv, Collide, NamingInv, ClaimsInv, Settled
  <2>2. \A d, e : Asked(d)' = Asked(d) /\ Before(d, e)' = Before(d, e)
    BY DEF Collide, Asked, Fields, Generated, Before
  <2>3. /\ Settled' = Settled \cup {c} /\ name' = [name EXCEPT ![c] = free] /\ out' = out
        /\ seen' = seen \cup {free} /\ taken' = taken \cup {free} /\ pending' = pending \ {c}
        /\ phase' = phase
    BY <1>b, <2>1 DEF Collide, Rename, Settled
  <2>4. name[c] \in Names /\ IsFiniteSet(taken)
    BY <2>1, AskedInNames DEF NamingInv, ClaimsInv, ReservedInv
  <2>5. free \notin taken
    BY <2>4, NextFreeNameIsFree
  <2>6. DOMAIN name = DOMAIN out
    BY <2>1 DEF NamingInv, ClaimsInv
  <2> HIDE DEF free
  <2>7. name'[c] = free /\ \A d \in DOMAIN out \ {c} : name'[d] = name[d]
    BY <2>1, <2>3, <2>6
  <2>8. IsFiniteSet(taken')
    BY <2>3, <2>4, FS_AddElement
  <2>9. ReservedInv'
    BY <2>1, <2>2, <2>3, <2>8 DEF NamingInv, ReservedInv
  <2>10. ClaimsInv'
    <3>1. DOMAIN name' = DOMAIN out' /\ pending' \subseteq DOMAIN out'
      BY <2>1, <2>3, <2>6 DEF NamingInv, ClaimsInv
    <3>2. \A d \in Settled' : name'[d] \in seen'
      BY <2>1, <2>3, <2>7 DEF NamingInv, ClaimsInv, Settled
    <3>3. \A x \in seen' : \E d \in Settled' : name'[d] = x
      BY <2>1, <2>3, <2>7 DEF NamingInv, ClaimsInv, Settled
    <3>4. \A d \in pending' : name'[d] = Asked(d)'
      BY <2>1, <2>2, <2>3, <2>7 DEF NamingInv, ClaimsInv
    <3> QED BY <3>1, <3>2, <3>3, <3>4 DEF ClaimsInv
  <2>11. UniqueInv'
    <3>1. \A d \in Settled : name[d] # free
      BY <2>1, <2>5 DEF NamingInv, ClaimsInv, ReservedInv
    <3> QED
      BY <2>1, <2>3, <2>7, <3>1 DEF NamingInv, UniqueInv, Settled
  <2>12. OwnershipInv'
    <3>1. \A d \in DOMAIN out : free # Asked(d)
      BY <2>1, <2>5 DEF NamingInv, ReservedInv
    <3>2. \A d \in pending : Before(c, d)
      BY DEF Collide, First
    <3>3. \A d \in Settled' : name'[d] = Asked(d)' \/ \A e \in DOMAIN out' : name'[d] # Asked(e)'
      BY <2>1, <2>2, <2>3, <2>7, <3>1 DEF NamingInv, OwnershipInv, Settled
    <3>4. \A d \in Settled', e \in pending' : Before(d, e)'
      BY <2>1, <2>2, <2>3, <3>2 DEF NamingInv, OwnershipInv
    <3> QED BY <3>3, <3>4 DEF OwnershipInv
  <2>13. KeepInv'
    <3>1. \A d : FirstOfItsName(d)' = FirstOfItsName(d)
      BY DEF Collide, FirstOfItsName, Fields, Generated
    <3>2. ~FirstOfItsName(c)
      BY <2>1, CollidesLater DEF Collide
    <3> QED
      BY <2>1, <2>2, <2>3, <2>7, <3>1, <3>2 DEF NamingInv, KeepInv, Settled
  <2> QED
    BY <1>0, <2>1, <2>3, <2>9, <2>10, <2>11, <2>12, <2>13 DEF IInv, NamingInv
<1> QED BY <1>a, <1>b

LEMMA NamesSettledInv == IInv /\ (NamesSettled \/ UNCHANGED vars) => IInv'
<1> SUFFICES ASSUME IInv, NamesSettled \/ UNCHANGED vars PROVE IInv'
  OBVIOUS
<1>1. /\ UNCHANGED <<input, position, out, name, pending, seen, taken>>
      /\ \/ phase' = phase
         \/ phase = "naming" /\ phase' = "resolved" /\ pending = {}
  BY DEF NamesSettled, vars
<1>2. ColumnsInv'
  BY <1>1 DEF IInv, ColumnsInv, InputTyped, Fields
<1>3. NamingInv' = NamingInv
  BY <1>1 DEF NamingInv, ReservedInv, ClaimsInv, UniqueInv, OwnershipInv, KeepInv, Settled,
              Asked, Fields, Generated, Before, FirstOfItsName
<1> QED
  BY <1>1, <1>2, <1>3 DEF IInv

\* The inductive invariant: what is settled has names of its own, out of a finite set of
\* reserved ones that holds all that is asked for.
THEOREM Invariant == Spec => []IInv
<1>1. IInv /\ [Next]_vars => IInv'
  BY ResolveFieldInv, StartNamingInv, ClaimInv, RenameInv, NamesSettledInv DEF Next
<1> QED
  BY <1>1, InitInv, PTL DEF Spec

LEMMA NamesFollow == IInv => NamesUnique /\ FieldsKeepNames
<1>1. IInv => NamesUnique
  BY DEF IInv, NamesUnique, Resolved, NamingInv, UniqueInv, Settled
<1>2. IInv => FieldsKeepNames
  BY DEF IInv, FieldsKeepNames, Resolved, NamingInv, KeepInv, Settled, FirstOfItsName, Asked
<1> QED
  BY <1>1, <1>2

\* No two columns of a Parquet file have one name, whatever the file and the policies.
THEOREM NamesAreUnique == Spec => []NamesUnique
BY NamesFollow, Invariant, PTL

\* The first field of a name keeps it, wherever in the file it is and whatever is
\* generated before it.
THEOREM FieldsKeepTheirNames == Spec => []FieldsKeepNames
BY NamesFollow, Invariant, PTL
-----------------------------------------------------------------------------
(* The types of the columns.                                               *)

\* The classes of a symbol, for the provers.
LEMMA SymbolClasses ==
  ASSUME NEW s \in Symbols
  PROVE  /\ s.kind \in {"null", "string", "int", "float", "dualint", "dualfloat"}
         /\ s = Null <=> s.kind = "null"
         /\ s.kind \in {"null", "string"} <=> s.num = "none"
         /\ s.kind \in {"null", "int", "float"} <=> s.text = "none"
         /\ s.kind = "string" => s.text \in {"empty", "word", "other"}
         /\ s.kind \in {"int", "dualint"} => s.num \in Whole
         /\ s.kind \in {"float", "dualfloat"} => s.num \in {"frac", "deep", "huge", "nan"}
         /\ s.kind = "dualint" =>
              s.text \in {"empty", "number", "padded", "other", "date", "datetime", "word"}
         /\ s.kind = "dualfloat" =>
              s.text \in {"empty", "number", "other", "date", "datetime", "time", "word", "rounded"}
         /\ s.kind = "dualfloat" /\ s.num = "nan" => s.text \in {"empty", "word"}
<1> USE DEF Symbol, Whole
<1>1. CASE s = Null
  BY <1>1 DEF Null
<1>2. CASE s \in Strings
  BY <1>2 DEF Strings, Null
<1>3. CASE s \in Ints
  BY <1>3 DEF Ints, Null
<1>4. CASE s \in Floats
  BY <1>4 DEF Floats, Null
<1>5. CASE s \in DualInts
  BY <1>5 DEF DualInts, Null
<1>6. CASE s \in DualFloats
  BY <1>6 DEF DualFloats, Null
<1> QED
  BY <1>1, <1>2, <1>3, <1>4, <1>5, <1>6 DEF Symbols

\* Absent are the null and, where it is read as one, the empty string.
LEMMA AbsentSymbol ==
  ASSUME NEW s \in Symbols, NEW opt
  PROVE  /\ Absent(s, opt) => ~HasNumber(s) /\ (HasText(s) => s.text = "empty")
         /\ HasNumber(s) => ~Absent(s, opt)
         /\ ~Absent(s, opt) => s.kind # "null"
BY SymbolClasses DEF Absent, HasNumber, HasText

\* The most of a set of numbers with a bound is in it.
LEMMA MaxInSet ==
  ASSUME NEW n \in Nat, NEW S \in SUBSET (0 .. n), S # {}
  PROVE  Max(S) \in S /\ \A x \in S : x <= Max(S)
<1> DEFINE Rest == {n - x : x \in S}
<1>1. PICK r \in Rest : \A y \in Rest : r <= y
  <2>1. \A x \in S : n - x \in Nat
    OBVIOUS
  <2>2. Rest \in SUBSET Nat /\ Rest # {}
    BY <2>1
  <2> HIDE DEF Rest
  <2> QED
    BY <2>2, LeastExists
<1>2. PICK m \in S : r = n - m
  OBVIOUS
<1>3. \A x \in S : n - m <= n - x
  BY <1>1, <1>2
<1>4. \A x \in S : m >= x
  BY <1>3
<1>5. \E m_1 \in S : \A x \in S : m_1 >= x
  BY <1>4
<1> QED
  BY <1>5 DEF Max

\* No number needs more decimals than the scale that was inferred from all of them.
LEMMA InferredScaleHolds ==
  ASSUME NEW syms \in SUBSET Symbols, ScaleOfNumbers(syms) # -1,
         NEW s \in syms, HasNumber(s)
  PROVE  /\ s.num # "nan" /\ s.num \in DOMAIN NumberScale
         /\ NumberScale[s.num] \in Nat /\ ScaleOfNumbers(syms) \in Nat
         /\ NumberScale[s.num] <= ScaleOfNumbers(syms)
<1> DEFINE N == {t \in syms : HasNumber(t)}
           scales == {NumberScale[t.num] : t \in N}
<1>1. /\ ScaleOfNumbers(syms) = Max(scales)
      /\ \A t \in N : t.num # "nan"
  BY DEF ScaleOfNumbers
<1>2. \A t \in N : NumberScale[t.num] \in 0 .. 16 /\ t.num \in DOMAIN NumberScale
  BY <1>1, SymbolClasses DEF HasNumber, NumberScale, Whole
<1>3. scales \in SUBSET (0 .. 16) /\ NumberScale[s.num] \in scales
  BY <1>2
<1>4. Max(scales) \in scales /\ NumberScale[s.num] <= Max(scales)
  <2> HIDE DEF scales
  <2> QED
    BY <1>3, MaxInSet
<1> QED
  BY <1>1, <1>2, <1>3, <1>4
-----------------------------------------------------------------------------
\* What a decimal column can rely on: no symbol fails to scale, and a scale that was not
\* declared is the one inferred from the numbers.
DecimalSuits(ex, col, opt) ==
  /\ \A s \in col.syms : ScaledValue(s, ex, opt).result \notin Errors
  /\ ex.source \in {"auto", "text", "numeric"}
  /\ col.pin = "none" => ex.strict = opt.strict
  /\ col.pin = "none" /\ col.type # "decimal" =>
       ex.source = "numeric" /\ ex.scale = ScaleOfNumbers(col.syms) /\ ex.scale # -1

\* What the symbols of a column are, given the type it was resolved to.
TypeSuits(c, col, opt) ==
  LET P == Present(col.syms, opt) IN
    /\ c.strategy \in Strategies \ {"dualtext"}
    /\ c.strategy = "null" => P = {}
    /\ c.strategy = "int64" => \A s \in P : IntLike(s)
    /\ c.strategy = "float64" => \A s \in P : HasNumber(s)
    /\ c.strategy \in {"date32", "timestamp", "time"} => \A s \in P : Fits(s, c.strategy)
    /\ c.strategy = "decimal" => DecimalSuits(c.ex, col, opt)

LEMMA PresentSymbols ==
  ASSUME NEW col \in QvdColumns, NEW opt
  PROVE  /\ Present(col.syms, opt) \subseteq Symbols /\ Present(col.syms, opt) \subseteq col.syms
         /\ \A s \in Present(col.syms, opt) : s.kind # "null"
         /\ \A s \in col.syms : HasNumber(s) => s \in Present(col.syms, opt)
BY AbsentSymbol DEF Present, QvdColumns

LEMMA AsDateTimeSuits ==
  ASSUME NEW col \in QvdColumns, NEW opt, NEW strategy \in {"date32", "timestamp", "time"},
         AsDateTime(col.syms, strategy, opt).ok
  PROVE  /\ AsDateTime(col.syms, strategy, opt) = As(strategy)
         /\ TypeSuits(As(strategy).column, col, opt)
<1>1. /\ AsDateTime(col.syms, strategy, opt) = As(strategy)
      /\ \A s \in Present(col.syms, opt) : Fits(s, strategy)
  BY DEF AsDateTime, Failed
<1>2. As(strategy).column.strategy = strategy
  BY DEF As, Using
<1> QED
  BY <1>1, <1>2 DEF TypeSuits, Strategies

LEMMA AsDecimalSuits ==
  ASSUME NEW col \in QvdColumns, NEW opt \in Options, NEW ex,
         ex.source \in {"auto", "text", "numeric"},
         col.pin = "none" => ex.strict = opt.strict,
         col.pin = "none" /\ col.type # "decimal" =>
           ex.source = "numeric" /\ ex.scale = ScaleOfNumbers(col.syms) /\ ex.scale # -1,
         AsDecimal(col.syms, ex, opt).ok
  PROVE  /\ AsDecimal(col.syms, ex, opt) = Using("decimal", ex)
         /\ TypeSuits(Using("decimal", ex).column, col, opt)
<1>1. /\ AsDecimal(col.syms, ex, opt) = Using("decimal", ex)
      /\ \A s \in col.syms : ScaledValue(s, ex, opt).result \notin Errors
  BY DEF AsDecimal, Failed
<1>2. Using("decimal", ex).column.strategy = "decimal" /\ Using("decimal", ex).column.ex = ex
  BY DEF Using
<1> QED
  BY <1>1, <1>2 DEF TypeSuits, Strategies, DecimalSuits

\* The type a numeric column gets suits it: it has a number for every symbol present.
LEMMA NumericSuits ==
  ASSUME NEW col \in QvdColumns, NEW opt \in Options, col.pin = "none",
         \A s \in Present(col.syms, opt) : s.kind # "string",
         Numeric(col, opt).ok
  PROVE  TypeSuits(Numeric(col, opt).column, col, opt)
<1> DEFINE P == Present(col.syms, opt)
           type == TypeOf(col, opt)
           r == Numeric(col, opt)
           floats == \E s \in P : FloatLike(s)
           ints == \E s \in P : IntLike(s)
<1>1. \A s \in P : HasNumber(s) /\ (IntLike(s) \/ FloatLike(s))
  <2>1. \A s \in P : s \in Symbols /\ s.kind \notin {"null", "string"}
    BY PresentSymbols
  <2> HIDE DEF P
  <2> QED
    BY <2>1, SymbolClasses DEF HasNumber, IntLike, FloatLike
<1>2. type \in {"unknown", "real", "date", "timestamp", "time", "decimal"}
  BY DEF TypeOf, InferredType, QvdColumns
<1>3. type = "decimal" <=> col.type = "decimal"
  BY DEF TypeOf, InferredType, QvdColumns
<1>4. \A strategy \in {"int64", "float64"} : As(strategy).column.strategy = strategy
  BY DEF As, Using
<1>5. CASE type \in {"date", "timestamp", "time"}
  <2>1. r = AsDateTime(col.syms, DateTimeStrategy[type], opt)
    BY <1>5 DEF Numeric, DateTimeStrategy
  <2>2. DateTimeStrategy[type] \in {"date32", "timestamp", "time"}
    BY <1>5 DEF DateTimeStrategy
  <2> QED
    BY <2>1, <2>2, AsDateTimeSuits
<1>6. CASE type = "decimal"
  <2>1. r = Declared(col, opt)
    BY <1>6 DEF Numeric, DateTimeStrategy
  <2> DEFINE shown == ScaleOfTexts(col.syms)
             scale == IF col.ndec > 0 THEN col.ndec ELSE IF shown # -1 THEN shown ELSE col.ndec
             ex == [scale |-> scale, source |-> opt.source, strict |-> opt.strict]
  <2>2. r = AsDecimal(col.syms, ex, opt)
    <3>1. r = IF scale < 0 THEN Failed ELSE AsDecimal(col.syms, ex, opt)
      BY <2>1 DEF Declared
    <3>2. ~Failed.ok
      BY DEF Failed, As, Using
    <3> QED
      BY <3>1, <3>2
  <2>3. opt.source \in {"auto", "text", "numeric"}
    BY DEF Options
  <2> QED
    BY <1>3, <1>6, <2>2, <2>3, AsDecimalSuits
<1>7. CASE type \in {"unknown", "real"} /\ floats /\ opt.promote = "decimal"
  <2>1. r = Promoted(col.syms, opt)
    BY <1>7 DEF Numeric, DateTimeStrategy
  <2>2. CASE ScaleOfNumbers(col.syms) # -1
    <3>1. r = AsDecimal(col.syms, [scale |-> ScaleOfNumbers(col.syms), source |-> "numeric",
                                   strict |-> opt.strict], opt)
      BY <2>1, <2>2 DEF Promoted
    <3> QED
      BY <2>2, <3>1, AsDecimalSuits
  <2>3. CASE ScaleOfNumbers(col.syms) = -1
    <3>1. r = As("float64")
      BY <2>1, <2>3 DEF Promoted, Failed
    <3> QED
      BY <1>1, <1>4, <3>1 DEF TypeSuits, Strategies
  <2> QED
    BY <2>2, <2>3
<1>8. CASE type \in {"unknown", "real"} /\ ~floats
  <2>1. r = As("int64")
    BY <1>8 DEF Numeric, DateTimeStrategy
  <2> QED
    BY <1>1, <1>4, <1>8, <2>1 DEF TypeSuits, Strategies
<1>9. CASE type \in {"unknown", "real"} /\ floats /\ opt.promote # "decimal"
  <2>1. r = As("float64")
    BY <1>9 DEF Numeric, DateTimeStrategy, Failed
  <2> QED
    BY <1>1, <1>4, <2>1 DEF TypeSuits, Strategies
<1> QED
  BY <1>2, <1>5, <1>6, <1>7, <1>8, <1>9

\* So does the type a column is pinned to.
LEMMA PinnedSuits ==
  ASSUME NEW col \in QvdColumns, NEW opt \in Options, col.pin # "none",
         Pinned(col, opt).ok
  PROVE  TypeSuits(Pinned(col, opt).column, col, opt)
<1> DEFINE P == Present(col.syms, opt)
           r == Pinned(col, opt)
<1>1. \A s \in P : s.kind # "string" => HasNumber(s) /\ (~FloatLike(s) => IntLike(s))
  BY PresentSymbols, SymbolClasses DEF HasNumber, IntLike, FloatLike
<1>2. \A strategy \in {"int64", "float64", "string"} : As(strategy).column.strategy = strategy
  BY DEF As, Using
<1>3. CASE col.pin = "string"
  <2>1. r = As("string")
    BY <1>3 DEF Pinned
  <2> QED
    BY <1>2, <2>1 DEF TypeSuits, Strategies
<1>4. CASE col.pin = "int64"
  <2>1. r = As("int64") /\ \A s \in P : ~FloatLike(s) /\ s.kind # "string"
    BY <1>4 DEF Pinned, Failed
  <2> QED
    BY <1>1, <1>2, <2>1 DEF TypeSuits, Strategies
<1>5. CASE col.pin = "float64"
  <2>1. r = As("float64") /\ \A s \in P : s.kind # "string"
    BY <1>5 DEF Pinned, Failed
  <2> QED
    BY <1>1, <1>2, <2>1 DEF TypeSuits, Strategies
<1>6. CASE col.pin \in {"date32", "timestamp", "time"}
  <2>1. r = AsDateTime(col.syms, col.pin, opt)
    BY <1>6 DEF Pinned
  <2> QED
    BY <1>6, <2>1, AsDateTimeSuits
<1>7. CASE col.pin \in {"decimal", "decimal9"}
  <2>1. r = AsDecimal(col.syms, [scale |-> 2, source |-> "auto", strict |-> FALSE], opt)
    BY <1>7 DEF Pinned, Failed
  <2> QED
    BY <1>7, <2>1, AsDecimalSuits
<1> QED
  BY <1>3, <1>4, <1>5, <1>6, <1>7 DEF QvdColumns
-----------------------------------------------------------------------------
\* The three ways a column that is not pinned resolves.
IsText(col, opt) ==
  \/ opt.mixed = "string" \/ opt.fallback \/ opt.dual = "text"
  \/ \A s \in Present(col.syms, opt) : s.kind = "string" \/ (s.kind = "dualint" /\ s.text # "empty")

IsTyped(col, opt) ==
  LET r == Resolve(col, opt) IN
    /\ Numeric(col, opt).ok /\ r.column = Numeric(col, opt).column
    /\ \A s \in Present(col.syms, opt) : s.kind # "string"
    /\ r.text <=> /\ \E s \in col.syms : IsDual(s)
                  /\ \/ opt.dual = "columns"
                     \/ opt.dual = "auto" /\ Informative(col.syms, r.column)

LEMMA ResolveCases ==
  ASSUME NEW col \in QvdColumns, NEW opt \in Options, col.pin = "none", Resolve(col, opt).ok
  PROVE  \/ Present(col.syms, opt) = {} /\ Resolve(col, opt) = As("null")
         \/ Resolve(col, opt) = As("string") /\ IsText(col, opt)
         \/ IsTyped(col, opt)
<1> DEFINE P == Present(col.syms, opt)
           strings == \E s \in P : s.kind = "string"
           numbers == \E s \in P : HasNumber(s)
           dual == \E s \in P : IsDual(s)
           r == Resolve(col, opt)
<1>0. P \subseteq Symbols /\ \A s \in P : s.kind # "null"
  BY PresentSymbols
<1>1. CASE P = {}
  BY <1>1 DEF Resolve
<1>2. CASE P # {} /\ strings /\ numbers
  <2>1. /\ r = As("string")
        /\ opt.mixed = "string" \/ opt.fallback \/ TextIsLossless(col.syms, opt)
    BY <1>2 DEF Resolve, Failed
  <2> QED
    BY <2>1 DEF IsText, TextIsLossless
<1>3. CASE P # {} /\ strings /\ ~numbers
  <2>1. r = As("string")
    BY <1>3 DEF Resolve
  <2>2. \A s \in P : s.kind = "string"
    <3> HIDE DEF P
    <3> QED
      BY <1>0, <1>3, SymbolClasses DEF HasNumber
  <2> QED
    BY <2>1, <2>2 DEF IsText
<1>4. CASE P # {} /\ ~strings /\ opt.dual = "auto" /\ ZeroPaddedCodes(col.syms, opt)
  <2>1. r = As("string")
    BY <1>4 DEF Resolve
  <2>2. \A s \in P : s.kind = "dualint" /\ s.text # "empty"
    BY <1>4 DEF ZeroPaddedCodes
  <2> QED
    BY <2>1, <2>2 DEF IsText
<1>5. CASE /\ P # {} /\ ~strings /\ ~(opt.dual = "auto" /\ ZeroPaddedCodes(col.syms, opt))
           /\ opt.mixed = "string" \/ (dual /\ opt.dual = "text")
  <2>1. r = As("string")
    BY <1>5 DEF Resolve
  <2> QED
    BY <1>5, <2>1 DEF IsText
<1>6. CASE /\ P # {} /\ ~strings /\ ~(opt.dual = "auto" /\ ZeroPaddedCodes(col.syms, opt))
           /\ ~(opt.mixed = "string" \/ (dual /\ opt.dual = "text"))
  <2>1. r = WithCompanion(col, opt)
    BY <1>6 DEF Resolve
  <2> DEFINE n == Numeric(col, opt)
             text == /\ n.ok /\ \E s \in col.syms : IsDual(s)
                     /\ \/ opt.dual = "columns"
                        \/ opt.dual = "auto" /\ Informative(col.syms, n.column)
  <2>2. r = [n EXCEPT !.text = text]
    BY <2>1 DEF WithCompanion
  <2>3. DOMAIN n = {"ok", "column", "text"}
    BY DEF Numeric, AsDateTime, Declared, Promoted, AsDecimal, Using, As, Failed, TypeOf,
           DateTimeStrategy, InferredType, QvdColumns
  <2>4. r.ok = n.ok /\ r.column = n.column /\ r.text = text
    <3> HIDE DEF n, text
    <3> QED
      BY <2>2, <2>3
  <2> QED
    BY <1>6, <2>4 DEF IsTyped
<1> QED
  BY <1>1, <1>2, <1>3, <1>4, <1>5, <1>6

\* Whatever the policies and the pins, the type suits the symbols.
LEMMA ResolveSuits ==
  ASSUME NEW col \in QvdColumns, NEW opt \in Options, Resolve(col, opt).ok
  PROVE  TypeSuits(Resolve(col, opt).column, col, opt)
<1>1. CASE col.pin # "none"
  <2>1. Resolve(col, opt) = Pinned(col, opt)
    BY <1>1 DEF Resolve
  <2> QED
    BY <1>1, <2>1, PinnedSuits
<1>2. CASE col.pin = "none" /\ IsTyped(col, opt)
  BY <1>2, NumericSuits DEF IsTyped
<1>3. CASE Present(col.syms, opt) = {} /\ Resolve(col, opt) = As("null")
  BY <1>3 DEF TypeSuits, As, Using, Strategies
<1>4. CASE Resolve(col, opt) = As("string")
  BY <1>4 DEF TypeSuits, As, Using, Strategies
<1> QED
  BY <1>1, <1>2, <1>3, <1>4, ResolveCases
-----------------------------------------------------------------------------
(* One column: what its type does with its symbols.                        *)

\* Nothing fails the conversion of a symbol of the column, nor of its text.
LEMMA ColumnConverts ==
  ASSUME NEW col \in QvdColumns, NEW opt \in Options, Resolve(col, opt).ok,
         NEW s \in col.syms
  PROVE  /\ Convert(Resolve(col, opt).column, s, opt) # "error"
         /\ Convert(Companion, s, opt) # "error"
<1> DEFINE c == Resolve(col, opt).column
<1>1. TypeSuits(c, col, opt)
  BY ResolveSuits
<1>2. s \in Symbols
  BY DEF QvdColumns
<1>3. StringOf(s, opt) # "error"
  BY DEF StringOf
<1>4. Convert(Companion, s, opt) # "error"
  BY <1>3 DEF Convert, ConvertBare, Companion
<1> SUFFICES Convert(c, s, opt) # "error"
  BY <1>4
<1>5. CASE Absent(s, opt)
  BY <1>5 DEF Convert
<1>6. CASE ~Absent(s, opt)
  <2>1. s \in Present(col.syms, opt) /\ Convert(c, s, opt) = ConvertBare(c, s, opt)
    BY <1>6 DEF Present, Convert
  <2> HIDE DEF c
  <2>2. c.strategy \in Strategies \ {"dualtext"}
    BY <1>1 DEF TypeSuits
  <2>3. CASE c.strategy = "int64"
    <3>1. s.num \in Whole
      BY <1>1, <1>2, <2>1, <2>3, SymbolClasses DEF TypeSuits, IntLike
    <3> QED
      BY <2>1, <2>3, <3>1 DEF ConvertBare
  <2>4. CASE c.strategy = "float64"
    BY <1>1, <2>1, <2>4 DEF ConvertBare, TypeSuits
  <2>5. CASE c.strategy \in {"date32", "timestamp", "time"}
    BY <1>1, <2>1, <2>5 DEF ConvertBare, TypeSuits
  <2>6. CASE c.strategy \in {"null", "string", "decimal"}
    BY <1>3, <2>1, <2>6 DEF ConvertBare
  <2> QED
    BY <2>2, <2>3, <2>4, <2>5, <2>6 DEF Strategies
<1> QED
  BY <1>5, <1>6

\* Only a column that is text, or is asked to be, is written as a string.
LEMMA StringIsText ==
  ASSUME NEW col \in QvdColumns, NEW opt \in Options, Resolve(col, opt).ok,
         Resolve(col, opt).column.strategy = "string"
  PROVE  col.pin = "string" \/ IsText(col, opt)
<1>1. CASE col.pin # "none"
  <2>1. Resolve(col, opt) = Pinned(col, opt)
    BY <1>1 DEF Resolve
  <2>2. CASE col.pin \in {"date32", "timestamp", "time"}
    <3>1. Pinned(col, opt) = AsDateTime(col.syms, col.pin, opt)
      BY <2>2 DEF Pinned
    <3> QED
      BY <2>1, <2>2, <3>1 DEF AsDateTime, As, Using, Failed
  <2>3. CASE col.pin \in {"int64", "float64", "decimal", "decimal9"}
    BY <2>1, <2>3 DEF Pinned, AsDecimal, As, Using, Failed
  <2> QED
    BY <1>1, <2>2, <2>3 DEF QvdColumns
<1>2. CASE col.pin = "none" /\ IsTyped(col, opt)
  <2>1. Numeric(col, opt).column.strategy # "string"
    <3>1. DateTimeStrategy \in [{"date", "timestamp", "time"} -> {"date32", "timestamp", "time"}]
      BY DEF DateTimeStrategy
    <3>2. TypeOf(col, opt) \in {"unknown", "real", "date", "timestamp", "time", "decimal"}
      BY DEF TypeOf, InferredType, QvdColumns
    <3>3. \A strategy \in {"date32", "timestamp", "time"} :
            AsDateTime(col.syms, strategy, opt).column.strategy # "string"
      BY DEF AsDateTime, As, Using, Failed
    <3>4. \A ex : AsDecimal(col.syms, ex, opt).column.strategy # "string"
      BY DEF AsDecimal, As, Using, Failed
    <3>5. /\ Declared(col, opt).column.strategy # "string"
          /\ Promoted(col.syms, opt).column.strategy # "string"
      BY <3>4 DEF Declared, Promoted, As, Using, Failed
    <3> QED
      BY <3>1, <3>2, <3>3, <3>5 DEF Numeric, As, Using, Failed
  <2> QED
    BY <1>2, <2>1 DEF IsTyped
<1>3. CASE Resolve(col, opt) = As("null")
  BY <1>3 DEF As, Using
<1> QED
  BY <1>1, <1>2, <1>3, ResolveCases

\* A text that is not written anywhere is one that the type of its column says.
LEMMA Unsaid ==
  ASSUME NEW col \in QvdColumns, NEW opt \in Options, col.pin = "none", Resolve(col, opt).ok,
         opt.dual \in {"auto", "columns"}, Resolve(col, opt).column.strategy # "string",
         NEW s \in col.syms, IsDual(s), ~Resolve(col, opt).text
  PROVE  /\ opt.dual = "auto" /\ Redundant(s, Resolve(col, opt).column)
         /\ IsTyped(col, opt)
<1>1. s \in Present(col.syms, opt)
  BY PresentSymbols DEF HasNumber, IsDual
<1>2. IsTyped(col, opt)
  BY <1>1, ResolveCases DEF As, Using
<1> QED
  BY <1>2 DEF IsTyped, Informative

\* A value is written by the column, or by the one for its display strings.
LEMMA ColumnKeepsValues ==
  ASSUME NEW f, f.col \in QvdColumns, o \in Options, Resolve(f.col, o).ok,
         ~TextAskedFor(f), NEW s \in f.col.syms, HasValue(f, s)
  PROVE  \/ Convert(Resolve(f.col, o).column, s, o) = "value"
         \/ Resolve(f.col, o).text /\ Convert(Companion, s, o) = "value"
<1> DEFINE r == Resolve(f.col, o)
           c == r.column
<1>1. s \in Symbols /\ TypeSuits(c, f.col, o)
  BY ResolveSuits DEF QvdColumns
<1>2. ~Absent(s, o)
  BY <1>1, SymbolClasses DEF HasValue, Absent, Finite, Whole, IsDual
<1>3. s \in Present(f.col.syms, o)
  BY <1>2 DEF Present
<1>4. Convert(c, s, o) = ConvertBare(c, s, o) /\ Convert(Companion, s, o) = ConvertBare(Companion, s, o)
  BY <1>2 DEF Convert
<1>5. c.strategy \in Strategies \ {"null", "dualtext"}
  BY <1>1, <1>3 DEF TypeSuits
<1>6. CASE c.strategy = "string"
  <2>1. s.kind = "string" \/ (s.kind = "dualint" /\ s.text # "empty")
    BY <1>3, <1>6, StringIsText DEF IsText, TextAskedFor
  <2>2. s.text # "empty" /\ s.kind # "null"
    BY <1>1, <2>1, SymbolClasses DEF HasValue, Finite, Whole, IsDual
  <2>3. StringOf(s, o) = "value"
    BY <1>1, <2>2, SymbolClasses DEF StringOf
  <2> QED
    BY <1>4, <1>6, <2>3 DEF ConvertBare
<1>7. CASE c.strategy = "int64"
  <2>1. s.num \in Whole
    BY <1>1, <1>3, <1>7, SymbolClasses DEF TypeSuits, IntLike
  <2>2. ConvertBare(c, s, o) = "value"
    BY <1>1, <1>7, <2>1, SymbolClasses DEF ConvertBare, Whole
  <2> QED
    BY <1>4, <2>2
<1>8. CASE c.strategy = "float64"
  <2>1. HasNumber(s) /\ s # Null
    BY <1>1, <1>3, <1>8, SymbolClasses DEF TypeSuits, HasNumber
  <2>2. ConvertBare(c, s, o) = "value"
    BY <1>8, <2>1 DEF ConvertBare
  <2> QED
    BY <1>4, <2>2
<1>9. CASE c.strategy \in {"date32", "timestamp", "time"} /\ s.num # "nan"
  <2>1. Fits(s, c.strategy) /\ s # Null
    BY <1>1, <1>3, <1>9, SymbolClasses DEF TypeSuits, Fits, HasNumber
  <2>2. ConvertBare(c, s, o) = "value"
    BY <1>9, <2>1 DEF ConvertBare
  <2> QED
    BY <1>4, <2>2
<1>10. CASE c.strategy = "decimal" /\ s.num # "nan"
  <2>1. FromText(s, c.ex).result # "null" /\ FromNumber(s, c.ex).result # "null"
    BY <1>10 DEF FromText, FromNumber, Fit, Scaled
  <2>2. c.ex.source \in {"auto", "text", "numeric"}
    BY <1>1, <1>10 DEF TypeSuits, DecimalSuits
  <2>3. ScaledValue(s, c.ex, o).result # "null"
    BY <1>2, <2>1, <2>2 DEF ScaledValue
  <2>4. ConvertBare(c, s, o) = "value"
    BY <1>10, <2>3 DEF ConvertBare
  <2> QED
    BY <1>4, <2>4
<1>11. CASE c.strategy \in {"date32", "timestamp", "time", "decimal"} /\ s.num = "nan"
  <2>1. HasNumber(s)
    BY <1>1, <1>11, SymbolClasses DEF HasNumber
  <2>2. IsDual(s) /\ s.text # "empty" /\ f.col.pin = "none" /\ o.dual \in {"auto", "columns"}
    BY <1>1, <1>11, SymbolClasses DEF HasValue, Finite, Whole
  <2>3. s.text = "word"
    <3>1. s.kind = "dualfloat"
      BY <1>1, <1>11, <2>2, SymbolClasses DEF IsDual, Whole
    <3> QED
      BY <1>1, <1>11, <2>2, <3>1, SymbolClasses
  <2>4. ~Redundant(s, c)
    BY <2>3 DEF Redundant, RendersNumber, RendersDate, RendersTime, PlainNumber, TextScale
  <2>5. r.text
    BY <1>11, <2>2, <2>4, Unsaid
  <2>6. ConvertBare(Companion, s, o) = "value"
    BY <1>1, <2>2, <2>3, SymbolClasses DEF ConvertBare, Companion, HasText, IsDual, StringOf
  <2> QED
    BY <1>4, <2>5, <2>6
<1> QED
  BY <1>5, <1>6, <1>7, <1>8, <1>9, <1>10, <1>11 DEF Strategies

\* A column that is typed as a date was declared as one, or no display string has a clock.
LEMMA DateIsSaid ==
  ASSUME NEW col \in QvdColumns, NEW opt \in Options, Numeric(col, opt).ok,
         Numeric(col, opt).column.strategy = "date32"
  PROVE  \/ "date" \in {col.type, col.tag}
         \/ \A s \in Present(col.syms, opt) : s.text # "datetime"
<1> DEFINE type == TypeOf(col, opt)
<1>1. type \in {"unknown", "real", "date", "timestamp", "time", "decimal"}
  BY DEF TypeOf, InferredType, QvdColumns
<1>2. type = "date"
  <2>1. \A strategy : AsDateTime(col.syms, strategy, opt).column.strategy \in {"null", strategy}
    BY DEF AsDateTime, As, Using, Failed
  <2>2. \A ex : AsDecimal(col.syms, ex, opt).column.strategy # "date32"
    BY DEF AsDecimal, As, Using, Failed
  <2>3. /\ Declared(col, opt).column.strategy # "date32"
        /\ Promoted(col.syms, opt).column.strategy # "date32"
    BY <2>2 DEF Declared, Promoted, As, Using, Failed
  <2>4. CASE type \in {"timestamp", "time"}
    <3>1. /\ Numeric(col, opt) = AsDateTime(col.syms, DateTimeStrategy[type], opt)
          /\ DateTimeStrategy[type] \in {"timestamp", "time"}
      BY <2>4 DEF Numeric, DateTimeStrategy
    <3> QED
      BY <2>1, <3>1
  <2>5. CASE type = "decimal"
    BY <2>3, <2>5 DEF Numeric, DateTimeStrategy
  <2>6. CASE type \in {"unknown", "real"}
    BY <2>3, <2>6 DEF Numeric, DateTimeStrategy, As, Using, Failed
  <2> QED
    BY <1>1, <2>4, <2>5, <2>6
<1>3. \/ col.type = "date" \/ col.tag = "date"
      \/ InferredType(col.syms, opt) = "date"
  BY <1>2 DEF TypeOf
<1>4. InferredType(col.syms, opt) = "date" => \A s \in Present(col.syms, opt) : s.text # "datetime"
  BY DEF InferredType
<1> QED
  BY <1>3, <1>4

\* With --dual=auto a display string is written, or the type says what it says.
LEMMA ColumnKeepsText ==
  ASSUME NEW f, f.col \in QvdColumns, o \in Options, Resolve(f.col, o).ok,
         o.dual = "auto", f.col.pin = "none", NEW s \in f.col.syms, IsDual(s)
  PROVE  \/ Resolve(f.col, o).column.strategy = "string"
         \/ Resolve(f.col, o).text
         \/ SaysAsMuch(Resolve(f.col, o).column, f, s)
<1> DEFINE r == Resolve(f.col, o)
           c == r.column
<1> SUFFICES ASSUME c.strategy # "string", ~r.text
             PROVE  SaysAsMuch(c, f, s)
  OBVIOUS
<1>1. s \in Symbols /\ TypeSuits(c, f.col, o) /\ s \in Present(f.col.syms, o) /\ ~Absent(s, o)
  BY ResolveSuits, PresentSymbols, AbsentSymbol DEF QvdColumns, HasNumber, IsDual
<1>2. Redundant(s, c) /\ IsTyped(f.col, o)
  BY Unsaid
<1>3. s.text \in {"empty", "number", "padded", "other", "date", "datetime", "time", "word", "rounded"}
  BY <1>1, SymbolClasses DEF IsDual
<1>4. c.strategy = "date32" => "date" \in {f.col.type, f.col.tag} \/ s.text # "datetime"
  BY <1>1, <1>2, DateIsSaid DEF IsTyped
<1>5. c.strategy = "decimal" => c.ex.source \in {"auto", "text", "numeric"}
  BY <1>1 DEF TypeSuits, DecimalSuits
<1> HIDE DEF c, r
<1>6. CASE s.text \in {"empty", "number", "rounded"}
  BY <1>6 DEF SaysAsMuch
<1>7. CASE s.text = "padded"
  BY <1>2, <1>7 DEF SaysAsMuch, Redundant, RendersNumber, RendersDate, RendersTime
<1>8. CASE s.text \in {"date", "datetime"}
  BY <1>2, <1>4, <1>8
     DEF SaysAsMuch, Redundant, RendersNumber, RendersDate, RendersTime, PlainNumber, TextScale
<1>9. CASE s.text = "time"
  BY <1>2, <1>9
     DEF SaysAsMuch, Redundant, RendersNumber, RendersDate, RendersTime, PlainNumber, TextScale
<1>10. CASE s.text = "other"
  <2>1. /\ c.strategy = "decimal" /\ c.ex.source # "numeric"
        /\ FromText(s, c.ex).result \in {"exact", "rounded"}
    BY <1>2, <1>10 DEF Redundant, RendersNumber, RendersDate, RendersTime
  <2>2. ScaledValue(s, c.ex, o) = FromText(s, c.ex)
    BY <1>1, <1>5, <2>1 DEF ScaledValue
  <2>3. FromText(s, c.ex).side = "text"
    BY DEF FromText, Fit, Scaled
  <2> QED
    BY <1>10, <2>1, <2>2, <2>3 DEF SaysAsMuch
<1>11. CASE s.text = "word"
  BY <1>2, <1>11
     DEF Redundant, RendersNumber, RendersDate, RendersTime, PlainNumber, TextScale
<1> QED
  BY <1>3, <1>6, <1>7, <1>8, <1>9, <1>10, <1>11

\* A decimal rounds nothing where it must not.
LEMMA ColumnIsExact ==
  ASSUME NEW col \in QvdColumns, NEW opt \in Options, Resolve(col, opt).ok,
         Resolve(col, opt).column.strategy = "decimal", col.pin = "none",
         opt.strict \/ col.type # "decimal",
         NEW s \in col.syms
  PROVE  ScaledValue(s, Resolve(col, opt).column.ex, opt).result \in {"exact", "null"}
<1> DEFINE ex == Resolve(col, opt).column.ex
<1>1. DecimalSuits(ex, col, opt)
  BY ResolveSuits DEF TypeSuits
<1>2. s \in Symbols /\ col.syms \in SUBSET Symbols
  BY DEF QvdColumns
<1> HIDE DEF ex
<1> SUFFICES ScaledValue(s, ex, opt).result \in {"exact", "null"}
  BY DEF ex
<1>3. ScaledValue(s, ex, opt).result \notin Errors /\ ex.source \in {"auto", "text", "numeric"}
      /\ ex.strict = opt.strict
  BY <1>1 DEF DecimalSuits
<1>4. CASE Absent(s, opt)
  BY <1>4 DEF ScaledValue, Scaled
<1>5. CASE ~Absent(s, opt) /\ col.type # "decimal"
  <2>1. ex.source = "numeric" /\ ex.scale = ScaleOfNumbers(col.syms) /\ ex.scale # -1
    BY <1>1, <1>5 DEF DecimalSuits
  <2>2. ScaledValue(s, ex, opt) = FromNumber(s, ex)
    BY <1>5, <2>1 DEF ScaledValue
  <2> DEFINE got == FromNumber(s, ex)
  <2>0. got.result \notin Errors
    BY <1>3, <2>2
  <2>3. HasNumber(s)
    <3>1. ~HasNumber(s) => got = Scaled("unreadable", "number")
      BY DEF FromNumber
    <3>2. Scaled("unreadable", "number").result = "unreadable"
      BY DEF Scaled
    <3> QED
      BY <2>0, <3>1, <3>2 DEF Errors
  <2>4. NumberScale[s.num] <= ex.scale
    BY <1>2, <2>1, <2>3, InferredScaleHolds
  <2>5. \/ got = Scaled("null", "number")
        \/ got = Scaled("too long", "number")
        \/ got = Scaled("exact", "number")
    BY <2>3, <2>4 DEF FromNumber, Fit
  <2> HIDE DEF got
  <2>6. got.result \in {"exact", "null"}
    <3>1. CASE got = Scaled("null", "number")
      BY <3>1 DEF Scaled
    <3>2. CASE got = Scaled("too long", "number")
      <4>1. got.result = "too long"
        BY <3>2 DEF Scaled
      <4> QED
        BY <2>0, <4>1 DEF Errors
    <3>3. CASE got = Scaled("exact", "number")
      BY <3>3 DEF Scaled
    <3> QED
      BY <2>5, <3>1, <3>2, <3>3
  <2> QED
    BY <2>2, <2>6 DEF got
<1>6. CASE ~Absent(s, opt) /\ opt.strict
  <2>1. /\ FromText(s, ex).result \in Errors \cup {"exact", "null"}
        /\ FromNumber(s, ex).result \in Errors \cup {"exact", "null"}
    BY <1>3, <1>6 DEF FromText, FromNumber, Fit, Scaled, Errors
  <2> QED
    BY <1>3, <1>6, <2>1 DEF ScaledValue
<1> QED
  BY <1>4, <1>5, <1>6

\* A symbol that stands for no value changes nothing that resolveColumn asks for.
LEMMA AbsentChangesNothing ==
  ASSUME NEW col \in QvdColumns, NEW opt \in Options,
         NEW s \in Symbols, Absent(s, opt)
  PROVE  Resolve([col EXCEPT !.syms = @ \cup {s}], opt) = Resolve(col, opt)
<1> DEFINE more == [col EXCEPT !.syms = @ \cup {s}]
<1>1. /\ more.syms = col.syms \cup {s} /\ more.type = col.type /\ more.tag = col.tag
      /\ more.ndec = col.ndec /\ more.pin = col.pin
  BY DEF QvdColumns
<1>2. /\ ~HasNumber(s) /\ ~IsDual(s) /\ s \notin Present(more.syms, opt)
      /\ ~(HasText(s) /\ PlainNumber(s))
  BY AbsentSymbol DEF Present, HasNumber, IsDual, PlainNumber, TextScale
<1>3. Present(more.syms, opt) = Present(col.syms, opt)
  BY <1>1 DEF Present
<1> HIDE DEF more
<1>4. ScaleOfTexts(more.syms) = ScaleOfTexts(col.syms)
  <2>1. {t \in more.syms : HasText(t) /\ PlainNumber(t)} = {t \in col.syms : HasText(t) /\ PlainNumber(t)}
    BY <1>1, <1>2
  <2> QED
    BY <2>1 DEF ScaleOfTexts
<1>5. ScaleOfNumbers(more.syms) = ScaleOfNumbers(col.syms)
  <2>1. {t \in more.syms : HasNumber(t)} = {t \in col.syms : HasNumber(t)}
    BY <1>1, <1>2
  <2> QED
    BY <2>1 DEF ScaleOfNumbers
<1>6. \A ex : AsDecimal(more.syms, ex, opt) = AsDecimal(col.syms, ex, opt)
  <2>1. \A ex : ScaledValue(s, ex, opt).result \notin Errors
    BY DEF ScaledValue, Scaled, Errors
  <2> QED
    BY <1>1, <2>1 DEF AsDecimal
<1>7. \A strategy : AsDateTime(more.syms, strategy, opt) = AsDateTime(col.syms, strategy, opt)
  BY <1>3 DEF AsDateTime
<1>8. InferredType(more.syms, opt) = InferredType(col.syms, opt)
  BY <1>3 DEF InferredType
<1>9. TypeOf(more, opt) = TypeOf(col, opt)
  BY <1>1, <1>8 DEF TypeOf
<1>10. Promoted(more.syms, opt) = Promoted(col.syms, opt)
  BY <1>5, <1>6 DEF Promoted
<1>11. Declared(more, opt) = Declared(col, opt)
  BY <1>1, <1>4, <1>6 DEF Declared
<1>12. Numeric(more, opt) = Numeric(col, opt)
  BY <1>3, <1>7, <1>9, <1>10, <1>11 DEF Numeric
<1>13. \A c : Informative(more.syms, c) <=> Informative(col.syms, c)
  BY <1>1, <1>2 DEF Informative
<1>14. (\E t \in more.syms : IsDual(t)) <=> (\E t \in col.syms : IsDual(t))
  BY <1>1, <1>2
<1>15. WithCompanion(more, opt) = WithCompanion(col, opt)
  <2> DEFINE n == Numeric(col, opt)
             text(c) == /\ n.ok /\ \E t \in c.syms : IsDual(t)
                        /\ \/ opt.dual = "columns"
                           \/ opt.dual = "auto" /\ Informative(c.syms, n.column)
  <2>1. text(more) = text(col)
    BY <1>13, <1>14
  <2>2. /\ WithCompanion(more, opt) = [n EXCEPT !.text = text(more)]
        /\ WithCompanion(col, opt) = [n EXCEPT !.text = text(col)]
    BY <1>12 DEF WithCompanion
  <2> QED
    BY <2>1, <2>2
<1>16. Pinned(more, opt) = Pinned(col, opt)
  BY <1>1, <1>3, <1>6, <1>7 DEF Pinned
<1>17. /\ ZeroPaddedCodes(more.syms, opt) <=> ZeroPaddedCodes(col.syms, opt)
       /\ TextIsLossless(more.syms, opt) <=> TextIsLossless(col.syms, opt)
  BY <1>3 DEF ZeroPaddedCodes, TextIsLossless
<1> SUFFICES Resolve(more, opt) = Resolve(col, opt)
  BY DEF more
<1> QED
  BY <1>1, <1>3, <1>15, <1>16, <1>17 DEF Resolve
-----------------------------------------------------------------------------
(* The columns of the schema are what their fields resolve to.             *)

\* The columns of a field: what Resolve says, and for each that asks for it the display
\* strings as well.
FieldInv(i) ==
  LET r == Resolve(Fields[i].col, o) IN
    /\ r.ok
    /\ <<i, "value">> \in DOMAIN out /\ out[<<i, "value">>] = r.column
    /\ <<i, "text">> \in DOMAIN out <=> r.text
    /\ r.text => out[<<i, "text">>] = Companion

FieldsInv ==
  /\ InputTyped
  /\ position \in 1..(Len(Fields) + 1)
  /\ DOMAIN out \subseteq (1..(position - 1)) \X {"value", "text"}
  /\ \A i \in 1..(position - 1) : FieldInv(i)
  /\ phase \in {"naming", "resolved"} => position = Len(Fields) + 1

LEMMA FieldsAre ==
  ASSUME FieldsInv
  PROVE  /\ o \in Options /\ Len(Fields) \in Nat
         /\ \A i \in 1..Len(Fields) : Fields[i].col \in QvdColumns
<1>1. o \in Options /\ Fields \in Seq([name : Names, col : QvdColumns])
  BY DEF FieldsInv, InputTyped, o, Fields
<1>2. \A i \in 1..Len(Fields) : Fields[i] \in [name : Names, col : QvdColumns]
  BY <1>1, ElementOfSeq
<1> QED
  BY <1>1, <1>2

LEMMA FieldsInvBegins == InputTyped /\ Beginning => FieldsInv
BY DEF Beginning, FieldsInv, InputTyped, Fields

LEMMA FieldsInvInit == Init => FieldsInv
BY FieldsInvBegins, InitBegins

\* One field more; those before it keep their columns.
LEMMA FieldsInvResolve == FieldsInv /\ ResolveField => FieldsInv'
<1> SUFFICES ASSUME FieldsInv, ResolveField PROVE FieldsInv'
  OBVIOUS
<1>1. Len(Fields) \in Nat /\ Fields' = Fields /\ o' = o /\ input' = input
  BY FieldsAre DEF ResolveField, Fields, o
<1> DEFINE r == Resolve(Fields[position].col, o)
           value == <<position, "value">>
           text == <<position, "text">>
<1>2. CASE ~r.ok
  <2>1. phase' = "failed" /\ UNCHANGED <<out, position>>
    BY <1>2 DEF ResolveField
  <2>2. \A i : FieldInv(i)' = FieldInv(i)
    BY <1>1, <2>1 DEF FieldInv
  <2> QED
    BY <1>1, <2>1, <2>2 DEF FieldsInv, InputTyped
<1>3. CASE r.ok
  <2>1. /\ out' = [c \in DOMAIN out \cup {value} \cup (IF r.text THEN {text} ELSE {}) |->
                     IF c = value THEN r.column ELSE IF c = text THEN Companion ELSE out[c]]
        /\ position' = position + 1 /\ phase' = "resolving" /\ position <= Len(Fields)
    BY <1>3 DEF ResolveField
  <2>2. position \in Nat \ {0} /\ DOMAIN out \subseteq (1..(position - 1)) \X {"value", "text"}
    BY <1>1 DEF FieldsInv
  <2>3. value \notin DOMAIN out /\ text \notin DOMAIN out /\ value # text
    BY <2>2
  <2>4. ASSUME NEW i, i = position
        PROVE  FieldInv(i)'
    <3> HIDE DEF r
    <3>1. /\ <<i, "value">> \in DOMAIN out' /\ out'[<<i, "value">>] = r.column
          /\ <<i, "text">> \in DOMAIN out' <=> r.text
          /\ r.text => out'[<<i, "text">>] = Companion
      BY <2>1, <2>3, <2>4
    <3>2. r = Resolve(Fields'[i].col, o')
      BY <1>1, <2>4 DEF r
    <3> QED
      BY <1>3, <3>1, <3>2 DEF FieldInv
  <2>5. \A i \in 1..(position - 1) : FieldInv(i)'
    <3> SUFFICES ASSUME NEW i \in 1..(position - 1) PROVE FieldInv(i)'
      OBVIOUS
    <3>1. i # position /\ FieldInv(i)
      BY <2>2 DEF FieldsInv
    <3>2. \A side \in {"value", "text"} :
            /\ <<i, side>> \in DOMAIN out' <=> <<i, side>> \in DOMAIN out
            /\ <<i, side>> \in DOMAIN out => out'[<<i, side>>] = out[<<i, side>>]
      <4> HIDE DEF r
      <4> QED
        BY <2>1, <3>1
    <3> QED
      BY <1>1, <3>1, <3>2 DEF FieldInv
  <2>6. \A i \in 1..(position' - 1) : FieldInv(i)'
    <3> SUFFICES ASSUME NEW i \in 1..(position' - 1) PROVE FieldInv(i)'
      OBVIOUS
    <3>1. i \in 1..(position - 1) \/ i = position
      BY <2>1, <2>2
    <3> QED
      BY <2>4, <2>5, <3>1
  <2>7. DOMAIN out' \subseteq (1..(position' - 1)) \X {"value", "text"}
    <3> HIDE DEF r
    <3> QED
      BY <2>1, <2>2
  <2>8. position' \in 1..(Len(Fields) + 1)
    BY <1>1, <2>1, <2>2
  <2> QED
    BY <1>1, <2>1, <2>6, <2>7, <2>8 DEF FieldsInv, InputTyped
<1> QED
  BY <1>2, <1>3

\* The naming changes no column.
LEMMA FieldsInvNaming ==
  FieldsInv /\ (StartNaming \/ (\E c \in pending : Claim(c) \/ Collide(c)) \/ NamesSettled \/ UNCHANGED vars)
    => FieldsInv'
<1> SUFFICES ASSUME FieldsInv,
                    \/ StartNaming \/ (\E c \in pending : Claim(c) \/ Collide(c)) \/ NamesSettled
                    \/ UNCHANGED vars
             PROVE  FieldsInv'
  OBVIOUS
<1>1. UNCHANGED <<input, position, out>>
  BY DEF StartNaming, Claim, Collide, NamesSettled, vars
<1>2. \/ phase' \in {"failed", phase}
      \/ phase = "resolving" /\ position > Len(Fields)
      \/ phase = "naming"
  BY DEF StartNaming, Claim, Collide, Rename, NamesSettled, vars
<1>3. \A i : FieldInv(i)' = FieldInv(i)
  BY <1>1 DEF FieldInv, Fields, o
<1>4. Len(Fields) \in Nat /\ Fields' = Fields
  BY <1>1, FieldsAre DEF Fields
<1> QED
  BY <1>1, <1>2, <1>3, <1>4 DEF FieldsInv, InputTyped

\* The columns are what Resolve makes of the fields, in every state.
THEOREM ColumnsAreResolved == Spec => []FieldsInv
<1>1. FieldsInv /\ [Next]_vars => FieldsInv'
  BY FieldsInvResolve, FieldsInvNaming DEF Next
<1> QED
  BY <1>1, FieldsInvInit, PTL DEF Spec

LEMMA FieldColumns ==
  ASSUME FieldsInv, Resolved, NEW i \in DOMAIN Fields
  PROVE  LET r == Resolve(Fields[i].col, o) IN
           /\ o \in Options /\ Fields[i].col \in QvdColumns /\ r.ok
           /\ r.column \in ColumnsOf(i)
           /\ r.text => Companion \in ColumnsOf(i)
           /\ \A c \in ColumnsOf(i) : c = r.column \/ c = Companion
<1> DEFINE r == Resolve(Fields[i].col, o)
<1>0. DOMAIN Fields = 1..Len(Fields)
  BY DEF FieldsInv, InputTyped, Fields
<1>1. i \in 1..Len(Fields) /\ i \in 1..(position - 1) /\ FieldInv(i)
  BY <1>0, FieldsAre DEF FieldsInv, Resolved
<1>2. o \in Options /\ Fields[i].col \in QvdColumns /\ r.ok
  BY <1>1, FieldsAre DEF FieldInv
<1>3. /\ <<i, "value">> \in DOMAIN out /\ out[<<i, "value">>] = r.column
      /\ <<i, "text">> \in DOMAIN out <=> r.text
      /\ r.text => out[<<i, "text">>] = Companion
  BY <1>1 DEF FieldInv
<1> HIDE DEF r
<1>4. \A d \in DOMAIN out : d[1] = i => d = <<i, "value">> \/ d = <<i, "text">>
  BY DEF FieldsInv
<1>5. /\ r.column \in ColumnsOf(i)
      /\ r.text => Companion \in ColumnsOf(i)
  BY <1>3 DEF ColumnsOf
<1>6. \A c \in ColumnsOf(i) : c = r.column \/ c = Companion
  BY <1>3, <1>4 DEF ColumnsOf
<1> QED
  BY <1>2, <1>5, <1>6 DEF r

LEMMA TypesFollow ==
  FieldsInv => /\ ResolutionSufficient /\ NothingVanishes /\ TextKept
               /\ DecimalsExact /\ AbsentIsNoEvidence
<1>1. FieldsInv => ResolutionSufficient
  BY FieldColumns, ColumnConverts DEF ResolutionSufficient
<1>2. FieldsInv => NothingVanishes
  BY FieldColumns, ColumnKeepsValues DEF NothingVanishes
<1>3. FieldsInv => TextKept
  <2> SUFFICES ASSUME FieldsInv, Resolved, o.dual = "auto", NEW i \in DOMAIN Fields,
                      Fields[i].col.pin = "none", NEW s \in Fields[i].col.syms, IsDual(s)
               PROVE  \E c \in ColumnsOf(i) :
                        c.strategy \in {"string", "dualtext"} \/ SaysAsMuch(c, Fields[i], s)
    BY DEF TextKept
  <2> DEFINE r == Resolve(Fields[i].col, o)
  <2>1. /\ o \in Options /\ Fields[i].col \in QvdColumns /\ r.ok
        /\ r.column \in ColumnsOf(i)
        /\ r.text => Companion \in ColumnsOf(i)
    BY FieldColumns
  <2>2. r.column.strategy = "string" \/ r.text \/ SaysAsMuch(r.column, Fields[i], s)
    BY <2>1, ColumnKeepsText
  <2>3. Companion.strategy = "dualtext"
    BY DEF Companion
  <2> QED
    BY <2>1, <2>2, <2>3
<1>4. FieldsInv => DecimalsExact
  <2>1. Companion.strategy # "decimal"
    BY DEF Companion
  <2> QED
    BY <2>1, FieldColumns, ColumnIsExact DEF DecimalsExact
<1>5. FieldsInv => AbsentIsNoEvidence
  <2>1. Null \in Symbols /\ Symbol("string", "none", "empty") \in Symbols
    BY DEF Symbols, Strings
  <2> QED
    BY <2>1, FieldColumns, AbsentChangesNothing DEF AbsentIsNoEvidence
<1> QED
  BY <1>1, <1>2, <1>3, <1>4, <1>5

\* No decode worker meets a symbol that the type it was given cannot take, whatever the
\* file, the policies and the pins.
THEOREM ResolutionSuffices == Spec => []ResolutionSufficient
BY TypesFollow, ColumnsAreResolved, PTL

\* Every value that is there is written to a column of its field.
THEOREM ValuesAreKept == Spec => []NothingVanishes
BY TypesFollow, ColumnsAreResolved, PTL

\* With --dual=auto every display string is written, or the type of its column says it.
THEOREM TextsAreKept == Spec => []TextKept
BY TypesFollow, ColumnsAreResolved, PTL

\* No decimal rounds a number behind the back of its policy.
THEOREM DecimalsAreExact == Spec => []DecimalsExact
BY TypesFollow, ColumnsAreResolved, PTL

\* One more symbol that stands for no value changes the type of no column.
THEOREM AbsenceIsNoEvidence == Spec => []AbsentIsNoEvidence
BY TypesFollow, ColumnsAreResolved, PTL
-----------------------------------------------------------------------------
(* Induction over the natural numbers, as sets.                            *)

\* What holds of 0 and of n + 1 if it holds of n holds of every natural number.
LEMMA AllNumbers ==
  ASSUME NEW S, 0 \in S, \A n \in Nat : n \in S => n + 1 \in S
  PROVE  Nat \subseteq S
<1> SUFFICES ASSUME ~(Nat \subseteq S) PROVE FALSE
  OBVIOUS
<1> DEFINE Left == Nat \ S
<1>1. Left \in SUBSET Nat /\ Left # {}
  OBVIOUS
<1>2. PICK x \in Left : \A y \in Left : x <= y
  <2> HIDE DEF Left
  <2> QED
    BY <1>1, LeastExists
<1>3. x # 0 /\ x - 1 \in Nat /\ x - 1 \notin Left
  BY <1>2
<1> QED
  BY <1>2, <1>3

-----------------------------------------------------------------------------
(* Functions defined by recursion.                                         *)

\* f begins with first, and goes on by steps.
Stepwise(f, n, S, first, step) ==
  /\ f \in [0 .. n -> S]
  /\ f[0] = first
  /\ \A k \in 1 .. n : f[k] = step[<<k, f[k - 1]>>]

\* One that takes its values in a set exists, up to any n.
LEMMA Recursion ==
  ASSUME NEW n \in Nat, NEW S, NEW first \in S, NEW step \in [(1 .. n) \X S -> S]
  PROVE  \E f : Stepwise(f, n, S, first, step)
<1> DEFINE Upto(m) == \E f : Stepwise(f, m, S, first, step)
           Good == {m \in Nat : m <= n => Upto(m)}
<1>1. 0 \in Good
  <2> DEFINE f == [k \in 0 .. 0 |-> first]
  <2>1. f \in [0 .. 0 -> S] /\ f[0] = first /\ 1 .. 0 = {}
    OBVIOUS
  <2>2. Upto(0)
    <3> HIDE DEF f
    <3> QED
      BY <2>1 DEF Stepwise
  <2> QED
    BY <2>2
<1>2. ASSUME NEW m \in Nat, m \in Good PROVE m + 1 \in Good
  <2> SUFFICES ASSUME m + 1 <= n PROVE Upto(m + 1)
    OBVIOUS
  <2>1. PICK f : Stepwise(f, m, S, first, step)
    BY <1>2
  <2> DEFINE g == [k \in 0 .. m + 1 |-> IF k = m + 1 THEN step[<<m + 1, f[m]>>] ELSE f[k]]
  <2>0. /\ f \in [0 .. m -> S] /\ f[0] = first
        /\ \A k \in 1 .. m : f[k] = step[<<k, f[k - 1]>>]
    BY <2>1 DEF Stepwise
  <2>2. f[m] \in S /\ <<m + 1, f[m]>> \in (1 .. n) \X S
    BY <2>0
  <2>3. g \in [0 .. m + 1 -> S]
    BY <2>0, <2>2
  <2>4. g[0] = first
    BY <2>0
  <2>5. ASSUME NEW k \in 1 .. m + 1 PROVE g[k] = step[<<k, g[k - 1]>>]
    <3>1. g[k - 1] = f[k - 1]
      OBVIOUS
    <3>2. CASE k = m + 1
      <4>1. g[k] = step[<<m + 1, f[m]>>] /\ k - 1 = m
        BY <3>2
      <4> HIDE DEF g
      <4> QED
        BY <3>1, <3>2, <4>1
    <3>3. CASE k # m + 1
      <4>1. k \in 1 .. m /\ g[k] = f[k]
        BY <3>3
      <4> QED
        BY <2>0, <3>1, <4>1
    <3> QED
      BY <3>2, <3>3
  <2> HIDE DEF g
  <2> QED
    BY <2>3, <2>4, <2>5 DEF Stepwise
<1>3. n \in Good
  <2> HIDE DEF Good
  <2> QED
    BY <1>1, <1>2, AllNumbers
<1> QED
  BY <1>3

\* Functions of one recursion, each up to another number: while the values are in S, each
\* goes on by a step.
Family(F, n, S, first, step) ==
  \A m \in 0 .. n :
    /\ F[m][0] = first
    /\ \A k \in 1 .. m : F[m][k - 1] \in S => F[m][k] = step[<<k, F[m][k - 1]>>]

LastSteps(F, n, S, first, step) ==
  /\ F[0][0] = first
  /\ \A m \in 0 .. n : F[m][m] \in S
  /\ \A m \in 1 .. n : F[m][m] = step[<<m, F[m - 1][m - 1]>>]

\* They agree, so the last value of one is a step from the last value of the one before.
LEMMA Unfolds ==
  ASSUME NEW n \in Nat, NEW S, NEW first \in S, NEW step \in [(1 .. n) \X S -> S], NEW F,
         Family(F, n, S, first, step)
  PROVE  LastSteps(F, n, S, first, step)
<1> USE DEF Family
<1> DEFINE Same == {k \in Nat : k <= n => F[k][k] \in S /\ \A m \in k .. n : F[m][k] = F[k][k]}
<1>1. 0 \in Same
  OBVIOUS
<1>2. ASSUME NEW k \in Nat, k \in Same PROVE k + 1 \in Same
  <2> SUFFICES ASSUME k + 1 <= n
               PROVE  F[k + 1][k + 1] \in S /\ \A m \in (k + 1) .. n : F[m][k + 1] = F[k + 1][k + 1]
    OBVIOUS
  <2>1. F[k][k] \in S /\ <<k + 1, F[k][k]>> \in (1 .. n) \X S
    BY <1>2
  <2>2. ASSUME NEW m \in (k + 1) .. n PROVE F[m][k + 1] = step[<<k + 1, F[k][k]>>]
    <3>1. m \in 0 .. n /\ m \in k .. n /\ k + 1 \in 1 .. m /\ (k + 1) - 1 = k
      OBVIOUS
    <3>2. F[m][k] = F[k][k]
      BY <1>2, <3>1
    <3> QED
      BY <2>1, <3>1, <3>2
  <2>3. k + 1 \in (k + 1) .. n
    OBVIOUS
  <2> QED
    BY <2>1, <2>2, <2>3
<1>3. Nat \subseteq Same
  <2> HIDE DEF Same
  <2> QED
    BY <1>1, <1>2, AllNumbers
<1>4. ASSUME NEW m \in 1 .. n PROVE F[m][m] = step[<<m, F[m - 1][m - 1]>>]
  <2>1. m - 1 \in Same /\ m \in (m - 1) .. n /\ m \in 0 .. n /\ m \in 1 .. m /\ m - 1 <= n
    BY <1>3
  <2>2. F[m - 1][m - 1] \in S /\ F[m][m - 1] = F[m - 1][m - 1]
    BY <2>1
  <2> QED
    BY <2>1, <2>2
<1>5. F[0][0] = first /\ \A m \in 0 .. n : F[m][m] \in S
  BY <1>3
<1> QED
  BY <1>4, <1>5 DEF LastSteps

\* SumTo adds one number more.
LEMMA SumToAdds ==
  ASSUME NEW n \in Nat, NEW numbers, \A k \in 1 .. n : numbers[k] \in Int
  PROVE  /\ SumTo(numbers, 0) = 0
         /\ \A m \in 0 .. n : SumTo(numbers, m) \in Int
         /\ \A m \in 1 .. n : SumTo(numbers, m) = SumTo(numbers, m - 1) + numbers[m]
<1> DEFINE Adds(f, m) == f = [k \in 0 .. m |-> IF k = 0 THEN 0 ELSE f[k - 1] + numbers[k]]
           F == [m \in 0 .. n |-> CHOOSE f : Adds(f, m)]
           S == Int
           step(m) == [p \in (1 .. m) \X S |-> p[2] + numbers[p[1]]]
<1>1. ASSUME NEW m \in 0 .. n PROVE step(m) \in [(1 .. m) \X S -> S]
  OBVIOUS
<1>2. ASSUME NEW m \in 0 .. n PROVE Adds(F[m], m)
  <2>1. \E f : Adds(f, m)
    <3>1. PICK f : Stepwise(f, m, S, 0, step(m))
      <4>1. m \in Nat /\ 0 \in S /\ step(m) \in [(1 .. m) \X S -> S]
        BY <1>1
      <4> HIDE DEF step, S
      <4> QED
        BY <4>1, Recursion
    <3>2. f \in [0 .. m -> S] /\ f[0] = 0 /\ \A k \in 1 .. m : f[k] = step(m)[<<k, f[k - 1]>>]
      BY <3>1 DEF Stepwise
    <3>3. ASSUME NEW k \in 1 .. m PROVE f[k] = f[k - 1] + numbers[k]
      <4>1. f[k - 1] \in Int
        BY <3>2
      <4> QED
        BY <3>2, <4>1
    <3>4. Adds(f, m)
      BY <3>2, <3>3
    <3> QED
      BY <3>4
  <2> HIDE DEF Adds
  <2> QED
    BY <2>1
<1>4. ASSUME NEW m \in 0 .. n
      PROVE  F[m][0] = 0 /\ \A k \in 1 .. m : F[m][k] = F[m][k - 1] + numbers[k]
  <2> DEFINE f == F[m]
  <2>1. Adds(f, m)
    BY <1>2
  <2> HIDE DEF f
  <2>2. f[0] = 0 /\ \A k \in 1 .. m : f[k] = f[k - 1] + numbers[k]
    BY <2>1
  <2> QED
    BY <2>2 DEF f
<1>5. ASSUME NEW m \in 0 .. n, NEW k \in 1 .. m, F[m][k - 1] \in S
      PROVE  F[m][k] = step(n)[<<k, F[m][k - 1]>>]
  <2> HIDE DEF F
  <2>1. F[m][k] = F[m][k - 1] + numbers[k]
    BY <1>4
  <2>2. <<k, F[m][k - 1]>> \in (1 .. n) \X S
    BY <1>5
  <2> QED
    BY <2>1, <2>2
<1>6. LastSteps(F, n, S, 0, step(n))
  <2>1. step(n) \in [(1 .. n) \X S -> S] /\ 0 \in S
    BY <1>1
  <2>2. Family(F, n, S, 0, step(n))
    <3> HIDE DEF F, step, S
    <3> QED
      BY <1>4, <1>5 DEF Family
  <2> HIDE DEF F, step, S
  <2> QED
    BY <2>1, <2>2, Unfolds
<1>3. \A m \in 0 .. n : SumTo(numbers, m) = F[m][m]
  BY DEF SumTo
<1> HIDE DEF F
<1>7. ASSUME NEW m \in 1 .. n PROVE SumTo(numbers, m) = SumTo(numbers, m - 1) + numbers[m]
  <2>1. m - 1 \in 0 .. n /\ m \in 0 .. n /\ F[m - 1][m - 1] \in Int
    BY <1>6 DEF LastSteps
  <2>2. SumTo(numbers, m) = F[m][m] /\ SumTo(numbers, m - 1) = F[m - 1][m - 1]
    BY <1>3, <2>1
  <2> QED
    BY <1>6, <2>1, <2>2 DEF LastSteps
<1> QED
  BY <1>3, <1>6, <1>7 DEF LastSteps

\* Joined appends one part more.
LEMMA JoinedAppends ==
  ASSUME NEW n \in Nat, NEW X, NEW parts, \A k \in 1 .. n : parts[k] \in Seq(X)
  PROVE  /\ Joined(parts, 0) = <<>>
         /\ \A m \in 0 .. n : Joined(parts, m) \in Seq(X)
         /\ \A m \in 1 .. n : Joined(parts, m) = Joined(parts, m - 1) \o parts[m]
<1> DEFINE more(x, k) == x \o parts[k]
           none == <<>>
           Adds(f, m) == f = [k \in 0 .. m |-> IF k = 0 THEN none ELSE more(f[k - 1], k)]
           F == [m \in 0 .. n |-> CHOOSE f : Adds(f, m)]
           S == Seq(X)
           step(m) == [p \in (1 .. m) \X S |-> p[2] \o parts[p[1]]]
<1>1. ASSUME NEW m \in 0 .. n PROVE step(m) \in [(1 .. m) \X S -> S]
  OBVIOUS
<1>2. ASSUME NEW m \in 0 .. n PROVE Adds(F[m], m)
  <2>1. \E f : Adds(f, m)
    <3>1. PICK f : Stepwise(f, m, S, <<>>, step(m))
      <4>1. m \in Nat /\ <<>> \in S /\ step(m) \in [(1 .. m) \X S -> S]
        BY <1>1
      <4> HIDE DEF step, S
      <4> QED
        BY <4>1, Recursion
    <3>2. f \in [0 .. m -> S] /\ f[0] = <<>> /\ \A k \in 1 .. m : f[k] = step(m)[<<k, f[k - 1]>>]
      BY <3>1 DEF Stepwise
    <3>3. ASSUME NEW k \in 1 .. m PROVE f[k] = f[k - 1] \o parts[k]
      <4>1. f[k - 1] \in Seq(X)
        BY <3>2
      <4> QED
        BY <3>2, <4>1
    <3>4. Adds(f, m)
      <4>1. f[0] = none /\ \A k \in 1 .. m : f[k] = more(f[k - 1], k)
        BY <3>2, <3>3
      <4> HIDE DEF more, none, S, step
      <4> QED
        BY <3>2, <4>1
    <3> QED
      BY <3>4
  <2> HIDE DEF Adds
  <2> QED
    BY <2>1
<1>4. ASSUME NEW m \in 0 .. n
      PROVE  F[m][0] = none /\ \A k \in 1 .. m : F[m][k] = more(F[m][k - 1], k)
  <2> DEFINE f == F[m]
  <2>1. Adds(f, m)
    BY <1>2
  <2> HIDE DEF f, more, none
  <2>2. f[0] = none /\ \A k \in 1 .. m : f[k] = more(f[k - 1], k)
    BY <2>1
  <2> QED
    BY <2>2 DEF f
<1>5. ASSUME NEW m \in 0 .. n, NEW k \in 1 .. m, F[m][k - 1] \in S
      PROVE  F[m][k] = step(n)[<<k, F[m][k - 1]>>]
  <2> HIDE DEF F
  <2>1. F[m][k] = F[m][k - 1] \o parts[k]
    BY <1>4
  <2>2. <<k, F[m][k - 1]>> \in (1 .. n) \X S
    BY <1>5
  <2> QED
    BY <2>1, <2>2
<1>6. LastSteps(F, n, S, <<>>, step(n))
  <2>1. step(n) \in [(1 .. n) \X S -> S] /\ <<>> \in S
    BY <1>1
  <2>2. Family(F, n, S, <<>>, step(n))
    <3> HIDE DEF F, step, S
    <3> QED
      BY <1>4, <1>5 DEF Family
  <2> HIDE DEF F, step, S
  <2> QED
    BY <2>1, <2>2, Unfolds
<1>3. \A m \in 0 .. n : Joined(parts, m) = F[m][m]
  BY DEF Joined
<1> HIDE DEF F
<1>7. ASSUME NEW m \in 1 .. n PROVE Joined(parts, m) = Joined(parts, m - 1) \o parts[m]
  <2>1. m - 1 \in 0 .. n /\ m \in 0 .. n /\ F[m - 1][m - 1] \in Seq(X)
    BY <1>6 DEF LastSteps
  <2>2. Joined(parts, m) = F[m][m] /\ Joined(parts, m - 1) = F[m - 1][m - 1]
    BY <1>3, <2>1
  <2> QED
    BY <1>6, <2>1, <2>2 DEF LastSteps
<1>8. Joined(parts, 0) = <<>> /\ \A m \in 0 .. n : Joined(parts, m) \in Seq(X)
  <2>1. F[0][0] = <<>> /\ \A m \in 0 .. n : F[m][m] \in Seq(X)
    BY <1>6 DEF LastSteps
  <2>2. 0 \in 0 .. n
    OBVIOUS
  <2> QED
    BY <1>3, <2>1, <2>2, Zenon
<1> QED
  BY <1>7, <1>8

\* A power of two doubles.
LEMMA TwoToDoubles ==
  ASSUME NEW n \in Nat
  PROVE  /\ TwoTo(0) = 1
         /\ \A m \in 0 .. n : TwoTo(m) \in Nat \ {0}
         /\ \A m \in 1 .. n : TwoTo(m) = 2 * TwoTo(m - 1)
<1> DEFINE Adds(f, m) == f = [k \in 0 .. m |-> IF k = 0 THEN 1 ELSE 2 * f[k - 1]]
           F == [m \in 0 .. n |-> CHOOSE f : Adds(f, m)]
           S == Nat \ {0}
           step(m) == [p \in (1 .. m) \X S |-> 2 * p[2]]
<1>1. ASSUME NEW m \in 0 .. n PROVE step(m) \in [(1 .. m) \X S -> S]
  OBVIOUS
<1>2. ASSUME NEW m \in 0 .. n PROVE Adds(F[m], m)
  <2>1. \E f : Adds(f, m)
    <3>1. PICK f : Stepwise(f, m, S, 1, step(m))
      <4>1. m \in Nat /\ 1 \in S /\ step(m) \in [(1 .. m) \X S -> S]
        BY <1>1
      <4> HIDE DEF step, S
      <4> QED
        BY <4>1, Recursion
    <3>2. f \in [0 .. m -> S] /\ f[0] = 1 /\ \A k \in 1 .. m : f[k] = step(m)[<<k, f[k - 1]>>]
      BY <3>1 DEF Stepwise
    <3>3. ASSUME NEW k \in 1 .. m PROVE f[k] = 2 * f[k - 1]
      <4>1. f[k - 1] \in Nat \ {0}
        BY <3>2
      <4> QED
        BY <3>2, <4>1
    <3>4. Adds(f, m)
      BY <3>2, <3>3
    <3> QED
      BY <3>4
  <2> HIDE DEF Adds
  <2> QED
    BY <2>1
<1>4. ASSUME NEW m \in 0 .. n
      PROVE  F[m][0] = 1 /\ \A k \in 1 .. m : F[m][k] = 2 * F[m][k - 1]
  <2> DEFINE f == F[m]
  <2>1. Adds(f, m)
    BY <1>2
  <2> HIDE DEF f
  <2>2. f[0] = 1 /\ \A k \in 1 .. m : f[k] = 2 * f[k - 1]
    BY <2>1
  <2> QED
    BY <2>2 DEF f
<1>5. ASSUME NEW m \in 0 .. n, NEW k \in 1 .. m, F[m][k - 1] \in S
      PROVE  F[m][k] = step(n)[<<k, F[m][k - 1]>>]
  <2> HIDE DEF F
  <2>1. F[m][k] = 2 * F[m][k - 1]
    BY <1>4
  <2>2. <<k, F[m][k - 1]>> \in (1 .. n) \X S
    BY <1>5
  <2> QED
    BY <2>1, <2>2
<1>6. LastSteps(F, n, S, 1, step(n))
  <2>1. step(n) \in [(1 .. n) \X S -> S] /\ 1 \in S
    BY <1>1
  <2>2. Family(F, n, S, 1, step(n))
    <3> HIDE DEF F, step, S
    <3> QED
      BY <1>4, <1>5 DEF Family
  <2> HIDE DEF F, step, S
  <2> QED
    BY <2>1, <2>2, Unfolds
<1>3. \A m \in 0 .. n : TwoTo(m) = F[m][m]
  BY DEF TwoTo
<1> HIDE DEF F
<1>7. ASSUME NEW m \in 1 .. n PROVE TwoTo(m) = 2 * TwoTo(m - 1)
  <2>1. m - 1 \in 0 .. n /\ m \in 0 .. n /\ F[m - 1][m - 1] \in Nat \ {0}
    BY <1>6 DEF LastSteps
  <2>2. TwoTo(m) = F[m][m] /\ TwoTo(m - 1) = F[m - 1][m - 1]
    BY <1>3, <2>1
  <2> QED
    BY <1>6, <2>1, <2>2 DEF LastSteps
<1> QED
  BY <1>3, <1>6, <1>7 DEF LastSteps

-----------------------------------------------------------------------------
(* Bits and numbers.                                                       *)

LEMMA WordSize == WordBits \in Nat \ {0}
<1>1. \A a, b \in Nat \ {0} : a * b \in Nat \ {0}
  OBVIOUS
<1> QED
  BY <1>1, WordAssumption DEF WordBits

\* Shifted halves, once for every bit.
LEMMA ShiftedHalves ==
  ASSUME NEW v \in Nat
  PROVE  /\ Shifted(v) \in [0 .. WordBits -> Nat]
         /\ Shifted(v)[0] = v
         /\ \A k \in 1 .. WordBits : Shifted(v)[k] = Shifted(v)[k - 1] \div 2
<1> DEFINE Halves(f) == f = [k \in 0 .. WordBits |-> IF k = 0 THEN v ELSE f[k - 1] \div 2]
           S == Nat
           step == [p \in (1 .. WordBits) \X S |-> p[2] \div 2]
<1>1. WordBits \in Nat
  BY WordSize
<1>2. PICK f : Stepwise(f, WordBits, S, v, step)
  <2>1. step \in [(1 .. WordBits) \X S -> S] /\ v \in S
    OBVIOUS
  <2> HIDE DEF step, S
  <2> QED
    BY <1>1, <2>1, Recursion
<1>3. f \in [0 .. WordBits -> S] /\ f[0] = v /\ \A k \in 1 .. WordBits : f[k] = step[<<k, f[k - 1]>>]
  BY <1>2 DEF Stepwise
<1>4. ASSUME NEW k \in 1 .. WordBits PROVE f[k] = f[k - 1] \div 2
  <2>1. f[k - 1] \in Nat
    BY <1>1, <1>3
  <2> QED
    BY <1>3, <2>1
<1>5. Halves(f)
  BY <1>1, <1>3, <1>4
<1> DEFINE by == CHOOSE g : Halves(g)
<1>6. Halves(by) /\ Shifted(v) = by
  <2>1. Halves(by)
    <3> HIDE DEF Halves
    <3> QED
      BY <1>5
  <2> QED
    BY <2>1 DEF Shifted
<1> HIDE DEF by
<1>7. by[0] = v /\ \A k \in 1 .. WordBits : by[k] = by[k - 1] \div 2
  BY <1>1, <1>6
<1>8. \A k \in 0 .. WordBits : by[k] \in Nat
  <2> DEFINE Good == {k \in Nat : k <= WordBits => by[k] \in Nat}
  <2>1. 0 \in Good
    BY <1>7
  <2>2. ASSUME NEW k \in Nat, k \in Good PROVE k + 1 \in Good
    <3> SUFFICES ASSUME k + 1 <= WordBits PROVE by[k + 1] \in Nat
      OBVIOUS
    <3>1. by[k + 1] = by[k] \div 2 /\ by[k] \in Nat
      BY <1>1, <1>7, <2>2
    <3> QED
      BY <3>1
  <2>3. Nat \subseteq Good
    <3> HIDE DEF Good
    <3> QED
      BY <2>1, <2>2, AllNumbers
  <2> QED
    BY <1>1, <2>3
<1>9. by \in [0 .. WordBits -> Nat]
  <2>1. by = [k \in 0 .. WordBits |-> by[k]]
    BY <1>6
  <2> QED
    BY <1>8, <2>1
<1> QED
  BY <1>6, <1>7, <1>9

\* Number doubles, once for every bit, and adds it.
LEMMA NumberDoubles ==
  ASSUME NEW word, \A k \in 0 .. (WordBits - 1) : word[k] \in Int
  PROVE  \E u : /\ u[0] = 0
                /\ \A k \in 1 .. WordBits : u[k] = 2 * u[k - 1] + word[WordBits - k]
                /\ Number(word) = u[WordBits]
<1> DEFINE Doubles(f) == f = [k \in 0 .. WordBits |-> IF k = 0 THEN 0 ELSE 2 * f[k - 1] + word[WordBits - k]]
           S == Int
           step == [p \in (1 .. WordBits) \X S |-> 2 * p[2] + word[WordBits - p[1]]]
<1>1. WordBits \in Nat
  BY WordSize
<1>2. PICK f : Stepwise(f, WordBits, S, 0, step)
  <2>1. step \in [(1 .. WordBits) \X S -> S] /\ 0 \in S
    BY <1>1
  <2> HIDE DEF step, S
  <2> QED
    BY <1>1, <2>1, Recursion
<1>3. f \in [0 .. WordBits -> S] /\ f[0] = 0 /\ \A k \in 1 .. WordBits : f[k] = step[<<k, f[k - 1]>>]
  BY <1>2 DEF Stepwise
<1>4. ASSUME NEW k \in 1 .. WordBits PROVE f[k] = 2 * f[k - 1] + word[WordBits - k]
  <2>1. f[k - 1] \in Int
    BY <1>1, <1>3
  <2> QED
    BY <1>3, <2>1
<1>5. Doubles(f)
  BY <1>1, <1>3, <1>4
<1> DEFINE upper == CHOOSE g : Doubles(g)
<1>6. Doubles(upper) /\ Number(word) = upper[WordBits]
  <2>1. Doubles(upper)
    <3> HIDE DEF Doubles
    <3> QED
      BY <1>5
  <2> QED
    BY <2>1 DEF Number
<1> HIDE DEF upper
<1>7. upper[0] = 0 /\ \A k \in 1 .. WordBits : upper[k] = 2 * upper[k - 1] + word[WordBits - k]
  BY <1>1, <1>6
<1> QED
  BY <1>6, <1>7

\* What has been shifted out stays out.
LEMMA ShiftedToZero ==
  ASSUME NEW v \in Nat, NEW j \in 0 .. WordBits, Shifted(v)[j] = 0
  PROVE  \A k \in j .. WordBits : Shifted(v)[k] = 0
<1> DEFINE Good == {d \in Nat : j + d <= WordBits => Shifted(v)[j + d] = 0}
<1>0. WordBits \in Nat
  BY WordSize
<1>1. 0 \in Good
  OBVIOUS
<1>2. ASSUME NEW d \in Nat, d \in Good PROVE d + 1 \in Good
  <2> SUFFICES ASSUME j + (d + 1) <= WordBits PROVE Shifted(v)[j + (d + 1)] = 0
    OBVIOUS
  <2>1. Shifted(v)[j + d] = 0 /\ j + (d + 1) \in 1 .. WordBits /\ (j + (d + 1)) - 1 = j + d
    BY <1>0, <1>2
  <2>2. Shifted(v)[j + (d + 1)] = Shifted(v)[j + d] \div 2
    BY <2>1, ShiftedHalves
  <2> QED
    BY <2>1, <2>2
<1>3. Nat \subseteq Good
  <2> HIDE DEF Good
  <2> QED
    BY <1>1, <1>2, AllNumbers
<1> SUFFICES ASSUME NEW k \in j .. WordBits PROVE Shifted(v)[k] = 0
  OBVIOUS
<1>4. k - j \in Good /\ j + (k - j) = k
  BY <1>0, <1>3
<1> QED
  BY <1>0, <1>4

\* A smaller number is smaller however far it is shifted.
LEMMA ShiftedLess ==
  ASSUME NEW v \in Nat, NEW w \in Nat, v <= w
  PROVE  \A k \in 0 .. WordBits : Shifted(v)[k] <= Shifted(w)[k]
<1> DEFINE Good == {k \in Nat : k <= WordBits => Shifted(v)[k] <= Shifted(w)[k]}
<1>0. WordBits \in Nat
  BY WordSize
<1>1. 0 \in Good
  BY ShiftedHalves
<1>2. ASSUME NEW k \in Nat, k \in Good PROVE k + 1 \in Good
  <2> SUFFICES ASSUME k + 1 <= WordBits PROVE Shifted(v)[k + 1] <= Shifted(w)[k + 1]
    OBVIOUS
  <2>1. k + 1 \in 1 .. WordBits /\ (k + 1) - 1 = k /\ k \in 0 .. WordBits
    BY <1>0
  <2>2. \A x \in {v, w} : Shifted(x)[k + 1] = Shifted(x)[k] \div 2 /\ Shifted(x)[k] \in Nat
    <3> TAKE x \in {v, w}
    <3>1. /\ Shifted(x) \in [0 .. WordBits -> Nat]
          /\ \A j \in 1 .. WordBits : Shifted(x)[j] = Shifted(x)[j - 1] \div 2
      BY ShiftedHalves
    <3> QED
      BY <2>1, <3>1
  <2>3. Shifted(v)[k] <= Shifted(w)[k]
    BY <1>2, <2>1
  <2>4. \A a, b \in Nat : a <= b => a \div 2 <= b \div 2
    OBVIOUS
  <2> QED
    BY <2>2, <2>3, <2>4
<1>3. Nat \subseteq Good
  <2> HIDE DEF Good
  <2> QED
    BY <1>1, <1>2, AllNumbers
<1> QED
  BY <1>0, <1>3

\* The bits of a number that a word has room for make up the number.
LEMMA BitsMakeUp ==
  ASSUME NEW v \in Nat, Shifted(v)[WordBits] = 0,
         NEW word, \A k \in 0 .. (WordBits - 1) : word[k] = BitOf(v, k)
  PROVE  Number(word) = v
<1>0. WordBits \in Nat
  BY WordSize
<1>1. /\ \A k \in 0 .. WordBits : Shifted(v)[k] \in Nat
      /\ Shifted(v)[0] = v
      /\ \A k \in 1 .. WordBits : Shifted(v)[k] = Shifted(v)[k - 1] \div 2
  BY ShiftedHalves
<1>2. ASSUME NEW k \in 0 .. (WordBits - 1) PROVE word[k] = Shifted(v)[k] % 2 /\ word[k] \in Int
  <2>1. k \in 0 .. WordBits
    BY <1>0
  <2> QED
    BY <1>1, <2>1 DEF BitOf
<1>3. PICK u : /\ u[0] = 0
               /\ \A k \in 1 .. WordBits : u[k] = 2 * u[k - 1] + word[WordBits - k]
               /\ Number(word) = u[WordBits]
  BY <1>2, NumberDoubles
<1> DEFINE Good == {k \in Nat : k <= WordBits => u[k] = Shifted(v)[WordBits - k]}
<1>4. 0 \in Good
  BY <1>0, <1>3
<1>5. ASSUME NEW k \in Nat, k \in Good PROVE k + 1 \in Good
  <2> SUFFICES ASSUME k + 1 <= WordBits PROVE u[k + 1] = Shifted(v)[WordBits - (k + 1)]
    OBVIOUS
  <2> DEFINE at == WordBits - (k + 1)
             x == Shifted(v)[at]
  <2>1. at \in 0 .. (WordBits - 1) /\ at \in 0 .. WordBits /\ at + 1 \in 1 .. WordBits
        /\ (at + 1) - 1 = at /\ WordBits - k = at + 1 /\ k + 1 \in 1 .. WordBits /\ (k + 1) - 1 = k
        /\ k <= WordBits
    BY <1>0
  <2>2. u[k] = Shifted(v)[at + 1]
    BY <1>5, <2>1
  <2> HIDE DEF at
  <2>3. Shifted(v)[at + 1] = x \div 2 /\ x \in Nat
    BY <1>1, <2>1
  <2>4. u[k + 1] = 2 * u[k] + word[at]
    BY <1>3, <2>1 DEF at
  <2>5. word[at] = x % 2
    BY <1>2, <2>1
  <2>6. 2 * (x \div 2) + (x % 2) = x
    <3>1. \A a \in Nat : a = 2 * (a \div 2) + (a % 2)
      BY Z3
    <3> HIDE DEF x
    <3> QED
      BY <2>3, <3>1
  <2>7. u[k + 1] = x
    <3> HIDE DEF x
    <3> QED
      BY <2>2, <2>3, <2>4, <2>5, <2>6
  <2> QED
    BY <2>7 DEF at
<1>6. Nat \subseteq Good
  <2> HIDE DEF Good
  <2> QED
    BY <1>4, <1>5, AllNumbers
<1>7. WordBits - WordBits = 0 /\ WordBits <= WordBits
  BY <1>0
<1> QED
  BY <1>0, <1>1, <1>3, <1>6, <1>7

\* A number without the highest bit is an int64.
LEMMA WithoutHighestBit ==
  ASSUME NEW v \in Nat, Shifted(v)[WordBits - 1] = 0
  PROVE  v < TwoTo(WordBits - 1)
<1>0. WordBits \in Nat \ {0} /\ WordBits - 1 \in Nat
  BY WordSize
<1> DEFINE top == WordBits - 1
           Good == {j \in Nat : j <= top => Shifted(v)[top - j] < TwoTo(j)}
<1>1. /\ \A k \in 0 .. WordBits : Shifted(v)[k] \in Nat
      /\ Shifted(v)[0] = v
      /\ \A k \in 1 .. WordBits : Shifted(v)[k] = Shifted(v)[k - 1] \div 2
  BY ShiftedHalves
<1>2. /\ TwoTo(0) = 1
      /\ \A m \in 0 .. top : TwoTo(m) \in Nat \ {0}
      /\ \A m \in 1 .. top : TwoTo(m) = 2 * TwoTo(m - 1)
  BY <1>0, TwoToDoubles
<1>3. 0 \in Good
  BY <1>0, <1>2
<1>4. ASSUME NEW j \in Nat, j \in Good PROVE j + 1 \in Good
  <2> SUFFICES ASSUME j + 1 <= top PROVE Shifted(v)[top - (j + 1)] < TwoTo(j + 1)
    OBVIOUS
  <2> DEFINE at == top - (j + 1)
             x == Shifted(v)[at]
             y == TwoTo(j)
  <2>1. at \in 0 .. WordBits /\ at + 1 \in 1 .. WordBits /\ (at + 1) - 1 = at /\ top - j = at + 1
        /\ j + 1 \in 1 .. top /\ (j + 1) - 1 = j /\ j \in 0 .. top /\ j <= top
    BY <1>0
  <2> HIDE DEF at
  <2>2. Shifted(v)[at + 1] = x \div 2 /\ x \in Nat
    BY <1>1, <2>1
  <2>3. TwoTo(j + 1) = 2 * y /\ y \in Nat
    BY <1>2, <2>1
  <2>4. Shifted(v)[at + 1] < y
    BY <1>4, <2>1
  <2>5. x < 2 * y
    <3>1. \A a, b \in Nat : a \div 2 < b => a < 2 * b
      OBVIOUS
    <3> HIDE DEF x, y
    <3> QED
      BY <2>2, <2>3, <2>4, <3>1
  <2> QED
    BY <2>3, <2>5 DEF at
<1>5. Nat \subseteq Good
  <2> HIDE DEF Good
  <2> QED
    BY <1>3, <1>4, AllNumbers
<1>6. top - top = 0 /\ top <= top
  BY <1>0
<1> QED
  BY <1>0, <1>1, <1>5, <1>6

\* An int64 is not changed by its width.
LEMMA SignedKeeps ==
  ASSUME NEW v \in Int, - TwoTo(WordBits - 1) <= v, v < TwoTo(WordBits - 1)
  PROVE  Signed(v) = v
<1> DEFINE half == TwoTo(WordBits - 1)
<1>1. half \in Nat \ {0}
  <2>1. WordBits - 1 \in Nat /\ WordBits - 1 \in 0 .. (WordBits - 1)
    BY WordSize
  <2> QED
    BY <2>1, TwoToDoubles
<1>2. \A m \in Nat \ {0} : \A x \in 0 .. (m - 1) : x % m = x
  OBVIOUS
<1> HIDE DEF half
<1>3. v + half \in 0 .. (2 * half - 1) /\ 2 * half \in Nat \ {0}
  BY <1>1 DEF half
<1>4. (v + half) % (2 * half) = v + half
  BY <1>2, <1>3
<1> QED
  BY <1>1, <1>4 DEF Signed, half

-----------------------------------------------------------------------------
(* Symbol tables.                                                          *)

\* Every part is found in what was joined, behind the ones before it.
Found(parts, n, m) ==
  /\ Len(Joined(parts, n)) \in Nat /\ Len(Joined(parts, m - 1)) \in Nat /\ Len(parts[m]) \in Nat
  /\ Len(Joined(parts, m)) = Len(Joined(parts, m - 1)) + Len(parts[m])
  /\ Len(Joined(parts, m)) <= Len(Joined(parts, n))
  /\ \A j \in 1 .. Len(parts[m]) :
       Joined(parts, n)[Len(Joined(parts, m - 1)) + j] = parts[m][j]

LEMMA JoinedHolds ==
  ASSUME NEW n \in Nat, NEW X, NEW parts, \A k \in 1 .. n : parts[k] \in Seq(X),
         NEW m \in 1 .. n
  PROVE  Found(parts, n, m)
<1> DEFINE J(k) == Joined(parts, k)
           Good == {d \in Nat : m + d <= n =>
                      /\ Len(J(m)) <= Len(J(m + d))
                      /\ \A j \in 1 .. Len(parts[m]) : J(m + d)[Len(J(m - 1)) + j] = parts[m][j]}
<1>1. /\ \A k \in 0 .. n : J(k) \in Seq(X)
      /\ \A k \in 1 .. n : J(k) = J(k - 1) \o parts[k]
  BY JoinedAppends
<1> HIDE DEF J
<1>2. J(m) = J(m - 1) \o parts[m] /\ J(m - 1) \in Seq(X) /\ parts[m] \in Seq(X) /\ J(n) \in Seq(X)
  <2>1. m - 1 \in 0 .. n /\ n \in 0 .. n
    OBVIOUS
  <2> QED
    BY <1>1, <2>1
<1>3. Len(J(m)) = Len(J(m - 1)) + Len(parts[m])
  BY <1>2
<1>4. 0 \in Good
  <2>1. m + 0 = m
    OBVIOUS
  <2>2. \A j \in 1 .. Len(parts[m]) : J(m)[Len(J(m - 1)) + j] = parts[m][j]
    BY <1>2
  <2>3. Len(J(m)) <= Len(J(m))
    BY <1>2, <1>3
  <2> QED
    BY <2>1, <2>2, <2>3
<1>5. ASSUME NEW d \in Nat, d \in Good PROVE d + 1 \in Good
  <2> SUFFICES ASSUME m + (d + 1) <= n
               PROVE  /\ Len(J(m)) <= Len(J(m + (d + 1)))
                      /\ \A j \in 1 .. Len(parts[m]) : J(m + (d + 1))[Len(J(m - 1)) + j] = parts[m][j]
    OBVIOUS
  <2> DEFINE k == m + (d + 1)
  <2>1. k \in 1 .. n /\ k - 1 = m + d /\ k - 1 \in 0 .. n /\ m + d <= n
    OBVIOUS
  <2>2. J(k) = J(k - 1) \o parts[k] /\ J(k - 1) \in Seq(X) /\ parts[k] \in Seq(X)
    BY <1>1, <2>1
  <2>3. /\ Len(J(m)) <= Len(J(k - 1))
        /\ \A j \in 1 .. Len(parts[m]) : J(k - 1)[Len(J(m - 1)) + j] = parts[m][j]
    BY <1>5, <2>1
  <2> HIDE DEF k
  <2>4. Len(J(m - 1)) \in Nat /\ Len(parts[m]) \in Nat /\ Len(J(k - 1)) \in Nat
    BY <1>2, <2>2
  <2>5. Len(J(k)) = Len(J(k - 1)) + Len(parts[k]) /\ Len(parts[k]) \in Nat
    BY <2>2
  <2>6. ASSUME NEW j \in 1 .. Len(parts[m]) PROVE J(k)[Len(J(m - 1)) + j] = parts[m][j]
    <3> DEFINE at == Len(J(m - 1)) + j
    <3>1. at \in 1 .. Len(J(k - 1))
      <4>1. \A a, b, c, e : a \in Nat /\ b \in Nat /\ c \in Nat /\ e \in 1 .. b /\ a + b <= c => a + e \in 1 .. c
        OBVIOUS
      <4> QED
        BY <1>3, <2>3, <2>4, <4>1
    <3> HIDE DEF at
    <3>2. J(k)[at] = J(k - 1)[at]
      BY <2>2, <3>1
    <3> QED
      BY <2>3, <3>2 DEF at
  <2>7. Len(J(m)) <= Len(J(k))
    <3>1. m \in 0 .. n
      OBVIOUS
    <3>2. J(m) \in Seq(X)
      BY <1>1, <3>1
    <3>3. Len(J(m)) \in Nat
      BY <3>2
    <3>4. \A a, b, c, e \in Nat : a <= b /\ c = b + e => a <= c
      OBVIOUS
    <3>5. J(k) \in Seq(X)
      BY <2>2
    <3>6. Len(J(k)) \in Nat
      BY <3>5
    <3> QED
      BY <2>3, <2>4, <2>5, <3>3, <3>4, <3>6
  <2> QED
    BY <2>6, <2>7 DEF k
<1>6. Nat \subseteq Good
  <2> HIDE DEF Good
  <2> QED
    BY <1>4, <1>5, AllNumbers
<1>7. n - m \in Nat /\ m + (n - m) = n /\ n <= n
  OBVIOUS
<1>8. /\ Len(J(m)) <= Len(J(n))
      /\ \A j \in 1 .. Len(parts[m]) : J(n)[Len(J(m - 1)) + j] = parts[m][j]
  BY <1>6, <1>7
<1>9. Len(J(n)) \in Nat /\ Len(J(m - 1)) \in Nat /\ Len(parts[m]) \in Nat
  BY <1>2
<1> QED
  BY <1>3, <1>8, <1>9 DEF J, Found

\* What a symbol is made of.
LEMMA SymbolParts ==
  ASSUME NEW s \in Symbols
  PROVE  /\ s = Symbol(s.kind, s.num, s.text)
         /\ s.kind \in {"null", "int", "float", "string", "dualint", "dualfloat"}
         /\ s.kind = "null" => s = Null
         /\ s.kind \in {"int", "float"} => s.text = "none"
         /\ s.kind = "string" => s.num = "none"
         /\ s.text # "00"
BY DEF Symbols, Strings, Ints, Floats, DualInts, DualFloats, Whole, Symbol, Null

\* A part that is encoded between others.
Holds(units, at, part) ==
  /\ at - 1 + Len(part) <= Len(units)
  /\ \A j \in 1 .. Len(part) : units[at - 1 + j] = part[j]

\* A text is read up to its end.
LEMMA TextIsRead ==
  ASSUME NEW units, NEW s \in Symbols, NEW at \in Nat \ {0}, Holds(units, at, Texts(s)),
         Len(units) \in Nat, NEW kind, NEW number
  PROVE  /\ ReadString(units, kind, number, at)
              = IfSymbol(Got(Symbol(kind, number, s.text), at + Len(Texts(s))))
         /\ Len(Texts(s)) \in 1 .. 2
<1> DEFINE ends == {n \in at .. Len(units) : units[n] = "00"}
<1>1. s.text # "00"
  BY SymbolParts
<1>2. CASE s.text = "empty"
  <2>1. Texts(s) = <<"00">>
    BY <1>2 DEF Texts
  <2>2. Len(Texts(s)) = 1 /\ Texts(s)[1] = "00"
    BY <2>1
  <2>3. units[at] = "00" /\ at <= Len(units)
    <3>1. units[at - 1 + 1] = "00" /\ at - 1 + 1 = at
      BY <2>2 DEF Holds
    <3> QED
      BY <2>2, <3>1 DEF Holds
  <2>4. ends \in SUBSET Nat /\ at \in ends /\ \A n \in ends : at <= n
    BY <2>3
  <2>5. TextEnd(units, at) = at
    <3>1. Min(ends) \in ends /\ \A n \in ends : Min(ends) <= n
      <4> HIDE DEF ends
      <4> QED
        BY <2>4, LeastIsMin
    <3>2. Min(ends) = at
      BY <2>4, <3>1
    <3> QED
      BY <2>4, <3>2 DEF TextEnd
  <2> QED
    BY <1>2, <2>2, <2>5 DEF ReadString, TextAt
<1>3. CASE s.text # "empty"
  <2>1. Texts(s) = <<s.text, "00">>
    BY <1>3 DEF Texts
  <2>2. Len(Texts(s)) = 2 /\ Texts(s)[1] = s.text /\ Texts(s)[2] = "00"
    BY <2>1
  <2>3. units[at] = s.text /\ units[at + 1] = "00" /\ at + 1 <= Len(units)
    <3>1. units[at - 1 + 1] = s.text /\ units[at - 1 + 2] = "00" /\ at - 1 + 1 = at /\ at - 1 + 2 = at + 1
      BY <2>2 DEF Holds
    <3> QED
      BY <2>2, <3>1 DEF Holds
  <2>4. ends \in SUBSET Nat /\ at + 1 \in ends /\ \A n \in ends : at + 1 <= n
    BY <1>1, <2>3
  <2>5. TextEnd(units, at) = at + 1
    <3>1. Min(ends) \in ends /\ \A n \in ends : Min(ends) <= n
      <4> HIDE DEF ends
      <4> QED
        BY <2>4, LeastIsMin
    <3>2. Min(ends) = at + 1
      BY <2>4, <3>1
    <3> QED
      BY <2>4, <3>2 DEF TextEnd
  <2>6. TextAt(units, at) = s.text
    BY <2>3, <2>5 DEF TextAt
  <2> QED
    BY <2>2, <2>5, <2>6 DEF ReadString
<1> QED
  BY <1>2, <1>3

\* A symbol is read back, and the next begins behind it.
LEMMA SymbolIsRead ==
  ASSUME NEW units, NEW s \in Symbols, NEW at \in Nat \ {0}, Holds(units, at, EncodeSymbol(s)),
         Len(units) \in Nat
  PROVE  /\ NextSymbol(units, at) = Got(s, at + Len(EncodeSymbol(s)))
         /\ Len(EncodeSymbol(s)) \in Nat \ {0}
<1> DEFINE part == EncodeSymbol(s)
<1>0. /\ s = Symbol(s.kind, s.num, s.text)
      /\ s.kind \in {"null", "int", "float", "string", "dualint", "dualfloat"}
  BY SymbolParts
<1>7. \A next : IfSymbol(Got(s, next)) = Got(s, next)
  BY DEF IfSymbol, Got
<1>1. CASE s.kind = "null"
  <2>1. part = <<"00">>
    BY <1>1 DEF EncodeSymbol
  <2>2. Len(part) = 1 /\ part[1] = "00"
    BY <2>1
  <2>3. units[at - 1 + 1] = "00" /\ at - 1 + 1 = at /\ at <= Len(units)
    BY <2>2 DEF Holds
  <2>4. s = Null
    BY <1>1, SymbolParts
  <2> QED
    BY <2>2, <2>3, <2>4 DEF NextSymbol
<1>2. CASE s.kind \in {"int", "float"}
  <2>1. part = <<IF s.kind = "int" THEN "01" ELSE "02", s.num>>
    BY <1>2 DEF EncodeSymbol
  <2>2. Len(part) = 2 /\ part[1] = (IF s.kind = "int" THEN "01" ELSE "02") /\ part[2] = s.num
    BY <2>1
  <2>3. units[at - 1 + 1] = part[1] /\ units[at - 1 + 2] = part[2] /\ at - 1 + 1 = at /\ at - 1 + 2 = at + 1
        /\ at < Len(units)
    BY <2>2 DEF Holds
  <2>4. s.text = "none"
    BY <1>2, SymbolParts
  <2> HIDE DEF part
  <2>5. ReadNumber(units, s.kind, at) = Got(s, at + 2)
    BY <1>0, <1>7, <2>2, <2>3, <2>4 DEF ReadNumber
  <2>6. NextSymbol(units, at) = ReadNumber(units, s.kind, at)
    <3>1. CASE s.kind = "int"
      BY <2>2, <2>3, <3>1 DEF NextSymbol
    <3>2. CASE s.kind = "float"
      BY <2>2, <2>3, <3>2 DEF NextSymbol
    <3> QED
      BY <1>2, <3>1, <3>2
  <2> QED
    BY <2>2, <2>5, <2>6 DEF part
<1> DEFINE text == Texts(s)
<1>4. /\ Len(text) \in 1 .. 2
      /\ text = [j \in 1 .. Len(text) |-> text[j]]
      /\ text \in Seq({s.text, "00"})
  BY DEF Texts
<1>5. CASE s.kind = "string"
  <2>1. part = <<"04">> \o text
    BY <1>5 DEF EncodeSymbol
  <2> HIDE DEF text
  <2>2. Len(part) = 1 + Len(text) /\ part[1] = "04" /\ \A j \in 1 .. Len(text) : part[1 + j] = text[j]
    BY <1>4, <2>1
  <2>3. units[at] = "04" /\ at <= Len(units)
    <3>1. units[at - 1 + 1] = part[1] /\ at - 1 + 1 = at
      BY <1>4, <2>2 DEF Holds
    <3> QED
      BY <1>4, <2>2, <3>1 DEF Holds
  <2>4. Holds(units, at + 1, text)
    <3>1. ASSUME NEW j \in 1 .. Len(text) PROVE units[(at + 1) - 1 + j] = text[j]
      <4>1. 1 + j \in 1 .. Len(part) /\ at - 1 + (1 + j) = (at + 1) - 1 + j
        BY <1>4, <2>2
      <4> QED
        BY <2>2, <4>1 DEF Holds
    <3>2. (at + 1) - 1 + Len(text) = at - 1 + Len(part)
      BY <1>4, <2>2
    <3> QED
      BY <3>1, <3>2 DEF Holds
  <2>5. ReadString(units, "string", "none", at + 1)
          = IfSymbol(Got(Symbol("string", "none", s.text), (at + 1) + Len(text)))
    BY <2>4, TextIsRead DEF text
  <2>6. s = Symbol("string", "none", s.text)
    BY <1>0, <1>5, SymbolParts
  <2>7. NextSymbol(units, at) = ReadString(units, "string", "none", at + 1)
    BY <2>3 DEF NextSymbol
  <2>8. (at + 1) + Len(text) = at + Len(part) /\ Len(part) \in Nat \ {0}
    BY <1>4, <2>2, SMTT(20)
  <2> QED
    BY <1>7, <2>5, <2>6, <2>7, <2>8
<1>6. CASE s.kind \in {"dualint", "dualfloat"}
  <2> DEFINE tag == IF s.kind = "dualint" THEN "05" ELSE "06"
  <2>1. part = <<tag, s.num>> \o text
    BY <1>6 DEF EncodeSymbol
  <2> HIDE DEF text
  <2>2. Len(part) = 2 + Len(text) /\ part[1] = tag /\ part[2] = s.num
        /\ \A j \in 1 .. Len(text) : part[2 + j] = text[j]
    BY <1>4, <2>1
  <2>3. units[at] = tag /\ units[at + 1] = s.num /\ at < Len(units)
    <3>1. units[at - 1 + 1] = part[1] /\ units[at - 1 + 2] = part[2] /\ at - 1 + 1 = at /\ at - 1 + 2 = at + 1
      BY <1>4, <2>2 DEF Holds
    <3> QED
      BY <1>4, <2>2, <3>1 DEF Holds
  <2>4. Holds(units, at + 2, text)
    <3>1. ASSUME NEW j \in 1 .. Len(text) PROVE units[(at + 2) - 1 + j] = text[j]
      <4>1. 2 + j \in 1 .. Len(part) /\ at - 1 + (2 + j) = (at + 2) - 1 + j
        BY <1>4, <2>2
      <4> QED
        BY <2>2, <4>1 DEF Holds
    <3>2. (at + 2) - 1 + Len(text) = at - 1 + Len(part)
      BY <1>4, <2>2
    <3> QED
      BY <3>1, <3>2 DEF Holds
  <2>5. ReadString(units, s.kind, s.num, at + 2)
          = IfSymbol(Got(Symbol(s.kind, s.num, s.text), (at + 2) + Len(text)))
    BY <2>4, TextIsRead DEF text
  <2>7. NextSymbol(units, at) = ReadString(units, s.kind, s.num, at + 2)
    <3>1. CASE s.kind = "dualint"
      BY <2>3, <3>1 DEF NextSymbol
    <3>2. CASE s.kind = "dualfloat"
      BY <2>3, <3>2 DEF NextSymbol
    <3> QED
      BY <1>6, <3>1, <3>2
  <2>8. (at + 2) + Len(text) = at + Len(part) /\ Len(part) \in Nat \ {0}
    BY <1>4, <2>2
  <2> QED
    BY <1>0, <1>7, <2>5, <2>7, <2>8
<1> QED
  BY <1>0, <1>1, <1>2, <1>5, <1>6

\* What reading goes on from, and one symbol more.
ReadStates(units) ==
  [symbols : Seq({NextSymbol(units, at).symbol : at \in Nat}), next : Nat]
ReadStart == [symbols |-> <<>>, next |-> 1]
ReadMore(units, read) ==
  LET got == NextSymbol(units, read.next)
  IN IF read.next = 0 \/ got.next = 0 THEN [read EXCEPT !.next = 0]
     ELSE [symbols |-> Append(read.symbols, got.symbol), next |-> got.next]

LEMMA NextIsNumber ==
  ASSUME NEW units, Len(units) \in Nat, NEW at \in Nat
  PROVE  NextSymbol(units, at).next \in Nat
<1>1. ASSUME NEW n \in Nat PROVE TextEnd(units, n) \in Nat
  <2> DEFINE ends == {m \in n .. Len(units) : units[m] = "00"}
  <2>1. ends \in SUBSET Nat
    OBVIOUS
  <2>2. ends # {} => Min(ends) \in Nat
    <3> HIDE DEF ends
    <3> QED
      BY <2>1, LeastIsMin
  <2> QED
    BY <2>2 DEF TextEnd
<1>2. ASSUME NEW n \in Nat, NEW kind, NEW number PROVE ReadString(units, kind, number, n).next \in Nat
  BY <1>1 DEF ReadString, IfSymbol, Got, NoSymbol
<1>3. ASSUME NEW kind PROVE ReadNumber(units, kind, at).next \in Nat
  BY DEF ReadNumber, IfSymbol, Got, NoSymbol
<1>4. NoSymbol.next \in Nat /\ Got(Null, at + 1).next \in Nat
  BY DEF NoSymbol, Got
<1>5. at + 1 \in Nat /\ at + 2 \in Nat
  OBVIOUS
<1>6. CASE at > Len(units)
  BY <1>4, <1>6 DEF NextSymbol
<1>7. CASE ~(at > Len(units))
  <2>1. CASE units[at] = "00"
    BY <1>4, <1>7, <2>1 DEF NextSymbol
  <2>2. CASE units[at] = "01"
    BY <1>3, <1>7, <2>2 DEF NextSymbol
  <2>3. CASE units[at] = "02"
    BY <1>3, <1>7, <2>3 DEF NextSymbol
  <2>4. CASE units[at] = "04"
    BY <1>2, <1>5, <1>7, <2>4 DEF NextSymbol
  <2>5. CASE units[at] \in {"05", "06"} /\ at < Len(units)
    BY <1>2, <1>5, <1>7, <2>5 DEF NextSymbol
  <2>6. CASE ~(units[at] \in {"00", "01", "02", "04"}) /\ ~(units[at] \in {"05", "06"} /\ at < Len(units))
    BY <1>4, <1>7, <2>6 DEF NextSymbol
  <2> QED
    BY <2>1, <2>2, <2>3, <2>4, <2>5, <2>6
<1> QED
  BY <1>6, <1>7

\* ReadSymbolTable reads one symbol after the other.
LEMMA ReadUnfolds ==
  ASSUME NEW n \in Nat, NEW units, Len(units) \in Nat
  PROVE  /\ ReadSymbolTable(units, 0) = ReadStart
         /\ \A m \in 0 .. n : ReadSymbolTable(units, m) \in ReadStates(units)
         /\ \A m \in 1 .. n : ReadSymbolTable(units, m) = ReadMore(units, ReadSymbolTable(units, m - 1))
<1> DEFINE Reads(f, m) == f = [k \in 0 .. m |-> IF k = 0 THEN ReadStart ELSE ReadMore(units, f[k - 1])]
           F == [m \in 0 .. n |-> CHOOSE f : Reads(f, m)]
           S == ReadStates(units)
           step(m) == [p \in (1 .. m) \X S |-> ReadMore(units, p[2])]
<1>0. ReadStart \in S
  BY DEF ReadStart, ReadStates
<1>1. ASSUME NEW m \in 0 .. n PROVE step(m) \in [(1 .. m) \X S -> S]
  <2>1. ASSUME NEW read \in S PROVE ReadMore(units, read) \in S
    <3> DEFINE got == NextSymbol(units, read.next)
               X == {NextSymbol(units, at).symbol : at \in Nat}
    <3>1. read.next \in Nat /\ read.symbols \in Seq(X) /\ read = [symbols |-> read.symbols, next |-> read.next]
      BY DEF ReadStates
    <3>2. got.next \in Nat /\ got.symbol \in X
      BY <3>1, NextIsNumber
    <3>3. Append(read.symbols, got.symbol) \in Seq(X)
      <4> HIDE DEF X, got
      <4> QED
        BY <3>1, <3>2
    <3>4. [read EXCEPT !.next = 0] \in [symbols : Seq(X), next : Nat]
      <4> HIDE DEF X
      <4> QED
        BY <3>1
    <3>5. [symbols |-> Append(read.symbols, got.symbol), next |-> got.next] \in [symbols : Seq(X), next : Nat]
      BY <3>2, <3>3
    <3> QED
      BY <3>4, <3>5 DEF ReadMore, ReadStates
  <2> QED
    BY <2>1
<1>2. ASSUME NEW m \in 0 .. n PROVE Reads(F[m], m)
  <2>1. \E f : Reads(f, m)
    <3>1. PICK f : Stepwise(f, m, S, ReadStart, step(m))
      <4>1. m \in Nat /\ ReadStart \in S /\ step(m) \in [(1 .. m) \X S -> S]
        BY <1>0, <1>1
      <4> HIDE DEF step, S
      <4> QED
        BY <4>1, Recursion
    <3>2. f \in [0 .. m -> S] /\ f[0] = ReadStart /\ \A k \in 1 .. m : f[k] = step(m)[<<k, f[k - 1]>>]
      BY <3>1 DEF Stepwise
    <3>3. ASSUME NEW k \in 1 .. m PROVE f[k] = ReadMore(units, f[k - 1])
      <4>1. f[k - 1] \in S
        BY <3>2
      <4> QED
        BY <3>2, <4>1
    <3>4. Reads(f, m)
      BY <3>2, <3>3
    <3> QED
      BY <3>4
  <2> HIDE DEF Reads
  <2> QED
    BY <2>1
<1>4. ASSUME NEW m \in 0 .. n
      PROVE  F[m][0] = ReadStart /\ \A k \in 1 .. m : F[m][k] = ReadMore(units, F[m][k - 1])
  <2> DEFINE f == F[m]
  <2>1. Reads(f, m)
    BY <1>2
  <2> HIDE DEF f
  <2>2. f[0] = ReadStart /\ \A k \in 1 .. m : f[k] = ReadMore(units, f[k - 1])
    BY <2>1
  <2> QED
    BY <2>2 DEF f
<1>5. ASSUME NEW m \in 0 .. n, NEW k \in 1 .. m, F[m][k - 1] \in S
      PROVE  F[m][k] = step(n)[<<k, F[m][k - 1]>>]
  <2> HIDE DEF F
  <2>1. F[m][k] = ReadMore(units, F[m][k - 1])
    BY <1>4
  <2>2. <<k, F[m][k - 1]>> \in (1 .. n) \X S
    BY <1>5
  <2> QED
    BY <2>1, <2>2
<1>6. LastSteps(F, n, S, ReadStart, step(n))
  <2>1. step(n) \in [(1 .. n) \X S -> S] /\ ReadStart \in S
    BY <1>0, <1>1
  <2>2. Family(F, n, S, ReadStart, step(n))
    <3> HIDE DEF F, step, S
    <3> QED
      BY <1>4, <1>5 DEF Family
  <2> HIDE DEF F, step, S
  <2> QED
    BY <2>1, <2>2, Unfolds
<1>3. \A m \in 0 .. n : ReadSymbolTable(units, m) = F[m][m]
  BY DEF ReadSymbolTable, ReadMore, ReadStart
<1> HIDE DEF F
<1>7. ASSUME NEW m \in 1 .. n PROVE ReadSymbolTable(units, m) = ReadMore(units, ReadSymbolTable(units, m - 1))
  <2>1. m - 1 \in 0 .. n /\ m \in 0 .. n /\ F[m - 1][m - 1] \in S
    BY <1>6 DEF LastSteps
  <2>2. ReadSymbolTable(units, m) = F[m][m] /\ ReadSymbolTable(units, m - 1) = F[m - 1][m - 1]
    BY <1>3, <2>1
  <2>3. F[m][m] = step(n)[<<m, F[m - 1][m - 1]>>]
    BY <1>6 DEF LastSteps
  <2> QED
    BY <2>1, <2>2, <2>3
<1>8. ReadSymbolTable(units, 0) = ReadStart /\ \A m \in 0 .. n : ReadSymbolTable(units, m) \in S
  <2>1. F[0][0] = ReadStart /\ \A m \in 0 .. n : F[m][m] \in S
    BY <1>6 DEF LastSteps
  <2>2. 0 \in 0 .. n
    OBVIOUS
  <2> QED
    BY <1>3, <2>1, <2>2, Zenon
<1> QED
  BY <1>7, <1>8

\* After an end, and at a unit that begins no symbol, nothing more is read.
LEMMA NothingMore ==
  ASSUME NEW units, Len(units) \in Nat, NEW from \in Nat,
         NextSymbol(units, ReadSymbolTable(units, from).next).next = 0
  PROVE  \A n \in Nat : n > from => ReadSymbolTable(units, n).next = 0
<1> DEFINE R(n) == ReadSymbolTable(units, n)
           Good == {d \in Nat : R(from + (d + 1)).next = 0}
<1>1. ASSUME NEW n \in Nat \ {0}
      PROVE  R(n) = ReadMore(units, R(n - 1)) /\ R(n - 1) \in ReadStates(units)
  <2>1. n \in Nat /\ n \in 1 .. n /\ n - 1 \in 0 .. n
    OBVIOUS
  <2> QED
    BY <2>1, ReadUnfolds
<1> HIDE DEF R
<1>2. ASSUME NEW read \in ReadStates(units) PROVE [read EXCEPT !.next = 0].next = 0
  BY DEF ReadStates
<1>3. 0 \in Good
  <2>1. from + (0 + 1) \in Nat \ {0} /\ (from + (0 + 1)) - 1 = from
    OBVIOUS
  <2>2. R(from + (0 + 1)) = ReadMore(units, R(from)) /\ R(from) \in ReadStates(units)
    BY <1>1, <2>1
  <2>3. NextSymbol(units, R(from).next).next = 0
    BY DEF R
  <2> QED
    BY <1>2, <2>2, <2>3 DEF ReadMore
<1>4. ASSUME NEW d \in Nat, d \in Good PROVE d + 1 \in Good
  <2>1. from + ((d + 1) + 1) \in Nat \ {0} /\ (from + ((d + 1) + 1)) - 1 = from + (d + 1)
    OBVIOUS
  <2>2. /\ R(from + ((d + 1) + 1)) = ReadMore(units, R(from + (d + 1)))
        /\ R(from + (d + 1)) \in ReadStates(units)
    BY <1>1, <2>1
  <2>3. R(from + (d + 1)).next = 0
    BY <1>4
  <2> DEFINE x == R(from + (d + 1))
             y == R(from + ((d + 1) + 1))
  <2>4. y = ReadMore(units, x) /\ x \in ReadStates(units) /\ x.next = 0
    BY <2>2, <2>3
  <2> HIDE DEF x, y
  <2>5. y.next = 0
    BY <1>2, <2>4 DEF ReadMore
  <2> QED
    BY <2>5 DEF y
<1>5. Nat \subseteq Good
  <2> HIDE DEF Good
  <2> QED
    BY <1>3, <1>4, AllNumbers
<1> SUFFICES ASSUME NEW n \in Nat, n > from PROVE R(n).next = 0
  BY DEF R
<1> DEFINE d == n - from - 1
<1>6. d \in Nat /\ from + (d + 1) = n
  OBVIOUS
<1> HIDE DEF d
<1> QED
  BY <1>5, <1>6

Encoded(symbolSeq) == [k \in DOMAIN symbolSeq |-> EncodeSymbol(symbolSeq[k])]

LEMMA EncodedParts ==
  ASSUME NEW symbolSeq \in Seq(Symbols)
  PROVE  \E X : \A k \in 1 .. Len(symbolSeq) : Encoded(symbolSeq)[k] \in Seq(X)
<1> DEFINE X == {"00", "01", "02", "04", "05", "06"} \cup {s.num : s \in Symbols} \cup {s.text : s \in Symbols}
<1>1. ASSUME NEW s \in Symbols PROVE EncodeSymbol(s) \in Seq(X)
  <2>1. /\ s.num \in X /\ s.text \in X
        /\ "00" \in X /\ "01" \in X /\ "02" \in X /\ "04" \in X /\ "05" \in X /\ "06" \in X
    OBVIOUS
  <2>2. s.kind \in {"null", "int", "float", "string", "dualint", "dualfloat"}
    BY SymbolParts
  <2> HIDE DEF X
  <2>3. Texts(s) \in Seq(X)
    BY <2>1 DEF Texts
  <2>4. <<"00">> \in Seq(X) /\ <<"01", s.num>> \in Seq(X) /\ <<"02", s.num>> \in Seq(X)
        /\ <<"04">> \o Texts(s) \in Seq(X) /\ <<"05", s.num>> \o Texts(s) \in Seq(X)
        /\ <<"06", s.num>> \o Texts(s) \in Seq(X)
    BY <2>1, <2>3
  <2> QED
    BY <2>2, <2>4 DEF EncodeSymbol
<1>2. ASSUME NEW k \in 1 .. Len(symbolSeq) PROVE Encoded(symbolSeq)[k] \in Seq(X)
  <2>1. symbolSeq[k] \in Symbols /\ k \in DOMAIN symbolSeq
    OBVIOUS
  <2> HIDE DEF X
  <2> QED
    BY <1>1, <2>1 DEF Encoded
<1> HIDE DEF X
<1> QED
  BY <1>2

\* A table of symbols is read back: as many of them as are asked for, and not more than
\* there are.
THEOREM TableIsRead ==
  ASSUME NEW symbolSeq \in Seq(Symbols), NEW count \in Nat,
         NEW units, units = Joined(Encoded(symbolSeq), Len(symbolSeq))
  PROVE  LET read == ReadSymbolTable(units, count)
         IN IF count <= Len(symbolSeq)
              THEN /\ read.next # 0 /\ read.symbols = SubSeq(symbolSeq, 1, count)
                   /\ count = Len(symbolSeq) => read.next = Len(units) + 1
              ELSE read.next = 0
<1> DEFINE n == Len(symbolSeq)
           parts == Encoded(symbolSeq)
           J(k) == Joined(parts, k)
           R(k) == ReadSymbolTable(units, k)
<1>0. n \in Nat
  <2> HIDE DEF J, R, parts
  <2> QED
    OBVIOUS
<1>1. PICK X : \A k \in 1 .. n : parts[k] \in Seq(X)
  BY EncodedParts
<1>2. /\ J(0) = <<>>
      /\ \A k \in 0 .. n : J(k) \in Seq(X)
      /\ units = J(n)
  <2>1. units = J(n)
    OBVIOUS
  <2> HIDE DEF parts, n
  <2> QED
    BY <1>0, <1>1, <2>1, JoinedAppends
<1>3. ASSUME NEW k \in 1 .. n
      PROVE  /\ Len(J(k)) = Len(J(k - 1)) + Len(parts[k])
             /\ Holds(units, Len(J(k - 1)) + 1, parts[k])
  <2>1. /\ Len(J(k)) = Len(J(k - 1)) + Len(parts[k])
        /\ Len(J(k)) <= Len(J(n))
        /\ \A j \in 1 .. Len(parts[k]) : J(n)[Len(J(k - 1)) + j] = parts[k][j]
    <3> HIDE DEF parts, n
    <3>1. Found(parts, n, k)
      BY <1>0, <1>1, JoinedHolds
    <3> QED
      BY <3>1 DEF Found
  <2>2. k - 1 \in 0 .. n
    BY <1>0
  <2>3. Len(J(k - 1)) \in Nat
    <3>1. J(k - 1) \in Seq(X)
      BY <1>2, <2>2
    <3> HIDE DEF J
    <3> QED
      BY <3>1
  <2> HIDE DEF J, parts
  <2>4. (Len(J(k - 1)) + 1) - 1 = Len(J(k - 1))
    BY <2>3
  <2> QED
    BY <1>2, <2>1, <2>4 DEF Holds
<1>4. Len(units) \in Nat
  <2>1. units \in Seq(X)
    BY <1>0, <1>2
  <2> HIDE DEF J
  <2> QED
    BY <2>1
<1>5. R(0) = ReadStart
  <2>1. 0 \in Nat
    OBVIOUS
  <2> QED
    BY <1>4, <2>1, ReadUnfolds
<1>11. ASSUME NEW k \in Nat \ {0} PROVE R(k) = ReadMore(units, R(k - 1))
  <2>1. k \in Nat /\ k \in 1 .. k
    OBVIOUS
  <2> QED
    BY <1>4, <2>1, ReadUnfolds
<1> DEFINE After(k) == [symbols |-> SubSeq(symbolSeq, 1, k), next |-> Len(J(k)) + 1]
           Good == {k \in Nat : k <= n => R(k) = After(k)}
<1>6. 0 \in Good
  <2>1. Len(J(0)) = 0 /\ SubSeq(symbolSeq, 1, 0) = <<>>
    <3> HIDE DEF J
    <3> QED
      BY <1>2
  <2>2. After(0) = ReadStart
    BY <2>1 DEF ReadStart
  <2> HIDE DEF After, R
  <2> QED
    BY <1>5, <2>2
<1>7. ASSUME NEW m \in Nat, m \in Good PROVE m + 1 \in Good
  <2> SUFFICES ASSUME m + 1 <= n PROVE R(m + 1) = After(m + 1)
    OBVIOUS
  <2> DEFINE k == m + 1
             s == symbolSeq[k]
             at == Len(J(m)) + 1
  <2>1. k \in 1 .. n /\ k \in DOMAIN symbolSeq /\ k - 1 = m /\ m \in 0 .. n /\ k \in Nat \ {0} /\ m <= n
    OBVIOUS
  <2>2. s \in Symbols /\ parts[k] = EncodeSymbol(s)
    BY <2>1 DEF Encoded
  <2>3. at \in Nat \ {0}
    <3>1. J(m) \in Seq(X)
      BY <1>2, <2>1
    <3> HIDE DEF J
    <3> QED
      BY <3>1
  <2>4. Holds(units, at, EncodeSymbol(s)) /\ Len(J(k)) = Len(J(m)) + Len(EncodeSymbol(s))
    BY <1>3, <2>1, <2>2
  <2>5. NextSymbol(units, at) = Got(s, at + Len(EncodeSymbol(s))) /\ Len(EncodeSymbol(s)) \in Nat \ {0}
    <3> HIDE DEF at, s
    <3> QED
      BY <1>4, <2>2, <2>3, <2>4, SymbolIsRead
  <2>6. R(m) = [symbols |-> SubSeq(symbolSeq, 1, m), next |-> at]
    BY <1>7, <2>1
  <2>7. R(k) = ReadMore(units, R(m))
    BY <1>11, <2>1
  <2>8. at + Len(EncodeSymbol(s)) = Len(J(k)) + 1 /\ at + Len(EncodeSymbol(s)) # 0 /\ at # 0
    <3>1. Len(J(m)) \in Nat
      <4>1. J(m) \in Seq(X)
        BY <1>2, <2>1
      <4> HIDE DEF J
      <4> QED
        BY <4>1
    <3> HIDE DEF J
    <3> QED
      BY <2>3, <2>4, <2>5, <3>1
  <2>9. Append(SubSeq(symbolSeq, 1, m), s) = SubSeq(symbolSeq, 1, k)
    BY <2>1, <2>2
  <2> HIDE DEF J, at, k, s, R
  <2> DEFINE before == SubSeq(symbolSeq, 1, m)
             next == at + Len(EncodeSymbol(s))
  <2>10. R(k) = [symbols |-> Append(before, s), next |-> next]
    <3>1. /\ R(m) = [symbols |-> before, next |-> at] /\ NextSymbol(units, at) = Got(s, next)
          /\ at # 0 /\ next # 0
      BY <2>5, <2>6, <2>8
    <3> HIDE DEF before, next
    <3> DEFINE read == R(m)
               got == NextSymbol(units, at)
    <3>2. read.symbols = before /\ read.next = at
      BY <3>1
    <3>3. got.symbol = s /\ got.next = next
      BY <3>1 DEF Got
    <3>4. R(k) = ReadMore(units, read)
      BY <2>7
    <3> HIDE DEF read
    <3>5. ReadMore(units, read) = [symbols |-> Append(read.symbols, got.symbol), next |-> got.next]
      BY <3>1, <3>2, <3>3 DEF ReadMore
    <3> HIDE DEF got
    <3> QED
      BY <3>2, <3>3, <3>4, <3>5
  <2>11. R(k) = After(k)
    BY <2>8, <2>9, <2>10
  <2> QED
    BY <2>11 DEF k
<1>8. Nat \subseteq Good
  <2> HIDE DEF Good
  <2> QED
    BY <1>6, <1>7, AllNumbers
<1>9. CASE count <= n
  <2>1. R(count) = After(count)
    BY <1>8, <1>9
  <2>2. Len(J(count)) + 1 # 0
    <3>1. J(count) \in Seq(X)
      BY <1>2, <1>9
    <3> HIDE DEF J
    <3> QED
      BY <3>1
  <2>3. count = n => After(count).next = Len(units) + 1
    BY <1>2
  <2> QED
    BY <1>9, <2>1, <2>2, <2>3
<1>10. CASE ~(count <= n)
  <2>1. R(n).next = Len(units) + 1
    BY <1>0, <1>2, <1>8
  <2>2. NextSymbol(units, R(n).next).next = 0
    BY <1>4, <2>1 DEF NextSymbol, NoSymbol, Got
  <2>3. R(count).next = 0
    BY <1>0, <1>4, <1>10, <2>2, NothingMore
  <2> QED
    BY <1>10, <2>3
<1> QED
  BY <1>9, <1>10

\* Whatever the units are, what is read of them is a symbol.
LEMMA NextIsSymbol ==
  ASSUME NEW units, NEW at
  PROVE  NextSymbol(units, at).symbol \in Symbols
<1>1. Null \in Symbols /\ NoSymbol.symbol = Null /\ \A n : Got(Null, n).symbol = Null
  BY DEF Symbols, NoSymbol, Got
<1>2. \A got : IfSymbol(got).symbol \in Symbols
  BY <1>1 DEF IfSymbol
<1>3. ASSUME NEW n, NEW kind, NEW number
      PROVE  ReadString(units, kind, number, n).symbol \in Symbols /\ ReadNumber(units, kind, n).symbol \in Symbols
  BY <1>1, <1>2 DEF ReadString, ReadNumber
<1> QED
  BY <1>1, <1>3 DEF NextSymbol

LEMMA ReadIsTyped ==
  ASSUME NEW units, Len(units) \in Nat, NEW count \in Nat
  PROVE  ReadSymbolTable(units, count).symbols \in Seq(Symbols)
<1> DEFINE X == {NextSymbol(units, at).symbol : at \in Nat}
<1>1. ReadSymbolTable(units, count) \in ReadStates(units)
  <2>1. count \in 0 .. count
    OBVIOUS
  <2> QED
    BY <2>1, ReadUnfolds
<1>2. X \subseteq Symbols
  BY NextIsSymbol
<1>3. ReadSymbolTable(units, count).symbols \in Seq(X)
  BY <1>1 DEF ReadStates
<1> HIDE DEF X
<1> QED
  BY <1>2, <1>3, SeqMonotonic

\* Of a table that is cut short no more is read than of the whole one.
Shorter(short, long) ==
  /\ Len(short) \in Nat /\ Len(long) \in Nat /\ Len(short) <= Len(long)
  /\ \A j \in 1 .. Len(short) : short[j] = long[j]

LEMMA ShorterText ==
  ASSUME NEW short, NEW long, Shorter(short, long), NEW at \in Nat \ {0}, TextEnd(short, at) # 0
  PROVE  /\ TextEnd(short, at) \in at .. Len(short)
         /\ TextEnd(short, at) = TextEnd(long, at) /\ TextAt(short, at) = TextAt(long, at)
<1> DEFINE endsIn(units) == {n \in at .. Len(units) : units[n] = "00"}
<1>1. TextEnd(short, at) = Min(endsIn(short)) /\ endsIn(short) # {}
  BY DEF TextEnd
<1>2. endsIn(short) \subseteq endsIn(long) /\ endsIn(short) \in SUBSET Nat /\ endsIn(long) \in SUBSET Nat
  BY DEF Shorter
<1>3. endsIn(long) # {}
  BY <1>1, <1>2
<1>4. TextEnd(long, at) = Min(endsIn(long))
  BY <1>3 DEF TextEnd
<1>5. /\ Min(endsIn(short)) \in endsIn(short) /\ \A n \in endsIn(short) : Min(endsIn(short)) <= n
      /\ Min(endsIn(long)) \in endsIn(long) /\ \A n \in endsIn(long) : Min(endsIn(long)) <= n
  <2> HIDE DEF endsIn
  <2> QED
    BY <1>1, <1>2, <1>3, LeastIsMin
<1>6. Min(endsIn(short)) = Min(endsIn(long)) /\ Min(endsIn(short)) \in at .. Len(short)
  <2> DEFINE a == Min(endsIn(short))
             b == Min(endsIn(long))
  <2>1. b <= a /\ a \in at .. Len(short) /\ b \in at .. Len(long) /\ long[b] = "00"
    BY <1>2, <1>5
  <2> HIDE DEF a, b
  <2>2. b \in at .. Len(short) /\ short[b] = long[b]
    BY <2>1 DEF Shorter
  <2>3. b \in endsIn(short)
    BY <2>1, <2>2
  <2>4. a <= b
    BY <1>5, <2>3 DEF a
  <2>5. a = b
    BY <2>1, <2>4 DEF Shorter
  <2> QED
    BY <2>1, <2>5 DEF a, b
<1> HIDE DEF endsIn
<1>7. short[at] = long[at]
  BY <1>1, <1>6 DEF Shorter
<1> QED
  BY <1>1, <1>4, <1>6, <1>7 DEF TextAt

LEMMA ShorterNext ==
  ASSUME NEW short, NEW long, Shorter(short, long), NEW at \in Nat \ {0}
  PROVE  LET next == NextSymbol(short, at).next
         IN next \in 0 .. (Len(short) + 1) /\ (next # 0 => next = NextSymbol(long, at).next)
<1> DEFINE Fine(a, b) == a \in 0 .. (Len(short) + 1) /\ (a # 0 => a = b)
<1>0. Len(short) \in Nat /\ Len(long) \in Nat /\ Len(short) <= Len(long) /\ NoSymbol.next = 0
  BY DEF Shorter, NoSymbol, Got
<1>1. ASSUME NEW kind, NEW number, NEW n \in Nat \ {0}
      PROVE  Fine(ReadString(short, kind, number, n).next, ReadString(long, kind, number, n).next)
  <2>1. CASE TextEnd(short, n) = 0
    BY <1>0, <2>1 DEF ReadString
  <2>2. CASE TextEnd(short, n) # 0
    <3> DEFINE end == TextEnd(short, n)
               symbol == Symbol(kind, number, TextAt(short, n))
    <3>1. /\ end \in n .. Len(short) /\ end # 0 /\ TextEnd(long, n) = end
          /\ Symbol(kind, number, TextAt(long, n)) = symbol
      BY <2>2, ShorterText
    <3>2. /\ ReadString(short, kind, number, n) = IfSymbol(Got(symbol, end + 1))
          /\ ReadString(long, kind, number, n) = IfSymbol(Got(symbol, end + 1))
      BY <3>1 DEF ReadString
    <3> HIDE DEF symbol, end
    <3>3. IfSymbol(Got(symbol, end + 1)).next \in {0, end + 1}
      BY <1>0 DEF IfSymbol, Got
    <3>4. end + 1 \in 0 .. (Len(short) + 1)
      BY <1>0, <3>1
    <3> QED
      BY <1>0, <3>2, <3>3, <3>4
  <2> QED
    BY <2>1, <2>2
<1>2. ASSUME NEW kind
      PROVE  Fine(ReadNumber(short, kind, at).next, ReadNumber(long, kind, at).next)
  <2>1. CASE ~(at < Len(short))
    BY <1>0, <2>1 DEF ReadNumber
  <2>2. CASE at < Len(short)
    <3>1. short[at + 1] = long[at + 1] /\ at < Len(long) /\ at + 2 \in 0 .. (Len(short) + 1)
      BY <1>0, <2>2 DEF Shorter
    <3> DEFINE symbol == Symbol(kind, short[at + 1], "none")
    <3>2. /\ ReadNumber(short, kind, at) = IfSymbol(Got(symbol, at + 2))
          /\ ReadNumber(long, kind, at) = IfSymbol(Got(symbol, at + 2))
      BY <2>2, <3>1 DEF ReadNumber
    <3> HIDE DEF symbol
    <3>3. IfSymbol(Got(symbol, at + 2)).next \in {0, at + 2}
      BY <1>0 DEF IfSymbol, Got
    <3> QED
      BY <1>0, <3>1, <3>2, <3>3
  <2> QED
    BY <2>1, <2>2
<1> SUFFICES Fine(NextSymbol(short, at).next, NextSymbol(long, at).next)
  OBVIOUS
<1>3. Fine(0, NextSymbol(long, at).next)
  BY <1>0
<1> HIDE DEF Fine
<1>4. CASE at > Len(short)
  BY <1>0, <1>3, <1>4 DEF NextSymbol
<1>5. CASE ~(at > Len(short))
  <2> DEFINE tag == short[at]
  <2>1. tag = long[at] /\ ~(at > Len(long)) /\ at + 1 \in Nat \ {0} /\ at + 2 \in Nat \ {0}
    BY <1>0, <1>5 DEF Shorter
  <2>2. CASE tag = "00"
    <3>1. NextSymbol(short, at) = Got(Null, at + 1) /\ NextSymbol(long, at) = Got(Null, at + 1)
      BY <1>5, <2>1, <2>2 DEF NextSymbol
    <3>2. at + 1 \in 0 .. (Len(short) + 1) /\ Got(Null, at + 1).next = at + 1
      BY <1>0, <1>5 DEF Got
    <3> QED
      BY <3>1, <3>2 DEF Fine
  <2>3. CASE tag = "01"
    <3>1. NextSymbol(short, at) = ReadNumber(short, "int", at) /\ NextSymbol(long, at) = ReadNumber(long, "int", at)
      BY <1>5, <2>1, <2>3 DEF NextSymbol
    <3> QED
      BY <1>2, <3>1
  <2>4. CASE tag = "02"
    <3>1. NextSymbol(short, at) = ReadNumber(short, "float", at) /\ NextSymbol(long, at) = ReadNumber(long, "float", at)
      BY <1>5, <2>1, <2>4 DEF NextSymbol
    <3> QED
      BY <1>2, <3>1
  <2>5. CASE tag = "04"
    <3>1. /\ NextSymbol(short, at) = ReadString(short, "string", "none", at + 1)
          /\ NextSymbol(long, at) = ReadString(long, "string", "none", at + 1)
      BY <1>5, <2>1, <2>5 DEF NextSymbol
    <3> QED
      BY <1>1, <2>1, <3>1
  <2>6. CASE tag \in {"05", "06"} /\ at < Len(short)
    <3> DEFINE kind == IF tag = "05" THEN "dualint" ELSE "dualfloat"
               number == short[at + 1]
    <3>1. at < Len(long) /\ number = long[at + 1]
      BY <1>0, <2>6 DEF Shorter
    <3>2. /\ NextSymbol(short, at) = ReadString(short, kind, number, at + 2)
          /\ NextSymbol(long, at) = ReadString(long, kind, number, at + 2)
      <4> HIDE DEF number
      <4>1. NextSymbol(short, at) = ReadString(short, kind, number, at + 2)
        BY <1>5, <2>6 DEF NextSymbol, number
      <4>2. NextSymbol(long, at) = ReadString(long, kind, number, at + 2)
        BY <2>1, <2>6, <3>1 DEF NextSymbol
      <4> QED
        BY <4>1, <4>2
    <3> HIDE DEF kind, number
    <3> QED
      BY <1>1, <2>1, <3>2
  <2>7. CASE ~(tag \in {"00", "01", "02", "04"}) /\ ~(tag \in {"05", "06"} /\ at < Len(short))
    <3>1. NextSymbol(short, at) = NoSymbol
      BY <1>5, <2>7 DEF NextSymbol
    <3> QED
      BY <1>0, <1>3, <3>1
  <2> QED
    BY <2>2, <2>3, <2>4, <2>5, <2>6, <2>7
<1> QED
  BY <1>4, <1>5

\* A table that is cut short is refused: all its symbols are asked for.
LEMMA ShortIsRefused ==
  ASSUME NEW symbolSeq \in Seq(Symbols), NEW units, units = Joined(Encoded(symbolSeq), Len(symbolSeq)),
         NEW short, Shorter(short, units), Len(short) < Len(units)
  PROVE  ReadSymbolTable(short, Len(symbolSeq)).next = 0
<1> DEFINE n == Len(symbolSeq)
           S(k) == ReadSymbolTable(short, k)
           L(k) == ReadSymbolTable(units, k)
           Good == {k \in Nat : S(k).next = 0 \/ (S(k).next \in 1 .. (Len(short) + 1) /\ S(k).next = L(k).next)}
<1>0. Len(short) \in Nat /\ Len(units) \in Nat /\ n \in Nat
  BY LenProperties DEF Shorter
<1>1. S(0) = ReadStart /\ L(0) = ReadStart
  <2>1. 0 \in Nat
    OBVIOUS
  <2> QED
    BY <1>0, <2>1, ReadUnfolds
<1>2. ASSUME NEW k \in Nat
      PROVE  /\ S(k + 1) = ReadMore(short, S(k)) /\ L(k + 1) = ReadMore(units, L(k))
             /\ S(k) \in ReadStates(short) /\ L(k) \in ReadStates(units)
  <2>1. k + 1 \in Nat /\ k + 1 \in 1 .. (k + 1) /\ (k + 1) - 1 = k /\ k \in 0 .. (k + 1)
    OBVIOUS
  <2>2. ASSUME NEW any, Len(any) \in Nat
        PROVE  /\ ReadSymbolTable(any, k + 1) = ReadMore(any, ReadSymbolTable(any, k))
               /\ ReadSymbolTable(any, k) \in ReadStates(any)
    BY <2>1, <2>2, ReadUnfolds
  <2> QED
    BY <1>0, <2>2
<1>3. 0 \in Good
  <2>1. ReadStart.next = 1
    BY DEF ReadStart
  <2> HIDE DEF S, L
  <2> QED
    BY <1>0, <1>1, <2>1
<1>4. ASSUME NEW units_, NEW read \in ReadStates(units_)
      PROVE  ReadMore(units_, read).next
               = IF read.next = 0 \/ NextSymbol(units_, read.next).next = 0 THEN 0
                 ELSE NextSymbol(units_, read.next).next
  BY DEF ReadMore, ReadStates
<1> HIDE DEF S, L, n
<1>5. ASSUME NEW k \in Nat, k \in Good PROVE k + 1 \in Good
  <2> DEFINE a == S(k).next
             next == NextSymbol(short, a).next
  <2>1. S(k + 1).next = IF a = 0 \/ next = 0 THEN 0 ELSE next
    BY <1>2, <1>4
  <2>2. L(k + 1).next = IF L(k).next = 0 \/ NextSymbol(units, L(k).next).next = 0 THEN 0
                        ELSE NextSymbol(units, L(k).next).next
    BY <1>2, <1>4
  <2>3. CASE a = 0 \/ next = 0
    BY <2>1, <2>3
  <2>4. CASE ~(a = 0 \/ next = 0)
    <3>1. a \in Nat \ {0} /\ a = L(k).next
      BY <1>0, <1>5, <2>4
    <3>2. next \in 0 .. (Len(short) + 1) /\ next = NextSymbol(units, a).next
      BY <2>4, <3>1, ShorterNext
    <3> HIDE DEF a, next
    <3>3. S(k + 1).next = next /\ L(k + 1).next = next
      BY <2>1, <2>2, <2>4, <3>1, <3>2
    <3>4. next \in 1 .. (Len(short) + 1)
      BY <1>0, <2>4, <3>2
    <3> QED
      BY <3>3, <3>4
  <2> QED
    BY <2>3, <2>4
<1>6. n \in Good
  <2> HIDE DEF Good
  <2>1. Nat \subseteq Good
    BY <1>3, <1>5, AllNumbers
  <2> QED
    BY <1>0, <2>1
<1>7. L(n).next = Len(units) + 1
  <2>1. n \in Nat /\ n = Len(symbolSeq)
    BY <1>0 DEF n
  <2> QED
    BY <2>1, TableIsRead DEF L
<1> QED
  BY <1>0, <1>6, <1>7 DEF S, n

\* Of a table that begins with a tag nobody knows no symbol is read.
LEMMA BrokenIsRefused ==
  ASSUME NEW units, Len(units) \in Nat \ {0}, units[1] = "07", NEW count \in Nat \ {0}
  PROVE  ReadSymbolTable(units, count).next = 0
<1>1. ReadSymbolTable(units, 0).next = 1
  <2>1. 0 \in Nat /\ Len(units) \in Nat
    OBVIOUS
  <2> QED
    BY <2>1, ReadUnfolds DEF ReadStart
<1>2. NextSymbol(units, 1).next = 0
  BY DEF NextSymbol, NoSymbol, Got
<1>3. 0 \in Nat /\ count > 0 /\ count \in Nat /\ Len(units) \in Nat
  OBVIOUS
<1> QED
  BY <1>1, <1>2, <1>3, NothingMore

-----------------------------------------------------------------------------
(* How a table is laid out.                                                *)

LayoutFields == [symbols : Seq(Symbols), rows : Seq(Int), gap : Nat, slack : Nat, spare : Nat]

FieldTyped(f) ==
  /\ f \in LayoutFields
  /\ \A r \in DOMAIN f.rows : f.rows[r] \in -1 .. (Len(f.symbols) - 1)
  /\ Shifted(Len(f.symbols))[WordBits - 1] = 0
  /\ Width(f) <= WordBits

TableTyped(table) ==
  /\ table \in Seq(LayoutFields) /\ table # <<>>
  /\ \A i \in DOMAIN table : FieldTyped(table[i]) /\ Len(table[i].rows) = RowsOf(table)

LEMMA LayoutTyped ==
  ASSUME NEW i \in Inputs
  PROVE  TableTyped(i.layout)
<1>1. i.layout \in Seq(LayoutFields) /\ i.layout # <<>>
  BY LayoutAssumption DEF LayoutFields
<1>2. ASSUME NEW n \in DOMAIN i.layout
      PROVE  FieldTyped(i.layout[n]) /\ Len(i.layout[n].rows) = RowsOf(i.layout)
  <2>1. i.layout[n] \in LayoutFields /\ i.layout[n] \in Range(i.layout)
    BY <1>1 DEF Range
  <2> QED
    BY <2>1, LayoutAssumption DEF FieldTyped
<1> QED
  BY <1>1, <1>2 DEF TableTyped

\* A number takes as many bits as it has.
LEMMA BitLenEnds ==
  ASSUME NEW v \in Nat, Shifted(v)[WordBits] = 0
  PROVE  BitLen(v) \in 0 .. WordBits /\ Shifted(v)[BitLen(v)] = 0
<1> DEFINE ends == {k \in 0 .. WordBits : Shifted(v)[k] = 0}
<1>1. ends \in SUBSET Nat /\ ends # {}
  BY WordSize
<1>2. Min(ends) \in ends
  <2> HIDE DEF ends
  <2> QED
    BY <1>1, LeastIsMin
<1> QED
  BY <1>2 DEF BitLen

\* What an int64 holds, a word holds.
LEMMA SmallerFits ==
  ASSUME NEW v \in Nat, NEW w \in Nat, v <= w, Shifted(w)[WordBits - 1] = 0
  PROVE  Shifted(v)[WordBits - 1] = 0 /\ Shifted(v)[WordBits] = 0
<1>1. WordBits - 1 \in 0 .. WordBits /\ WordBits \in (WordBits - 1) .. WordBits
  BY WordSize
<1>2. Shifted(v)[WordBits - 1] <= Shifted(w)[WordBits - 1] /\ Shifted(v)[WordBits - 1] \in Nat
  BY <1>1, ShiftedLess, ShiftedHalves
<1>3. Shifted(v)[WordBits - 1] = 0
  BY <1>2
<1> QED
  BY <1>1, <1>3, ShiftedToZero

\* The width of a field, and that the index of every row fits in.
LEMMA WidthIsNumber ==
  ASSUME NEW f, FieldTyped(f)
  PROVE  /\ Width(f) \in 0 .. WordBits
         /\ Bias(f) \in {-1, 0} /\ (Bias(f) = -1 <=> HasNull(f))
         /\ MaxStored(f) \in Int /\ MaxStored(f) <= Len(f.symbols)
         /\ MaxStored(f) > 0 => BitLen(MaxStored(f)) \in 0 .. WordBits /\ Shifted(MaxStored(f))[BitLen(MaxStored(f))] = 0
<1>1. f.slack \in Nat /\ Len(f.symbols) \in Nat /\ Shifted(Len(f.symbols))[WordBits - 1] = 0
      /\ Width(f) <= WordBits
  BY DEF FieldTyped, LayoutFields
<1>2. Bias(f) \in {-1, 0} /\ (Bias(f) = -1 <=> HasNull(f))
  BY DEF Bias
<1>3. MaxStored(f) \in Int /\ MaxStored(f) <= Len(f.symbols)
  BY <1>1, <1>2 DEF MaxStored
<1>4. ASSUME MaxStored(f) > 0
      PROVE  BitLen(MaxStored(f)) \in 0 .. WordBits /\ Shifted(MaxStored(f))[BitLen(MaxStored(f))] = 0
  <2>1. MaxStored(f) \in Nat
    BY <1>3, <1>4
  <2>2. Shifted(MaxStored(f))[WordBits] = 0
    BY <1>1, <1>3, <2>1, SmallerFits
  <2> QED
    BY <2>1, <2>2, BitLenEnds
<1>5. Width(f) \in Nat
  BY <1>1, <1>4, WordSize DEF Width
<1>6. Width(f) \in 0 .. WordBits
  BY <1>1, <1>5, WordSize
<1> QED
  BY <1>2, <1>3, <1>4, <1>6

LEMMA StoredFits ==
  ASSUME NEW f, FieldTyped(f), NEW r \in DOMAIN f.rows
  PROVE  /\ Stored(f, r) \in Nat /\ Stored(f, r) <= Len(f.symbols)
         /\ Stored(f, r) + Bias(f) = (IF f.rows[r] < 0 THEN -1 ELSE f.rows[r])
         /\ \A k \in Width(f) .. WordBits : Shifted(Stored(f, r))[k] = 0
         /\ Width(f) = 0 => f.rows[r] = 0
<1> DEFINE index == f.rows[r]
           n == Len(f.symbols)
           v == Stored(f, r)
           max == MaxStored(f)
<1>1. index \in -1 .. (n - 1) /\ n \in Nat /\ f.slack \in Nat
  BY DEF FieldTyped, LayoutFields
<1>2. /\ Width(f) \in 0 .. WordBits
      /\ Bias(f) \in {-1, 0} /\ (Bias(f) = -1 <=> HasNull(f))
      /\ max \in Int
      /\ max > 0 => BitLen(max) \in 0 .. WordBits /\ Shifted(max)[BitLen(max)] = 0
  BY WidthIsNumber
<1>3. index < 0 => HasNull(f)
  BY DEF HasNull
<1>4. max = n - 1 - Bias(f)
  BY DEF MaxStored
<1>5. v = IF index < 0 THEN 0 ELSE index - Bias(f)
  BY DEF Stored
<1>6. Width(f) = f.slack + (IF max > 0 THEN BitLen(max) ELSE IF HasNull(f) THEN 1 ELSE 0)
  BY DEF Width
<1> HIDE DEF v, max, n, index
<1>7. v \in Nat /\ v <= max /\ v <= n /\ max >= 0
  BY <1>1, <1>2, <1>3, <1>4, <1>5
<1>8. v + Bias(f) = (IF index < 0 THEN -1 ELSE index)
  BY <1>1, <1>2, <1>3, <1>5
<1>9. ASSUME NEW k \in Width(f) .. WordBits PROVE Shifted(v)[k] = 0
  <2>1. CASE max > 0
    <3> DEFINE len == BitLen(max)
    <3>1. len \in 0 .. WordBits /\ Shifted(max)[len] = 0 /\ max \in Nat /\ k \in len .. WordBits
      BY <1>1, <1>2, <1>6, <2>1, WordSize
    <3> HIDE DEF len
    <3>2. Shifted(v)[len] <= Shifted(max)[len] /\ Shifted(v)[len] \in Nat
      BY <1>7, <3>1, ShiftedLess, ShiftedHalves
    <3>3. Shifted(v)[len] = 0
      BY <3>1, <3>2
    <3> QED
      BY <1>7, <3>1, <3>3, ShiftedToZero
  <2>2. CASE max = 0
    <3>1. v = 0 /\ 0 \in 0 .. WordBits /\ k \in 0 .. WordBits
      BY <1>2, <1>7, <2>2, WordSize
    <3>2. Shifted(v)[0] = 0
      BY <1>7, <3>1, ShiftedHalves
    <3> QED
      BY <1>7, <3>1, <3>2, ShiftedToZero
  <2> QED
    BY <1>2, <1>7, <2>1, <2>2
<1>10. ASSUME Width(f) = 0 PROVE index = 0
  <2>1. ~(max > 0)
    <3> SUFFICES ASSUME max > 0 PROVE FALSE
      OBVIOUS
    <3>1. BitLen(max) = 0
      BY <1>1, <1>2, <1>6, <1>10
    <3>2. max \in Nat /\ Shifted(max)[0] = max
      BY <1>2, ShiftedHalves
    <3> QED
      BY <1>2, <3>1, <3>2
  <2>2. ~HasNull(f)
    BY <1>1, <1>6, <1>10, <2>1
  <2> QED
    BY <1>1, <1>2, <1>3, <1>4, <2>1, <2>2
<1> QED
  BY <1>7, <1>8, <1>9, <1>10 DEF v, n, index

\* Sums of naturals grow.
LEMMA SumToGrows ==
  ASSUME NEW n \in Nat, NEW numbers, \A k \in 1 .. n : numbers[k] \in Nat
  PROVE  \A m \in 0 .. n : SumTo(numbers, m) \in Nat /\ \A k \in 0 .. m : SumTo(numbers, k) <= SumTo(numbers, m)
<1> DEFINE s(m) == SumTo(numbers, m)
           Good == {m \in Nat : m <= n => s(m) \in Nat /\ \A k \in 0 .. m : s(k) <= s(m)}
<1>1. s(0) = 0 /\ \A m \in 1 .. n : s(m) = s(m - 1) + numbers[m]
  <2>1. \A k \in 1 .. n : numbers[k] \in Int
    OBVIOUS
  <2> QED
    BY <2>1, SumToAdds
<1> HIDE DEF s
<1>2. 0 \in Good
  <2>1. \A k \in 0 .. 0 : k = 0
    OBVIOUS
  <2> QED
    BY <1>1, <2>1
<1>3. ASSUME NEW m \in Nat, m \in Good PROVE m + 1 \in Good
  <2> SUFFICES ASSUME m + 1 <= n PROVE s(m + 1) \in Nat /\ \A k \in 0 .. (m + 1) : s(k) <= s(m + 1)
    OBVIOUS
  <2>1. m + 1 \in 1 .. n /\ (m + 1) - 1 = m /\ m <= n
    OBVIOUS
  <2>2. s(m + 1) = s(m) + numbers[m + 1] /\ numbers[m + 1] \in Nat
    BY <1>1, <2>1
  <2>3. s(m) \in Nat /\ \A k \in 0 .. m : s(k) <= s(m) /\ s(k) \in Int
    <3>1. s(m) \in Nat /\ \A k \in 0 .. m : s(k) <= s(m)
      BY <1>3, <2>1
    <3>2. \A k \in 0 .. m : s(k) \in Int
      <4>1. \A k \in 1 .. n : numbers[k] \in Int
        OBVIOUS
      <4>2. \A k \in 0 .. n : s(k) \in Int
        BY <4>1, SumToAdds DEF s
      <4> QED
        BY <2>1, <4>2
    <3> QED
      BY <3>1, <3>2
  <2>4. s(m) <= s(m + 1) /\ s(m + 1) \in Nat
    BY <2>2, <2>3
  <2>5. ASSUME NEW k \in 0 .. (m + 1) PROVE s(k) <= s(m + 1)
    <3>1. CASE k = m + 1
      BY <2>4, <3>1
    <3>2. CASE k \in 0 .. m
      BY <2>3, <2>4, <3>2
    <3> QED
      BY <3>1, <3>2
  <2> QED
    BY <2>4, <2>5
<1>4. Nat \subseteq Good
  <2> HIDE DEF Good
  <2> QED
    BY <1>2, <1>3, AllNumbers
<1> QED
  BY <1>4 DEF s

\* The fields lie one behind the other.
LEMMA OffsetsIncrease ==
  ASSUME NEW table, TableTyped(table)
  PROVE  /\ \A i \in DOMAIN table : Offset(table, i) \in Nat /\ Width(table[i]) \in 0 .. WordBits
         /\ \A i, j \in DOMAIN table : i < j => Offset(table, i) + Width(table[i]) <= Offset(table, j)
         /\ \A i \in DOMAIN table : Offset(table, i) + Width(table[i])
                                      <= Offset(table, Len(table)) + Width(table[Len(table)])
<1> DEFINE n == Len(table)
           wide == [j \in DOMAIN table |-> table[j].gap + Width(table[j])]
           s(m) == SumTo(wide, m)
<1>1. n \in Nat \ {0} /\ DOMAIN table = 1 .. n
  BY DEF TableTyped
<1>2. ASSUME NEW i \in 1 .. n PROVE table[i].gap \in Nat /\ Width(table[i]) \in 0 .. WordBits
  <2>1. FieldTyped(table[i])
    BY <1>1 DEF TableTyped
  <2> QED
    BY <2>1, WidthIsNumber DEF FieldTyped, LayoutFields
<1>3. \A i \in 1 .. n : wide[i] = table[i].gap + Width(table[i]) /\ wide[i] \in Nat
  BY <1>1, <1>2, WordSize
<1>4. \A m \in 0 .. n : s(m) \in Nat /\ \A k \in 0 .. m : s(k) <= s(m)
  <2> HIDE DEF wide, n
  <2> QED
    BY <1>1, <1>3, SumToGrows
<1>5. \A m \in 1 .. n : s(m) = s(m - 1) + wide[m]
  <2>1. \A k \in 1 .. n : wide[k] \in Int
    BY <1>3
  <2> HIDE DEF wide, n
  <2> QED
    BY <1>1, <2>1, SumToAdds
<1>6. ASSUME NEW i \in 1 .. n
      PROVE  /\ Offset(table, i) = table[i].gap + s(i - 1) /\ Offset(table, i) \in Nat
             /\ Offset(table, i) + Width(table[i]) = s(i)
             /\ s(i - 1) <= Offset(table, i)
  <2>1. Offset(table, i) = table[i].gap + s(i - 1)
    BY DEF Offset
  <2> HIDE DEF s, wide
  <2>2. i - 1 \in 0 .. n /\ s(i - 1) \in Nat
    BY <1>1, <1>4
  <2>3. s(i) = s(i - 1) + (table[i].gap + Width(table[i]))
    BY <1>3, <1>5
  <2>4. table[i].gap \in Nat /\ Width(table[i]) \in Nat
    BY <1>2, WordSize
  <2> QED
    BY <2>1, <2>2, <2>3, <2>4
<1> HIDE DEF s, wide, n
<1>7. ASSUME NEW i \in 1 .. n, NEW j \in 1 .. n, i < j
      PROVE  Offset(table, i) + Width(table[i]) <= Offset(table, j)
  <2>1. i \in 0 .. (j - 1) /\ j - 1 \in 0 .. n
    <3>1. n \in Nat
      BY <1>1
    <3>2. i \in Nat /\ j \in Nat /\ 1 <= i /\ j <= n
      BY <3>1
    <3> QED
      BY <3>1, <3>2, <1>7
  <2>2. s(i) <= s(j - 1) /\ s(j - 1) \in Nat /\ s(i) \in Nat
    BY <1>1, <1>4, <2>1
  <2>3. s(j - 1) <= Offset(table, j) /\ Offset(table, j) \in Nat
    BY <1>6
  <2>4. Offset(table, i) + Width(table[i]) = s(i)
    BY <1>6
  <2> QED
    BY <2>2, <2>3, <2>4
<1>8. ASSUME NEW i \in 1 .. n
      PROVE  Offset(table, i) + Width(table[i]) <= Offset(table, n) + Width(table[n])
  <2>1. n \in 1 .. n /\ n \in 0 .. n /\ i \in 0 .. n
    BY <1>1
  <2>2. s(i) <= s(n)
    BY <1>4, <2>1
  <2> QED
    BY <1>6, <2>1, <2>2
<1> QED
  BY <1>1, <1>2, <1>6, <1>7, <1>8 DEF n

Spare(table) == table[Len(table)].spare

\* The record has room for all of them, and only the spare bytes are more than that.
LEMMA RecordHasRoom ==
  ASSUME NEW table, TableTyped(table)
  PROVE  /\ RecordBytes(table) \in Nat /\ Spare(table) \in Nat
         /\ RowsOf(table) \in Nat
         /\ RowsOf(table) > 0 => RecordBytes(table) > 0
         /\ \A i \in DOMAIN table : Ends(FieldOf(table, i)) <= RecordBytes(table) * ByteBits
         /\ \A m \in Nat \ {0} : Ends(FieldOf(table, Len(table))) <= m * ByteBits
                                 => RecordBytes(table) - Spare(table) <= m
<1> DEFINE n == Len(table)
           last == Offset(table, n) + Width(table[n])
           spare == Spare(table)
<1>1. n \in Nat \ {0} /\ DOMAIN table = 1 .. n /\ RowsOf(table) \in Nat /\ spare \in Nat
  <2>1. table \in Seq(LayoutFields) /\ table # <<>>
    BY DEF TableTyped
  <2>2. table[1] \in LayoutFields
    BY <2>1
  <2>3. table[1].rows \in Seq(Int)
    BY <2>2 DEF LayoutFields
  <2>4. RowsOf(table) \in Nat
    BY <2>3 DEF RowsOf
  <2>5. table[n] \in LayoutFields
    BY <2>1
  <2>6. spare \in Nat
    BY <2>5 DEF LayoutFields, Spare
  <2> QED
    BY <2>1, <2>4, <2>6
<1>2. \A i \in DOMAIN table : Ends(FieldOf(table, i)) = Offset(table, i) + Width(table[i])
  BY DEF Ends, FieldOf
<1>3. last \in Nat /\ \A i \in DOMAIN table : Offset(table, i) + Width(table[i]) <= last
  <2>1. n \in DOMAIN table
    BY <1>1
  <2>2. Offset(table, n) \in Nat /\ Width(table[n]) \in Nat
    BY <2>1, OffsetsIncrease, WordSize
  <2> QED
    BY <2>2, OffsetsIncrease
<1>4. /\ BytesOf(last) \in Nat /\ last <= BytesOf(last) * ByteBits
      /\ \A m \in Nat : last <= m * ByteBits => BytesOf(last) <= m
  <2>1. ASSUME NEW a \in Nat, NEW b \in Nat \ {0}
        PROVE  /\ (a + b - 1) \div b \in Nat /\ a <= ((a + b - 1) \div b) * b
               /\ \A m \in Nat : a <= m * b => (a + b - 1) \div b <= m
    <3> DEFINE c == a + b - 1
    <3>1. c \in Nat
      OBVIOUS
    <3>2. c = b * (c \div b) + (c % b) /\ c % b \in 0 .. (b - 1) /\ c \div b \in Nat
      <4> HIDE DEF c
      <4> QED
        BY <3>1
    <3> DEFINE q == c \div b
               rest == c % b
    <3>3. a + b - 1 = b * q + rest /\ rest \in 0 .. (b - 1) /\ q \in Nat
      BY <3>2
    <3> HIDE DEF q, rest
    <3>4. b * q = q * b /\ b * q \in Nat
      BY <3>3
    <3>5. a <= q * b
      BY <3>3, <3>4
    <3>6. ASSUME NEW m \in Nat, a <= m * b PROVE q <= m
      <4>1. (m + 1) * b = m * b + 1 * b /\ m * b \in Nat /\ 1 * b = b /\ m + 1 \in Nat /\ q * b \in Nat
        BY <3>3
      <4>2. q * b + 0 < (m + 1) * b
        BY <3>3, <3>4, <3>6, <4>1
      <4>3. q < m + 1
        <5>1. ASSUME q >= m + 1 PROVE q * b >= (m + 1) * b
          BY <3>3, <5>1
        <5> QED
          BY <3>3, <4>1, <4>2, <5>1
      <4> QED
        BY <3>3, <4>3
    <3> QED
      BY <3>3, <3>5, <3>6 DEF q
  <2> HIDE DEF last
  <2> QED
    BY <1>3, <2>1, WordAssumption DEF BytesOf
<1>5. RecordBytes(table) = IF BytesOf(last) + spare = 0 /\ RowsOf(table) > 0 THEN 1 ELSE BytesOf(last) + spare
  <2>1. n \in DOMAIN table
    BY <1>1
  <2> QED
    BY <1>2, <2>1 DEF RecordBytes, Spare
<1> HIDE DEF last, spare
<1>6. last <= RecordBytes(table) * ByteBits /\ RecordBytes(table) \in Nat
  <2>1. CASE BytesOf(last) + spare = 0 /\ RowsOf(table) > 0
    <3>1. last = 0 /\ RecordBytes(table) = 1
      <4>1. BytesOf(last) = 0
        BY <1>1, <1>4, <2>1
      <4> QED
        BY <1>3, <1>4, <1>5, <2>1, <4>1, WordAssumption
    <3> QED
      BY <3>1, WordAssumption
  <2>2. CASE ~(BytesOf(last) + spare = 0 /\ RowsOf(table) > 0)
    <3>1. (BytesOf(last) + spare) * ByteBits = BytesOf(last) * ByteBits + spare * ByteBits
          /\ BytesOf(last) * ByteBits \in Nat /\ spare * ByteBits \in Nat
      BY <1>1, <1>4, WordAssumption
    <3> QED
      BY <1>1, <1>3, <1>4, <1>5, <2>2, <3>1
  <2> QED
    BY <2>1, <2>2
<1>7. RowsOf(table) > 0 => RecordBytes(table) > 0
  BY <1>1, <1>4, <1>5
<1>9. ASSUME NEW m \in Nat \ {0}, Ends(FieldOf(table, n)) <= m * ByteBits
      PROVE  RecordBytes(table) - spare <= m
  <2>1. BytesOf(last) <= m
    <3>1. n \in DOMAIN table
      BY <1>1
    <3> QED
      BY <1>2, <1>4, <1>9, <3>1 DEF last
  <2> QED
    BY <1>1, <1>4, <1>5, <2>1
<1>8. ASSUME NEW i \in DOMAIN table PROVE Ends(FieldOf(table, i)) <= RecordBytes(table) * ByteBits
  <2>1. Ends(FieldOf(table, i)) <= last /\ Ends(FieldOf(table, i)) \in Nat
    BY <1>2, <1>3, OffsetsIncrease, WordSize
  <2>2. RecordBytes(table) * ByteBits \in Nat
    BY <1>6, WordAssumption
  <2> QED
    BY <1>3, <1>6, <2>1, <2>2
<1> QED
  BY <1>1, <1>6, <1>7, <1>8, <1>9 DEF spare

\* The numbers of a set, the smallest first.
Enumerates(s, T) ==
  /\ s \in [1 .. Cardinality(T) -> T]
  /\ \A j, k \in DOMAIN s : j < k => s[j] < s[k]
  /\ \A t \in T : \E k \in DOMAIN s : s[k] = t

LEMMA Enumeration ==
  ASSUME NEW n \in Nat, NEW T \in SUBSET (1 .. n)
  PROVE  Cardinality(T) \in Nat /\ \E s : Enumerates(s, T)
<1> DEFINE Has(U) == IsFiniteSet(U) /\ Cardinality(U) \in Nat /\ \E s : Enumerates(s, U)
           Good == {m \in Nat : \A U \in SUBSET (1 .. m) : Has(U)}
<1>1. 0 \in Good
  <2> SUFFICES ASSUME NEW U \in SUBSET (1 .. 0) PROVE Has(U)
    OBVIOUS
  <2>1. U = {}
    OBVIOUS
  <2>2. IsFiniteSet(U) /\ Cardinality(U) = 0
    BY <2>1, FS_EmptySet
  <2> DEFINE s == [k \in 1 .. 0 |-> 0]
  <2>3. Enumerates(s, U)
    BY <2>1, <2>2 DEF Enumerates
  <2> HIDE DEF s
  <2> QED
    BY <2>2, <2>3
<1>2. ASSUME NEW m \in Nat, m \in Good PROVE m + 1 \in Good
  <2> SUFFICES ASSUME NEW U \in SUBSET (1 .. (m + 1)) PROVE Has(U)
    OBVIOUS
  <2> DEFINE V == U \ {m + 1}
             c == Cardinality(V)
  <2>1. V \in SUBSET (1 .. m)
    OBVIOUS
  <2>2. Has(V)
    <3> HIDE DEF V, Has
    <3> QED
      BY <1>2, <2>1
  <2>3. CASE m + 1 \notin U
    <3>1. U = V
      BY <2>3
    <3> HIDE DEF V
    <3> QED
      BY <2>2, <3>1
  <2>4. CASE m + 1 \in U
    <3>1. U = V \cup {m + 1} /\ m + 1 \notin V
      BY <2>4
    <3>2. PICK r : Enumerates(r, V)
      BY <2>2
    <3>3. c \in Nat /\ IsFiniteSet(V)
      BY <2>2
    <3> HIDE DEF V
    <3>4. IsFiniteSet(U) /\ Cardinality(U) = c + 1
      BY <3>1, <3>3, FS_AddElement
    <3>5. /\ r \in [1 .. c -> V] /\ DOMAIN r = 1 .. c
          /\ \A j, k \in 1 .. c : j < k => r[j] < r[k]
          /\ \A t \in V : \E k \in 1 .. c : r[k] = t
      BY <3>2 DEF Enumerates
    <3> HIDE DEF c
    <3> DEFINE s == [k \in 1 .. (c + 1) |-> IF k = c + 1 THEN m + 1 ELSE r[k]]
    <3>6. s \in [1 .. (c + 1) -> U]
      BY <3>1, <3>3, <3>5
    <3>7. ASSUME NEW j \in 1 .. (c + 1), NEW k \in 1 .. (c + 1), j < k PROVE s[j] < s[k]
      <4>1. j \in 1 .. c /\ j # c + 1 /\ s[j] = r[j]
        BY <3>3, <3>7
      <4>2. r[j] \in V
        BY <3>5, <4>1
      <4>3. r[j] \in 1 .. m
        BY <2>1, <4>2
      <4>4. CASE k = c + 1
        BY <3>3, <4>1, <4>3, <4>4
      <4>5. CASE k # c + 1
        <5>1. k \in 1 .. c /\ s[k] = r[k]
          BY <3>3, <4>5
        <5> QED
          BY <3>5, <3>7, <4>1, <5>1
      <4> QED
        BY <4>4, <4>5
    <3>8. ASSUME NEW t \in U PROVE \E k \in 1 .. (c + 1) : s[k] = t
      <4>1. CASE t = m + 1
        <5>1. c + 1 \in 1 .. (c + 1)
          BY <3>3
        <5> QED
          BY <4>1, <5>1
      <4>2. CASE t \in V
        <5>1. PICK k \in 1 .. c : r[k] = t
          BY <3>5, <4>2
        <5>2. k \in 1 .. (c + 1) /\ k # c + 1
          BY <3>3
        <5> QED
          BY <5>1, <5>2
      <4> QED
        BY <3>1, <4>1, <4>2
    <3>9. Enumerates(s, U)
      <4>1. DOMAIN s = 1 .. (c + 1)
        OBVIOUS
      <4> HIDE DEF s
      <4> QED
        BY <3>4, <3>6, <3>7, <3>8, <4>1 DEF Enumerates
    <3> HIDE DEF s
    <3> QED
      BY <3>3, <3>4, <3>9
  <2> QED
    BY <2>3, <2>4
<1>3. Nat \subseteq Good
  <2> HIDE DEF Good
  <2> QED
    BY <1>1, <1>2, AllNumbers
<1>4. Has(T)
  <2> HIDE DEF Has
  <2> QED
    BY <1>3
<1> QED
  BY <1>4

\* What the encoder writes of a table.
LEMMA UnitsTyped ==
  ASSUME NEW table, TableTyped(table)
  PROVE  \E X : \A i \in 1 .. Len(table) : SymbolUnits(table[i]) \in Seq(X)
<1> DEFINE X == UNION {Range(SymbolUnits(table[i])) : i \in 1 .. Len(table)}
<1>1. ASSUME NEW i \in 1 .. Len(table) PROVE SymbolUnits(table[i]) \in Seq(X)
  <2> DEFINE symbolSeq == table[i].symbols
             units == SymbolUnits(table[i])
  <2>1. symbolSeq \in Seq(Symbols)
    <3>1. i \in DOMAIN table
      BY DEF TableTyped
    <3>2. table[i] \in LayoutFields
      BY <3>1 DEF TableTyped, FieldTyped
    <3> QED
      BY <3>2 DEF LayoutFields
  <2>2. units = Joined(Encoded(symbolSeq), Len(symbolSeq))
    BY DEF SymbolUnits, Encoded
  <2>3. PICK Y : \A k \in 1 .. Len(symbolSeq) : Encoded(symbolSeq)[k] \in Seq(Y)
    BY <2>1, EncodedParts
  <2>4. units \in Seq(Y)
    <3> DEFINE n == Len(symbolSeq)
               parts == Encoded(symbolSeq)
    <3>1. n \in Nat /\ n \in 0 .. n
      BY <2>1
    <3>2. \A k \in 1 .. n : parts[k] \in Seq(Y)
      BY <2>3
    <3> HIDE DEF n, parts
    <3>3. Joined(parts, n) \in Seq(Y)
      BY <3>1, <3>2, JoinedAppends
    <3> QED
      BY <2>2, <3>3 DEF n, parts
  <2> HIDE DEF units
  <2>5. units \in [1 .. Len(units) -> Y] /\ Len(units) \in Nat
    BY <2>4
  <2>6. Range(units) \subseteq X
    BY DEF units
  <2> HIDE DEF X
  <2>7. \A k \in 1 .. Len(units) : units[k] \in X
    BY <2>5, <2>6 DEF Range
  <2>8. units \in [1 .. Len(units) -> X]
    BY <2>5, <2>7
  <2>9. units \in Seq(X)
    BY <2>5, <2>8
  <2> QED
    BY <2>9 DEF units
<1> HIDE DEF X
<1> QED
  BY <1>1

LEMMA UnitsAreSequences ==
  ASSUME NEW table, TableTyped(table), NEW i \in DOMAIN table
  PROVE  Len(SymbolUnits(table[i])) \in Nat /\ Len(table[i].symbols) \in Nat
<1>1. i \in 1 .. Len(table)
  BY DEF TableTyped
<1>2. PICK X : SymbolUnits(table[i]) \in Seq(X)
  BY <1>1, UnitsTyped
<1>3. table[i] \in LayoutFields
  BY DEF TableTyped, FieldTyped
<1>4. table[i].symbols \in Seq(Symbols)
  BY <1>3 DEF LayoutFields
<1> QED
  BY <1>2, <1>4

\* Validate accepts what Build wrote.
THEOREM BuiltIsValid ==
  ASSUME NEW table, TableTyped(table)
  PROVE  Validate(Build(table).header)
<1> DEFINE n == Len(table)
           h == Build(table).header
           O == Occupied(h)
<1>1. n \in Nat \ {0} /\ DOMAIN table = 1 .. n
  BY DEF TableTyped
<1>2. /\ h.fields = [i \in DOMAIN table |-> FieldOf(table, i)]
      /\ h.recordBytes = RecordBytes(table) /\ h.records = RowsOf(table)
  BY DEF Build
<1> HIDE DEF h
<1>3. /\ RecordBytes(table) \in Nat /\ RowsOf(table) \in Nat
      /\ RowsOf(table) > 0 => RecordBytes(table) > 0
      /\ \A i \in DOMAIN table : Ends(FieldOf(table, i)) <= RecordBytes(table) * ByteBits
  BY RecordHasRoom
<1>4. \A i \in DOMAIN table : Offset(table, i) \in Nat /\ Width(table[i]) \in 0 .. WordBits
  BY OffsetsIncrease
<1>5. DOMAIN h.fields = 1 .. n /\ \A i \in 1 .. n : h.fields[i] = FieldOf(table, i)
  BY <1>1, <1>2
<1>9. ASSUME NEW i \in 1 .. n
      PROVE  /\ h.fields[i].offset = Offset(table, i) /\ h.fields[i].width = Width(table[i])
             /\ Ends(h.fields[i]) = Offset(table, i) + Width(table[i])
             /\ Offset(table, i) \in Nat /\ Width(table[i]) \in Nat
  <2>1. h.fields[i] = FieldOf(table, i)
    BY <1>5
  <2>2. Offset(table, i) \in Nat /\ Width(table[i]) \in 0 .. WordBits
    BY <1>1, <1>4
  <2> QED
    BY <2>1, <2>2, WordSize DEF Ends, FieldOf
<1>6. h.fields # <<>>
  <2>1. 1 \in DOMAIN h.fields
    BY <1>1, <1>5
  <2> QED
    BY <2>1
<1>7. ASSUME NEW i \in 1 .. n PROVE FieldValid(h, FieldOf(table, i))
  <2>1. Len(table[i].symbols) \in Nat
    BY <1>1, UnitsAreSequences
  <2>2. Len(SymbolUnits(table[i])) \in Nat
    BY <1>1, UnitsAreSequences
  <2>3. Offset(table, i) \in Nat /\ Width(table[i]) \in 0 .. WordBits
    BY <1>1, <1>4
  <2>4. Ends(FieldOf(table, i)) <= RecordBytes(table) * ByteBits
    BY <1>1, <1>3
  <2> QED
    BY <1>2, <2>1, <2>2, <2>3, <2>4, WordSize DEF FieldValid, FieldOf
<1>8. CheckBitRanges(h)
  <2>1. O \in SUBSET (1 .. n)
    BY <1>5 DEF Occupied
  <2>2. PICK s : Enumerates(s, O)
    <3> HIDE DEF O
    <3> QED
      BY <1>1, <2>1, Enumeration
  <2>3. Cardinality(O) \in Nat
    <3> HIDE DEF O
    <3> QED
      BY <1>1, <2>1, Enumeration
  <2> DEFINE c == Cardinality(O)
  <2>4. /\ s \in [1 .. c -> O] /\ DOMAIN s = 1 .. c
        /\ \A j, k \in 1 .. c : j < k => s[j] < s[k]
        /\ \A t \in O : \E k \in 1 .. c : s[k] = t
    <3> HIDE DEF O
    <3> QED
      BY <2>2 DEF Enumerates
  <2>5. \A k \in 1 .. c : s[k] \in 1 .. n
    BY <2>1, <2>4
  <2>6. c \in Nat
    BY <2>3
  <2> HIDE DEF c
  <2>7. s \in Bijection(1 .. c, O)
    <3>1. ASSUME NEW j \in 1 .. c, NEW k \in 1 .. c, s[j] = s[k] PROVE j = k
      <4>1. ~(j < k) /\ ~(k < j)
        BY <2>1, <2>4, <2>5, <3>1
      <4> QED
        BY <2>6, <4>1
    <3> HIDE DEF O
    <3> QED
      BY <2>4, <3>1 DEF Bijection, Injection, Surjection, IsInjective
  <2>8. ASSUME NEW j \in 1 .. c, NEW k \in 1 .. c, j < k
        PROVE  Ends(h.fields[s[j]]) <= h.fields[s[k]].offset
    <3>1. s[j] \in 1 .. n /\ s[k] \in 1 .. n /\ s[j] < s[k]
      BY <2>4, <2>5, <2>8
    <3>2. Offset(table, s[j]) + Width(table[s[j]]) <= Offset(table, s[k])
      BY <1>1, <3>1, OffsetsIncrease
    <3> QED
      BY <1>9, <3>1, <3>2
  <2>9. \A k \in 1 .. c : /\ h.fields[s[k]].offset \in Nat /\ h.fields[s[k]].width \in Nat
                          /\ h.fields[s[k]].offset <= Ends(h.fields[s[k]])
    <3> TAKE k \in 1 .. c
    <3> DEFINE i == s[k]
    <3>1. i \in 1 .. n
      BY <2>5
    <3> HIDE DEF i
    <3>2. /\ h.fields[i].offset = Offset(table, i) /\ h.fields[i].width = Width(table[i])
          /\ Ends(h.fields[i]) = Offset(table, i) + Width(table[i])
          /\ Offset(table, i) \in Nat /\ Width(table[i]) \in Nat
      BY <1>9, <3>1
    <3>3. /\ h.fields[i].offset \in Nat /\ h.fields[i].width \in Nat
          /\ h.fields[i].offset <= Ends(h.fields[i])
      BY <3>2
    <3> QED
      BY <3>3 DEF i
  <2>10. InOrder(h, s)
    <3> SUFFICES ASSUME NEW j \in 1 .. c, NEW k \in 1 .. c, j < k
                 PROVE  h.fields[s[j]].offset <= h.fields[s[k]].offset
      BY <2>4 DEF InOrder
    <3> QED
      BY <2>8, <2>9 DEF Ends
  <2>11. ASSUME NEW k \in DOMAIN s \ {1} PROVE h.fields[s[k]].offset >= Ends(h.fields[s[k - 1]])
    <3>1. k \in 1 .. c /\ k - 1 \in 1 .. c /\ k - 1 < k
      BY <2>4, <2>6
    <3>2. Ends(h.fields[s[k - 1]]) <= h.fields[s[k]].offset
      BY <2>8, <3>1
    <3>3. h.fields[s[k]].offset \in Nat /\ Ends(h.fields[s[k - 1]]) \in Int
      BY <2>9, <3>1 DEF Ends
    <3> QED
      BY <3>2, <3>3
  <2> QED
    BY <2>7, <2>10, <2>11 DEF CheckBitRanges, c
<1>10. \A i \in DOMAIN h.fields : FieldValid(h, h.fields[i])
  BY <1>5, <1>7
<1>11. h.records >= 0 /\ (h.records > 0 => h.recordBytes > 0)
  BY <1>2, <1>3
<1> QED
  BY <1>6, <1>8, <1>10, <1>11 DEF Validate, h

-----------------------------------------------------------------------------
(* Reading a record.                                                       *)

LEMMA Divides ==
  ASSUME NEW b \in Nat \ {0}, NEW a \in Nat
  PROVE  a \div b \in Nat /\ a % b \in 0 .. (b - 1) /\ a = (a \div b) * b + (a % b)
<1>1. a \div b \in Nat /\ a % b \in 0 .. (b - 1) /\ a = b * (a \div b) + (a % b)
  OBVIOUS
<1> DEFINE q == a \div b
           r == a % b
<1>2. q \in Nat /\ a = b * q + r
  BY <1>1
<1> HIDE DEF q, r
<1>3. b * q = q * b
  BY <1>2
<1> QED
  BY <1>1, <1>2, <1>3 DEF q, r

LEMMA Divided ==
  ASSUME NEW b \in Nat \ {0}, NEW q \in Nat, NEW r \in 0 .. (b - 1)
  PROVE  (q * b + r) \div b = q /\ (q * b + r) % b = r /\ q * b \in Nat
<1>1. (b * q + r) \div b = q /\ (b * q + r) % b = r /\ b * q \in Nat
  OBVIOUS
<1>2. b * q = q * b
  OBVIOUS
<1> QED
  BY <1>1, <1>2

LEMMA Rows ==
  ASSUME NEW b \in Nat \ {0}, NEW x \in Nat, NEW y \in Nat
  PROVE  /\ (x + y) * b = x * b + y * b /\ x * b \in Nat
         /\ \A m \in Nat : x * b + m < y * b => x < y
<1>1. (x + y) * b = x * b + y * b /\ x * b \in Nat
  OBVIOUS
<1>2. ASSUME x >= y PROVE x * b >= y * b
  BY <1>2
<1>3. y * b \in Nat
  OBVIOUS
<1> QED
  BY <1>1, <1>2, <1>3

\* The bytes that hold the bits of a record.
BytesHold(raw, size, bit) ==
  raw = [n \in 0 .. (size - 1) |-> [k \in 0 .. (ByteBits - 1) |-> bit[n * ByteBits + k]]]

\* readBitsLE returns the bits of the range, wherever it begins in a byte and wherever
\* the record ends behind it.
LEMMA BitsAreRead ==
  ASSUME NEW size \in Nat, NEW bit, NEW raw, BytesHold(raw, size, bit),
         NEW offset \in Nat, NEW width \in 0 .. WordBits, offset + width <= size * ByteBits,
         \A p \in offset .. (offset + width - 1) : bit[p] \in {0, 1},
         NEW k \in 0 .. (WordBits - 1)
  PROVE  ReadBitsLE(raw, offset, width)[k] = IF k < width THEN bit[offset + k] ELSE 0
<1> DEFINE B == ByteBits
           at == offset \div B
           shift == offset % B
           low == IF k + shift < WordBits THEN WordAt(raw, at)[k + shift] ELSE 0
           high == IF k + shift >= WordBits /\ at + WordBytes \in DOMAIN raw
                     THEN raw[at + WordBytes][k + shift - WordBits] ELSE 0
<1>1. ReadBitsLE(raw, offset, width)[k]
        = IF k >= width THEN 0 ELSE IF low = 1 THEN 1 ELSE high
  BY DEF ReadBitsLE
<1>2. B \in Nat \ {0} /\ WordBytes \in Nat \ {0} /\ WordBits = WordBytes * B /\ WordBits \in Nat \ {0}
  <2>1. \A a, b \in Nat : a * b = b * a
    OBVIOUS
  <2> QED
    BY <2>1, WordAssumption, WordSize DEF WordBits
<1>3. at \in Nat /\ shift \in 0 .. (B - 1) /\ offset = at * B + shift
  BY <1>2, Divides
<1>4. DOMAIN raw = 0 .. (size - 1)
  BY DEF BytesHold
<1>5. ASSUME NEW n \in 0 .. (size - 1), NEW m \in 0 .. (B - 1)
      PROVE  raw[n][m] = bit[n * B + m]
  BY DEF BytesHold
<1> HIDE DEF at, shift, B
<1>6. CASE k < width
  <2>0. k \in Nat /\ bit[offset + k] \in {0, 1} /\ offset + k < size * B
    BY <1>2, <1>6 DEF B
  <2>1. CASE k + shift < WordBits
    <3> DEFINE q == (k + shift) \div B
               m == (k + shift) % B
    <3>1. k + shift \in 0 .. (WordBits - 1) /\ k + shift \in Nat
      BY <1>2, <1>3, <2>0, <2>1
    <3>2. q \in Nat /\ m \in 0 .. (B - 1) /\ k + shift = q * B + m
      BY <1>2, <3>1, Divides
    <3> HIDE DEF q, m
    <3>3. (at + q) * B + m = offset + k
      <4>1. (at + q) * B = at * B + q * B /\ at * B \in Nat /\ q * B \in Nat
        BY <1>2, <1>3, <3>2, Rows
      <4> QED
        BY <1>2, <1>3, <2>0, <3>2, <4>1
    <3>4. at + q \in 0 .. (size - 1)
      <4>1. at + q \in Nat /\ m \in Nat
        BY <1>2, <1>3, <3>2
      <4>2. at + q < size
        BY <1>2, <2>0, <3>3, <4>1, Rows
      <4> QED
        BY <4>1, <4>2
    <3>5. WordAt(raw, at)[k + shift] = raw[at + q][m]
      BY <1>4, <3>1, <3>4 DEF WordAt, q, m, B
    <3>6. low = bit[offset + k]
      BY <1>5, <2>1, <3>2, <3>3, <3>4, <3>5
    <3>7. high = 0
      BY <1>2, <1>3, <2>0, <2>1
    <3> HIDE DEF low, high
    <3> QED
      BY <1>1, <1>2, <1>6, <2>0, <3>6, <3>7
  <2>2. CASE ~(k + shift < WordBits)
    <3> DEFINE m == k + shift - WordBits
    <3>1. m \in 0 .. (B - 1)
      BY <1>2, <1>3, <2>0, <2>2
    <3>2. (at + WordBytes) * B + m = offset + k
      <4>1. (at + WordBytes) * B = at * B + WordBytes * B /\ at * B \in Nat
        BY <1>2, <1>3, Rows
      <4> QED
        BY <1>2, <1>3, <2>0, <4>1
    <3> HIDE DEF m
    <3>3. at + WordBytes \in 0 .. (size - 1)
      <4>1. at + WordBytes \in Nat /\ m \in Nat
        BY <1>2, <1>3, <3>1
      <4>2. at + WordBytes < size
        BY <1>2, <2>0, <3>2, <4>1, Rows
      <4> QED
        BY <4>1, <4>2
    <3>4. low = 0
      BY <2>2
    <3>5. high = bit[offset + k]
      <4>1. k + shift >= WordBits
        BY <1>2, <1>3, <2>0, <2>2
      <4>2. raw[at + WordBytes][m] = bit[offset + k]
        BY <1>5, <3>1, <3>2, <3>3
      <4> QED
        BY <1>4, <3>3, <4>1, <4>2 DEF m
    <3> HIDE DEF low, high
    <3> QED
      BY <1>1, <1>2, <1>6, <2>0, <3>4, <3>5
  <2> QED
    BY <2>1, <2>2
<1>7. CASE ~(k < width)
  <2>1. k >= width
    BY <1>2, <1>7
  <2> HIDE DEF low, high
  <2> QED
    BY <1>1, <1>7, <2>1
<1> QED
  BY <1>6, <1>7

\* The bits of a field are those of what is stored for the row, and no other field's.
FieldsOf(table) == [i \in DOMAIN table |-> FieldOf(table, i)]

LEMMA BitsAreWritten ==
  ASSUME NEW table, TableTyped(table), NEW i \in DOMAIN table, NEW r \in 1 .. RowsOf(table),
         NEW k \in 0 .. (Width(table[i]) - 1)
  PROVE  /\ BitAt(table, FieldsOf(table), r, Offset(table, i) + k) = BitOf(Stored(table[i], r), k)
         /\ BitOf(Stored(table[i], r), k) \in {0, 1}
<1> DEFINE p == Offset(table, i) + k
<1>1. \A j \in DOMAIN table : /\ Offset(table, j) \in Nat /\ Width(table[j]) \in Nat
                              /\ FieldsOf(table)[j].offset = Offset(table, j)
                              /\ FieldsOf(table)[j].width = Width(table[j])
  <2> TAKE j \in DOMAIN table
  <2>1. Offset(table, j) \in Nat /\ Width(table[j]) \in 0 .. WordBits
    BY OffsetsIncrease
  <2> QED
    BY <2>1, WordSize DEF FieldsOf, FieldOf
<1>2. ASSUME NEW j \in DOMAIN table, p - Offset(table, j) \in 0 .. (Width(table[j]) - 1)
      PROVE  j = i
  <2>1. DOMAIN table \subseteq Nat
    BY DEF TableTyped
  <2>2. CASE i < j
    <3>1. Offset(table, i) + Width(table[i]) <= Offset(table, j)
      BY <2>2, OffsetsIncrease
    <3> QED
      BY <1>1, <1>2, <3>1
  <2>3. CASE j < i
    <3>1. Offset(table, j) + Width(table[j]) <= Offset(table, i)
      BY <2>3, OffsetsIncrease
    <3> QED
      BY <1>1, <1>2, <3>1
  <2> QED
    BY <2>1, <2>2, <2>3
<1>3. p - Offset(table, i) = k
  BY <1>1
<1>4. BitOf(Stored(table[i], r), k) \in {0, 1}
  <2>1. FieldTyped(table[i]) /\ r \in DOMAIN table[i].rows
    <3>1. FieldTyped(table[i]) /\ Len(table[i].rows) = RowsOf(table)
      BY DEF TableTyped
    <3>2. table[i].rows \in Seq(Int)
      BY <3>1 DEF FieldTyped, LayoutFields
    <3> QED
      BY <3>1, <3>2
  <2>2. Stored(table[i], r) \in Nat /\ k \in 0 .. WordBits
    <3>1. Width(table[i]) \in 0 .. WordBits
      BY <2>1, WidthIsNumber
    <3> QED
      BY <2>1, <3>1, StoredFits, WordSize
  <2>3. Shifted(Stored(table[i], r))[k] \in Nat
    BY <2>2, ShiftedHalves
  <2>4. \A a \in Nat : a % 2 \in {0, 1}
    OBVIOUS
  <2> QED
    BY <2>3, <2>4 DEF BitOf
<1>5. (\E j \in DOMAIN table :
         /\ p - FieldsOf(table)[j].offset \in 0 .. (FieldsOf(table)[j].width - 1)
         /\ BitOf(Stored(table[j], r), p - FieldsOf(table)[j].offset) = 1)
      <=> BitOf(Stored(table[i], r), k) = 1
  <2> HIDE DEF p
  <2>1. ASSUME NEW j \in DOMAIN table,
               p - FieldsOf(table)[j].offset \in 0 .. (FieldsOf(table)[j].width - 1),
               BitOf(Stored(table[j], r), p - FieldsOf(table)[j].offset) = 1
        PROVE  BitOf(Stored(table[i], r), k) = 1
    <3>1. j = i
      BY <1>1, <1>2, <2>1
    <3> QED
      BY <1>1, <1>3, <2>1, <3>1
  <2>2. ASSUME BitOf(Stored(table[i], r), k) = 1
        PROVE  /\ p - FieldsOf(table)[i].offset \in 0 .. (FieldsOf(table)[i].width - 1)
               /\ BitOf(Stored(table[i], r), p - FieldsOf(table)[i].offset) = 1
    BY <1>1, <1>3, <2>2
  <2> QED
    BY <2>1, <2>2
<1> HIDE DEF p
<1>6. BitAt(table, FieldsOf(table), r, p) = IF BitOf(Stored(table[i], r), k) = 1 THEN 1 ELSE 0
  BY <1>5 DEF BitAt
<1> QED
  BY <1>4, <1>6 DEF p

\* The bits of a row of a table.
RowBits(table, r) ==
  [p \in 0 .. (RecordBytes(table) * ByteBits - 1) |-> BitAt(table, FieldsOf(table), r, p)]

\* The record of a row is the row's slice of the bytes that Build wrote.
LEMMA RecordIsBuilt ==
  ASSUME NEW table, TableTyped(table), NEW r \in 1 .. RowsOf(table),
         NEW f, f.bytes = Build(table).bytes, f.header.recordBytes = RecordBytes(table),
         RecordStart(f) = 0
  PROVE  BytesHold(RecordOf(f, r), RecordBytes(table), RowBits(table, r))
<1> DEFINE size == RecordBytes(table)
           rowsOf == RowsOf(table)
           byte(n) == [k \in 0 .. (ByteBits - 1) |->
                         BitAt(table, FieldsOf(table), n \div size + 1, (n % size) * ByteBits + k)]
<1>1. size \in Nat /\ rowsOf \in Nat
  BY RecordHasRoom
<1>2. f.bytes = [n \in 0 .. (rowsOf * size - 1) |-> byte(n)]
  BY DEF Build, FieldsOf
<1>3. RecordOf(f, r) = [n \in 0 .. (size - 1) |-> f.bytes[(r - 1) * size + n]]
  <2>1. ASSUME NEW n \in 0 .. (size - 1)
        PROVE  ByteAt(f, (r - 1) * size + n) = f.bytes[(r - 1) * size + n]
    <3>1. size \in Nat \ {0} /\ r - 1 \in Nat /\ n \in Nat
      BY <1>1
    <3> HIDE DEF size
    <3>2. (r - 1) * size \in Nat
      BY <3>1, Rows
    <3> QED
      BY <3>1, <3>2 DEF ByteAt
  <2>2. 0 + (r - 1) * size = (r - 1) * size
    <3> HIDE DEF size
    <3>1. size \in Nat /\ r - 1 \in Nat
      BY <1>1
    <3>2. (r - 1) * size \in Nat
      BY <3>1
    <3> QED
      BY <3>2
  <2>3. RecordOf(f, r) = [n \in 0 .. (size - 1) |-> ByteAt(f, (r - 1) * size + n)]
    <3> HIDE DEF size
    <3> QED
      BY <2>2 DEF RecordOf, size
  <2> HIDE DEF size
  <2> QED
    BY <2>1, <2>3
<1> HIDE DEF size, rowsOf
<1>4. ASSUME NEW n \in 0 .. (size - 1)
      PROVE  f.bytes[(r - 1) * size + n]
               = [k \in 0 .. (ByteBits - 1) |-> RowBits(table, r)[n * ByteBits + k]]
  <2> DEFINE a == (r - 1) * size + n
  <2>1. size \in Nat \ {0} /\ r - 1 \in Nat /\ r \in Nat /\ r <= rowsOf /\ n \in Nat
    BY <1>1 DEF rowsOf
  <2>2. a \div size = r - 1 /\ a % size = n /\ (r - 1) * size \in Nat
    BY <2>1, Divided
  <2>3. a \in 0 .. (rowsOf * size - 1)
    <3>1. ((r - 1) + 1) * size = (r - 1) * size + 1 * size /\ 1 * size = size /\ (r - 1) + 1 = r
      BY <2>1, Rows
    <3>2. r * size <= rowsOf * size /\ rowsOf * size \in Nat /\ r * size \in Nat
      <4>1. (r + (rowsOf - r)) * size = r * size + (rowsOf - r) * size
            /\ r * size \in Nat /\ (rowsOf - r) * size \in Nat /\ r + (rowsOf - r) = rowsOf
        <5>1. rowsOf - r \in Nat
          BY <1>1, <2>1
        <5> QED
          BY <1>1, <2>1, <5>1, Rows
      <4> QED
        BY <1>1, <2>1, <4>1
    <3> QED
      BY <1>1, <2>1, <2>2, <3>1, <3>2
  <2>4. f.bytes[a] = byte(a)
    BY <1>2, <2>3
  <2>5. (r - 1) + 1 = r
    BY <2>1
  <2>6. byte(a) = [k \in 0 .. (ByteBits - 1) |-> BitAt(table, FieldsOf(table), r, n * ByteBits + k)]
    <3> HIDE DEF a
    <3> QED
      BY <2>2, <2>5
  <2>7. ASSUME NEW k \in 0 .. (ByteBits - 1)
        PROVE  RowBits(table, r)[n * ByteBits + k] = BitAt(table, FieldsOf(table), r, n * ByteBits + k)
    <3>1. n * ByteBits + k \in 0 .. (size * ByteBits - 1)
      <4>1. (n + (size - n - 1) + 1) * ByteBits
              = n * ByteBits + (size - n - 1) * ByteBits + ByteBits
            /\ n * ByteBits \in Nat /\ (size - n - 1) * ByteBits \in Nat
        <5>1. size - n - 1 \in Nat /\ 1 * ByteBits = ByteBits /\ 1 \in Nat /\ n + (size - n - 1) \in Nat
          BY <1>1, <2>1, WordAssumption
        <5>2. (n + (size - n - 1) + 1) * ByteBits = (n + (size - n - 1)) * ByteBits + 1 * ByteBits
          BY <5>1, WordAssumption, Rows
        <5>3. (n + (size - n - 1)) * ByteBits = n * ByteBits + (size - n - 1) * ByteBits
              /\ n * ByteBits \in Nat /\ (size - n - 1) * ByteBits \in Nat
          BY <2>1, <5>1, WordAssumption, Rows
        <5> QED
          BY <5>1, <5>2, <5>3
      <4>2. n + (size - n - 1) + 1 = size
        BY <1>1, <2>1
      <4> QED
        BY <1>1, <4>1, <4>2, WordAssumption
    <3> QED
      BY <3>1 DEF RowBits, size
  <2> QED
    BY <2>4, <2>6, <2>7
<1> QED
  BY <1>3, <1>4 DEF BytesHold, size

\* Every index is read back, whatever the count of symbols; nulls are negative.
THEOREM IndexIsRead ==
  ASSUME NEW table, TableTyped(table), NEW i \in DOMAIN table, NEW r \in 1 .. RowsOf(table),
         NEW raw, BytesHold(raw, RecordBytes(table), RowBits(table, r)),
         NEW f, f.offset = Offset(table, i), f.width = Width(table[i]), f.bias = Bias(table[i])
  PROVE  DecodeIndex(f, raw) = IF f.width = 0 /\ f.symbols = 0 THEN -1
                               ELSE IF table[i].rows[r] < 0 THEN -1 ELSE table[i].rows[r]
<1> DEFINE t == table[i]
           v == Stored(t, r)
           index == t.rows[r]
           half == TwoTo(WordBits - 1)
<1>1. FieldTyped(t) /\ r \in DOMAIN t.rows
  <2>1. FieldTyped(t) /\ Len(t.rows) = RowsOf(table)
    BY DEF TableTyped
  <2>2. t.rows \in Seq(Int)
    BY <2>1 DEF FieldTyped, LayoutFields
  <2> HIDE DEF t
  <2> QED
    BY <2>1, <2>2
<1>2. /\ v \in Nat /\ v <= Len(t.symbols)
      /\ v + Bias(t) = (IF index < 0 THEN -1 ELSE index)
      /\ \A k \in Width(t) .. WordBits : Shifted(v)[k] = 0
      /\ Width(t) = 0 => index = 0
  <2> HIDE DEF t
  <2> QED
    BY <1>1, StoredFits
<1>3. Width(t) \in 0 .. WordBits /\ Bias(t) \in {-1, 0}
  BY <1>1, WidthIsNumber
<1>4. index \in Int
  BY <1>1 DEF FieldTyped, LayoutFields
<1>5. ASSUME f.width # 0 PROVE DecodeIndex(f, raw) = IF index < 0 THEN -1 ELSE index
  <2>1. ASSUME NEW k \in 0 .. (WordBits - 1)
        PROVE  ReadBitsLE(raw, f.offset, f.width)[k] = BitOf(v, k)
    <3> DEFINE bit == RowBits(table, r)
               offset == Offset(table, i)
               width == Width(t)
    <3>1. offset \in Nat
      BY OffsetsIncrease
    <3>2. offset + width <= RecordBytes(table) * ByteBits /\ RecordBytes(table) \in Nat
          /\ RecordBytes(table) * ByteBits \in Nat
      <4>1. Ends(FieldOf(table, i)) = offset + width
        BY DEF Ends, FieldOf
      <4> QED
        BY <4>1, RecordHasRoom, Rows, WordAssumption
    <3>3. ASSUME NEW j \in 0 .. (width - 1) PROVE bit[offset + j] = BitOf(v, j) /\ BitOf(v, j) \in {0, 1}
      <4>1. offset + j \in 0 .. (RecordBytes(table) * ByteBits - 1)
        BY <1>3, <3>1, <3>2, WordSize
      <4>2. /\ BitAt(table, FieldsOf(table), r, offset + j) = BitOf(v, j)
            /\ BitOf(v, j) \in {0, 1}
        BY BitsAreWritten
      <4> HIDE DEF v, offset
      <4> QED
        BY <4>1, <4>2 DEF RowBits
    <3>4. \A p \in offset .. (offset + width - 1) : bit[p] \in {0, 1}
      <4> TAKE p \in offset .. (offset + width - 1)
      <4> DEFINE j == p - offset
      <4>1. j \in 0 .. (width - 1) /\ offset + j = p
        BY <1>3, <3>1, WordSize
      <4> HIDE DEF j, bit, v, offset, width
      <4> QED
        BY <3>3, <4>1
    <3>5. ReadBitsLE(raw, offset, width)[k] = IF k < width THEN bit[offset + k] ELSE 0
      <4> HIDE DEF bit, offset, width
      <4>1. width \in 0 .. WordBits /\ BytesHold(raw, RecordBytes(table), bit)
        BY <1>3 DEF width, bit
      <4> QED
        BY <3>1, <3>2, <3>4, <4>1, BitsAreRead
    <3>6. CASE k < width
      <4>1. k \in 0 .. (width - 1)
        BY <1>3, <3>6, WordSize
      <4> HIDE DEF bit, offset, width, v
      <4>2. f.offset = offset /\ f.width = width
        BY DEF offset, width
      <4> QED
        BY <3>3, <3>5, <3>6, <4>1, <4>2
    <3>7. CASE ~(k < width)
      <4>1. k \in width .. WordBits /\ k \in 0 .. WordBits
        BY <1>3, <3>7, WordSize
      <4>2. BitOf(v, k) = 0
        <5>1. Shifted(v)[k] = 0
          BY <1>2, <4>1
        <5> QED
          BY <5>1 DEF BitOf
      <4> HIDE DEF bit, offset, width, v
      <4>3. f.offset = offset /\ f.width = width
        BY DEF offset, width
      <4> QED
        BY <3>5, <3>7, <4>2, <4>3
    <3> QED
      BY <3>6, <3>7
  <2> HIDE DEF t, v, index, half
  <2>2. WordBits \in Width(t) .. WordBits
    BY <1>3, WordSize
  <2>3. Number(ReadBitsLE(raw, f.offset, f.width)) = v
    <3>1. Shifted(v)[WordBits] = 0
      BY <1>2, <2>2
    <3> QED
      BY <1>2, <2>1, <3>1, BitsMakeUp
  <2>4. v < half /\ half \in Nat \ {0}
    <3>1. Len(t.symbols) \in Nat /\ Shifted(Len(t.symbols))[WordBits - 1] = 0
      BY <1>1 DEF FieldTyped, LayoutFields
    <3>2. Shifted(v)[WordBits - 1] = 0
      BY <1>2, <3>1, SmallerFits
    <3>3. half \in Nat \ {0}
      <4>1. WordBits - 1 \in Nat /\ WordBits - 1 \in 0 .. (WordBits - 1)
        BY WordSize
      <4> QED
        BY <4>1, TwoToDoubles DEF half
    <3> QED
      BY <1>2, <3>2, <3>3, WithoutHighestBit DEF half
  <2>5. Signed(v) = v
    BY <1>2, <2>4, SignedKeeps DEF half
  <2>6. Signed(v + Bias(t)) = v + Bias(t)
    <3>1. v + Bias(t) \in Int /\ -half <= v + Bias(t) /\ v + Bias(t) < half
      BY <1>2, <1>3, <2>4
    <3> QED
      BY <3>1, SignedKeeps DEF half
  <2>7. f.bias = Bias(t)
    BY DEF t
  <2>8. DecodeIndex(f, raw) = IF v + Bias(t) < 0 THEN NullSymbol ELSE v + Bias(t)
    BY <1>5, <2>3, <2>5, <2>6, <2>7 DEF DecodeIndex
  <2> QED
    BY <1>2, <1>4, <2>8 DEF NullSymbol
<1>6. ASSUME f.width = 0 PROVE DecodeIndex(f, raw) = (IF f.symbols = 0 THEN -1 ELSE 0) /\ index = 0
  <2>1. Width(t) = 0
    BY <1>6
  <2> HIDE DEF t, v, index
  <2> QED
    BY <1>2, <1>6, <2>1 DEF DecodeIndex, NullSymbol
<1> HIDE DEF index
<1> QED
  BY <1>4, <1>5, <1>6 DEF index, t

-----------------------------------------------------------------------------
(* The file at the path, and what is wrong with it.                        *)

Parts(table) == [i \in DOMAIN table |-> SymbolUnits(table[i])]

\* What is called damage: a number of a field that there is is off, or another part.
DamageTyped(d, table) ==
  /\ d.by \in Int
  /\ \/ d.what \in {"none", "records", "recordBytes", "cut"}
     \/ d.what \in {"offset", "width", "bias", "symbols", "length", "tag"} /\ d.field \in DOMAIN table

\* The numbers of a field that are off.
Off(d, i) == d.field = i /\ d.what \in {"offset", "width", "bias"}
CountOff(d, i) == d.field = i /\ d.what = "symbols"
TagOff(d, i) == d.field = i /\ d.what = "tag"
LengthOff(d) == d.what = "length" /\ d.by # 0

\* What is added to the length of a table, and to the bytes of a record.
Longer(d, i) == IF d.what = "length" /\ d.field = i THEN d.by ELSE 0
Larger(d) == IF d.what = "recordBytes" THEN d.by ELSE 0

\* What damage leaves as it was.
HeaderKept(h, table, d) ==
  /\ DOMAIN h.fields = DOMAIN table /\ Len(h.fields) = Len(table)
  /\ h.recordBytes = RecordBytes(table) + Larger(d) /\ h.records \in Int
  /\ d.what # "records" => h.records = RowsOf(table)
  /\ \A i \in DOMAIN table :
       /\ h.fields[i].length = Len(SymbolUnits(table[i])) + Longer(d, i)
       /\ h.fields[i].symbols \in Int
       /\ ~Off(d, i) => /\ h.fields[i].offset = Offset(table, i)
                        /\ h.fields[i].width = Width(table[i])
                        /\ h.fields[i].bias = Bias(table[i])
       /\ ~CountOff(d, i) => h.fields[i].symbols = Len(table[i].symbols)

LEMMA HeaderIsKept ==
  ASSUME NEW table, TableTyped(table), NEW d, DamageTyped(d, table)
  PROVE  HeaderKept(Damaged(Build(table), d).header, table, d)
<1> DEFINE b == Build(table)
           h == b.header
           g == Damaged(b, d).header
<1>1. /\ h = [fields |-> [i \in DOMAIN table |-> FieldOf(table, i)],
              recordBytes |-> RecordBytes(table), records |-> RowsOf(table)]
      /\ b = [header |-> h, tables |-> b.tables, bytes |-> b.bytes]
  BY DEF Build
<1>2. /\ h.fields = [i \in DOMAIN table |-> FieldOf(table, i)]
      /\ h.recordBytes = RecordBytes(table) /\ h.records = RowsOf(table)
      /\ RowsOf(table) \in Int /\ RecordBytes(table) \in Int
  BY <1>1, RecordHasRoom
<1>3. \A i \in DOMAIN table : Len(table[i].symbols) \in Int /\ Len(SymbolUnits(table[i])) \in Int
  BY UnitsAreSequences
<1>7. ASSUME NEW s, DOMAIN s = DOMAIN table, s = [i \in DOMAIN s |-> s[i]] PROVE Len(s) = Len(table)
  <2> DEFINE n == Len(table)
             S == {s[i] : i \in 1 .. n}
  <2>1. n \in Nat /\ DOMAIN table = 1 .. n
    BY DEF TableTyped
  <2>2. s \in [1 .. n -> S]
    BY <1>7, <2>1
  <2> HIDE DEF n, S
  <2>3. s \in Seq(S)
    BY <2>1, <2>2
  <2>4. DOMAIN s = 1 .. n /\ DOMAIN s = 1 .. Len(s) /\ Len(s) \in Nat
    BY <1>7, <2>1, <2>3, LenProperties
  <2> QED
    BY <2>1, <2>4 DEF n
<1>8. h.fields = [i \in DOMAIN h.fields |-> h.fields[i]] /\ Len(h.fields) = Len(table)
  <2>1. h.fields = [i \in DOMAIN h.fields |-> h.fields[i]] /\ DOMAIN h.fields = DOMAIN table
    BY <1>2
  <2> QED
    BY <1>7, <2>1
<1> HIDE DEF b, h
<1>4. CASE d.what \in {"none", "cut", "tag"}
  <2>1. g = h
    <3>1. CASE d.what = "none"
      BY <1>1, <3>1 DEF Damaged, h
    <3>2. CASE d.what = "cut"
      <4>1. Damaged(b, d) = [b EXCEPT !.bytes = Restrict(@, 0 .. (Cardinality(DOMAIN @) - 2))]
        BY <3>2 DEF Damaged
      <4> HIDE DEF g
      <4> QED
        BY <1>1, <4>1 DEF g, h
    <3>3. CASE d.what = "tag"
      <4>1. h.fields[d.field].length \in Nat
        <5>1. d.field \in DOMAIN table
          BY <3>3 DEF DamageTyped
        <5>2. Len(SymbolUnits(table[d.field])) \in Nat
          BY <5>1, UnitsAreSequences
        <5> QED
          BY <1>2, <5>1, <5>2 DEF FieldOf
      <4>2. CASE h.fields[d.field].length = 0
        <5>1. Damaged(b, d) = b
          BY <3>3, <4>2 DEF Damaged, h
        <5> QED
          BY <5>1 DEF h
      <4>3. CASE h.fields[d.field].length > 0
        <5>1. Damaged(b, d) = [b EXCEPT !.tables[TableStart(b.header, d.field) + 1] = "07"]
          BY <3>3, <4>1, <4>3 DEF Damaged, h
        <5> HIDE DEF g
        <5> QED
          BY <1>1, <5>1 DEF g, h
      <4> QED
        BY <4>1, <4>2, <4>3
    <3> QED
      BY <1>4, <3>1, <3>2, <3>3
  <2>2. Larger(d) = 0 /\ \A i : Longer(d, i) = 0
    BY <1>4 DEF Larger, Longer
  <2> QED
    BY <1>2, <1>3, <1>8, <2>1, <2>2 DEF HeaderKept, FieldOf, b
<1>5. CASE d.what \in {"records", "recordBytes"}
  <2>1. Damaged(b, d) = [b EXCEPT !.header[d.what] = @ + d.by] /\ d.by \in Int
    BY <1>5 DEF Damaged, DamageTyped
  <2>2. g = [h EXCEPT ![d.what] = @ + d.by]
    <3> HIDE DEF g
    <3> QED
      BY <1>1, <2>1 DEF g, h
  <2>3. \A i : Longer(d, i) = 0
    BY <1>5 DEF Longer
  <2>4. CASE d.what = "records"
    <3>1. g.fields = h.fields /\ g.recordBytes = h.recordBytes /\ g.records = h.records + d.by
      BY <1>1, <2>2, <2>4
    <3>2. Larger(d) = 0
      BY <2>4 DEF Larger
    <3> QED
      BY <1>2, <1>3, <1>8, <2>1, <2>3, <2>4, <3>1, <3>2, SMTT(20) DEF HeaderKept, FieldOf, b
  <2>5. CASE d.what = "recordBytes"
    <3>1. g.fields = h.fields /\ g.recordBytes = h.recordBytes + d.by /\ g.records = h.records
      BY <1>1, <2>2, <2>5
    <3>2. Larger(d) = d.by
      BY <2>5 DEF Larger
    <3> QED
      BY <1>2, <1>3, <1>8, <2>1, <2>3, <2>5, <3>1, <3>2 DEF HeaderKept, FieldOf, b
  <2> QED
    BY <1>5, <2>4, <2>5
<1>6. CASE d.what \in {"offset", "width", "bias", "symbols", "length"}
  <2>1. d.field \in DOMAIN table /\ d.by \in Int
    BY <1>6 DEF DamageTyped
  <2>2. g = [h EXCEPT !.fields[d.field][d.what] = @ + d.by]
    BY <1>1, <1>6 DEF Damaged, h
  <2>3. /\ g.fields = [h.fields EXCEPT ![d.field][d.what] = @ + d.by]
        /\ g.recordBytes = h.recordBytes /\ g.records = h.records
    BY <1>1, <2>2
  <2>4. DOMAIN g.fields = DOMAIN table
        /\ g.fields[d.field] = [FieldOf(table, d.field) EXCEPT ![d.what] = @ + d.by]
        /\ \A i \in DOMAIN table : i # d.field => g.fields[i] = FieldOf(table, i)
    BY <1>2, <2>1, <2>3
  <2>8. Len(g.fields) = Len(table)
    <3>1. g.fields = [i \in DOMAIN g.fields |-> g.fields[i]]
      BY <1>8, <2>3
    <3> HIDE DEF g
    <3> QED
      BY <1>7, <2>4, <3>1
  <2>5. ASSUME NEW i \in DOMAIN table
        PROVE  /\ g.fields[i].length = Len(SymbolUnits(table[i])) + Longer(d, i)
               /\ g.fields[i].symbols \in Int
               /\ ~Off(d, i) => /\ g.fields[i].offset = Offset(table, i)
                                /\ g.fields[i].width = Width(table[i])
                                /\ g.fields[i].bias = Bias(table[i])
               /\ ~CountOff(d, i) => g.fields[i].symbols = Len(table[i].symbols)
    <3> DEFINE f == FieldOf(table, i)
    <3>1. /\ f = [offset |-> Offset(table, i), width |-> Width(table[i]), bias |-> Bias(table[i]),
                  symbols |-> Len(table[i].symbols), length |-> Len(SymbolUnits(table[i]))]
          /\ f.symbols \in Int /\ f.length \in Int
      BY <1>3 DEF FieldOf
    <3> HIDE DEF f
    <3>2. CASE i # d.field
      <4>1. g.fields[i] = f
        BY <2>4, <3>2 DEF f
      <4>2. Longer(d, i) = 0
        BY <3>2 DEF Longer
      <4> HIDE DEF g
      <4> QED
        BY <3>1, <4>1, <4>2
    <3>3. CASE i = d.field
      <4>1. g.fields[i] = [f EXCEPT ![d.what] = @ + d.by]
        BY <2>4, <3>3 DEF f
      <4> HIDE DEF g
      <4>2. CASE d.what = "offset"
        BY <2>1, <3>1, <3>3, <4>1, <4>2 DEF Off, Longer
      <4>3. CASE d.what = "width"
        BY <2>1, <3>1, <3>3, <4>1, <4>3 DEF Off, Longer
      <4>4. CASE d.what = "bias"
        BY <2>1, <3>1, <3>3, <4>1, <4>4 DEF Off, Longer
      <4>5. CASE d.what = "symbols"
        BY <2>1, <3>1, <3>3, <4>1, <4>5 DEF Off, CountOff, Longer
      <4>6. CASE d.what = "length"
        BY <2>1, <3>1, <3>3, <4>1, <4>6 DEF Off, CountOff, Longer
      <4> QED
        BY <1>6, <4>2, <4>3, <4>4, <4>5, <4>6
    <3> QED
      BY <3>2, <3>3
  <2> HIDE DEF g
  <2>6. /\ d.what # "records" /\ g.records = RowsOf(table)
        /\ g.recordBytes = RecordBytes(table) + Larger(d)
        /\ g.records \in Int /\ DOMAIN g.fields = DOMAIN table
    BY <1>2, <1>6, <2>3, <2>4 DEF Larger
  <2>7. HeaderKept(g, table, d)
    BY <2>5, <2>6, <2>8 DEF HeaderKept
  <2> QED
    BY <2>7 DEF g, b
<1> QED
  BY <1>4, <1>5, <1>6 DEF DamageTyped

Lengths(table) == [j \in DOMAIN table |-> Len(SymbolUnits(table[j]))]

\* The lengths of the header add up to where the tables are.
LEMMA TablesAreFound ==
  ASSUME NEW table, TableTyped(table)
  PROVE  /\ \A k \in 0 .. Len(table) :
              /\ SumTo(Lengths(table), k) = Len(Joined(Parts(table), k))
              /\ SumTo(Lengths(table), k) \in Nat
              /\ \A m \in 0 .. k : SumTo(Lengths(table), m) <= SumTo(Lengths(table), k)
         /\ \A k \in 1 .. Len(table) :
              /\ SumTo(Lengths(table), k) = SumTo(Lengths(table), k - 1) + Len(SymbolUnits(table[k]))
              /\ Found(Parts(table), Len(table), k)
<1> DEFINE n == Len(table)
           parts == Parts(table)
           lengths == Lengths(table)
<1>1. n \in Nat \ {0} /\ DOMAIN table = 1 .. n
  BY DEF TableTyped
<1>2. \A k \in 1 .. n : parts[k] = SymbolUnits(table[k]) /\ lengths[k] = Len(parts[k]) /\ lengths[k] \in Nat
  BY <1>1, UnitsAreSequences DEF Parts, Lengths
<1>3. PICK X : \A k \in 1 .. n : parts[k] \in Seq(X)
  BY <1>2, UnitsTyped
<1> HIDE DEF n, parts, lengths
<1>4. \A k \in 1 .. n : Found(parts, n, k)
  BY <1>1, <1>3, JoinedHolds
<1>5. Joined(parts, 0) = <<>>
  BY <1>1, <1>3, JoinedAppends
<1>6. SumTo(lengths, 0) = 0 /\ \A k \in 1 .. n : SumTo(lengths, k) = SumTo(lengths, k - 1) + lengths[k]
  <2>1. \A k \in 1 .. n : lengths[k] \in Int
    BY <1>2
  <2> QED
    BY <1>1, <2>1, SumToAdds
<1>7. \A k \in 0 .. n : SumTo(lengths, k) \in Nat /\ \A m \in 0 .. k : SumTo(lengths, m) <= SumTo(lengths, k)
  <2>1. \A k \in 1 .. n : lengths[k] \in Nat
    BY <1>2
  <2> QED
    BY <1>1, <2>1, SumToGrows
<1> DEFINE Good == {k \in Nat : k <= n => SumTo(lengths, k) = Len(Joined(parts, k))}
<1>8. 0 \in Good
  <2>1. Len(Joined(parts, 0)) = 0
    BY <1>5
  <2> QED
    BY <1>6, <2>1
<1>9. ASSUME NEW k \in Nat, k \in Good PROVE k + 1 \in Good
  <2> SUFFICES ASSUME k + 1 <= n PROVE SumTo(lengths, k + 1) = Len(Joined(parts, k + 1))
    OBVIOUS
  <2>1. k + 1 \in 1 .. n /\ (k + 1) - 1 = k /\ k <= n
    BY <1>1
  <2>2. SumTo(lengths, k + 1) = SumTo(lengths, k) + Len(parts[k + 1])
    BY <1>2, <1>6, <2>1
  <2>3. Len(Joined(parts, k + 1)) = Len(Joined(parts, k)) + Len(parts[k + 1])
    BY <1>4, <2>1 DEF Found
  <2> QED
    BY <1>9, <2>1, <2>2, <2>3
<1>10. Nat \subseteq Good
  <2> HIDE DEF Good
  <2> QED
    BY <1>8, <1>9, AllNumbers
<1>11. \A k \in 0 .. n : SumTo(lengths, k) = Len(Joined(parts, k))
  BY <1>1, <1>10
<1>12. \A k \in 1 .. n : lengths[k] = Len(SymbolUnits(table[k]))
  BY <1>2
<1>13. \A k \in 1 .. n : SumTo(lengths, k) = SumTo(lengths, k - 1) + Len(SymbolUnits(table[k]))
  BY <1>6, <1>12
<1> QED
  BY <1>4, <1>7, <1>11, <1>13 DEF n, parts, lengths

\* What stands in a sequence where a part is expected is the part.
LEMMA PartIsCut ==
  ASSUME NEW X, NEW part \in Seq(X), NEW whole, NEW from \in Nat,
         \A j \in 1 .. Len(part) : whole[from + j] = part[j]
  PROVE  SubSeq(whole, from + 1, from + Len(part)) = part
<1> DEFINE n == Len(part)
           cut == SubSeq(whole, from + 1, from + n)
<1>1. n \in Nat /\ part = [j \in 1 .. n |-> part[j]]
  OBVIOUS
<1>2. \A k \in (from + 1) .. (from + n) : whole[k] \in X
  <2> TAKE k \in (from + 1) .. (from + n)
  <2>1. k - from \in 1 .. n /\ from + (k - from) = k
    BY <1>1
  <2>2. whole[from + (k - from)] = part[k - from] /\ part[k - from] \in X
    BY <2>1
  <2> QED
    BY <2>1, <2>2
<1>3. /\ cut \in Seq(X)
      /\ Len(cut) = IF from + 1 <= from + n THEN (from + n) - (from + 1) + 1 ELSE 0
      /\ \A j \in 1 .. ((from + n) - (from + 1) + 1) : cut[j] = whole[(from + 1) + j - 1]
  <2>1. from + 1 \in Int /\ from + n \in Int
    BY <1>1
  <2> HIDE DEF n
  <2> QED
    BY <1>2, <2>1, SubSeqProperties
<1> HIDE DEF cut
<1>4. Len(cut) = n
  BY <1>1, <1>3
<1>5. \A j \in 1 .. n : cut[j] = part[j]
  <2> TAKE j \in 1 .. n
  <2>1. (from + 1) + j - 1 = from + j /\ j \in 1 .. ((from + n) - (from + 1) + 1)
    BY <1>1
  <2> QED
    BY <1>3, <2>1
<1>6. cut = [j \in 1 .. n |-> cut[j]]
  BY <1>3, <1>4
<1> HIDE DEF n
<1>7. cut = part
  BY <1>1, <1>5, <1>6
<1> QED
  BY <1>7 DEF cut, n

\* One number that is off is in every sum it belongs to.
OneOff(others, numbers, n, i, by) ==
  \A k \in 1 .. n : /\ numbers[k] \in Int
                    /\ others[k] = numbers[k] + (IF k = i THEN by ELSE 0)

LEMMA SumToOff ==
  ASSUME NEW n \in Nat, NEW i \in 1 .. n, NEW by \in Int,
         NEW numbers, NEW others, OneOff(others, numbers, n, i, by)
  PROVE  \A m \in 0 .. n : SumTo(others, m) = SumTo(numbers, m) + (IF i <= m THEN by ELSE 0)
<1>0. \A k \in 1 .. n : /\ numbers[k] \in Int
                        /\ others[k] = numbers[k] + (IF k = i THEN by ELSE 0)
  BY DEF OneOff
<1> DEFINE s(m) == SumTo(numbers, m)
           t(m) == SumTo(others, m)
           Good == {m \in Nat : m <= n => t(m) = s(m) + (IF i <= m THEN by ELSE 0)}
<1>1. /\ s(0) = 0 /\ \A m \in 0 .. n : s(m) \in Int
      /\ \A m \in 1 .. n : s(m) = s(m - 1) + numbers[m]
  BY <1>0, SumToAdds
<1>2. t(0) = 0 /\ \A m \in 1 .. n : t(m) = t(m - 1) + others[m]
  <2>1. \A k \in 1 .. n : others[k] \in Int
    BY <1>0
  <2> QED
    BY <2>1, SumToAdds
<1> HIDE DEF s, t
<1>3. 0 \in Good
  BY <1>1, <1>2
<1>4. ASSUME NEW m \in Nat, m \in Good PROVE m + 1 \in Good
  <2> SUFFICES ASSUME m + 1 <= n PROVE t(m + 1) = s(m + 1) + (IF i <= m + 1 THEN by ELSE 0)
    OBVIOUS
  <2>1. m + 1 \in 1 .. n /\ (m + 1) - 1 = m /\ m \in 0 .. n
    OBVIOUS
  <2>2. /\ t(m + 1) = t(m) + others[m + 1] /\ s(m + 1) = s(m) + numbers[m + 1]
        /\ t(m) = s(m) + (IF i <= m THEN by ELSE 0) /\ s(m) \in Int /\ numbers[m + 1] \in Int
        /\ others[m + 1] = numbers[m + 1] + (IF m + 1 = i THEN by ELSE 0)
    BY <1>0, <1>1, <1>2, <1>4, <2>1
  <2> QED
    BY <2>2
<1>5. Nat \subseteq Good
  <2> HIDE DEF Good
  <2> QED
    BY <1>3, <1>4, AllNumbers
<1> QED
  BY <1>5 DEF s, t

\* The symbol tables are what was written, but for a tag.
Started(table, k) == SumTo(Lengths(table), k - 1)

LEMMA TablesAsBuilt ==
  ASSUME NEW table, TableTyped(table), NEW d, DamageTyped(d, table),
         NEW f, f = Damaged(Build(table), d)
  PROVE  LET whole == Build(table).tables IN
           /\ whole = Joined(Parts(table), Len(table))
           /\ Len(whole) = SumTo(Lengths(table), Len(table)) /\ Len(whole) \in Nat
           /\ DOMAIN whole = 1 .. Len(whole)
           /\ Len(f.tables) = Len(whole)
           /\ \/ f.tables = whole
              \/ /\ d.what = "tag" /\ d.field \in DOMAIN table
                 /\ Len(SymbolUnits(table[d.field])) > 0
                 /\ f.tables = [whole EXCEPT ![Started(table, d.field) + 1] = "07"]
<1> DEFINE n == Len(table)
           whole == Build(table).tables
           b == Build(table)
<1>1. DOMAIN table = 1 .. n /\ n \in Nat \ {0}
  BY DEF TableTyped
<1>2. whole = Joined(Parts(table), n)
  BY DEF Build, Parts
<1>3. PICK X : whole \in Seq(X)
  <2>1. PICK X : \A i \in 1 .. n : SymbolUnits(table[i]) \in Seq(X)
    BY UnitsTyped
  <2>2. \A i \in 1 .. n : Parts(table)[i] \in Seq(X)
    BY <1>1, <2>1 DEF Parts
  <2>3. n \in Nat /\ n \in 0 .. n
    BY <1>1
  <2> HIDE DEF n
  <2>4. Joined(Parts(table), n) \in Seq(X)
    BY <2>2, <2>3, JoinedAppends
  <2> QED
    BY <1>2, <2>4
<1>4. Len(whole) = SumTo(Lengths(table), n)
  <2>1. n \in 0 .. n
    BY <1>1
  <2> QED
    BY <1>2, <2>1, TablesAreFound
<1>5. /\ b = [header |-> b.header, tables |-> whole, bytes |-> b.bytes]
      /\ b.header.fields = [i \in DOMAIN table |-> FieldOf(table, i)]
  BY DEF Build
<1>6. \/ f.tables = whole
      \/ /\ d.what = "tag" /\ d.field \in DOMAIN table
         /\ Len(SymbolUnits(table[d.field])) > 0
         /\ f.tables = [whole EXCEPT ![Started(table, d.field) + 1] = "07"]
  <2> HIDE DEF b
  <2>0. f = Damaged(b, d)
    BY DEF b
  <2>1. CASE d.what \in {"offset", "width", "bias", "symbols", "length"}
    <3>1. f = [b EXCEPT !.header.fields[d.field][d.what] = @ + d.by]
      BY <2>0, <2>1 DEF Damaged
    <3> QED
      BY <1>5, <3>1
  <2>2. CASE d.what = "none"
    BY <1>5, <2>0, <2>2 DEF Damaged
  <2>3. CASE d.what \in {"records", "recordBytes"}
    <3>1. f = [b EXCEPT !.header[d.what] = @ + d.by]
      BY <2>0, <2>3 DEF Damaged
    <3> QED
      BY <1>5, <3>1
  <2>4. CASE d.what = "cut"
    <3>1. f = [b EXCEPT !.bytes = Restrict(@, 0 .. (Cardinality(DOMAIN @) - 2))]
      BY <2>0, <2>4 DEF Damaged
    <3> QED
      BY <1>5, <3>1
  <2>5. CASE d.what = "tag"
    <3> DEFINE k == d.field
    <3>1. k \in DOMAIN table
      BY <2>5 DEF DamageTyped
    <3>2. b.header.fields[k].length = Len(SymbolUnits(table[k])) /\ Len(SymbolUnits(table[k])) \in Nat
      BY <1>5, <3>1, UnitsAreSequences DEF FieldOf
    <3>3. CASE b.header.fields[k].length = 0
      <4>1. d.what = "tag" /\ b.header.fields[d.field].length = 0
        BY <2>5, <3>3
      <4>2. Damaged(b, d) = b
        BY <4>1 DEF Damaged
      <4>3. b.tables = whole
        BY <1>5
      <4> QED
        BY <2>0, <4>2, <4>3
    <3>4. CASE b.header.fields[k].length > 0
      <4>5. d.what = "tag" /\ b.header.fields[d.field].length > 0 /\ b.header.fields[d.field].length \in Nat
        BY <2>5, <3>2, <3>4
      <4>6. Damaged(b, d) = [b EXCEPT !.tables[TableStart(b.header, d.field) + 1] = "07"]
        BY <4>5 DEF Damaged
      <4>1. f = [b EXCEPT !.tables[TableStart(b.header, k) + 1] = "07"]
        BY <2>0, <4>6
      <4>2. [j \in DOMAIN b.header.fields |-> b.header.fields[j].length] = Lengths(table)
        BY <1>5 DEF Lengths, FieldOf
      <4>3. TableStart(b.header, k) = Started(table, k)
        BY <4>2 DEF TableStart, Started
      <4>4. f.tables = [whole EXCEPT ![Started(table, k) + 1] = "07"]
        BY <1>5, <4>1, <4>3
      <4> QED
        BY <2>5, <3>1, <3>2, <3>4, <4>4
    <3> QED
      BY <3>2, <3>3, <3>4
  <2> QED
    BY <2>1, <2>2, <2>3, <2>4, <2>5 DEF DamageTyped
<1>7. Len(whole) \in Nat /\ DOMAIN whole = 1 .. Len(whole)
  <2> HIDE DEF whole
  <2> QED
    BY <1>3, LenProperties
<1>8. Len(f.tables) = Len(whole)
  <2>1. CASE f.tables = whole
    BY <2>1
  <2>2. CASE f.tables = [whole EXCEPT ![Started(table, d.field) + 1] = "07"]
    <3> DEFINE at == Started(table, d.field) + 1
               g == [whole EXCEPT ![at] = "07"]
    <3> HIDE DEF whole, at
    <3>1. g \in Seq(X \cup {"07"}) /\ DOMAIN g = DOMAIN whole
      <4>1. whole \in [1 .. Len(whole) -> X]
        BY <1>3, LenProperties
      <4>2. g \in [1 .. Len(whole) -> X \cup {"07"}] /\ DOMAIN g = DOMAIN whole
        BY <4>1
      <4> HIDE DEF g
      <4> QED
        BY <1>7, <4>2
    <3>2. Len(g) \in Nat /\ DOMAIN g = 1 .. Len(g)
      <4> HIDE DEF g
      <4> QED
        BY <3>1, LenProperties
    <3>3. f.tables = g
      BY <2>2 DEF at
    <3> HIDE DEF g
    <3> QED
      BY <1>7, <3>1, <3>2, <3>3
  <2> QED
    BY <1>6, <2>1, <2>2
<1> QED
  BY <1>2, <1>4, <1>6, <1>7, <1>8

\* Where the tables begin, and the records: a length that is off moves what is behind it.
LEMMA StartIsKept ==
  ASSUME NEW table, TableTyped(table), NEW d, DamageTyped(d, table),
         NEW f, f = Damaged(Build(table), d)
  PROVE  /\ \A k \in 1 .. (Len(table) + 1) :
              TableStart(f.header, k)
                = Started(table, k) + (IF d.what = "length" /\ d.field < k THEN d.by ELSE 0)
         /\ RecordStart(f) = IF d.what = "length" THEN d.by ELSE 0
<1> DEFINE n == Len(table)
           h == f.header
           lengths == [j \in DOMAIN h.fields |-> h.fields[j].length]
<1>1. DOMAIN table = 1 .. n /\ n \in Nat \ {0} /\ d.by \in Int
  BY DEF TableTyped, DamageTyped
<1>2. HeaderKept(h, table, d)
  BY HeaderIsKept
<1>3. \A k \in 1 .. n : lengths[k] = Lengths(table)[k] + Longer(d, k) /\ Lengths(table)[k] \in Int
  BY <1>1, <1>2, UnitsAreSequences DEF HeaderKept, Lengths
<1>4. \A m \in 0 .. n :
        /\ SumTo(lengths, m) = SumTo(Lengths(table), m) + (IF d.what = "length" /\ d.field <= m THEN d.by ELSE 0)
        /\ SumTo(Lengths(table), m) \in Int
  <2>0. \A m \in 0 .. n : SumTo(Lengths(table), m) \in Int
    BY TablesAreFound
  <2>1. CASE d.what = "length"
    <3>1. d.field \in 1 .. n
      BY <1>1, <2>1 DEF DamageTyped
    <3>2. \A k \in 1 .. n : Longer(d, k) = IF k = d.field THEN d.by ELSE 0
      BY <2>1 DEF Longer
    <3> DEFINE numbers == Lengths(table)
               i == d.field
               by == d.by
    <3>4. n \in Nat /\ i \in 1 .. n /\ by \in Int
      BY <1>1, <3>1
    <3>6. OneOff(lengths, numbers, n, i, by)
      <4>1. \A k \in 1 .. n : numbers[k] \in Int /\ lengths[k] = numbers[k] + (IF k = i THEN by ELSE 0)
        BY <1>3, <3>2
      <4> HIDE DEF lengths, numbers
      <4> QED
        BY <4>1 DEF OneOff
    <3> HIDE DEF lengths, n, numbers, i, by
    <3>5. \A m \in 0 .. n : SumTo(lengths, m) = SumTo(numbers, m) + (IF i <= m THEN by ELSE 0)
      BY <3>4, <3>6, SumToOff
    <3>3. \A m \in 0 .. n : SumTo(lengths, m) = SumTo(Lengths(table), m) + (IF d.field <= m THEN d.by ELSE 0)
      BY <3>5 DEF numbers, i, by
    <3> QED
      BY <2>0, <2>1, <3>3
  <2>2. CASE d.what # "length"
    <3>1. \A k \in 1 .. n : lengths[k] = Lengths(table)[k]
      BY <1>3, <2>2 DEF Longer
    <3>2. lengths = Lengths(table)
      BY <1>1, <1>2, <3>1 DEF HeaderKept, Lengths
    <3> HIDE DEF lengths
    <3> QED
      BY <2>0, <2>2, <3>2
  <2> QED
    BY <2>1, <2>2
<1>5. ASSUME NEW k \in 1 .. (n + 1)
      PROVE  TableStart(h, k) = Started(table, k) + (IF d.what = "length" /\ d.field < k THEN d.by ELSE 0)
  <2>1. k - 1 \in 0 .. n
    BY <1>1
  <2>2. d.what = "length" => (d.field <= k - 1 <=> d.field < k)
    <3> SUFFICES ASSUME d.what = "length" PROVE d.field <= k - 1 <=> d.field < k
      OBVIOUS
    <3>1. d.field \in 1 .. n
      BY <1>1 DEF DamageTyped
    <3> QED
      BY <1>1, <3>1
  <2>3. TableStart(h, k) = SumTo(lengths, k - 1)
    BY DEF TableStart
  <2> HIDE DEF lengths, h
  <2> QED
    BY <1>4, <2>1, <2>2, <2>3 DEF Started
<1>6. RecordStart(f) = IF d.what = "length" THEN d.by ELSE 0
  <2>1. RecordStart(f) = TableStart(h, n + 1) - Len(f.tables)
    BY <1>2 DEF RecordStart, HeaderKept
  <2>2. /\ Len(f.tables) = SumTo(Lengths(table), n) /\ Len(f.tables) \in Nat
    <3> DEFINE whole == Build(table).tables
    <3>1. Len(f.tables) = Len(whole)
      BY TablesAsBuilt
    <3>2. Len(whole) = SumTo(Lengths(table), n) /\ Len(whole) \in Nat
      BY TablesAsBuilt
    <3> HIDE DEF whole, n
    <3> QED
      BY <3>1, <3>2
  <2>3. n + 1 \in 1 .. (n + 1) /\ (n + 1) - 1 = n
    BY <1>1
  <2>4. d.what = "length" => d.field < n + 1
    <3> SUFFICES ASSUME d.what = "length" PROVE d.field < n + 1
      OBVIOUS
    <3>1. d.field \in 1 .. n
      BY <1>1 DEF DamageTyped
    <3> QED
      BY <1>1, <3>1
  <2>5. TableStart(h, n + 1) = SumTo(Lengths(table), n) + (IF d.what = "length" THEN d.by ELSE 0)
    BY <1>5, <2>3, <2>4 DEF Started
  <2> HIDE DEF n, h
  <2> QED
    BY <1>1, <2>1, <2>2, <2>5
<1> QED
  BY <1>5, <1>6

\* The bytes of the symbol table of a field.
UnitsOf(f, i) ==
  LET from == TableStart(f.header, i)
  IN SubSeq(f.tables, from + 1, Min({from + f.header.fields[i].length, Len(f.tables)}))

\* What is written of a table, from where it starts.
LEMMA PartIsFound ==
  ASSUME NEW table, TableTyped(table), NEW i \in DOMAIN table
  PROVE  LET part == SymbolUnits(table[i])
             whole == Build(table).tables
         IN /\ Started(table, i) \in Nat /\ Len(part) \in Nat
            /\ Started(table, i) + Len(part) <= Len(whole) /\ Len(whole) \in Nat
            /\ Started(table, i) + Len(part) = SumTo(Lengths(table), i)
            /\ \A j \in 1 .. Len(part) : whole[Started(table, i) + j] = part[j]
            /\ \E X : part \in Seq(X)
<1> DEFINE n == Len(table)
           part == SymbolUnits(table[i])
           whole == Build(table).tables
           d == [what |-> "none", by |-> 0]
<1>1. DOMAIN table = 1 .. n /\ n \in Nat \ {0} /\ i \in 1 .. n
  BY DEF TableTyped
<1>2. i - 1 \in 0 .. n /\ i \in 0 .. n /\ n \in 0 .. n
  BY <1>1
<1>3. /\ SumTo(Lengths(table), i) = Started(table, i) + Len(part)
      /\ Started(table, i) \in Nat /\ SumTo(Lengths(table), i) <= SumTo(Lengths(table), n)
      /\ Started(table, i) = Len(Joined(Parts(table), i - 1))
      /\ Found(Parts(table), n, i)
  BY <1>1, <1>2, TablesAreFound DEF Started
<1>4. Len(part) \in Nat
  BY UnitsAreSequences
<1>5. Len(whole) = SumTo(Lengths(table), n) /\ Len(whole) \in Nat /\ whole = Joined(Parts(table), n)
  <2>1. DamageTyped(d, table)
    BY DEF DamageTyped
  <2> HIDE DEF d
  <2> QED
    BY <2>1, TablesAsBuilt
<1>6. Parts(table)[i] = part
  BY DEF Parts
<1>7. \A j \in 1 .. Len(part) : whole[Started(table, i) + j] = part[j]
  BY <1>3, <1>5, <1>6 DEF Found
<1>8. \E X : part \in Seq(X)
  BY <1>1, UnitsTyped
<1> HIDE DEF part, whole, n
<1> QED
  BY <1>3, <1>4, <1>5, <1>7, <1>8 DEF part, whole

LEMMA TableIsKept ==
  ASSUME NEW table, TableTyped(table), NEW d, DamageTyped(d, table), ~LengthOff(d),
         NEW i \in DOMAIN table, NEW f, f = Damaged(Build(table), d)
  PROVE  \/ UnitsOf(f, i) = SymbolUnits(table[i])
         \/ /\ TagOff(d, i) /\ Len(UnitsOf(f, i)) \in Nat \ {0} /\ UnitsOf(f, i)[1] = "07"
            /\ Len(SymbolUnits(table[i])) > 0
<1> DEFINE n == Len(table)
           part == SymbolUnits(table[i])
           whole == Build(table).tables
           s == Started(table, i)
           l == Len(part)
<1>1. DOMAIN table = 1 .. n /\ n \in Nat \ {0} /\ d.by \in Int
  BY DEF TableTyped, DamageTyped
<1>2. /\ s \in Nat /\ l \in Nat /\ s + l <= Len(whole) /\ Len(whole) \in Nat
      /\ \A j \in 1 .. l : whole[s + j] = part[j]
      /\ \E X : part \in Seq(X)
  BY PartIsFound
<1>3. PICK X : part \in Seq(X)
  BY <1>2
<1>4. TableStart(f.header, i) = s /\ f.header.fields[i].length = l
  <2>1. i \in 1 .. (n + 1)
    BY <1>1
  <2>2. TableStart(f.header, i) = s + (IF d.what = "length" /\ d.field < i THEN d.by ELSE 0)
    BY <2>1, StartIsKept
  <2>3. f.header.fields[i].length = l + Longer(d, i)
    BY HeaderIsKept DEF HeaderKept
  <2>4. d.what = "length" => d.by = 0
    BY DEF LengthOff
  <2> HIDE DEF s, l
  <2> QED
    BY <1>2, <2>2, <2>3, <2>4 DEF Longer
<1>5. UnitsOf(f, i) = SubSeq(f.tables, s + 1, s + l)
  <2>1. Len(f.tables) = Len(whole)
    BY TablesAsBuilt
  <2> HIDE DEF s, l, whole
  <2>2. Min({s + l, Len(whole)}) = s + l
    <3> DEFINE both == {s + l, Len(whole)}
    <3>1. both \in SUBSET Nat /\ both # {} /\ s + l \in both
      BY <1>2
    <3>2. Min(both) \in both /\ \A y \in both : Min(both) <= y
      <4> HIDE DEF both
      <4> QED
        BY <3>1, LeastIsMin
    <3> QED
      BY <1>2, <3>1, <3>2
  <2> QED
    BY <1>4, <2>1, <2>2 DEF UnitsOf
<1>6. CASE f.tables = whole
  <2>1. \A j \in 1 .. Len(part) : f.tables[s + j] = part[j]
    BY <1>2, <1>6
  <2> HIDE DEF part, s
  <2>2. SubSeq(f.tables, s + 1, s + Len(part)) = part
    BY <1>2, <1>3, <2>1, PartIsCut
  <2> QED
    BY <1>5, <2>2 DEF part
<1>7. CASE f.tables # whole
  <2> DEFINE k == d.field
             at == Started(table, k) + 1
  <2>1. /\ d.what = "tag" /\ k \in DOMAIN table
        /\ Len(SymbolUnits(table[k])) > 0
        /\ f.tables = [whole EXCEPT ![at] = "07"]
        /\ DOMAIN whole = 1 .. Len(whole)
    BY <1>7, TablesAsBuilt
  <2>2. /\ Started(table, k) \in Nat /\ Len(SymbolUnits(table[k])) \in Nat
        /\ Started(table, k) + Len(SymbolUnits(table[k])) = SumTo(Lengths(table), k)
        /\ s + l = SumTo(Lengths(table), i)
    BY <2>1, PartIsFound
  <2>3. CASE i # k
    <3>1. ASSUME NEW j \in 1 .. l PROVE f.tables[s + j] = part[j]
      <4>1. s + j # at
        <5>1. CASE i < k
          <6>1. i \in 0 .. (k - 1) /\ k - 1 \in 0 .. n
            BY <1>1, <2>1, <5>1
          <6>2. SumTo(Lengths(table), i) <= Started(table, k)
            BY <6>1, TablesAreFound DEF Started
          <6> HIDE DEF s, l
          <6> QED
            BY <1>2, <2>2, <6>2
        <5>2. CASE k < i
          <6>1. k \in 0 .. (i - 1) /\ i - 1 \in 0 .. n
            BY <1>1, <2>1, <5>2
          <6>2. SumTo(Lengths(table), k) <= s
            BY <6>1, TablesAreFound DEF Started
          <6> HIDE DEF s, l
          <6> QED
            BY <1>2, <2>1, <2>2, <6>2
        <5> QED
          BY <1>1, <2>1, <2>3, <5>1, <5>2
      <4>2. whole[s + j] = part[j] /\ s + j \in 1 .. Len(whole)
        <5> HIDE DEF s, l, whole, part
        <5> QED
          BY <1>2
      <4> HIDE DEF s, at, whole, part
      <4> QED
        BY <2>1, <4>1, <4>2
    <3> HIDE DEF part, s
    <3>2. SubSeq(f.tables, s + 1, s + Len(part)) = part
      BY <1>2, <1>3, <3>1, PartIsCut
    <3> QED
      BY <1>5, <3>2 DEF part
  <2>4. CASE i = k
    <3> DEFINE units == UnitsOf(f, i)
    <3> SUFFICES Len(units) \in Nat \ {0} /\ units[1] = "07"
      BY <2>1, <2>4 DEF TagOff
    <3>1. l \in Nat \ {0} /\ s \in Nat
      BY <1>2, <2>1, <2>4
    <3>2. units = SubSeq(f.tables, s + 1, s + l)
      BY <1>5
    <3>3. f.tables[s + 1] = "07"
      <4>1. at = s + 1
        BY <2>4
      <4> HIDE DEF s, at, whole, l
      <4>2. s + 1 \in DOMAIN whole
        BY <1>2, <2>1, <3>1
      <4> QED
        BY <2>1, <4>1, <4>2
    <3> HIDE DEF units, l, s
    <3> DEFINE S == {f.tables[j] : j \in (s + 1) .. (s + l)}
    <3>4. \A j \in (s + 1) .. (s + l) : f.tables[j] \in S
      OBVIOUS
    <3> HIDE DEF S
    <3>5. /\ Len(units) = IF s + 1 <= s + l THEN (s + l) - (s + 1) + 1 ELSE 0
          /\ \A j \in 1 .. ((s + l) - (s + 1) + 1) : units[j] = f.tables[(s + 1) + j - 1]
      BY <3>1, <3>2, <3>4, SubSeqProperties
    <3>6. 1 \in 1 .. ((s + l) - (s + 1) + 1) /\ (s + 1) + 1 - 1 = s + 1
      BY <3>1
    <3>7. units[1] = "07"
      BY <3>3, <3>5, <3>6
    <3>8. Len(units) \in Nat \ {0}
      BY <3>1, <3>5
    <3> QED
      BY <3>7, <3>8
  <2> QED
    BY <2>3, <2>4
<1> QED
  BY <1>6, <1>7

\* Of a table whose length is too small, only its beginning is read.
LEMMA TableIsShort ==
  ASSUME NEW table, TableTyped(table), NEW d, DamageTyped(d, table), LengthOff(d), d.by < 0,
         NEW f, f = Damaged(Build(table), d), Validate(f.header)
  PROVE  LET units == UnitsOf(f, d.field)
             part == SymbolUnits(table[d.field])
         IN Shorter(units, part) /\ Len(units) < Len(part)
<1> DEFINE n == Len(table)
           i == d.field
           part == SymbolUnits(table[i])
           units == UnitsOf(f, i)
           whole == Build(table).tables
           s == Started(table, i)
           l == Len(part) + d.by
<1>1. DOMAIN table = 1 .. n /\ n \in Nat \ {0} /\ d.by \in Int /\ i \in DOMAIN table /\ d.what = "length"
  BY DEF TableTyped, DamageTyped, LengthOff
<1>2. /\ s \in Nat /\ Len(part) \in Nat /\ s + Len(part) <= Len(whole) /\ Len(whole) \in Nat
      /\ \A j \in 1 .. Len(part) : whole[s + j] = part[j]
  BY <1>1, PartIsFound
<1>3. TableStart(f.header, i) = s /\ f.header.fields[i].length = l /\ l \in Nat
  <2>1. i \in 1 .. (n + 1)
    BY <1>1
  <2>2. TableStart(f.header, i) = s + (IF d.what = "length" /\ d.field < i THEN d.by ELSE 0)
    BY <2>1, StartIsKept
  <2>3. HeaderKept(f.header, table, d)
    BY HeaderIsKept
  <2>4. f.header.fields[i].length = Len(part) + Longer(d, i) /\ Longer(d, i) = d.by
    BY <1>1, <2>3 DEF HeaderKept, Longer
  <2>5. f.header.fields[i].length >= 0
    BY <1>1, <2>3 DEF Validate, FieldValid, HeaderKept
  <2>6. ~(d.field < i)
    BY <1>1
  <2> HIDE DEF s, part
  <2> QED
    BY <1>1, <1>2, <2>2, <2>4, <2>5, <2>6
<1>4. f.tables = whole /\ Len(f.tables) = Len(whole)
  BY <1>1, TablesAsBuilt
<1> HIDE DEF s, part, whole
<1>5. l < Len(part) /\ s + l <= Len(whole)
  BY <1>1, <1>2
<1>6. units = SubSeq(whole, s + 1, s + l)
  <2> HIDE DEF l
  <2>1. Min({s + l, Len(whole)}) = s + l
    <3> DEFINE both == {s + l, Len(whole)}
    <3>1. both \in SUBSET Nat /\ both # {} /\ s + l \in both
      BY <1>2, <1>3
    <3>2. Min(both) \in both /\ \A y \in both : Min(both) <= y
      <4> HIDE DEF both
      <4> QED
        BY <3>1, LeastIsMin
    <3> QED
      BY <1>2, <1>3, <1>5, <3>1, <3>2
  <2> QED
    BY <1>3, <1>4, <2>1 DEF UnitsOf
<1> HIDE DEF units, l
<1> DEFINE S == {whole[j] : j \in (s + 1) .. (s + l)}
<1>7. \A j \in (s + 1) .. (s + l) : whole[j] \in S
  OBVIOUS
<1> HIDE DEF S
<1>8. /\ Len(units) = IF s + 1 <= s + l THEN (s + l) - (s + 1) + 1 ELSE 0
      /\ \A j \in 1 .. ((s + l) - (s + 1) + 1) : units[j] = whole[(s + 1) + j - 1]
  BY <1>2, <1>3, <1>6, <1>7, SubSeqProperties
<1>9. Len(units) = l
  BY <1>2, <1>3, <1>8
<1>10. ASSUME NEW j \in 1 .. l PROVE units[j] = part[j]
  <2>1. j \in 1 .. ((s + l) - (s + 1) + 1) /\ (s + 1) + j - 1 = s + j /\ j \in 1 .. Len(part)
    BY <1>2, <1>3, <1>5
  <2> QED
    BY <1>2, <1>8, <2>1
<1> QED
  BY <1>2, <1>3, <1>5, <1>9, <1>10 DEF Shorter, units, part

\* The record area is what was written, but for the last byte where that is missing.
LEMMA BytesAreKept ==
  ASSUME NEW table, TableTyped(table), NEW d, DamageTyped(d, table),
         NEW f, f = Damaged(Build(table), d)
  PROVE  LET total == RowsOf(table) * RecordBytes(table) IN
           /\ total \in Nat
           /\ DOMAIN Build(table).bytes = 0 .. (total - 1)
           /\ d.what # "cut" => f.bytes = Build(table).bytes
           /\ d.what = "cut" => DOMAIN f.bytes = 0 .. (total - 2)
           /\ Cardinality(DOMAIN f.bytes) = IF d.what # "cut" THEN total ELSE IF total > 0 THEN total - 1 ELSE 0
<1> DEFINE n == RowsOf(table)
           size == RecordBytes(table)
           total == n * size
           b == Build(table)
<1>1. size \in Nat /\ n \in Nat
  BY RecordHasRoom
<1>2. DOMAIN b.bytes = 0 .. (total - 1)
  BY DEF Build
<1>3. b = [header |-> b.header, tables |-> b.tables, bytes |-> b.bytes]
  BY DEF Build
<1> HIDE DEF n, size, b
<1>4. total \in Nat
  <2>1. \A x, y \in Nat : x * y \in Nat
    OBVIOUS
  <2> QED
    BY <1>1, <2>1
<1> HIDE DEF total
<1>5. Cardinality(DOMAIN b.bytes) = total
  <2>1. Cardinality(0 .. (total - 1)) = IF 0 > total - 1 THEN 0 ELSE (total - 1) - 0 + 1
    BY <1>4, FS_Interval
  <2> QED
    BY <1>2, <1>4, <2>1
<1>6. CASE d.what = "cut"
  <2>1. f = [b EXCEPT !.bytes = Restrict(@, 0 .. (Cardinality(DOMAIN @) - 2))]
    BY <1>6 DEF Damaged, b
  <2>2. f.bytes = Restrict(b.bytes, 0 .. (total - 2))
    BY <1>3, <1>5, <2>1
  <2>3. DOMAIN f.bytes = 0 .. (total - 2)
    BY <2>2 DEF Restrict
  <2>4. Cardinality(0 .. (total - 2)) = IF 0 > total - 2 THEN 0 ELSE (total - 2) - 0 + 1
    BY <1>4, FS_Interval
  <2>5. Cardinality(DOMAIN f.bytes) = IF total > 0 THEN total - 1 ELSE 0
    BY <1>4, <2>3, <2>4
  <2> QED
    BY <1>2, <1>4, <1>6, <2>3, <2>5 DEF b, n, size, total
<1>7. CASE d.what # "cut"
  <2>1. f.bytes = b.bytes
    <3>1. CASE d.what \in {"none", "tag"}
      <4>1. f = b \/ f = [b EXCEPT !.tables[TableStart(b.header, d.field) + 1] = "07"]
        <5>1. CASE d.what = "none"
          BY <5>1 DEF Damaged, b
        <5>2. CASE d.what = "tag"
          <6>1. b.header.fields[d.field].length \in Nat
            <7>1. d.field \in DOMAIN table
              BY <5>2 DEF DamageTyped
            <7>2. b.header.fields[d.field] = FieldOf(table, d.field)
              BY <7>1 DEF Build, b
            <7> QED
              BY <7>1, <7>2, UnitsAreSequences DEF FieldOf
          <6>2. CASE b.header.fields[d.field].length = 0
            BY <5>2, <6>2 DEF Damaged, b
          <6>3. CASE b.header.fields[d.field].length > 0
            BY <5>2, <6>1, <6>3 DEF Damaged, b
          <6> QED
            BY <6>1, <6>2, <6>3
        <5> QED
          BY <3>1, <5>1, <5>2
      <4> QED
        BY <1>3, <4>1
    <3>2. CASE d.what \in {"records", "recordBytes"}
      <4>1. f = [b EXCEPT !.header[d.what] = @ + d.by]
        BY <3>2 DEF Damaged, b
      <4> QED
        BY <1>3, <4>1
    <3>3. CASE d.what \in {"offset", "width", "bias", "symbols", "length"}
      <4>1. f = [b EXCEPT !.header.fields[d.field][d.what] = @ + d.by]
        BY <3>3 DEF Damaged, b
      <4> QED
        BY <1>3, <4>1
    <3> QED
      BY <1>7, <3>1, <3>2, <3>3 DEF DamageTyped
  <2> QED
    BY <1>2, <1>4, <1>5, <1>7, <2>1 DEF b, n, size, total
<1> QED
  BY <1>6, <1>7

\* What moves the records: a length that is off, and a record size that is too small by
\* no more than the spare bytes.
Moved(d, table) ==
  LengthOff(d) \/ (d.what = "recordBytes" /\ d.by \in -Spare(table) .. -1)

\* Where the record area is as long as the header says, nothing moves it and a row is in
\* it, it is what was written, and so is the row.
LEMMA RecordsAreThere ==
  ASSUME NEW table, TableTyped(table), NEW d, DamageTyped(d, table), ~Moved(d, table),
         NEW f, f = Damaged(Build(table), d), Validate(f.header), f.header.records > 0,
         RecordStart(f) + f.header.records * f.header.recordBytes <= Cardinality(DOMAIN f.bytes)
  PROVE  /\ f.bytes = Build(table).bytes /\ f.header.records \in 1 .. RowsOf(table)
         /\ f.header.recordBytes = RecordBytes(table) /\ RecordStart(f) = 0
<1> DEFINE n == RowsOf(table)
           size == RecordBytes(table)
           total == n * size
<1>1. HeaderKept(f.header, table, d)
  BY HeaderIsKept
<1>2. /\ f.header.recordBytes = size + Larger(d) /\ f.header.records \in Nat \ {0}
      /\ d.what # "records" => f.header.records = n
      /\ f.header.recordBytes > 0 /\ d.by \in Int
  BY <1>1 DEF HeaderKept, Validate, DamageTyped
<1>3. size \in Nat /\ n \in Nat /\ Spare(table) \in Nat /\ (n > 0 => size > 0)
  BY RecordHasRoom
<1>4. /\ total \in Nat
      /\ d.what # "cut" => f.bytes = Build(table).bytes
      /\ Cardinality(DOMAIN f.bytes) = IF d.what # "cut" THEN total ELSE IF total > 0 THEN total - 1 ELSE 0
  BY BytesAreKept
<1>8. RecordStart(f) = 0
  <2>1. RecordStart(f) = IF d.what = "length" THEN d.by ELSE 0
    BY StartIsKept
  <2> QED
    BY <2>1 DEF Moved, LengthOff
<1>9. Larger(d) = 0
  <2>1. CASE d.what # "recordBytes"
    BY <2>1 DEF Larger
  <2>2. CASE d.what = "recordBytes"
    <3> DEFINE m == size + d.by
    <3>1. f.header.recordBytes = m /\ m \in Nat \ {0} /\ f.header.records = n /\ n \in Nat \ {0}
      BY <1>2, <1>3, <2>2 DEF Larger
    <3>2. d.by >= -Spare(table)
      <4> DEFINE l == Len(table)
      <4>1. l \in DOMAIN table
        BY DEF TableTyped
      <4>2. f.header.fields[l].offset = Offset(table, l) /\ f.header.fields[l].width = Width(table[l])
        BY <1>1, <2>2, <4>1 DEF HeaderKept, Off
      <4>3. Ends(f.header.fields[l]) = Ends(FieldOf(table, l))
        BY <4>2 DEF Ends, FieldOf
      <4>4. l \in DOMAIN f.header.fields
        BY <1>1, <4>1 DEF HeaderKept
      <4>5. Ends(f.header.fields[l]) <= f.header.recordBytes * ByteBits
        BY <4>4 DEF Validate, FieldValid
      <4>6. Ends(FieldOf(table, l)) <= m * ByteBits
        BY <3>1, <4>3, <4>5
      <4>7. size - Spare(table) <= m
        <5> HIDE DEF m
        <5> QED
          BY <3>1, <4>6, RecordHasRoom
      <4> HIDE DEF size
      <4> QED
        BY <1>2, <1>3, <4>7
    <3>3. ~(d.by > 0)
      <4> SUFFICES ASSUME d.by > 0 PROVE FALSE
        OBVIOUS
      <4>1. n * m <= total
        <5> HIDE DEF total, n, m
        <5>1. n * m \in Nat
          BY <3>1
        <5> QED
          BY <1>4, <1>8, <2>2, <3>1, <5>1
      <4> HIDE DEF n, size
      <4>2. n * m = n * size + n * d.by /\ n * d.by > 0 /\ n * size \in Nat
        BY <1>2, <1>3, <3>1
      <4> QED
        BY <1>2, <3>1, <4>1, <4>2
    <3>4. ~(d.by \in -Spare(table) .. -1)
      BY <2>2 DEF Moved
    <3>5. d.by = 0
      BY <1>2, <1>3, <3>2, <3>3, <3>4
    <3> QED
      BY <2>2, <3>5 DEF Larger
  <2> QED
    BY <2>1, <2>2
<1>10. f.header.recordBytes = size /\ size \in Nat \ {0}
  <2> HIDE DEF size
  <2> QED
    BY <1>2, <1>3, <1>9
<1>11. f.header.records * size <= Cardinality(DOMAIN f.bytes)
  <2> HIDE DEF size
  <2>1. f.header.records * size \in Nat
    BY <1>2, <1>10
  <2> QED
    BY <1>8, <1>10, <2>1
<1> HIDE DEF n, size
<1>5. d.what # "cut"
  <2> SUFFICES ASSUME d.what = "cut" PROVE FALSE
    OBVIOUS
  <2>1. f.header.records * size = total /\ n \in Nat \ {0}
    BY <1>2
  <2>2. total > 0
    <3>1. \A x, y \in Nat \ {0} : x * y > 0
      OBVIOUS
    <3> QED
      BY <1>10, <2>1, <3>1
  <2> HIDE DEF total
  <2> QED
    BY <1>4, <1>11, <2>1, <2>2
<1>6. f.header.records * size <= n * size
  BY <1>4, <1>5, <1>11
<1>7. f.header.records <= n
  <2>1. (n + 1) * size = n * size + 1 * size /\ n * size \in Nat
    BY <1>3, <1>10, Rows
  <2>2. f.header.records * size + 0 < (n + 1) * size
    <3>1. f.header.records * size \in Nat /\ 1 * size = size
      BY <1>2, <1>10, Rows
    <3> QED
      BY <1>10, <1>6, <2>1, <3>1
  <2>3. f.header.records < n + 1
    BY <1>2, <1>3, <1>10, <2>2, Rows
  <2> QED
    BY <1>2, <1>3, <2>3
<1> QED
  BY <1>2, <1>3, <1>4, <1>5, <1>7, <1>8, <1>10 DEF n, size

-----------------------------------------------------------------------------
(* The stages of a conversion.                                             *)

\* The file was written, and nothing is read from it that Validate did not accept.
FileInv ==
  /\ given \in Inputs
  /\ stage # "unwritten" => file = Damaged(Build(Table), given.damage)
  /\ stage \in {"columns", "symbols", "schema", "rows", "done"} => Validate(Header)

\* Of a table that was read, the symbols that were written, as many as are counted.
TableRead(i) ==
  /\ Header.fields[i].symbols \in 0 .. Len(Table[i].symbols)
  /\ symbols[i] = SubSeq(Table[i].symbols, 1, Header.fields[i].symbols)

TablesInv ==
  /\ selected \subseteq 1 .. NumFields /\ DOMAIN symbols \subseteq selected
  /\ stage \in {"unwritten", "open", "columns"} => symbols = <<>>
  /\ \A i \in DOMAIN symbols :
       symbols[i] \in Seq(Symbols) /\ (~LengthOff(given.damage) => TableRead(i))
  /\ LengthOff(given.damage) /\ given.damage.by < 0 => given.damage.field \notin DOMAIN symbols

\* ResolveSchema is called once, with the columns that were read, when the records are
\* known to be there.
SchemaGiven ==
  /\ selected = DOMAIN symbols
  /\ RecordStart(file) + Header.records * Header.recordBytes <= Cardinality(DOMAIN file.bytes)
  /\ Len(Fields) = Cardinality(selected)
  /\ \A k \in 1 .. Len(Fields) : Fields[k].col.syms = SymbolSet(SourceOf[k])

CallInv ==
  /\ stage \in {"unwritten", "open", "columns", "symbols"} =>
       Beginning /\ input = [options |-> given.options, fields |-> <<>>]
  /\ stage \in {"schema", "rows", "done"} => SchemaGiven
  /\ stage \in {"rows", "done"} => Resolved

\* What a row comes out with.
RowDecoded(r) ==
  \A c \in DOMAIN out :
    /\ Displaces(given.damage) \/ Places(given.damage, Source(c)) \/ AsWritten(r, c)
    /\ given.damage.what = "none" =>
         AsWritten(r, c) /\ rows[r][c][2] = Convert(out[c], Written(Source(c), r), o)

RowsInv ==
  /\ rows \in Seq(Range(rows))
  /\ stage \notin {"rows", "done", "failed"} => rows = <<>>
  /\ \A r \in 1 .. Len(rows) : RowDecoded(r)
  /\ stage = "done" => Len(rows) = Header.records

NoRefusal == given.damage.what = "none" => failure \in {"none", "columns", "schema"}

PathInv == FileInv /\ TablesInv /\ CallInv /\ IInv /\ FieldsInv /\ RowsInv /\ NoRefusal

\* What is given, in the terms of the lemmas above.
LEMMA GivenTyped ==
  ASSUME given \in Inputs
  PROVE  /\ TableTyped(Table) /\ DamageTyped(given.damage, Table)
         /\ NumFields \in Nat /\ DOMAIN Table = 1 .. NumFields
         /\ given.options \in Options
         /\ \A i \in 1 .. NumFields : given.fields[i] \in [name : Names, col : QvdColumns]
<1>1. TableTyped(Table)
  BY LayoutTyped DEF Table
<1>2. DamageTyped(given.damage, Table)
  BY LayoutAssumption DEF DamageTyped, Table
<1>3. given.options \in Options /\ given.fields \in Seq([name : Names, col : QvdColumns])
  BY InputsAssumption
<1>4. \A i \in 1 .. NumFields : given.fields[i] \in [name : Names, col : QvdColumns]
  BY <1>3, ElementOfSeq DEF NumFields
<1>5. NumFields \in Nat
  BY <1>3, LenProperties DEF NumFields
<1>6. Len(Table) = NumFields
  BY LayoutAssumption DEF Table, NumFields
<1>7. DOMAIN Table = 1 .. NumFields
  <2>1. Table \in Seq(LayoutFields)
    BY <1>1 DEF TableTyped
  <2> HIDE DEF Table
  <2> QED
    BY <1>6, <2>1
<1> QED
  BY <1>1, <1>2, <1>3, <1>4, <1>5, <1>7

\* The file at the path, once it is there.
LEMMA FileTyped ==
  ASSUME FileInv, stage # "unwritten"
  PROVE  /\ file = Damaged(Build(Table), given.damage)
         /\ HeaderKept(Header, Table, given.damage)
         /\ given.damage.what = "none" => file = Build(Table)
<1>1. file = Damaged(Build(Table), given.damage) /\ given \in Inputs
  BY DEF FileInv
<1>2. HeaderKept(Header, Table, given.damage)
  BY <1>1, GivenTyped, HeaderIsKept DEF Header
<1>3. given.damage.what = "none" => file = Build(Table)
  BY <1>1 DEF Damaged
<1> QED
  BY <1>1, <1>2, <1>3

\* Once the tables were read and the records are there, what moves them is one of the two
\* numbers that nothing is compared with: a length too large finds no room for the
\* records, and a selected table that is too short is refused.
LEMMA MovedDisplaces ==
  ASSUME FileInv, TablesInv, SchemaGiven, stage # "unwritten", Moved(given.damage, Table)
  PROVE  Displaces(given.damage)
<1> DEFINE d == given.damage
           n == RowsOf(Table)
           size == RecordBytes(Table)
<1>1. CASE d.what = "recordBytes"
  BY <1>1 DEF Moved, LengthOff, Displaces, Spare
<1>2. CASE d.what # "recordBytes"
  <2>1. d.what = "length" /\ d.by # 0
    BY <1>2 DEF Moved, LengthOff
  <2>2. /\ TableTyped(Table) /\ DamageTyped(d, Table) /\ d.by \in Int
        /\ file = Damaged(Build(Table), d) /\ HeaderKept(Header, Table, d)
    BY FileTyped, GivenTyped DEF FileInv, DamageTyped
  <2>3. /\ RecordStart(file) = d.by /\ Header.records = n /\ Header.recordBytes = size + 0
        /\ Cardinality(DOMAIN file.bytes) = n * size /\ n * size \in Nat /\ size \in Nat
    <3>1. RecordStart(file) = d.by
      BY <2>1, <2>2, StartIsKept
    <3>2. Header.records = n /\ Header.recordBytes = size + 0
      BY <2>1, <2>2 DEF HeaderKept, Larger
    <3>3. Cardinality(DOMAIN file.bytes) = n * size /\ n * size \in Nat
      BY <2>1, <2>2, BytesAreKept
    <3>4. size \in Nat
      BY <2>2, RecordHasRoom
    <3> QED
      BY <3>1, <3>2, <3>3, <3>4
  <2>4. d.by + n * size <= n * size
    <3>1. RecordStart(file) + Header.records * Header.recordBytes <= Cardinality(DOMAIN file.bytes)
      BY DEF SchemaGiven
    <3>2. size + 0 = size
      BY <2>3
    <3> HIDE DEF n, size, d
    <3> QED
      BY <2>3, <3>1, <3>2
  <2>5. d.by < 0
    <3> HIDE DEF n, size, d
    <3> QED
      BY <2>1, <2>2, <2>3, <2>4
  <2>6. d.field \notin selected
    BY <2>1, <2>5 DEF TablesInv, SchemaGiven, LengthOff
  <2> QED
    BY <2>1, <2>5, <2>6 DEF Displaces
<1> QED
  BY <1>1, <1>2

\* The first of a sequence.
LEMMA FirstOnes ==
  ASSUME NEW S, NEW s \in Seq(S), NEW n \in 0 .. Len(s)
  PROVE  /\ SubSeq(s, 1, n) \in Seq(S) /\ Len(SubSeq(s, 1, n)) = n
         /\ \A k \in 1 .. n : SubSeq(s, 1, n)[k] = s[k]
<1>1. \A k \in 1 .. n : s[k] \in S
  OBVIOUS
<1>2. n \in Int /\ 1 \in Int
  OBVIOUS
<1>3. /\ SubSeq(s, 1, n) \in Seq(S)
      /\ Len(SubSeq(s, 1, n)) = IF 1 <= n THEN n - 1 + 1 ELSE 0
      /\ \A k \in 1 .. n - 1 + 1 : SubSeq(s, 1, n)[k] = s[1 + k - 1]
  BY <1>1, <1>2, SubSeqProperties
<1> QED
  BY <1>2, <1>3

LEMMA SourceTyped ==
  ASSUME given \in Inputs, selected \subseteq 1 .. NumFields
  PROVE  Cardinality(selected) \in Nat /\ SourceOf \in [1 .. Cardinality(selected) -> selected]
<1> DEFINE Good(s) == /\ s \in [1 .. Cardinality(selected) -> selected]
                      /\ \A j, k \in DOMAIN s : j < k => s[j] < s[k]
<1>1. NumFields \in Nat
  BY GivenTyped
<1>2. Cardinality(selected) \in Nat /\ \E s : Enumerates(s, selected)
  BY <1>1, Enumeration
<1>3. \E s : Good(s)
  BY <1>2 DEF Enumerates
<1>4. SourceOf = CHOOSE s : Good(s)
  <2>1. SourceOf = CHOOSE s \in [1 .. Cardinality(selected) -> selected] :
                     \A j, k \in DOMAIN s : j < k => s[j] < s[k]
    BY DEF SourceOf
  <2>2. \A s : (s \in [1 .. Cardinality(selected) -> selected]
                  /\ \A j, k \in DOMAIN s : j < k => s[j] < s[k]) <=> Good(s)
    OBVIOUS
  <2> QED
    BY <2>1
<1> HIDE DEF Good
<1>5. Good(SourceOf)
  BY <1>3, <1>4
<1> QED
  BY <1>2, <1>5 DEF Good

\* Every output column has a field, and of it the symbols that were read.
LEMMA ColumnHasSource ==
  ASSUME FileInv, TablesInv, CallInv, FieldsInv, stage = "rows", NEW c \in DOMAIN out
  PROVE  /\ c[1] \in 1 .. Len(Fields) /\ Source(c) \in selected
         /\ Source(c) \in DOMAIN symbols /\ Source(c) \in DOMAIN Table
         /\ Fields[c[1]].col.syms = SymbolSet(Source(c))
         /\ ~LengthOff(given.damage) => TableRead(Source(c))
<1>1. SchemaGiven /\ Resolved /\ given \in Inputs
  BY DEF CallInv, FileInv
<1>2. c \in (1..(position - 1)) \X {"value", "text"} /\ position = Len(Fields) + 1 /\ Len(Fields) \in Nat
  BY <1>1, FieldsAre DEF FieldsInv, Resolved
<1>3. c[1] \in 1 .. Len(Fields)
  BY <1>2
<1>4. c[1] \in 1 .. Cardinality(selected)
  BY <1>1, <1>3 DEF SchemaGiven
<1>5. SourceOf[c[1]] \in selected
  BY <1>1, <1>4, SourceTyped DEF TablesInv
<1>6. selected \subseteq DOMAIN Table
  BY <1>1, GivenTyped DEF TablesInv
<1>7. ~LengthOff(given.damage) => TableRead(Source(c))
  BY <1>1, <1>5 DEF TablesInv, SchemaGiven, Source
<1> QED
  BY <1>1, <1>3, <1>5, <1>6, <1>7 DEF SchemaGiven, Source

\* What a row of a column is decoded to if nothing moves the records: what was written
\* there, unless it is what the bits are found by that is off, or its symbol is one of
\* those the header leaves out.
LEMMA RowIsDecoded ==
  ASSUME FileInv, TablesInv, CallInv, FieldsInv, stage = "rows", NEW c \in DOMAIN out,
         ~Moved(given.damage, Table),
         NEW r \in Nat \ {0}, r <= Header.records
  PROVE  /\ \/ Places(given.damage, Source(c))
            \/ Decoded(c, RecordOf(file, r)) \in {Written(Source(c), r), Beyond}
         /\ given.damage.what = "none" =>
              /\ Decoded(c, RecordOf(file, r)) = Written(Source(c), r)
              /\ Written(Source(c), r) \in SymbolSet(Source(c)) \cup {Null}
<1> DEFINE i == Source(c)
           d == given.damage
           f == Header.fields[i]
           t == Table[i]
           raw == RecordOf(file, r)
           at == t.rows[r]
           index == DecodeIndex(f, raw)
           count == f.symbols
<1>1. /\ TableTyped(Table) /\ DamageTyped(d, Table) /\ i \in DOMAIN Table
      /\ i \in DOMAIN symbols /\ TableRead(i) /\ SchemaGiven
  BY ColumnHasSource, GivenTyped DEF FileInv, CallInv, Moved
<1>2. /\ file = Damaged(Build(Table), d) /\ HeaderKept(Header, Table, d) /\ Validate(Header)
  BY FileTyped DEF FileInv
<1>3. Header.records \in Int
  BY <1>2 DEF HeaderKept
<1>4. /\ file.bytes = Build(Table).bytes /\ Header.records \in 1 .. RowsOf(Table)
      /\ Header.recordBytes = RecordBytes(Table) /\ RecordStart(file) = 0
  <2>1. Header.records > 0
    BY <1>3
  <2> QED
    BY <1>1, <1>2, <2>1, RecordsAreThere DEF SchemaGiven, Header
<1>5. r \in 1 .. RowsOf(Table)
  BY <1>1, <1>4, RecordHasRoom
<1>6. BytesHold(raw, RecordBytes(Table), RowBits(Table, r))
  BY <1>1, <1>4, <1>5, RecordIsBuilt DEF Header
<1>7. FieldTyped(t) /\ Len(t.rows) = RowsOf(Table)
  BY <1>1 DEF TableTyped
<1>8. /\ t.symbols \in Seq(Symbols) /\ t.rows \in Seq(Int)
  BY <1>7 DEF FieldTyped, LayoutFields
<1>9. /\ at \in -1 .. (Len(t.symbols) - 1) /\ Len(t.symbols) \in Nat
  BY <1>5, <1>7, <1>8 DEF FieldTyped
<1>10. /\ count \in 0 .. Len(t.symbols)
       /\ symbols[i] = SubSeq(t.symbols, 1, count)
  BY <1>1 DEF TableRead
<1>11. Decoded(c, raw) = IF index < 0 THEN Null
                         ELSE IF index < Len(symbols[i]) THEN symbols[i][index + 1] ELSE Beyond
  BY DEF Decoded, Source
<1>12. Written(i, r) = IF at < 0 THEN Null ELSE t.symbols[at + 1]
  BY DEF Written
<1>13. ~Off(d, i) => index = IF f.width = 0 /\ count = 0 THEN -1 ELSE IF at < 0 THEN -1 ELSE at
  <2> SUFFICES ASSUME ~Off(d, i)
               PROVE  index = IF f.width = 0 /\ count = 0 THEN -1 ELSE IF at < 0 THEN -1 ELSE at
    OBVIOUS
  <2>1. f.offset = Offset(Table, i) /\ f.width = Width(Table[i]) /\ f.bias = Bias(Table[i])
    BY <1>1, <1>2 DEF HeaderKept
  <2> QED
    BY <1>1, <1>5, <1>6, <2>1, IndexIsRead
<1>14. ~CountOff(d, i) => count = Len(t.symbols)
  BY <1>1, <1>2 DEF HeaderKept
<1>15. ~Places(d, i) => ~Off(d, i) /\ (CountOff(d, i) => count # 0)
  BY DEF Places, Off, CountOff
<1>16. d.what = "none" => ~Places(d, i) /\ ~CountOff(d, i)
  BY DEF Places, CountOff
<1>17. Len(symbols[i]) = count /\ \A k \in 1 .. count : symbols[i][k] = t.symbols[k]
  BY <1>8, <1>9, <1>10, FirstOnes
<1> HIDE DEF i, d, f, t, raw, at, index, count
<1>18. ~Places(d, i) => Decoded(c, raw) \in {Written(i, r), Beyond}
  <2> SUFFICES ASSUME ~Places(d, i) PROVE Decoded(c, raw) \in {Written(i, r), Beyond}
    OBVIOUS
  <2>1. CASE f.width = 0 /\ count = 0
    <3>1. Len(t.symbols) = 0
      BY <1>14, <1>15, <2>1
    <3>2. at < 0 /\ index = -1
      BY <1>9, <1>13, <1>15, <2>1, <3>1
    <3> QED
      BY <1>11, <1>12, <3>2
  <2>2. CASE ~(f.width = 0 /\ count = 0) /\ at < 0
    <3>1. index = -1
      BY <1>13, <1>15, <2>2
    <3> QED
      BY <1>11, <1>12, <2>2, <3>1
  <2>3. CASE ~(f.width = 0 /\ count = 0) /\ ~(at < 0)
    <3>1. index = at /\ at \in Nat
      BY <1>9, <1>13, <1>15, <2>3
    <3>2. CASE at < count
      <4>1. at + 1 \in 1 .. count
        BY <1>9, <1>10, <3>1, <3>2
      <4> QED
        BY <1>11, <1>12, <1>17, <2>3, <3>1, <3>2, <4>1
    <3>3. CASE ~(at < count)
      BY <1>11, <1>17, <2>3, <3>1, <3>3
    <3> QED
      BY <3>2, <3>3
  <2> QED
    BY <2>1, <2>2, <2>3
<1>19. d.what = "none" => /\ Decoded(c, raw) = Written(i, r)
                          /\ Written(i, r) \in SymbolSet(i) \cup {Null}
  <2> SUFFICES ASSUME d.what = "none"
               PROVE  Decoded(c, raw) = Written(i, r) /\ Written(i, r) \in SymbolSet(i) \cup {Null}
    OBVIOUS
  <2>1. ~Off(d, i) /\ count = Len(t.symbols)
    BY <1>14, <1>15, <1>16
  <2>2. CASE at < 0
    <3>1. index = -1
      BY <1>13, <2>1, <2>2
    <3> QED
      BY <1>11, <1>12, <2>2, <3>1
  <2>3. CASE ~(at < 0)
    <3>1. at \in Nat /\ at + 1 \in 1 .. count /\ at < count /\ count # 0
      BY <1>9, <2>1, <2>3
    <3>2. index = at
      BY <1>13, <2>1, <2>3, <3>1
    <3>3. Written(i, r) = symbols[i][at + 1] /\ Decoded(c, raw) = symbols[i][at + 1]
      BY <1>11, <1>12, <1>17, <2>3, <3>1, <3>2
    <3>4. symbols[i][at + 1] \in SymbolSet(i)
      <4>1. at + 1 \in DOMAIN symbols[i]
        <5>1. symbols[i] \in Seq(Symbols)
          BY <1>8, <1>9, <1>10
        <5> QED
          BY <1>17, <3>1, <5>1
      <4> QED
        BY <4>1 DEF SymbolSet, Range
    <3> QED
      BY <3>3, <3>4
  <2> QED
    BY <2>2, <2>3
<1> QED
  BY <1>18, <1>19 DEF d, i, raw

\* Wherever a table is looked for, what is there is a sequence of units.
LEMMA UnitsAreThere ==
  ASSUME NEW table, TableTyped(table), NEW d, DamageTyped(d, table), NEW i \in DOMAIN table,
         NEW f, f = Damaged(Build(table), d)
  PROVE  Len(UnitsOf(f, i)) \in Nat
<1> DEFINE from == TableStart(f.header, i)
           to == from + f.header.fields[i].length
           all == Len(f.tables)
           end == Min({to, all})
<1>1. DOMAIN table = 1 .. Len(table) /\ Len(table) \in Nat /\ d.by \in Int
  BY DEF TableTyped, DamageTyped
<1>2. from \in Int
  <2>1. i \in 1 .. (Len(table) + 1)
    BY <1>1
  <2>2. Started(table, i) \in Nat
    BY PartIsFound
  <2>3. from = Started(table, i) + (IF d.what = "length" /\ d.field < i THEN d.by ELSE 0)
    BY <2>1, StartIsKept
  <2> HIDE DEF from
  <2> QED
    BY <1>1, <2>2, <2>3
<1>3. to \in Int
  <2>1. HeaderKept(f.header, table, d)
    BY HeaderIsKept
  <2>2. f.header.fields[i].length = Len(SymbolUnits(table[i])) + Longer(d, i)
    BY <2>1 DEF HeaderKept
  <2>3. Len(SymbolUnits(table[i])) \in Nat
    BY UnitsAreSequences
  <2> HIDE DEF from
  <2> QED
    BY <1>1, <1>2, <2>2, <2>3 DEF Longer
<1>4. all \in Nat
  <2> DEFINE whole == Build(table).tables
  <2>1. all = Len(whole)
    BY TablesAsBuilt
  <2>2. Len(whole) \in Nat
    BY TablesAsBuilt
  <2> HIDE DEF whole, all
  <2> QED
    BY <2>1, <2>2
<1>5. UnitsOf(f, i) = SubSeq(f.tables, from + 1, end)
  BY DEF UnitsOf
<1> HIDE DEF from, to, all
<1>6. end \in Int
  <2>1. \E x \in {to, all} : \A y \in {to, all} : x <= y
    BY <1>3, <1>4
  <2>2. end \in {to, all}
    BY <2>1 DEF Min
  <2> HIDE DEF end
  <2> QED
    BY <1>3, <1>4, <2>2
<1> HIDE DEF end
<1> DEFINE S == {f.tables[j] : j \in (from + 1) .. end}
<1>7. \A j \in (from + 1) .. end : f.tables[j] \in S
  OBVIOUS
<1> HIDE DEF S
<1>8. Len(SubSeq(f.tables, from + 1, end)) = IF from + 1 <= end THEN end - (from + 1) + 1 ELSE 0
  BY <1>2, <1>6, <1>7, SubSeqProperties
<1> QED
  BY <1>2, <1>5, <1>6, <1>8

\* A table is read as it was written, or refused; as it was written, if nothing is wrong.
\* If a length moves the tables, what is read is still of symbols, and of the table that
\* is too short itself nothing is.
LEMMA TableIsReadBack ==
  ASSUME FileInv, stage = "symbols", NEW i \in 1 .. NumFields
  PROVE  LET count == Header.fields[i].symbols
             read == ReadSymbolTable(TableOf(i), count)
             d == given.damage
         IN /\ read.symbols \in Seq(Symbols)
            /\ ~LengthOff(d) /\ read.next # 0 => /\ count \in 0 .. Len(Table[i].symbols)
                                                 /\ read.symbols = SubSeq(Table[i].symbols, 1, count)
            /\ LengthOff(d) /\ d.by < 0 /\ d.field = i => read.next = 0
            /\ d.what = "none" => read.next # 0
<1> DEFINE d == given.damage
           count == Header.fields[i].symbols
           units == TableOf(i)
           read == ReadSymbolTable(units, count)
           t == Table[i]
<1>1. /\ TableTyped(Table) /\ DamageTyped(d, Table) /\ i \in DOMAIN Table
  BY GivenTyped DEF FileInv
<1>2. file = Damaged(Build(Table), d) /\ HeaderKept(Header, Table, d) /\ Validate(Header)
  BY FileTyped DEF FileInv
<1>3. /\ count \in Nat
      /\ ~CountOff(d, i) => count = Len(t.symbols)
  <2>1. i \in DOMAIN Header.fields /\ count \in Int
    BY <1>1, <1>2 DEF HeaderKept
  <2>2. count >= 0
    BY <1>2, <2>1 DEF Validate, FieldValid
  <2>3. ~CountOff(d, i) => count = Len(t.symbols)
    BY <1>1, <1>2 DEF HeaderKept
  <2> QED
    BY <2>1, <2>2, <2>3
<1>4. t.symbols \in Seq(Symbols) /\ Len(t.symbols) \in Nat
  <2>1. t \in LayoutFields
    BY <1>1 DEF TableTyped, FieldTyped
  <2>2. t.symbols \in Seq(Symbols)
    BY <2>1 DEF LayoutFields
  <2> QED
    BY <2>2
<1>5. SymbolUnits(t) = Joined(Encoded(t.symbols), Len(t.symbols))
  BY DEF SymbolUnits, Encoded
<1>6. units = UnitsOf(file, i)
  BY DEF TableOf, UnitsAt, UnitsOf, Header
<1>7. ~LengthOff(d) =>
        \/ units = SymbolUnits(t)
        \/ /\ TagOff(d, i) /\ Len(units) \in Nat \ {0} /\ units[1] = "07"
           /\ Len(SymbolUnits(t)) > 0
  BY <1>1, <1>2, <1>6, TableIsKept
<1>8. d.what = "none" => ~TagOff(d, i) /\ ~CountOff(d, i) /\ ~LengthOff(d)
  BY DEF TagOff, CountOff, LengthOff
<1>11. LengthOff(d) /\ d.by < 0 /\ d.field = i =>
         ~CountOff(d, i) /\ Shorter(units, SymbolUnits(t)) /\ Len(units) < Len(SymbolUnits(t))
  BY <1>1, <1>2, <1>6, TableIsShort DEF Header, LengthOff, CountOff
<1>12. read.symbols \in Seq(Symbols)
  <2>1. Len(units) \in Nat
    BY <1>1, <1>2, <1>6, UnitsAreThere
  <2> HIDE DEF units, count
  <2> QED
    BY <1>3, <2>1, ReadIsTyped
<1> SUFFICES /\ ~LengthOff(d) /\ read.next # 0
                  => count \in 0 .. Len(t.symbols) /\ read.symbols = SubSeq(t.symbols, 1, count)
             /\ LengthOff(d) /\ d.by < 0 /\ d.field = i => read.next = 0
             /\ d.what = "none" => read.next # 0
  BY <1>12
<1> HIDE DEF d, count, units, t
<1>13. ASSUME LengthOff(d), d.by < 0, d.field = i PROVE read.next = 0
  BY <1>3, <1>4, <1>5, <1>11, <1>13, ShortIsRefused
<1>9. CASE units = SymbolUnits(t)
  <2>1. IF count <= Len(t.symbols)
          THEN read.next # 0 /\ read.symbols = SubSeq(t.symbols, 1, count)
          ELSE read.next = 0
    BY <1>3, <1>4, <1>5, <1>9, TableIsRead
  <2> HIDE DEF read
  <2> QED
    BY <1>3, <1>4, <1>8, <1>13, <2>1
<1>10. CASE TagOff(d, i) /\ Len(units) \in Nat \ {0} /\ units[1] = "07" /\ Len(SymbolUnits(t)) > 0
  <2>1. ~CountOff(d, i)
    BY <1>10 DEF TagOff, CountOff
  <2>2. count # 0
    <3> SUFFICES ASSUME count = 0 PROVE FALSE
      OBVIOUS
    <3>1. Len(t.symbols) = 0
      BY <1>3, <2>1
    <3>2. Joined(Encoded(t.symbols), 0) = <<>>
      <4>1. 0 \in Nat /\ \A k \in 1 .. 0 : Encoded(t.symbols)[k] \in Seq({})
        OBVIOUS
      <4> QED
        BY <4>1, JoinedAppends
    <3> QED
      BY <1>5, <1>10, <3>1, <3>2
  <2>3. read.next = 0
    BY <1>3, <1>10, <2>2, BrokenIsRefused
  <2> QED
    BY <1>8, <1>10, <1>13, <2>3
<1>14. CASE LengthOff(d)
  BY <1>8, <1>13, <1>14
<1> QED
  BY <1>7, <1>9, <1>10, <1>14

LEMMA PathInitInv == PathInit => PathInv
<1> SUFFICES ASSUME PathInit PROVE PathInv
  OBVIOUS
<1>1. given \in Inputs /\ Beginning /\ input = [options |-> given.options, fields |-> <<>>]
  BY DEF PathInit, Beginning
<1>2. InputTyped
  BY <1>1, GivenTyped DEF InputTyped
<1>3. IInv /\ FieldsInv
  BY <1>1, <1>2, BeginningInv, FieldsInvBegins
<1>4. FileInv /\ TablesInv /\ CallInv /\ RowsInv /\ NoRefusal
  BY <1>1 DEF PathInit, FileInv, TablesInv, CallInv, RowsInv, NoRefusal
<1> QED
  BY <1>3, <1>4 DEF PathInv

\* What a step leaves as it was.
LEMMA SchemaKept == IInv /\ FieldsInv /\ UNCHANGED <<input, schemaVars>> => IInv' /\ FieldsInv'
BY NamesSettledInv, FieldsInvNaming DEF vars, schemaVars

LEMMA TablesKept ==
  /\ TablesInv /\ UNCHANGED <<given, file, selected, symbols>>
  /\ stage' \notin {"unwritten", "open", "columns"}
  => TablesInv'
BY DEF TablesInv, TableRead, Header, Table, NumFields

LEMMA NothingRead ==
  /\ symbols' = <<>> /\ selected' \subseteq 1 .. NumFields'
  => TablesInv'
BY DEF TablesInv

LEMMA NoRows == rows' = <<>> /\ stage' # "done" => RowsInv'
BY DEF RowsInv

\* The file is written, and is as long as its records.
LEMMA WriteFileInv == PathInv /\ WriteFile => PathInv'
<1> SUFFICES ASSUME PathInv, WriteFile PROVE PathInv'
  OBVIOUS
<1>1. /\ stage = "unwritten" /\ stage' = "open" /\ file' = Damaged(Build(Table), given.damage)
      /\ UNCHANGED <<given, selected, symbols, rows, failure, input, schemaVars>>
  BY DEF WriteFile, Go, Table
<1>2. FileInv'
  BY <1>1 DEF PathInv, FileInv, Table
<1>3. TablesInv'
  BY <1>1, NothingRead DEF PathInv, TablesInv, NumFields
<1>4. CallInv'
  BY <1>1 DEF PathInv, CallInv, Beginning, schemaVars
<1>5. RowsInv'
  BY <1>1, NoRows DEF PathInv, RowsInv
<1>6. NoRefusal'
  BY <1>1 DEF PathInv, NoRefusal
<1> QED
  BY <1>1, <1>2, <1>3, <1>4, <1>5, <1>6, SchemaKept DEF PathInv

\* Validate accepts what was written.
LEMMA OpenInv == PathInv /\ Open => PathInv'
<1> SUFFICES ASSUME PathInv, Open PROVE PathInv'
  OBVIOUS
<1>1. /\ stage = "open"
      /\ UNCHANGED <<given, file, selected, symbols, rows, input, schemaVars>>
      /\ \/ Validate(Header) /\ stage' = "columns" /\ failure' = failure
         \/ ~Validate(Header) /\ stage' = "failed" /\ failure' = "header"
  BY DEF Open, Go, Fail
<1>2. FileInv'
  BY <1>1 DEF PathInv, FileInv, Table, Header
<1>3. TablesInv'
  BY <1>1, NothingRead DEF PathInv, TablesInv, NumFields
<1>4. CallInv'
  BY <1>1 DEF PathInv, CallInv, Beginning, schemaVars
<1>5. RowsInv'
  BY <1>1, NoRows DEF PathInv, RowsInv
<1>6. given.damage.what = "none" => Validate(Header)
  BY <1>1, GivenTyped, FileTyped, BuiltIsValid DEF PathInv, FileInv, Header
<1>7. NoRefusal'
  BY <1>1, <1>6 DEF PathInv, NoRefusal
<1> QED
  BY <1>1, <1>2, <1>3, <1>4, <1>5, <1>7, SchemaKept DEF PathInv

LEMMA SelectColumnsInv == PathInv /\ SelectColumns => PathInv'
<1> SUFFICES ASSUME PathInv, SelectColumns PROVE PathInv'
  OBVIOUS
<1>1. /\ stage = "columns"
      /\ UNCHANGED <<given, file, symbols, rows, input, schemaVars>>
      /\ \/ stage' = "symbols" /\ failure' = failure /\ selected' = Chosen
         \/ stage' = "failed" /\ failure' = "columns" /\ selected' = selected
  BY DEF SelectColumns, Go, Fail
<1>2. FileInv'
  BY <1>1 DEF PathInv, FileInv, Table, Header
<1>3. Chosen \subseteq 1 .. NumFields
  BY DEF Chosen, Named
<1>4. TablesInv'
  BY <1>1, <1>3, NothingRead DEF PathInv, TablesInv, NumFields
<1>5. CallInv'
  BY <1>1 DEF PathInv, CallInv, Beginning, schemaVars
<1>6. RowsInv'
  BY <1>1, NoRows DEF PathInv, RowsInv
<1>7. NoRefusal'
  BY <1>1 DEF PathInv, NoRefusal
<1> QED
  BY <1>1, <1>2, <1>4, <1>5, <1>6, <1>7, SchemaKept DEF PathInv

\* A table is read as it was written, or ends the conversion.
LEMMA ReadSymbolsInv ==
  ASSUME NEW i \in 1 .. NumFields
  PROVE  PathInv /\ ReadSymbols(i) => PathInv'
<1> SUFFICES ASSUME PathInv, ReadSymbols(i) PROVE PathInv'
  OBVIOUS
<1> DEFINE count == Header.fields[i].symbols
           read == ReadSymbolTable(TableOf(i), count)
<1>1. /\ stage = "symbols" /\ i \in selected
      /\ UNCHANGED <<given, file, selected, rows, input, schemaVars>>
      /\ \/ read.next = 0 /\ stage' = "failed" /\ failure' = "symbols" /\ symbols' = symbols
         \/ /\ read.next # 0 /\ stage' = stage /\ failure' = failure
            /\ symbols' = [j \in DOMAIN symbols \cup {i} |-> IF j = i THEN read.symbols ELSE symbols[j]]
  BY DEF ReadSymbols, Fail
<1> DEFINE d == given.damage
<1>2. /\ read.symbols \in Seq(Symbols)
      /\ ~LengthOff(d) /\ read.next # 0 => /\ count \in 0 .. Len(Table[i].symbols)
                                           /\ read.symbols = SubSeq(Table[i].symbols, 1, count)
      /\ LengthOff(d) /\ d.by < 0 /\ d.field = i => read.next = 0
      /\ d.what = "none" => read.next # 0
  BY <1>1, TableIsReadBack DEF PathInv
<1> HIDE DEF read
<1>3. FileInv'
  BY <1>1 DEF PathInv, FileInv, Table, Header
<1>4. TablesInv'
  <2>1. CASE read.next = 0
    BY <1>1, <2>1, TablesKept DEF PathInv
  <2>2. CASE read.next # 0
    <3>1. symbols' = [j \in DOMAIN symbols \cup {i} |-> IF j = i THEN read.symbols ELSE symbols[j]]
      BY <1>1, <2>2
    <3>2. symbols'[i] \in Seq(Symbols) /\ (~LengthOff(d) => TableRead(i)')
      <4>1. symbols'[i] = read.symbols
        BY <3>1
      <4>2. ASSUME ~LengthOff(d) PROVE TableRead(i)'
        BY <1>1, <1>2, <2>2, <4>1, <4>2 DEF TableRead, Header, Table
      <4> QED
        BY <1>2, <4>1, <4>2
    <3>3. ASSUME NEW j \in DOMAIN symbols, j # i
          PROVE  symbols'[j] \in Seq(Symbols) /\ (~LengthOff(d) => TableRead(j)')
      <4>1. symbols'[j] = symbols[j] /\ symbols[j] \in Seq(Symbols) /\ (~LengthOff(d) => TableRead(j))
        BY <3>1, <3>3 DEF PathInv, TablesInv
      <4>2. ASSUME TableRead(j) PROVE TableRead(j)'
        BY <1>1, <4>1, <4>2 DEF TableRead, Header, Table
      <4> QED
        BY <4>1, <4>2
    <3>4. DOMAIN symbols' = DOMAIN symbols \cup {i}
      BY <3>1
    <3>5. DOMAIN symbols' \subseteq selected' /\ selected' \subseteq 1 .. NumFields'
      BY <1>1, <3>4 DEF PathInv, TablesInv, NumFields
    <3>6. \A j \in DOMAIN symbols' : symbols'[j] \in Seq(Symbols) /\ (~LengthOff(d) => TableRead(j)')
      BY <3>2, <3>3, <3>4
    <3>7. LengthOff(d) /\ d.by < 0 => d.field \notin DOMAIN symbols'
      BY <1>2, <2>2, <3>4 DEF PathInv, TablesInv
    <3>8. given' = given /\ stage' \notin {"unwritten", "open", "columns"}
      BY <1>1, <2>2
    <3> HIDE DEF d
    <3>9. given'.damage = d
      BY <3>8 DEF d
    <3> QED
      BY <3>5, <3>6, <3>7, <3>8, <3>9 DEF TablesInv
  <2> QED
    BY <2>1, <2>2
<1>5. CallInv'
  BY <1>1 DEF PathInv, CallInv, Beginning, schemaVars
<1>6. RowsInv'
  BY <1>1, NoRows DEF PathInv, RowsInv
<1>7. NoRefusal'
  BY <1>1, <1>2 DEF PathInv, NoRefusal
<1> QED
  BY <1>1, <1>3, <1>4, <1>5, <1>6, <1>7, SchemaKept DEF PathInv

LEMMA BeginningLater == InputTyped' /\ Beginning' => IInv' /\ FieldsInv'
<1>1. InputTyped /\ Beginning => IInv /\ FieldsInv
  BY BeginningInv, FieldsInvBegins
<1> QED
  BY <1>1, PTL

\* The symbols that were read are symbols.
LEMMA SymbolSetTyped ==
  ASSUME TablesInv, NEW i \in DOMAIN symbols
  PROVE  SymbolSet(i) \subseteq Symbols
<1>1. symbols[i] \in Seq(Symbols)
  BY DEF TablesInv
<1> QED
  BY <1>1, ElementOfSeq, LenProperties DEF SymbolSet, Range

\* What the length of the record area is compared with is a number; and enough of it is
\* there if nothing is wrong.
LEMMA AreaTyped ==
  ASSUME FileInv, stage # "unwritten", Validate(Header)
  PROVE  LET needed == RecordStart(file) + Header.records * Header.recordBytes
             there == Cardinality(DOMAIN file.bytes)
         IN needed \in Int /\ there \in Nat /\ (given.damage.what = "none" => needed <= there)
<1> DEFINE n == RowsOf(Table)
           size == RecordBytes(Table)
           there == Cardinality(DOMAIN file.bytes)
<1>1. /\ TableTyped(Table) /\ DamageTyped(given.damage, Table)
      /\ file = Damaged(Build(Table), given.damage)
      /\ HeaderKept(Header, Table, given.damage)
  BY FileTyped, GivenTyped DEF FileInv
<1>2. /\ n * size \in Nat
      /\ there = IF given.damage.what # "cut" THEN n * size ELSE IF n * size > 0 THEN n * size - 1 ELSE 0
  BY <1>1, BytesAreKept
<1>3. n \in Nat /\ size \in Nat
  BY <1>1, RecordHasRoom
<1>4. /\ Header.recordBytes = size + Larger(given.damage) /\ Header.records \in Int
      /\ given.damage.what = "none" => Header.records = n
  BY <1>1 DEF HeaderKept
<1>7. /\ Larger(given.damage) \in Int /\ RecordStart(file) \in Int
      /\ given.damage.what = "none" => Larger(given.damage) = 0 /\ RecordStart(file) = 0
  <2>1. given.damage.by \in Int
    BY <1>1 DEF DamageTyped
  <2>2. RecordStart(file) = IF given.damage.what = "length" THEN given.damage.by ELSE 0
    BY <1>1, StartIsKept
  <2> QED
    BY <2>1, <2>2 DEF Larger
<1> HIDE DEF n, size, there
<1>5. there \in Nat /\ (given.damage.what = "none" => there = n * size)
  BY <1>2
<1>6. /\ Header.records * Header.recordBytes \in Int
      /\ given.damage.what = "none" => Header.recordBytes = size
  <2>1. \A x, y \in Int : x * y \in Int
    OBVIOUS
  <2>2. Header.recordBytes \in Int
    BY <1>3, <1>4, <1>7
  <2> QED
    BY <1>3, <1>4, <1>7, <2>1, <2>2
<1> QED
  BY <1>2, <1>4, <1>5, <1>6, <1>7 DEF there

\* ResolveSchema is called with the symbols that were read of the selected columns.
LEMMA CheckRecordAreaInv == PathInv /\ CheckRecordArea => PathInv'
<1> SUFFICES ASSUME PathInv, CheckRecordArea PROVE PathInv'
  OBVIOUS
<1> DEFINE n == Cardinality(selected)
           asked(k) == [given.fields[SourceOf[k]] EXCEPT !.col.syms = SymbolSet(SourceOf[k])]
<1>1. /\ stage = "symbols" /\ selected = DOMAIN symbols
      /\ UNCHANGED <<given, file, selected, symbols, rows, schemaVars>>
      /\ \/ RecordStart(file) + Header.records * Header.recordBytes > Cardinality(DOMAIN file.bytes)
            /\ stage' = "failed" /\ failure' = "truncated" /\ input' = input
         \/ /\ ~(RecordStart(file) + Header.records * Header.recordBytes > Cardinality(DOMAIN file.bytes))
            /\ stage' = "schema" /\ failure' = failure
            /\ input' = [input EXCEPT !.fields = [k \in DOMAIN SourceOf |-> asked(k)]]
  BY DEF CheckRecordArea, Go, Fail
<1>2. /\ given \in Inputs /\ selected \subseteq 1 .. NumFields
      /\ Beginning /\ input = [options |-> given.options, fields |-> <<>>]
  BY <1>1 DEF PathInv, FileInv, TablesInv, CallInv
<1>3. n \in Nat /\ SourceOf \in [1 .. n -> selected]
  BY <1>2, SourceTyped
<1>4. FileInv'
  BY <1>1 DEF PathInv, FileInv, Table, Header
<1>5. TablesInv'
  BY <1>1, TablesKept DEF PathInv
<1>6. RowsInv'
  BY <1>1, NoRows DEF PathInv, RowsInv
<1>7. /\ RecordStart(file) + Header.records * Header.recordBytes \in Int /\ Cardinality(DOMAIN file.bytes) \in Nat
      /\ given.damage.what = "none" => RecordStart(file) + Header.records * Header.recordBytes <= Cardinality(DOMAIN file.bytes)
  BY <1>1, AreaTyped DEF PathInv, FileInv
<1>8. CASE stage' = "failed"
  <2>1. given.damage.what # "none"
    <3> SUFFICES ASSUME given.damage.what = "none" PROVE FALSE
      OBVIOUS
    <3> QED
      BY <1>1, <1>8, <1>7
  <2>2. NoRefusal'
    BY <1>1, <2>1 DEF NoRefusal
  <2>3. CallInv'
    BY <1>8 DEF CallInv
  <2> QED
    BY <1>1, <1>4, <1>5, <1>6, <1>8, <2>2, <2>3, SchemaKept DEF PathInv
<1>9. CASE stage' # "failed"
  <2>1. /\ stage' = "schema" /\ failure' = failure
        /\ ~(RecordStart(file) + Header.records * Header.recordBytes > Cardinality(DOMAIN file.bytes))
        /\ input' = [options |-> given.options, fields |-> [k \in 1 .. n |-> asked(k)]]
    BY <1>1, <1>2, <1>3, <1>9
  <2>2. ASSUME NEW k \in 1 .. n
        PROVE  /\ asked(k) \in [name : Names, col : QvdColumns]
               /\ asked(k).col.syms = SymbolSet(SourceOf[k])
    <3> DEFINE i == SourceOf[k]
               f == given.fields[i]
    <3>1. i \in DOMAIN symbols /\ i \in 1 .. NumFields
      BY <1>1, <1>2, <1>3
    <3>2. f \in [name : Names, col : QvdColumns]
      BY <1>2, <3>1, GivenTyped
    <3>3. SymbolSet(i) \in SUBSET Symbols
      BY <1>2, <3>1, SymbolSetTyped DEF PathInv
    <3> HIDE DEF i, f
    <3>4. asked(k) = [f EXCEPT !.col.syms = SymbolSet(i)]
      BY DEF f, i
    <3>5. f.col \in QvdColumns /\ f.name \in Names /\ f = [name |-> f.name, col |-> f.col]
      <4> DEFINE A1 == Names
                 B1 == QvdColumns
      <4>1. f \in [name : A1, col : B1]
        BY <3>2
      <4> HIDE DEF A1, B1
      <4>2. f.col \in B1 /\ f.name \in A1 /\ f = [name |-> f.name, col |-> f.col]
        BY <4>1
      <4> QED
        BY <4>2 DEF A1, B1
    <3>6. asked(k) = [name |-> f.name, col |-> [f.col EXCEPT !.syms = SymbolSet(i)]]
      BY <3>4, <3>5
    <3> DEFINE g == [f.col EXCEPT !.syms = SymbolSet(i)]
    <3>7. g \in QvdColumns /\ g.syms = SymbolSet(i)
      BY <3>3, <3>5 DEF QvdColumns
    <3> HIDE DEF g, asked
    <3>8. asked(k) \in [name : Names, col : QvdColumns]
      <4> DEFINE A1 == Names
                 B1 == QvdColumns
      <4>1. f.name \in A1 /\ g \in B1 /\ asked(k) = [name |-> f.name, col |-> g]
        BY <3>5, <3>6, <3>7 DEF g
      <4> HIDE DEF A1, B1
      <4>2. asked(k) \in [name : A1, col : B1]
        BY <4>1
      <4> QED
        BY <4>2 DEF A1, B1
    <3>9. asked(k).col = g
      BY <3>6 DEF g
    <3> QED
      BY <3>7, <3>8, <3>9 DEF i
  <2> HIDE DEF asked, n
  <2>3. /\ Fields' = [k \in 1 .. n |-> asked(k)] /\ input'.options = given.options
        /\ input'.fields = Fields'
    BY <2>1 DEF Fields
  <2>4. Fields' \in Seq([name : Names, col : QvdColumns]) /\ Len(Fields') = n
    <3> DEFINE S == [name : Names, col : QvdColumns]
    <3>1. \A k \in 1 .. n : asked(k) \in S
      BY <2>2
    <3> HIDE DEF S
    <3>2. [k \in 1 .. n |-> asked(k)] \in [1 .. n -> S]
      BY <3>1
    <3>3. [k \in 1 .. n |-> asked(k)] \in Seq(S) /\ Len([k \in 1 .. n |-> asked(k)]) = n
      BY <1>3, <3>2
    <3> QED
      BY <2>3, <3>3 DEF S
  <2>5. InputTyped'
    BY <1>2, <2>3, <2>4, GivenTyped DEF InputTyped
  <2>6. Beginning'
    BY <1>1, <1>2 DEF Beginning, schemaVars
  <2>7. IInv' /\ FieldsInv'
    BY <2>5, <2>6, BeginningLater
  <2>8. SchemaGiven'
    <3>1. SourceOf' = SourceOf /\ Header' = Header /\ \A i : SymbolSet(i)' = SymbolSet(i)
      BY <1>1 DEF SourceOf, Header, SymbolSet
    <3>2. \A k \in 1 .. n : Fields'[k].col.syms = SymbolSet(SourceOf[k])
      BY <2>2, <2>3
    <3>3. RecordStart(file) + Header.records * Header.recordBytes <= Cardinality(DOMAIN file.bytes)
      BY <1>7, <2>1
    <3> QED
      BY <1>1, <2>4, <3>1, <3>2, <3>3 DEF SchemaGiven, n
  <2>9. CallInv'
    BY <2>1, <2>8 DEF CallInv
  <2>10. NoRefusal'
    BY <1>1, <2>1 DEF PathInv, NoRefusal
  <2> QED
    BY <1>4, <1>5, <1>6, <2>7, <2>9, <2>10 DEF PathInv
<1> QED
  BY <1>8, <1>9

LEMMA RowsKept ==
  /\ RowsInv /\ UNCHANGED <<given, file, selected, rows, out, input>>
  /\ stage' = "failed" /\ stage = "rows"
  => RowsInv'
<1> SUFFICES ASSUME RowsInv, UNCHANGED <<given, file, selected, rows, out, input>>,
                    stage' = "failed", stage = "rows"
             PROVE  RowsInv'
  OBVIOUS
<1>1. /\ SourceOf' = SourceOf /\ Header' = Header /\ Table' = Table /\ o' = o
      /\ given' = given /\ rows' = rows /\ out' = out
  BY DEF SourceOf, Header, Table, o
<1>2. ASSUME NEW r \in 1 .. Len(rows) PROVE RowDecoded(r)'
  <2>1. RowDecoded(r)
    BY DEF RowsInv
  <2>2. \A c : /\ Source(c)' = Source(c) /\ AsWritten(r, c)' = AsWritten(r, c)
              /\ Written(Source(c), r)' = Written(Source(c), r)
              /\ Places(given.damage, Source(c))' = Places(given.damage, Source(c))
    BY <1>1 DEF Source, AsWritten, Written, Places
  <2>3. Displaces(given.damage)' = Displaces(given.damage)
    BY <1>1 DEF Displaces
  <2> QED
    BY <1>1, <2>1, <2>2, <2>3 DEF RowDecoded
<1> QED
  BY <1>1, <1>2 DEF RowsInv

LEMMA ResolveSchemaInv == PathInv /\ ResolveSchema => PathInv'
<1> SUFFICES ASSUME PathInv, ResolveSchema PROVE PathInv'
  OBVIOUS
<1>1. /\ stage = "schema" /\ Next
      /\ UNCHANGED <<given, file, selected, symbols, rows>>
      /\ \/ phase' = "resolved" /\ stage' = "rows" /\ failure' = failure
         \/ stage' = "failed" /\ failure' = "schema"
         \/ stage' = stage /\ failure' = failure
  BY DEF ResolveSchema, Go, Fail
<1>2. input' = input
  BY <1>1 DEF Next, ResolveField, StartNaming, Claim, Collide, NamesSettled
<1>3. IInv' /\ FieldsInv'
  BY <1>1, ResolveFieldInv, StartNamingInv, ClaimInv, RenameInv, NamesSettledInv,
     FieldsInvResolve, FieldsInvNaming DEF Next, PathInv
<1>4. FileInv'
  BY <1>1 DEF PathInv, FileInv, Table, Header
<1>5. TablesInv'
  BY <1>1, TablesKept DEF PathInv
<1>6. SchemaGiven'
  <2>1. SourceOf' = SourceOf /\ Header' = Header /\ Fields' = Fields /\ \A i : SymbolSet(i)' = SymbolSet(i)
    BY <1>1, <1>2 DEF SourceOf, Header, SymbolSet, Fields
  <2>2. SchemaGiven
    BY <1>1 DEF PathInv, CallInv
  <2> QED
    BY <1>1, <2>1, <2>2 DEF SchemaGiven
<1>7. CallInv'
  BY <1>1, <1>6 DEF CallInv, Resolved
<1>8. RowsInv'
  BY <1>1, NoRows DEF PathInv, RowsInv
<1>9. NoRefusal'
  BY <1>1 DEF PathInv, NoRefusal
<1> QED
  BY <1>3, <1>4, <1>5, <1>7, <1>8, <1>9 DEF PathInv

\* No field of a record is looked for beyond it.
LEMMA FieldsInRecord ==
  ASSUME FileInv, stage = "rows", Header.records > 0, NEW r, NEW i \in DOMAIN Header.fields
  PROVE  InRecord(Header.fields[i], RecordOf(file, r))
<1> DEFINE size == Header.recordBytes
<1>1. HeaderKept(Header, Table, given.damage) /\ Validate(Header)
  BY FileTyped DEF FileInv
<1>2. Ends(Header.fields[i]) <= size * ByteBits
  BY <1>1 DEF Validate, FieldValid
<1>3. size \in Nat
  <2>1. size > 0 /\ size = RecordBytes(Table) + Larger(given.damage)
    BY <1>1 DEF Validate, HeaderKept
  <2>2. RecordBytes(Table) \in Nat /\ Larger(given.damage) \in Int
    <3>1. RecordBytes(Table) \in Nat
      BY GivenTyped, RecordHasRoom DEF FileInv
    <3>2. given.damage.by \in Int
      BY GivenTyped DEF FileInv, DamageTyped
    <3> QED
      BY <3>1, <3>2 DEF Larger
  <2> HIDE DEF size
  <2> QED
    BY <2>1, <2>2
<1>4. DOMAIN RecordOf(file, r) = 0 .. (size - 1)
  BY DEF RecordOf, Header
<1> HIDE DEF size
<1>5. Cardinality(DOMAIN RecordOf(file, r)) = size
  <2>1. Cardinality(0 .. (size - 1)) = IF 0 > size - 1 THEN 0 ELSE (size - 1) - 0 + 1
    BY <1>3, FS_Interval
  <2> QED
    BY <1>3, <1>4, <2>1
<1> QED
  BY <1>2, <1>5 DEF InRecord

\* A value that was written converts, and a null does.
LEMMA WrittenConverts ==
  ASSUME FieldsInv, Resolved, NEW c \in DOMAIN out, c[1] \in 1 .. Len(Fields),
         NEW s \in Fields[c[1]].col.syms \cup {Null}
  PROVE  Convert(out[c], s, o) # "error" /\ (s \in Fields[c[1]].col.syms => s \in Symbols)
<1> DEFINE i == c[1]
<1>1. i \in DOMAIN Fields
  BY DEF FieldsInv, InputTyped, Fields
<1>2. out[c] \in ColumnsOf(i)
  BY DEF ColumnsOf
<1>3. Fields[i].col.syms \subseteq Symbols
  BY <1>1, FieldColumns DEF QvdColumns
<1>4. CASE s = Null
  BY <1>3, <1>4 DEF Convert, Absent
<1>5. CASE s \in Fields[i].col.syms
  <2>1. ResolutionSufficient
    BY FieldColumns, ColumnConverts DEF ResolutionSufficient
  <2> QED
    BY <1>1, <1>2, <1>3, <1>5, <2>1 DEF ResolutionSufficient
<1> QED
  BY <1>4, <1>5

LEMMA AppendsOne ==
  ASSUME NEW s, s \in Seq(Range(s)), NEW x
  PROVE  /\ Append(s, x) \in Seq(Range(Append(s, x)))
         /\ Len(s) \in Nat /\ Len(Append(s, x)) = Len(s) + 1
         /\ \A k \in 1 .. Len(s) : Append(s, x)[k] = s[k]
         /\ Append(s, x)[Len(s) + 1] = x
<1> DEFINE S == Range(s) \cup {x}
           t == Append(s, x)
<1>1. s \in Seq(S)
  BY SeqMonotonic
<1> HIDE DEF S
<1>2. x \in S
  BY DEF S
<1>3. /\ t \in Seq(S) /\ Len(s) \in Nat /\ Len(t) = Len(s) + 1
      /\ \A k \in 1 .. Len(s) : t[k] = s[k]
      /\ t[Len(s) + 1] = x
  BY <1>1, <1>2
<1> HIDE DEF t
<1>4. t \in Seq(Range(t))
  <2>1. t \in [1 .. Len(t) -> Range(t)] /\ Len(t) \in Nat
    BY <1>3, LenProperties DEF Range
  <2> QED
    BY <2>1
<1> QED
  BY <1>3, <1>4 DEF t

\* A row more, decoded from its record; one that is not as it was written is of a column
\* that is off, and of a file that is as it was written none is refused.
LEMMA DecodeRowInv == PathInv /\ DecodeRow => PathInv'
<1> SUFFICES ASSUME PathInv, DecodeRow PROVE PathInv'
  OBVIOUS
<1>0. PICK r : r = Len(rows) + 1
  OBVIOUS
<1> DEFINE raw == RecordOf(file, r)
           inRange == \A i \in DOMAIN Header.fields : InRecord(Header.fields[i], raw)
           got == [c \in DOMAIN out |-> Decoded(c, raw)]
           values == [c \in DOMAIN out |-> Convert(out[c], got[c], o)]
           row == [c \in DOMAIN out |-> <<got[c], values[c]>>]
<1>1. /\ stage = "rows" /\ Len(rows) < Header.records
      /\ UNCHANGED <<given, file, selected, symbols, input, schemaVars>>
      /\ \/ /\ ~inRange \/ \E c \in DOMAIN out : got[c] = Beyond
            /\ stage' = "failed" /\ failure' = "index" /\ rows' = rows
         \/ /\ ~(\E c \in DOMAIN out : got[c] = Beyond)
            /\ \E c \in DOMAIN out : values[c] = "error"
            /\ stage' = "failed" /\ failure' = "convert" /\ rows' = rows
         \/ /\ ~(\E c \in DOMAIN out : got[c] = Beyond)
            /\ rows' = Append(rows, row) /\ stage' = stage /\ failure' = failure
  BY <1>0 DEF DecodeRow, Fail
<1>2. FileInv /\ TablesInv /\ CallInv /\ FieldsInv /\ IInv /\ RowsInv /\ Resolved /\ SchemaGiven
  BY <1>1 DEF PathInv, CallInv
<1>3. /\ Len(rows) \in Nat /\ Header.records \in Int
      /\ rows \in Seq(Range(rows))
  <2>1. HeaderKept(Header, Table, given.damage)
    BY <1>1, <1>2, FileTyped
  <2> QED
    BY <1>2, <2>1, LenProperties DEF RowsInv, HeaderKept
<1>4. r \in Nat \ {0} /\ r <= Header.records /\ Header.records > 0
  BY <1>0, <1>1, <1>3
<1>5. \A c \in DOMAIN out :
        /\ \/ Displaces(given.damage) \/ Places(given.damage, Source(c))
           \/ got[c] \in {Written(Source(c), r), Beyond}
        /\ given.damage.what = "none" =>
             got[c] = Written(Source(c), r) /\ got[c] \in Fields[c[1]].col.syms \cup {Null}
  <2> TAKE c \in DOMAIN out
  <2>1. got[c] = Decoded(c, raw)
    OBVIOUS
  <2>2. /\ \/ Displaces(given.damage) \/ Places(given.damage, Source(c))
           \/ Decoded(c, raw) \in {Written(Source(c), r), Beyond}
        /\ given.damage.what = "none" =>
             Decoded(c, raw) = Written(Source(c), r) /\ Written(Source(c), r) \in SymbolSet(Source(c)) \cup {Null}
    <3> HIDE DEF raw
    <3>1. CASE Moved(given.damage, Table)
      <4>1. Displaces(given.damage)
        BY <1>1, <1>2, <3>1, MovedDisplaces
      <4>2. given.damage.what # "none"
        BY <3>1 DEF Moved, LengthOff
      <4> QED
        BY <4>1, <4>2
    <3>2. CASE ~Moved(given.damage, Table)
      BY <1>1, <1>2, <1>4, <3>2, RowIsDecoded DEF raw
    <3> QED
      BY <3>1, <3>2
  <2>3. Fields[c[1]].col.syms = SymbolSet(Source(c))
    BY <1>1, <1>2, ColumnHasSource
  <2> HIDE DEF got
  <2> QED
    BY <2>1, <2>2, <2>3
<1>6. inRange
  BY <1>1, <1>2, <1>4, FieldsInRecord
<1>7. given.damage.what = "none" => \A c \in DOMAIN out : got[c] # Beyond /\ values[c] # "error"
  <2> SUFFICES ASSUME given.damage.what = "none", NEW c \in DOMAIN out
               PROVE  got[c] # Beyond /\ values[c] # "error"
    OBVIOUS
  <2>1. values[c] = Convert(out[c], got[c], o)
    OBVIOUS
  <2> HIDE DEF got, values
  <2>2. c[1] \in 1 .. Len(Fields)
    BY <1>1, <1>2, ColumnHasSource
  <2>3. got[c] \in Fields[c[1]].col.syms \cup {Null}
    BY <1>5
  <2>4. Convert(out[c], got[c], o) # "error" /\ (got[c] \in Fields[c[1]].col.syms => got[c] \in Symbols)
    BY <1>2, <2>2, <2>3, WrittenConverts
  <2>5. Beyond \notin Symbols /\ Beyond # Null
    <3>1. Beyond.kind = "none" /\ Null.kind = "null"
      BY DEF Beyond, Null, Symbol
    <3> QED
      BY <3>1, SymbolParts
  <2> QED
    BY <2>1, <2>3, <2>4, <2>5
<1> HIDE DEF inRange
<1>8. FileInv'
  BY <1>1, <1>2 DEF FileInv, Table, Header
<1>9. TablesInv'
  BY <1>1, <1>2, TablesKept
<1>10. IInv' /\ FieldsInv'
  BY <1>1, <1>2, SchemaKept
<1>11. SchemaGiven' /\ Resolved'
  <2>1. SourceOf' = SourceOf /\ Header' = Header /\ Fields' = Fields /\ \A i : SymbolSet(i)' = SymbolSet(i)
    BY <1>1 DEF SourceOf, Header, SymbolSet, Fields
  <2> QED
    BY <1>1, <1>2, <2>1 DEF SchemaGiven, Resolved, schemaVars
<1>12. CallInv'
  BY <1>1, <1>11 DEF CallInv
<1>13. NoRefusal'
  BY <1>1, <1>6, <1>7 DEF PathInv, NoRefusal
<1>14. out' = out
  BY <1>1 DEF schemaVars
<1>15. RowsInv'
  <2>1. CASE stage' = "failed"
    <3>1. rows' = rows
      BY <1>1, <2>1
    <3> QED
      BY <1>1, <1>2, <1>14, <2>1, <3>1, RowsKept
  <2>2. CASE stage' # "failed"
    <3>1. /\ rows' = Append(rows, row) /\ stage' = "rows"
          /\ \A c \in DOMAIN out : got[c] # Beyond
      BY <1>1, <2>2
    <3>2. \A c \in DOMAIN out : row[c][1] = got[c] /\ row[c][2] = Convert(out[c], got[c], o)
      OBVIOUS
    <3> HIDE DEF row, got, values
    <3>3. /\ rows' \in Seq(Range(rows')) /\ Len(rows') = r
          /\ \A k \in 1 .. Len(rows) : rows'[k] = rows[k]
          /\ rows'[r] = row
      BY <1>0, <1>3, <3>1, AppendsOne
    <3>4. /\ SourceOf' = SourceOf /\ Header' = Header /\ Table' = Table /\ o' = o
          /\ given' = given /\ selected' = selected
      BY <1>1 DEF SourceOf, Header, Table, o
    <3>5. /\ Displaces(given.damage)' = Displaces(given.damage)
          /\ \A c, k : /\ Source(c)' = Source(c) /\ Written(Source(c), k)' = Written(Source(c), k)
                       /\ Places(given.damage, Source(c))' = Places(given.damage, Source(c))
      BY <3>4 DEF Source, Written, Places, Displaces
    <3>6. ASSUME NEW k \in 1 .. Len(rows) PROVE RowDecoded(k)'
      <4>1. RowDecoded(k) /\ rows'[k] = rows[k]
        BY <1>2, <3>3 DEF RowsInv
      <4> QED
        BY <1>14, <3>4, <3>5, <4>1 DEF RowDecoded, AsWritten
    <3>7. RowDecoded(r)'
      <4>1. ASSUME NEW c \in DOMAIN out
            PROVE  /\ \/ Displaces(given.damage) \/ Places(given.damage, Source(c))
                      \/ row[c][1] = Written(Source(c), r)
                   /\ given.damage.what = "none" =>
                        /\ row[c][1] = Written(Source(c), r)
                        /\ row[c][2] = Convert(out[c], Written(Source(c), r), o)
        BY <1>5, <3>1, <3>2, <4>1
      <4>2. \A c : AsWritten(r, c)' <=> row[c][1] = Written(Source(c), r)
        BY <3>3, <3>5 DEF AsWritten
      <4>3. \A c \in DOMAIN out :
              /\ Displaces(given.damage)' \/ Places(given.damage, Source(c))' \/ AsWritten(r, c)'
              /\ given'.damage.what = "none" =>
                   AsWritten(r, c)' /\ rows'[r][c][2] = Convert(out[c], Written(Source(c), r), o)
        BY <3>3, <3>4, <3>5, <4>1, <4>2
      <4> QED
        BY <1>14, <3>4, <3>5, <4>3 DEF RowDecoded
    <3>8. \A k \in 1 .. Len(rows') : RowDecoded(k)'
      <4> SUFFICES ASSUME NEW k \in 1 .. Len(rows') PROVE RowDecoded(k)'
        OBVIOUS
      <4>1. k \in 1 .. Len(rows) \/ k = r
        BY <1>0, <1>3, <3>3
      <4>2. CASE k = r
        BY <3>7, <4>2
      <4> QED
        BY <3>6, <4>1, <4>2
    <3> QED
      BY <3>1, <3>3, <3>8 DEF RowsInv
  <2> QED
    BY <2>1, <2>2
<1> QED
  BY <1>8, <1>9, <1>10, <1>12, <1>13, <1>15 DEF PathInv

\* Nothing but the stage changes.
LEMMA FinishInv == PathInv /\ (Finish \/ UNCHANGED allVars) => PathInv'
<1> SUFFICES ASSUME PathInv, Finish \/ UNCHANGED allVars PROVE PathInv'
  OBVIOUS
<1>1. /\ UNCHANGED <<given, file, selected, symbols, rows, input, schemaVars, failure>>
      /\ \/ stage' = stage
         \/ stage = "rows" /\ stage' = "done" /\ Len(rows) = Header.records
  BY DEF Finish, Go, allVars, pathVars
<1>2. /\ SourceOf' = SourceOf /\ Header' = Header /\ Table' = Table /\ o' = o /\ out' = out
      /\ Fields' = Fields /\ \A i : SymbolSet(i)' = SymbolSet(i)
  BY <1>1 DEF SourceOf, Header, Table, o, SymbolSet, Fields, schemaVars
<1>3. FileInv'
  BY <1>1, <1>2 DEF PathInv, FileInv
<1>4. TablesInv'
  BY <1>1, <1>2 DEF PathInv, TablesInv, TableRead, NumFields
<1>5. CallInv'
  BY <1>1, <1>2 DEF PathInv, CallInv, SchemaGiven, Beginning, Resolved, schemaVars
<1>6. RowsInv'
  <2>1. \A r \in 1 .. Len(rows) : RowDecoded(r)'
    <3> TAKE r \in 1 .. Len(rows)
    <3>1. RowDecoded(r)
      BY DEF PathInv, RowsInv
    <3>2. \A c : /\ Source(c)' = Source(c) /\ AsWritten(r, c)' = AsWritten(r, c)
                /\ Written(Source(c), r)' = Written(Source(c), r)
                /\ Places(given.damage, Source(c))' = Places(given.damage, Source(c))
      BY <1>1, <1>2 DEF Source, AsWritten, Written, Places
    <3>3. Displaces(given.damage)' = Displaces(given.damage)
      BY <1>1, <1>2 DEF Displaces
    <3> QED
      BY <1>1, <1>2, <3>1, <3>2, <3>3 DEF RowDecoded
  <2> QED
    BY <1>1, <1>2, <2>1 DEF PathInv, RowsInv
<1>7. NoRefusal'
  BY <1>1 DEF PathInv, NoRefusal
<1> QED
  BY <1>1, <1>3, <1>4, <1>5, <1>6, <1>7, SchemaKept DEF PathInv

\* The inductive invariant: each stage leaves behind what was written, or what was wrong
\* with it ended the conversion or is of one column.
THEOREM PathInvariant == PathSpec => []PathInv
<1>1. PathInv /\ [PathNext]_allVars => PathInv'
  BY WriteFileInv, OpenInv, SelectColumnsInv, ReadSymbolsInv, CheckRecordAreaInv,
     ResolveSchemaInv, DecodeRowInv, FinishInv DEF PathNext
<1> QED
  BY <1>1, PathInitInv, PTL DEF PathSpec

\* A file as it was written is refused for nothing in its bytes, and each of its rows
\* comes out with the values it was written with.
THEOREM WrittenIsDecoded == PathSpec => []DecodedAsWritten
<1>1. PathInv => DecodedAsWritten
  <2> SUFFICES ASSUME PathInv, given.damage.what = "none"
               PROVE  /\ failure \in {"none", "columns", "schema"}
                      /\ \A r \in DOMAIN rows : \A c \in DOMAIN out :
                           AsWritten(r, c) /\ rows[r][c][2] = Convert(out[c], Written(Source(c), r), o)
                      /\ stage = "done" => Len(rows) = Len(Table[1].rows)
    BY DEF DecodedAsWritten
  <2>1. DOMAIN rows = 1 .. Len(rows)
    BY DEF PathInv, RowsInv
  <2>2. stage = "done" => Header.records = RowsOf(Table)
    BY FileTyped DEF PathInv, HeaderKept
  <2> QED
    BY <2>1, <2>2 DEF PathInv, RowsInv, RowDecoded, NoRefusal, RowsOf
<1> QED
  BY <1>1, PathInvariant, PTL

\* One number of the header that is off, whichever of the seven it is and by how much, a
\* broken table or a short file changes no value of another column, and of its own only
\* where it is what the bits are found by: but for a length too small of a column that is
\* not converted, and a record size too small by bytes without a field.
THEOREM DamageIsOfItsColumn == PathSpec => []DamageStaysInColumn
<1>1. PathInv => DamageStaysInColumn
  <2>1. PathInv => DOMAIN rows = 1 .. Len(rows)
    BY DEF PathInv, RowsInv
  <2> QED
    BY <2>1 DEF PathInv, RowsInv, RowDecoded, DamageStaysInColumn
<1> QED
  BY <1>1, PathInvariant, PTL

\* What is true of ResolveSchema wherever it is called is true where Run calls it.
THEOREM SchemaOnItsWay ==
  PathSpec => [](/\ NamesUnique /\ FieldsKeepNames /\ ResolutionSufficient /\ NothingVanishes
                 /\ TextKept /\ DecimalsExact /\ AbsentIsNoEvidence)
<1>1. PathInv => /\ NamesUnique /\ FieldsKeepNames /\ ResolutionSufficient /\ NothingVanishes
                 /\ TextKept /\ DecimalsExact /\ AbsentIsNoEvidence
  BY NamesFollow, TypesFollow DEF PathInv
<1> QED
  BY <1>1, PathInvariant, PTL
-----------------------------------------------------------------------------
(* The types.                                                              *)

\* The names given so far.
NamesTyped ==
  /\ DOMAIN name \subseteq DOMAIN out
  /\ \A c \in DOMAIN name : name[c] \in Names
  /\ pending \subseteq DOMAIN name
  /\ seen \subseteq taken

\* A pass adds columns and never drops one, and gives out names only.
LEMMA NamesTypedSteps == IInv /\ NamesTyped /\ [Next]_vars => NamesTyped'
<1> SUFFICES ASSUME IInv, NamesTyped, [Next]_vars PROVE NamesTyped'
  OBVIOUS
<1>1. CASE ResolveField
  <2>1. DOMAIN out \subseteq DOMAIN out' /\ UNCHANGED <<name, pending, seen, taken>>
    BY <1>1 DEF ResolveField
  <2> QED
    BY <2>1 DEF NamesTyped
<1>2. CASE StartNaming
  <2>1. /\ name' = [c \in DOMAIN out |-> Asked(c)] /\ pending' = DOMAIN out /\ out' = out
        /\ taken' = {Asked(c) : c \in DOMAIN out} /\ seen' = seen /\ phase = "resolving"
    BY <1>2 DEF StartNaming
  <2>2. \A c \in DOMAIN out : Asked(c) \in Names
    BY AskedInNames DEF IInv
  <2>3. IInv'
    BY <1>2, StartNamingInv
  <2>4. seen' \subseteq taken'
    BY <1>2, <2>3 DEF IInv, StartNaming, NamingInv, ReservedInv
  <2> QED
    BY <2>1, <2>2, <2>4 DEF NamesTyped
<1>3. ASSUME NEW c \in pending, Claim(c)
      PROVE  NamesTyped'
  <2>1. /\ seen' = seen \cup {name[c]} /\ pending' = pending \ {c}
        /\ UNCHANGED <<out, name, taken>> /\ phase = "naming"
    BY <1>3 DEF Claim
  <2>2. name[c] \in taken
    BY <2>1 DEF IInv, NamingInv, ClaimsInv, ReservedInv
  <2> QED
    BY <2>1, <2>2 DEF NamesTyped
<1>4. ASSUME NEW c \in pending, Collide(c)
      PROVE  NamesTyped'
  <2> DEFINE free == NextFreeName(name[c], taken)
  <2>1. /\ out' = out /\ phase = "naming"
        /\ \/ /\ name' = [name EXCEPT ![c] = free] /\ pending' = pending \ {c}
              /\ seen' = seen \cup {free} /\ taken' = taken \cup {free}
           \/ UNCHANGED <<name, pending, seen, taken>>
    BY <1>4 DEF Collide, Rename
  <2>2. IsFiniteSet(taken) /\ c \in DOMAIN name /\ name[c] \in Names
    BY <2>1 DEF IInv, NamingInv, ReservedInv, NamesTyped
  <2>3. free \in Names
    BY <2>2, NextFreeNameIsFree
  <2> HIDE DEF free
  <2> QED
    BY <2>1, <2>2, <2>3 DEF NamesTyped
<1>5. CASE NamesSettled \/ UNCHANGED vars
  BY <1>5 DEF NamesTyped, NamesSettled, vars
<1> QED
  BY <1>1, <1>2, <1>3, <1>4, <1>5 DEF Next

\* With the two invariants of the schema, that is its type.
LEMMA SchemaTyped == IInv /\ FieldsInv /\ NamesTyped => TypeOK
<1> SUFFICES ASSUME IInv, FieldsInv, NamesTyped PROVE TypeOK
  OBVIOUS
<1>1. \A c \in DOMAIN out : out[c].strategy \in Strategies
  <2> SUFFICES ASSUME NEW c \in DOMAIN out PROVE out[c].strategy \in Strategies
    OBVIOUS
  <2>1. PICK i \in 1 .. (position - 1), side \in {"value", "text"} : c = <<i, side>>
    BY DEF FieldsInv
  <2>2. i \in 1 .. Len(Fields) /\ FieldInv(i)
    BY FieldsAre DEF FieldsInv
  <2>3. Resolve(Fields[i].col, o).column.strategy \in Strategies
    BY <2>2, FieldsAre, ResolveSuits DEF FieldInv, TypeSuits
  <2>4. Companion.strategy \in Strategies
    BY DEF Companion, Strategies
  <2> QED
    BY <2>1, <2>2, <2>3, <2>4 DEF FieldInv
<1> QED
  BY <1>1 DEF TypeOK, IInv, FieldsInv, NamesTyped

\* Every variable of the resolver keeps its type, whatever ResolveSchema is called with.
THEOREM SchemaTypeCorrect == Spec => []TypeOK
<1>1. Init => NamesTyped
  BY DEF Init, NamesTyped
<1>2. IInv /\ NamesTyped /\ [Next]_vars => NamesTyped'
  BY NamesTypedSteps
<1>3. IInv /\ FieldsInv /\ NamesTyped => TypeOK
  BY SchemaTyped
<1> QED
  BY <1>1, <1>2, <1>3, Invariant, ColumnsAreResolved, PTL DEF Spec

\* How far each stage has come.
StagesTyped ==
  /\ stage \in {"unwritten", "open", "columns", "symbols", "schema", "rows", "done", "failed"}
  /\ stage = "failed" <=> failure # "none"
  /\ failure \in {"none", "header", "columns", "symbols", "truncated", "schema", "index", "convert"}
  /\ \A r \in 1 .. Len(rows) : DOMAIN rows[r] = DOMAIN out

\* The steps in which the schema is not touched, and no row is added.
LEMMA StagesTypedSteps ==
  ASSUME StagesTyped,
         \/ WriteFile \/ Open \/ SelectColumns \/ (\E i \in 1 .. NumFields : ReadSymbols(i))
         \/ CheckRecordArea \/ Finish \/ UNCHANGED allVars
  PROVE  StagesTyped'
<1>1. UNCHANGED <<rows, out>>
  BY DEF WriteFile, Open, SelectColumns, ReadSymbols, CheckRecordArea, Finish, schemaVars,
         pathVars, allVars
<1>2. \/ UNCHANGED <<stage, failure>>
      \/ stage # "failed" /\ failure' = failure
           /\ stage' \in {"open", "columns", "symbols", "schema", "rows", "done"}
      \/ stage' = "failed" /\ failure' \in {"header", "columns", "symbols", "truncated"}
  BY DEF WriteFile, Open, SelectColumns, ReadSymbols, CheckRecordArea, Finish, Go, Fail,
         pathVars, allVars
<1> QED
  BY <1>1, <1>2 DEF StagesTyped

\* Those in which it is: while columns are added there is no row yet, and each row that is
\* decoded has one entry for each of them.
LEMMA StagesTypedSchema == PathInv /\ StagesTyped /\ ResolveSchema => StagesTyped'
<1> SUFFICES ASSUME PathInv, StagesTyped, ResolveSchema PROVE StagesTyped'
  OBVIOUS
<1>1. /\ stage = "schema" /\ rows' = rows
      /\ \/ stage' = "rows" /\ failure' = failure
         \/ stage' = "failed" /\ failure' = "schema"
         \/ stage' = stage /\ failure' = failure
  BY DEF ResolveSchema, Go, Fail
<1>2. rows = <<>>
  BY <1>1 DEF PathInv, RowsInv
<1> QED
  BY <1>1, <1>2 DEF StagesTyped

LEMMA StagesTypedRow == PathInv /\ StagesTyped /\ DecodeRow => StagesTyped'
<1> SUFFICES ASSUME PathInv, StagesTyped, DecodeRow PROVE StagesTyped'
  OBVIOUS
<1> DEFINE got == [c \in DOMAIN out |-> Decoded(c, RecordOf(file, Len(rows) + 1))]
           values == [c \in DOMAIN out |-> Convert(out[c], got[c], o)]
           row == [c \in DOMAIN out |-> <<got[c], values[c]>>]
<1>1. /\ stage = "rows" /\ out' = out
      /\ \/ stage' = "failed" /\ failure' \in {"index", "convert"} /\ rows' = rows
         \/ stage' = stage /\ failure' = failure /\ rows' = Append(rows, row)
  BY DEF DecodeRow, Fail, schemaVars
<1>2. rows \in Seq(Range(rows))
  BY DEF PathInv, RowsInv
<1>3. DOMAIN row = DOMAIN out
  OBVIOUS
<1> HIDE DEF row
<1>4. /\ Len(rows) \in Nat /\ Len(Append(rows, row)) = Len(rows) + 1
      /\ \A k \in 1 .. Len(rows) : Append(rows, row)[k] = rows[k]
      /\ Append(rows, row)[Len(rows) + 1] = row
  BY <1>2, AppendsOne
<1>5. \A r \in 1 .. Len(rows') : DOMAIN rows'[r] = DOMAIN out
  <2>1. CASE rows' = rows
    BY <2>1 DEF StagesTyped
  <2>2. CASE rows' = Append(rows, row)
    <3> SUFFICES ASSUME NEW r \in 1 .. Len(rows') PROVE DOMAIN rows'[r] = DOMAIN out
      OBVIOUS
    <3>1. r \in 1 .. Len(rows) \/ r = Len(rows) + 1
      BY <1>4, <2>2
    <3> QED
      BY <1>3, <1>4, <2>2, <3>1 DEF StagesTyped
  <2> QED
    BY <1>1, <2>1, <2>2
<1> QED
  BY <1>1, <1>5 DEF StagesTyped

\* Every variable on the way of a value keeps its type, for any table and any damage.
THEOREM PathTypeCorrect == PathSpec => []PathTypeOK
<1>1. PathInit => NamesTyped /\ StagesTyped
  BY DEF PathInit, NamesTyped, StagesTyped
<1>2. PathInv /\ NamesTyped /\ [PathNext]_allVars => NamesTyped'
  <2>1. [PathNext]_allVars => Next \/ UNCHANGED schemaVars
    BY DEF PathNext, WriteFile, Open, SelectColumns, ReadSymbols, CheckRecordArea, ResolveSchema,
           DecodeRow, Finish, allVars, schemaVars
  <2>2. NamesTyped /\ UNCHANGED schemaVars => NamesTyped'
    BY DEF NamesTyped, schemaVars
  <2> QED
    BY <2>1, <2>2, NamesTypedSteps DEF PathInv
<1>3. PathInv /\ StagesTyped /\ [PathNext]_allVars => StagesTyped'
  BY StagesTypedSteps, StagesTypedSchema, StagesTypedRow DEF PathNext
<1>4. PathInv /\ NamesTyped /\ StagesTyped => PathTypeOK
  <2> SUFFICES ASSUME PathInv, NamesTyped, StagesTyped PROVE PathTypeOK
    OBVIOUS
  <2>1. TypeOK
    BY SchemaTyped DEF PathInv
  <2>2. DOMAIN symbols \subseteq selected /\ selected \subseteq 1 .. NumFields
    BY DEF PathInv, TablesInv
  <2>3. \A i \in DOMAIN symbols : Range(symbols[i]) \subseteq Symbols
    BY SymbolSetTyped DEF PathInv, FileInv, SymbolSet
  <2>4. DOMAIN rows = 1 .. Len(rows)
    BY DEF PathInv, RowsInv
  <2> QED
    BY <2>1, <2>2, <2>3, <2>4 DEF StagesTyped, PathTypeOK
<1> QED
  BY <1>1, <1>2, <1>3, <1>4, PathInvariant, PTL DEF PathSpec
=============================================================================
