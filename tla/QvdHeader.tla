----------------------------- MODULE QvdHeader -----------------------------
(***************************************************************************)
(* The numbers of a QVD's header that place its symbol tables and the bits *)
(* of its records, and what Validate lets through (internal/qvd/header.go).*)
(***************************************************************************)
EXTENDS Integers, Sequences, FiniteSets, Functions

CONSTANTS
  ByteBits,  \* bits of a byte, 8
  WordBytes  \* bytes of the word an index is decoded in, 8

ASSUME WordAssumption == ByteBits \in Nat \ {0} /\ WordBytes \in Nat \ {0}

WordBits == ByteBits * WordBytes

\* FieldHeader: the range of bits in a record, what is added to the number
\* there, and the count of symbols and the length of the table they are in.
FieldHeader == [offset : Int, width : Int, bias : Int, symbols : Int, length : Int]
TableHeader == [fields : Seq(FieldHeader), recordBytes : Int, records : Int]

\* A field with one symbol needs no bits.
Occupied(h) == {i \in DOMAIN h.fields : h.fields[i].width > 0}
Ends(f) == f.offset + f.width

\* Fields in the order of their first bit; those that share it, in any order.
InOrder(h, p) ==
  \A j, k \in DOMAIN p : j < k => h.fields[p[j]].offset <= h.fields[p[k]].offset

\* checkBitRanges sorts the ranges and compares each with the one before it.
CheckBitRanges(h) ==
  \E p \in Bijection(1 .. Cardinality(Occupied(h)), Occupied(h)) :
    /\ InOrder(h, p)
    /\ \A k \in DOMAIN p \ {1} : h.fields[p[k]].offset >= Ends(h.fields[p[k - 1]])

FieldValid(h, f) ==
  /\ f.offset >= 0 /\ f.width >= 0 /\ f.width <= WordBits
  /\ f.symbols >= 0 /\ f.length >= 0
  /\ h.records > 0 => Ends(f) <= h.recordBytes * ByteBits

Validate(h) ==
  /\ h.fields # <<>>
  /\ h.records >= 0
  /\ h.records > 0 => h.recordBytes > 0
  /\ \A i \in DOMAIN h.fields : FieldValid(h, h.fields[i])
  /\ CheckBitRanges(h)
-----------------------------------------------------------------------------
\* No two fields of a header decode from one bit, and none from beyond the
\* record: what the decoder relies on when it reads every field of every row.
BitsOf(f) == f.offset .. (Ends(f) - 1)
NoSharedBits(h) ==
  \A i, j \in DOMAIN h.fields : i # j => BitsOf(h.fields[i]) \cap BitsOf(h.fields[j]) = {}
BitsInRecord(h) ==
  h.records > 0 => \A i \in DOMAIN h.fields :
                     BitsOf(h.fields[i]) \subseteq 0 .. (h.recordBytes * ByteBits - 1)
=============================================================================
