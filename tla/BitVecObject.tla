---------------------------- MODULE BitVecObject ----------------------------
(***************************************************************************)
(* One BitVec and the operations that change or replace it                 *)
(* (src/src/bitvec.rs), shown to be a list of booleans, and to be safe to  *)
(* hand to the decompressor whatever bits it holds: the server             *)
(* decompresses payloads that came over the network.                       *)
(***************************************************************************)
EXTENDS BitVecCodec

CONSTANTS MaxBits,     \* bound: bits the vector grows to
          Others,      \* lists of booleans that are appended
          ElementSizes \* element sizes a payload is decompressed with

ASSUME ObjectAssumption ==
  /\ MaxBits \in Nat
  /\ Others \subseteq Seq(BOOLEAN)
  /\ ElementSizes \subseteq Nat

VARIABLE bv

Init == bv = BvNew

Push(bit) == BvLen(bv) < MaxBits /\ bv' = BvPush(bv, bit)

AppendOther(other) ==
  BvLen(bv) + Len(other) <= MaxBits /\ bv' = BvAppend(bv, FromSlice(other))

Range(from, to) == bv' \in BvRange(bv, from, to)

Next ==
  \/ \E bit \in BOOLEAN : Push(bit)
  \/ \E other \in Others : AppendOther(other)
  \/ \E from, to \in 0..(MaxBits + 1) : Range(from, to)

Spec == Init /\ [][Next]_bv

-----------------------------------------------------------------------------
(***************************************************************************)
(* The derived == of BitVec compares words, so a vector must have one      *)
(* representation: the words and len_of_last depend on the bits alone, no  *)
(* matter by which operations they got there.  compress relies on it to    *)
(* find repeated elements.                                                 *)
(***************************************************************************)
Canonical == bv = FromSlice(BvBits(bv))

\* is_empty, which looks at the last word only, agrees with len.
IsEmptyAgrees == BvIsEmpty(bv) <=> BvLen(bv) = 0

(***************************************************************************)
(* A vector behaves as a list of booleans: push, append and range change   *)
(* the bits that get and the iterator show as they would change a list.    *)
(***************************************************************************)
List == INSTANCE BoolList WITH bits <- BvBits(bv)

ActsAsList ==
  /\ List!Spec
  /\ [][/\ \A bit \in BOOLEAN : Push(bit) => List!Push(bit)
        /\ \A other \in Others : AppendOther(other) => List!AppendOther(other)
        /\ \A from, to \in 0..(MaxBits + 1) : Range(from, to) => List!Range(from, to)]_bv

(***************************************************************************)
(* Taken as a payload with any element size, the vector is rejected or is  *)
(* the encoding of equally long elements, and compressing those gives an   *)
(* encoding that is no longer and decompresses to the same elements.       *)
(***************************************************************************)
CodecRoundTrip ==
  \A n \in ElementSizes : \A seq \in BvDecompress([bits |-> bv, element_size |-> n]) :
     /\ \A i \in DOMAIN seq : BvLen(seq[i]) = n
     /\ \E c \in BvCompress(seq) : /\ BvDecompress(c) = {seq}
                                   /\ BvLen(c.bits) <= BvLen(bv)

(***************************************************************************)
(* Sequences with elements of several lengths, and only those, have no     *)
(* compressed form.                                                        *)
(***************************************************************************)
MixedLengthsRejected ==
  \A other \in Others :
     BvCompress(<<bv, bv, FromSlice(other)>>) = {} <=> BvLen(bv) # Len(other)
=============================================================================
