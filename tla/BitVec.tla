------------------------------- MODULE BitVec -------------------------------
(***************************************************************************)
(* bitvec::BitVec (src/src/bitvec.rs): a growable vector of bits in words  *)
(* of WordBits bits (32 in the source).  A word is the set of positions of *)
(* its one-bits; storage is never empty and len_of_last counts the bits in *)
(* use in its last word.  An Option is a set with at most one element.     *)
(***************************************************************************)
EXTENDS Integers, Sequences

CONSTANT WordBits
ASSUME WordBitsAssumption == WordBits \in Nat \ {0}

\* BitVec::new
BvNew == [storage |-> << {} >>, len_of_last |-> 0]

\* BitVec::len and BitVec::is_empty
BvLen(bv) == WordBits * (Len(bv.storage) - 1) + bv.len_of_last
BvIsEmpty(bv) == bv.len_of_last = 0

\* Variants of push: the next word is begun early; a bit is set one too high.
BvPushEager(bv, bit) ==
  LET word == bv.storage[Len(bv.storage)] \cup (IF bit THEN {bv.len_of_last} ELSE {})
      storage == [bv.storage EXCEPT ![Len(bv.storage)] = word]
  IN  IF bv.len_of_last = WordBits - 1 THEN [storage |-> Append(storage, {}), len_of_last |-> 0]
      ELSE [storage |-> storage, len_of_last |-> bv.len_of_last + 1]

BvPushTooHigh(bv, bit) ==
  LET word == bv.storage[Len(bv.storage)] \cup (IF bit THEN {bv.len_of_last + 1} ELSE {})
  IN  IF bv.len_of_last = WordBits
      THEN [storage |-> Append(bv.storage, IF bit THEN {0} ELSE {}), len_of_last |-> 1]
      ELSE [storage |-> [bv.storage EXCEPT ![Len(bv.storage)] = word],
            len_of_last |-> bv.len_of_last + 1]

\* BitVec::push.  A full last word is followed by a new one.
BvPush(bv, bit) ==
  LET last == Len(bv.storage)
  IN  IF bv.len_of_last = WordBits
      THEN [storage |-> Append(bv.storage, IF bit THEN {0} ELSE {}), len_of_last |-> 1]
      ELSE [storage |-> IF bit THEN [bv.storage EXCEPT ![last] = @ \cup {bv.len_of_last}]
                        ELSE bv.storage,
            len_of_last |-> bv.len_of_last + 1]

\* The loop of from_slice, append and range: the bits are pushed in order.
BvPushAll(bv, bits) ==
  LET pushed[n \in 0..Len(bits)] == IF n = 0 THEN bv ELSE BvPush(pushed[n - 1], bits[n])
  IN  pushed[Len(bits)]

\* BitVec::from_slice
FromSlice(slice) == BvPushAll(BvNew, slice)

\* BitVec::get, an Option.
BvGet(bv, index) ==
  IF index >= BvLen(bv) THEN {}
  ELSE {(index % WordBits) \in bv.storage[(index \div WordBits) + 1]}

\* The bits that BitVecIter yields, in order.
BvBits(bv) == [i \in 1..BvLen(bv) |-> TRUE \in BvGet(bv, i - 1)]

\* BitVec::append
BvAppend(bv, other) == BvPushAll(bv, BvBits(other))

\* A variant of range that stops at the end of the vector.
BvRangeClipped(bv, from, to) ==
  LET stop == IF to <= BvLen(bv) THEN to ELSE BvLen(bv)
  IN  {FromSlice([i \in 1..(IF stop > from THEN stop - from ELSE 0) |-> TRUE \in BvGet(bv, from + i - 1)])}

\* BitVec::range(from..to), an Option: None if the range leaves the vector.
BvRange(bv, from, to) ==
  LET n == IF to > from THEN to - from ELSE 0
  IN  IF \E i \in 1..n : BvGet(bv, from + i - 1) = {} THEN {}
      ELSE {FromSlice([i \in 1..n |-> TRUE \in BvGet(bv, from + i - 1)])}
=============================================================================
