------------------------------ MODULE BoolList ------------------------------
(***************************************************************************)
(* What a BitVec promises: a list of booleans that grows at its end, takes *)
(* the elements of another list, and can be cut down to a range of itself. *)
(***************************************************************************)
EXTENDS Integers, Sequences

CONSTANT Others   \* the lists that may be appended
VARIABLE bits

Init == bits = << >>

Push(bit) == bits' = Append(bits, bit)

AppendOther(other) == bits' = bits \o other

\* The elements at positions from, ..., to - 1, counted from zero.
Range(from, to) ==
  /\ from < to => to <= Len(bits)
  /\ bits' = SubSeq(bits, from + 1, to)

Next ==
  \/ \E bit \in BOOLEAN : Push(bit)
  \/ \E other \in Others : AppendOther(other)
  \/ \E to \in 0..Len(bits), from \in 0..Len(bits) : Range(from, to)

Spec == Init /\ [][Next]_bits
=============================================================================
