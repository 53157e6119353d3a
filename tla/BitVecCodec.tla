---------------------------- MODULE BitVecCodec -----------------------------
(***************************************************************************)
(* bitvec::CompressedBitVec (src/src/bitvec.rs): a sequence of BitVecs of  *)
(* one length, stored as a one-bit and the element where it differs from   *)
(* the element before, and as a zero-bit where it repeats it.              *)
(*                                                                         *)
(* The two loops are a step operator each, applied once per element and    *)
(* once per bit of the payload.  A loop state in which found is FALSE has  *)
(* returned None.                                                          *)
(***************************************************************************)
EXTENDS BitVec

\* A variant of the loop body of compress that takes any length.
CompressStepAnyLength(s, element_size, element) ==
  IF s.previous = {element} THEN [s EXCEPT !.payload = BvPush(@, FALSE)]
  ELSE [s EXCEPT !.payload  = BvAppend(BvPush(@, TRUE), element),
                 !.previous = {element}]

\* The loop body of compress, for one element.
CompressStep(s, element_size, element) ==
  IF ~s.found \/ BvLen(element) # element_size THEN [s EXCEPT !.found = FALSE]
  ELSE IF s.previous = {element} THEN [s EXCEPT !.payload = BvPush(@, FALSE)]
  ELSE [s EXCEPT !.payload  = BvAppend(BvPush(@, TRUE), element),
                 !.previous = {element}]

CompressBits(element_size, seq) ==
  LET loop[n \in 0..Len(seq)] ==
        IF n = 0 THEN [payload |-> BvNew, previous |-> {}, found |-> TRUE]
        ELSE CompressStep(loop[n - 1], element_size, seq[n])
  IN  loop[Len(seq)]

\* CompressedBitVec::compress, an Option.
BvCompress(seq) ==
  LET element_size == IF seq = << >> THEN 0 ELSE BvLen(seq[1])
      s == CompressBits(element_size, seq)
  IN  IF s.found THEN {[bits |-> s.payload, element_size |-> element_size]} ELSE {}

\* A variant that accepts a payload that ends inside an element.
DecompressStepClipped(s, element_size, payload) ==
  LET element == IF BvGet(payload, s.idx) = {TRUE}
                 THEN BvRangeClipped(payload, s.idx + 1, s.idx + element_size + 1)
                 ELSE s.previous
  IN  [idx      |-> s.idx + 1 + (IF BvGet(payload, s.idx) = {TRUE} THEN element_size ELSE 0),
       seq      |-> IF element = {} THEN s.seq ELSE Append(s.seq, CHOOSE e \in element : TRUE),
       previous |-> element,
       found    |-> element # {}]

\* The loop body of decompress: read an element, or repeat the previous one.
\* Either fails when there is none.
DecompressStep(s, element_size, payload) ==
  LET literal == BvGet(payload, s.idx) = {TRUE}
      element == IF literal THEN BvRange(payload, s.idx + 1, s.idx + element_size + 1)
                 ELSE s.previous
  IN  [idx      |-> s.idx + 1 + (IF literal THEN element_size ELSE 0),
       seq      |-> IF element = {} THEN s.seq ELSE Append(s.seq, CHOOSE e \in element : TRUE),
       previous |-> element,
       found    |-> element # {}]

\* The while loop runs at most once per payload bit: every iteration moves idx.
DecompressBits(element_size, payload) ==
  LET loop[n \in 0..BvLen(payload)] ==
        IF n = 0 THEN [idx |-> 0, seq |-> << >>, previous |-> {}, found |-> TRUE]
        ELSE LET s == loop[n - 1]
             IN  IF s.found /\ s.idx < BvLen(payload)
                 THEN DecompressStep(s, element_size, payload) ELSE s
  IN  loop[BvLen(payload)]

\* CompressedBitVec::decompress, an Option.
BvDecompress(c) ==
  LET s == DecompressBits(c.element_size, c.bits)
  IN  IF s.found THEN {s.seq} ELSE {}

(***************************************************************************)
(* bincode::serialize of a ControllerInput packet: variant 4 bytes,        *)
(* start_tick 8, the length of storage 8, its words 4 each, len_of_last 1  *)
(* and element_size 8.                                                     *)
(***************************************************************************)
EncodedBytes(packet) == 29 + 4 * Len(packet.comp_seq.bits.storage)
=============================================================================
