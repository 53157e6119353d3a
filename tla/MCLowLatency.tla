---------------------------- MODULE MCLowLatency ----------------------------
(***************************************************************************)
(* Small instances of LowLatency for TLC, with the codec of BitVecCodec.   *)
(***************************************************************************)
EXTENDS LowLatency, BitVecCodec

CONSTANTS p1, p2, p3, u1, u2

\* One client; two users; two users, the first of them at two addresses.
OneUser   == [p \in {p1} |-> u1]
TwoUsers  == [p \in {p1, p2} |-> IF p = p1 THEN u1 ELSE u2]
Reconnect == [p \in {p1, p2, p3} |-> IF p = p3 THEN u2 ELSE u1]

\* Controller snapshots: of one button, and of one or two buttons.
OneButton == {FromSlice(<<TRUE>>), FromSlice(<<FALSE>>)}
MixedButtons == {FromSlice(<<TRUE>>), FromSlice(<<TRUE, FALSE>>)}
=============================================================================
