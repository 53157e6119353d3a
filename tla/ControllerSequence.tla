------------------------- MODULE ControllerSequence -------------------------
(***************************************************************************)
(* control::ControllerSequence (src/src/control.rs): a run of controller   *)
(* snapshots, one per game tick, that starts at tick start_tick.           *)
(*                                                                         *)
(* An Option<T> of the source is a set with at most one element: {} is     *)
(* None and {x} is Some(x).  The codec that turns a sequence of snapshots  *)
(* into its compressed form and back is a parameter of this module; module *)
(* BitVecCodec has the one the source uses.                                *)
(***************************************************************************)
EXTENDS Integers, Sequences

CONSTANTS Compress(_),   \* CompressedBitVec::compress, an Option
          Decompress(_)  \* CompressedBitVec::decompress, an Option

\* ControllerSequence::new
NewSequence == [start_tick |-> 0, seq |-> << >>]

\* ControllerSequence::push, for every snapshot drained from a queue.
PushAll(cs, inputs) == [start_tick |-> cs.start_tick, seq |-> cs.seq \o inputs]

\* ControllerSequence::last_tick: the tick after the last snapshot held.
LastTick(cs) == cs.start_tick + Len(cs.seq)

\* ControllerSequence::is_empty
IsEmpty(cs) == cs.seq = << >>

\* Variants of remove_till_tick: what is kept is numbered from the tick that
\* was acknowledged; is numbered back from it; is the front, not the back.
RemoveTillTickFromAck(cs, tick) ==
  LET end == IF LastTick(cs) <= tick THEN 0
             ELSE IF LastTick(cs) - tick <= Len(cs.seq) THEN LastTick(cs) - tick
             ELSE Len(cs.seq)
  IN  [start_tick |-> tick + 1, seq |-> SubSeq(cs.seq, end + 1, Len(cs.seq))]

RemoveTillTickBackwards(cs, tick) ==
  [start_tick |-> tick - Len(cs.seq) - 1, seq |-> cs.seq]

RemoveTillTickKeepsFront(cs, tick) ==
  LET end == IF LastTick(cs) <= tick THEN 0
             ELSE IF LastTick(cs) - tick <= Len(cs.seq) THEN LastTick(cs) - tick
             ELSE Len(cs.seq)
  IN  [start_tick |-> LastTick(cs) + 1, seq |-> SubSeq(cs.seq, 1, Len(cs.seq) - end)]

(***************************************************************************)
(* ControllerSequence::remove_till_tick.  The number of snapshots drained  *)
(* from the front is last_tick - tick, capped by the length, and nothing   *)
(* is drained when tick has reached last_tick; start_tick moves past       *)
(* last_tick in every case.                                                *)
(***************************************************************************)
RemoveTillTick(cs, tick) ==
  LET last_tick  == LastTick(cs)
      tick_count == last_tick - tick
      end        == IF last_tick <= tick THEN 0
                    ELSE IF tick_count <= Len(cs.seq) THEN tick_count
                    ELSE Len(cs.seq)
  IN  [start_tick |-> last_tick + 1,
       seq        |-> SubSeq(cs.seq, end + 1, Len(cs.seq))]

\* ControllerSequence::to_compressed, an Option<CompressedControllerSequence>
ToCompressed(cs) ==
  {[start_tick |-> cs.start_tick, comp_seq |-> c] : c \in Compress(cs.seq)}

\* CompressedControllerSequence::to_controller_sequence, an Option
ToControllerSequence(packet) ==
  {[start_tick |-> packet.start_tick, seq |-> s] : s \in Decompress(packet.comp_seq)}

-----------------------------------------------------------------------------
\* The ticks a sequence has a snapshot for, and the snapshot of one of them.
Ticks(cs) == cs.start_tick .. (LastTick(cs) - 1)
InputAt(cs, tick) == cs.seq[tick - cs.start_tick + 1]

\* Two sequences give the same snapshot to every tick that both of them cover.
Agree(a, b) ==
  \A tick \in Ticks(a) \cap Ticks(b) : InputAt(a, tick) = InputAt(b, tick)
=============================================================================
