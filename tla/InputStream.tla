---------------------------- MODULE InputStream ----------------------------
(***************************************************************************)
(* What the input protocol promises the server's application: the inputs   *)
(* of every client, in runs without a gap, each credited to the user who   *)
(* made them and ending at a later tick than every run before it.  It does *)
(* not promise that every input arrives, or that it arrives once.          *)
(***************************************************************************)
EXTENDS Integers, Sequences

CONSTANTS Clients, UserOf, Input

VARIABLES inputs,    \* the snapshots each client's application has taken
          delivered  \* what the server's application has got: [from, payload]

EndTick(cs) == cs.start_tick + Len(cs.seq)

\* The elements of s are consecutive elements of t.
IsWindow(s, t) ==
  \E k \in 0..(Len(t) - Len(s)) : s = SubSeq(t, k + 1, k + Len(s))

Init ==
  /\ inputs = [p \in Clients |-> << >>]
  /\ delivered = << >>

TakeSnapshot(p, input) ==
  /\ inputs' = [inputs EXCEPT ![p] = Append(@, input)]
  /\ UNCHANGED delivered

\* One message m is added, from client p; the start of its ticks is open.
Deliver(p) ==
  /\ Len(delivered') = Len(delivered) + 1
  /\ LET m == delivered'[Len(delivered) + 1] IN
       /\ delivered' = Append(delivered, m)
       /\ m.from = UserOf[p]
       /\ IsWindow(m.payload.seq, inputs[p])
       /\ \A i \in DOMAIN delivered : EndTick(delivered[i].payload) < EndTick(m.payload)
  /\ UNCHANGED inputs

Next ==
  \E p \in Clients : Deliver(p) \/ \E input \in Input : TakeSnapshot(p, input)

Spec == Init /\ [][Next]_<<inputs, delivered>>
=============================================================================
