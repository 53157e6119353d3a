----------------------------- MODULE MCReliable -----------------------------
(***************************************************************************)
(* Small instances of Reliable for TLC.                                    *)
(***************************************************************************)
EXTENDS Reliable

CONSTANTS c1, e1, u1, u2

\* Both connections are of one user; messages for u2 find nobody.
SameUser == [p \in Conns |-> u1]
=============================================================================
