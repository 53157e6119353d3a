------------------------------ MODULE MCBitVec ------------------------------
(***************************************************************************)
(* A small instance of BitVecObject for TLC.                               *)
(***************************************************************************)
EXTENDS BitVecObject

\* Lists that end inside a word, at its end and after it.
SmallLists == {<< >>, <<TRUE>>, <<FALSE, TRUE>>, <<TRUE, FALSE, TRUE>>, <<TRUE, TRUE, FALSE, FALSE>>}
=============================================================================
