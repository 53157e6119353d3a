--------------------------- MODULE LoopInduction ----------------------------
(***************************************************************************)
(* Induction over the rounds of a loop.  A property is given as the set of *)
(* the numbers that have it, and the body of a loop as a function, so that *)
(* no lemma needs an operator as a parameter; that a recursive function    *)
(* exists follows for each loop from LoopStates.                           *)
(***************************************************************************)
EXTENDS Integers, TLAPS, WellFoundedInduction

\* Every non-empty set of natural numbers has a least element.
LEMMA LeastNumber ==
  ASSUME NEW T \in SUBSET Nat, T # {}
  PROVE  \E m \in T : \A k \in T : m <= k
<1> DEFINE R == OpToRel(<, Nat)
<1>1. IsWellFoundedOn(R, Nat)
  BY NatLessThanWellFounded
<1>2. \A x, y \in Nat : <<y, x>> \in R <=> y < x
  BY DEF OpToRel
<1> HIDE DEF R
<1>3. PICK m \in T : \A y \in T : ~(<<y, m>> \in R)
  BY <1>1, WFMin
<1>4. ASSUME NEW k \in T PROVE m <= k
  <2>1. ~(<<k, m>> \in R) /\ k \in Nat /\ m \in Nat
    BY <1>3
  <2>2. ~(k < m)
    BY <2>1, <1>2
  <2> QED BY <2>1, <2>2
<1> QED BY <1>4

\* Induction, for a property given as the set of the numbers that have it.
LEMMA SetInduction ==
  ASSUME NEW S, 0 \in S, \A n \in Nat : n \in S => n + 1 \in S
  PROVE  \A n \in Nat : n \in S
<1> DEFINE T == {n \in Nat : n \notin S}
<1>1. SUFFICES ASSUME T # {} PROVE FALSE
  OBVIOUS
<1>2. PICK m \in T : \A k \in T : m <= k
  BY <1>1, LeastNumber
<1>3. m # 0 /\ m \in Nat
  OBVIOUS
<1>4. m - 1 \in Nat /\ m - 1 \notin T
  BY <1>2, <1>3
<1>5. m - 1 \in S
  BY <1>4
<1> QED BY <1>5, <1>3

\* The same up to a bound.
LEMMA BoundedInduction ==
  ASSUME NEW N \in Nat, NEW S, 0 \in S, \A n \in 0..(N - 1) : n \in S => n + 1 \in S
  PROVE  \A n \in 0..N : n \in S
<1> DEFINE U == {n \in Nat : n <= N => n \in S}
<1>1. 0 \in U
  OBVIOUS
<1>2. \A n \in Nat : n \in U => n + 1 \in U
  OBVIOUS
<1> HIDE DEF U
<1>3. \A n \in Nat : n \in U
  BY <1>1, <1>2, SetInduction
<1> QED BY <1>3 DEF U

\* g is the body of a loop of N rounds with states in A.
IsBody(g, A, N) == g \in [A \X (1..N) -> A]

\* f is the sequence of the states of that loop, begun in state a.
IsRun(f, g, A, a, N) ==
  f \in [0..N -> A] /\ f[0] = a /\ \A n \in 1..N : f[n] = g[<<f[n - 1], n>>]

\* A loop has a sequence of states.
LEMMA LoopStates ==
  ASSUME NEW A, NEW a \in A, NEW N \in Nat, NEW g, IsBody(g, A, N)
  PROVE  \E f : IsRun(f, g, A, a, N)
<1> USE DEF IsBody
<1> DEFINE Runs(k, f) == f[0] = a /\ \A n \in 1..k : f[n] = g[<<f[n - 1], n>>]
           S == {k \in 0..N : \E f \in [0..k -> A] : Runs(k, f)}
<1>1. 0 \in S
  <2> DEFINE h == [n \in 0..0 |-> a]
  <2>1. h \in [0..0 -> A] /\ h[0] = a
    OBVIOUS
  <2>2. Runs(0, h)
    BY <2>1
  <2> HIDE DEF h, Runs
  <2>3. \E f \in [0..0 -> A] : Runs(0, f)
    BY <2>1, <2>2
  <2> QED BY <2>3
<1>2. ASSUME NEW k \in 0..(N - 1), k \in S PROVE k + 1 \in S
  <2>1. PICK f \in [0..k -> A] : Runs(k, f)
    BY <1>2
  <2> DEFINE h == [n \in 0..(k + 1) |-> IF n = k + 1 THEN g[<<f[k], k + 1>>] ELSE f[n]]
  <2>2. <<f[k], k + 1>> \in A \X (1..N)
    OBVIOUS
  <2>3. h \in [0..(k + 1) -> A]
    BY <2>2
  <2>4. h[k + 1] = g[<<f[k], k + 1>>] /\ \A n \in 0..k : h[n] = f[n]
    OBVIOUS
  <2> HIDE DEF h
  <2>5. h[0] = a
    BY <2>4, <2>1
  <2>6. ASSUME NEW n \in 1..(k + 1) PROVE h[n] = g[<<h[n - 1], n>>]
    <3>1. h[n - 1] = f[n - 1]
      BY <2>4
    <3>2. CASE n = k + 1
      <4>1. n - 1 = k
        BY <3>2
      <4> QED BY <4>1, <3>1, <3>2, <2>4
    <3>3. CASE n # k + 1
      <4>1. n \in 1..k
        BY <3>3
      <4>2. h[n] = f[n]
        BY <4>1, <2>4
      <4> QED BY <4>1, <4>2, <3>1, <2>1
    <3> QED BY <3>2, <3>3
  <2>7. Runs(k + 1, h)
    BY <2>5, <2>6
  <2> HIDE DEF Runs
  <2>8. k + 1 \in 0..N
    OBVIOUS
  <2> QED BY <2>3, <2>7, <2>8
<1> HIDE DEF S
<1>3. N \in S
  BY <1>1, <1>2, BoundedInduction
<1> QED BY <1>3 DEF S, IsRun
=============================================================================
