---------------------------- MODULE BitVecProofs ----------------------------
(***************************************************************************)
(* Proofs about BitVec and CompressedBitVec, for every word size, every    *)
(* length and every sequence of operations: the representation and what    *)
(* follows from it, the refinement of BoolList, and that the codec is      *)
(* lossless and safe on any payload.                                       *)
(***************************************************************************)
EXTENDS BitVecObject, LoopInduction

-----------------------------------------------------------------------------
(* Words and positions. *)

\* A bit number is a word and a position in it.
LEMMA DivMod ==
  ASSUME NEW i \in Nat
  PROVE  /\ i \div WordBits \in Nat
         /\ i % WordBits \in 0..(WordBits - 1)
         /\ i = WordBits * (i \div WordBits) + (i % WordBits)
BY WordBitsAssumption

\* Word numbers keep their order when they are scaled.
LEMMA WordStep ==
  ASSUME NEW q \in Int, NEW p \in Int, q < p
  PROVE  WordBits * q + WordBits <= WordBits * p
BY WordBitsAssumption

\* Word and position of a bit number are unique.
LEMMA DivModUnique ==
  ASSUME NEW q \in Nat, NEW r \in 0..(WordBits - 1)
  PROVE  (WordBits * q + r) \div WordBits = q /\ (WordBits * q + r) % WordBits = r
<1> DEFINE i == WordBits * q + r
<1>1. i \in Nat
  BY WordBitsAssumption
<1> DEFINE p == i \div WordBits
           t == i % WordBits
<1>2. p \in Nat /\ t \in 0..(WordBits - 1) /\ WordBits * q + r = WordBits * p + t
  BY <1>1, DivMod
<1> HIDE DEF p, t
<1>3. ~(q < p)
  BY <1>2, WordStep, WordBitsAssumption
<1>4. ~(p < q)
  BY <1>2, WordStep, WordBitsAssumption
<1>5. p = q
  BY <1>2, <1>3, <1>4
<1>6. t = r
  BY <1>2, <1>5, WordBitsAssumption
<1> QED BY <1>5, <1>6 DEF p, t

-----------------------------------------------------------------------------
(***************************************************************************)
(* The representation: words of WordBits bits, only the first of which may *)
(* be unused, and no one-bit beyond the bits in use.                       *)
(***************************************************************************)
BitVecs ==
  {v \in [storage : Seq(SUBSET (0..(WordBits - 1))), len_of_last : 0..WordBits] :
     /\ Len(v.storage) > 0
     /\ Len(v.storage) > 1 => v.len_of_last > 0
     /\ \A j \in v.storage[Len(v.storage)] : j < v.len_of_last}

\* The length is a number, and zero exactly when the last word is unused.
LEMMA LenType ==
  ASSUME NEW v \in BitVecs
  PROVE  BvLen(v) \in Nat /\ (BvIsEmpty(v) <=> BvLen(v) = 0)
<1> DEFINE n == Len(v.storage)
           l == v.len_of_last
<1>1. n \in Nat \ {0} /\ l \in 0..WordBits /\ (n > 1 => l > 0)
  BY DEF BitVecs
<1>2. BvLen(v) = WordBits * (n - 1) + l /\ (BvIsEmpty(v) <=> l = 0)
  BY DEF BvLen, BvIsEmpty
<1> HIDE DEF n, l
<1>3. CASE n = 1
  BY <1>1, <1>2, <1>3, WordBitsAssumption
<1>4. CASE n > 1
  <2>1. WordBits * 0 + WordBits <= WordBits * (n - 1) /\ WordBits * (n - 1) \in Int
    BY <1>1, <1>4, WordStep, WordBitsAssumption
  <2> QED BY <2>1, <1>1, <1>2, <1>4, WordBitsAssumption
<1> QED BY <1>1, <1>3, <1>4

\* The iterator yields as many booleans as len counts.
LEMMA BitsType ==
  ASSUME NEW v \in BitVecs
  PROVE  BvBits(v) \in Seq(BOOLEAN) /\ Len(BvBits(v)) = BvLen(v)
<1>1. BvLen(v) \in Nat
  BY LenType
<1>2. \A i \in 1..BvLen(v) : (TRUE \in BvGet(v, i - 1)) \in BOOLEAN
  OBVIOUS
<1>3. BvBits(v) \in [1..BvLen(v) -> BOOLEAN]
  BY <1>2 DEF BvBits
<1> QED BY <1>1, <1>3

\* A position inside the vector lies in a word of its storage.
LEMMA InStorage ==
  ASSUME NEW v \in BitVecs, NEW q \in Nat, NEW r \in 0..(WordBits - 1)
  PROVE  WordBits * q + r < BvLen(v) <=>
           \/ q + 1 < Len(v.storage)
           \/ q + 1 = Len(v.storage) /\ r < v.len_of_last
<1> DEFINE n == Len(v.storage)
           l == v.len_of_last
<1>1. n \in Nat \ {0} /\ l \in 0..WordBits /\ (n > 1 => l > 0)
  BY DEF BitVecs
<1>2. BvLen(v) = WordBits * (n - 1) + l
  BY DEF BvLen
<1> HIDE DEF n, l
<1>3. CASE q + 1 < n
  <2>1. WordBits * q + WordBits <= WordBits * (n - 1)
    BY <1>1, <1>3, WordStep
  <2> QED BY <2>1, <1>1, <1>2, <1>3, WordBitsAssumption DEF n
<1>4. CASE q + 1 = n
  <2>1. n - 1 = q
    BY <1>1, <1>4
  <2>2. WordBits * q \in Int
    BY WordBitsAssumption
  <2>3. WordBits * q + r < WordBits * q + l <=> r < l
    BY <1>1, <2>2, WordBitsAssumption
  <2> QED BY <2>1, <2>3, <1>2, <1>4, <1>1 DEF n, l
<1>5. CASE q + 1 > n
  <2>1. WordBits * (n - 1) + WordBits <= WordBits * q
    BY <1>1, <1>5, WordStep
  <2> QED BY <2>1, <1>1, <1>2, <1>5, WordBitsAssumption DEF n
<1> QED BY <1>1, <1>3, <1>4, <1>5

\* The Option that holds one boolean holds TRUE if that is TRUE.
LEMMA SingleBit ==
  ASSUME NEW b \in BOOLEAN
  PROVE  (TRUE \in {b}) = b /\ ({b} = {TRUE}) = b
<1>1. b = TRUE \/ b = FALSE
  OBVIOUS
<1>2. (TRUE \in {TRUE}) = TRUE /\ (TRUE \in {FALSE}) = FALSE
  OBVIOUS
<1>3. ({TRUE} = {TRUE}) = TRUE /\ ({FALSE} = {TRUE}) = FALSE
  OBVIOUS
<1> QED BY <1>1, <1>2, <1>3

\* What get and the iterator read at a position of a word.
LEMMA BitAt ==
  ASSUME NEW v \in BitVecs, NEW q \in Nat, NEW r \in 0..(WordBits - 1),
         WordBits * q + r < BvLen(v)
  PROVE  /\ WordBits * q + r + 1 \in 1..BvLen(v)
         /\ BvBits(v)[WordBits * q + r + 1] = (r \in v.storage[q + 1])
<1> DEFINE i == WordBits * q + r
<1>1. i \in Nat /\ i \div WordBits = q /\ i % WordBits = r
  BY DivModUnique, WordBitsAssumption
<1>2. BvLen(v) \in Nat /\ i < BvLen(v)
  BY LenType
<1> HIDE DEF i
<1>3. i + 1 \in 1..BvLen(v) /\ (i + 1) - 1 = i
  BY <1>1, <1>2
<1>4. BvGet(v, i) = {(r \in v.storage[q + 1])}
  BY <1>1, <1>2 DEF BvGet
<1>5. BvBits(v)[i + 1] = (TRUE \in BvGet(v, i))
  BY <1>3 DEF BvBits
<1>6. (TRUE \in BvGet(v, i)) = (r \in v.storage[q + 1])
  <2> DEFINE b == r \in v.storage[q + 1]
  <2>1. b \in BOOLEAN /\ BvGet(v, i) = {b}
    BY <1>4
  <2> HIDE DEF b
  <2>2. (TRUE \in {b}) = b
    BY <2>1, SingleBit
  <2> QED BY <2>1, <2>2 DEF b
<1>7. BvBits(v)[i + 1] = (r \in v.storage[q + 1])
  BY <1>5, <1>6
<1> QED BY <1>3, <1>7 DEF i

\* Every position of the vector is one of a word.
LEMMA PositionOf ==
  ASSUME NEW v \in BitVecs, NEW i \in 1..BvLen(v)
  PROVE  \E q \in Nat, r \in 0..(WordBits - 1) : i = WordBits * q + r + 1 /\ WordBits * q + r < BvLen(v)
<1>1. BvLen(v) \in Nat /\ i - 1 \in Nat /\ i - 1 < BvLen(v)
  BY LenType
<1>2. PICK q \in Nat, r \in 0..(WordBits - 1) : i - 1 = WordBits * q + r
  BY <1>1, DivMod
<1>3. i = WordBits * q + r + 1
  BY <1>2, WordBitsAssumption
<1> QED BY <1>1, <1>2, <1>3

\* Sequences of booleans with the same elements are the same.
LEMMA SameBits ==
  ASSUME NEW s \in Seq(BOOLEAN), NEW t \in Seq(BOOLEAN), Len(s) = Len(t),
         \A i \in 1..Len(s) : s[i] = t[i]
  PROVE  s = t
OBVIOUS

\* The new vector has no bits.
LEMMA NewIsEmpty == BvNew \in BitVecs /\ BvLen(BvNew) = 0 /\ BvBits(BvNew) = << >>
<1>1. BvNew.storage = << {} >> /\ BvNew.len_of_last = 0
  BY DEF BvNew
<1>2. BvNew \in [storage : Seq(SUBSET (0..(WordBits - 1))), len_of_last : 0..WordBits]
  BY WordBitsAssumption DEF BvNew
<1>3. Len(BvNew.storage) = 1 /\ BvNew.storage[1] = {}
  BY <1>1
<1>4. BvNew \in BitVecs
  <2>1. /\ Len(BvNew.storage) > 0
        /\ ~(Len(BvNew.storage) > 1)
        /\ BvNew.storage[Len(BvNew.storage)] = {}
    BY <1>3
  <2> QED BY <1>2, <2>1 DEF BitVecs
<1>5. BvLen(BvNew) = 0
  BY <1>1, <1>3, WordBitsAssumption DEF BvLen
<1> QED BY <1>4, <1>5, BitsType

\* What push does to the representation, in a full and in another last word.
LEMMA PushStorage ==
  ASSUME NEW v \in BitVecs, NEW bit \in BOOLEAN
  PROVE  LET u == BvPush(v, bit)
             n == Len(v.storage)
         IN  /\ u \in BitVecs
             /\ IF v.len_of_last = WordBits
                THEN /\ u.storage = Append(v.storage, IF bit THEN {0} ELSE {})
                     /\ u.len_of_last = 1
                ELSE /\ u.storage = [v.storage EXCEPT ![n] = @ \cup (IF bit THEN {v.len_of_last} ELSE {})]
                     /\ u.len_of_last = v.len_of_last + 1
<1> DEFINE u == BvPush(v, bit)
           n == Len(v.storage)
           l == v.len_of_last
           Word == SUBSET (0..(WordBits - 1))
<1>1. /\ v.storage \in Seq(Word) /\ n \in Nat \ {0} /\ l \in 0..WordBits
      /\ \A j \in v.storage[n] : j < l
  BY DEF BitVecs
<1>2. CASE l = WordBits
  <2> DEFINE w == IF bit THEN {0} ELSE {}
  <2>1. u.storage = Append(v.storage, w) /\ u.len_of_last = 1
        /\ u = [storage |-> Append(v.storage, w), len_of_last |-> 1]
    BY <1>2 DEF BvPush
  <2>2. w \in Word /\ \A j \in w : j < 1
    BY WordBitsAssumption
  <2> HIDE DEF w, u, Word
  <2>3. u.storage \in Seq(Word) /\ Len(u.storage) = n + 1 /\ u.storage[n + 1] = w
    BY <1>1, <2>1, <2>2
  <2>4. u \in [storage : Seq(Word), len_of_last : 0..WordBits]
    BY <2>1, <2>3, WordBitsAssumption
  <2>5. Len(u.storage) > 0 /\ u.len_of_last > 0 /\ \A j \in u.storage[Len(u.storage)] : j < u.len_of_last
    BY <1>1, <2>1, <2>2, <2>3
  <2>6. u \in BitVecs
    BY <2>4, <2>5 DEF BitVecs, Word
  <2> QED BY <1>2, <2>1, <2>6 DEF u, w
<1>3. CASE l # WordBits
  <2> DEFINE w == v.storage[n] \cup (IF bit THEN {l} ELSE {})
             st == [v.storage EXCEPT ![n] = w]
  <2>1. u = [storage |-> st, len_of_last |-> l + 1]
    <3>1. CASE bit
      BY <1>3, <3>1 DEF BvPush
    <3>2. CASE ~bit
      <4>1. w = v.storage[n]
        BY <3>2
      <4>2. v.storage = [i \in 1..n |-> v.storage[i]]
        BY <1>1
      <4>3. st = [i \in 1..n |-> v.storage[i]]
        BY <4>1, <4>2
      <4> QED BY <1>3, <3>2, <4>2, <4>3 DEF BvPush
    <3> QED BY <3>1, <3>2
  <2>2. w \in Word /\ \A j \in w : j < l + 1
    <3>1. v.storage[n] \in Word
      BY <1>1
    <3> QED BY <3>1, <1>1, <1>3, WordBitsAssumption
  <2> HIDE DEF w, u, Word
  <2>3. st \in Seq(Word) /\ Len(st) = n /\ st[n] = w
    BY <1>1, <2>2
  <2>4. u.storage = st /\ u.len_of_last = l + 1
    BY <2>1
  <2> HIDE DEF st
  <2>5. u \in [storage : Seq(Word), len_of_last : 0..WordBits]
    BY <2>1, <2>3, <1>1, <1>3, WordBitsAssumption
  <2>6. u \in BitVecs
    BY <1>1, <2>2, <2>3, <2>4, <2>5 DEF BitVecs, Word
  <2> QED BY <1>3, <2>4, <2>6 DEF u, w, st
<1> QED BY <1>2, <1>3

\* Where push puts its bit, and that the others stay where they are.
LEMMA PushPositions ==
  ASSUME NEW v \in BitVecs, NEW bit \in BOOLEAN
  PROVE  /\ BvLen(BvPush(v, bit)) = BvLen(v) + 1
         /\ \A q \in Nat, r \in 0..(WordBits - 1) :
               WordBits * q + r < BvLen(v) =>
                  (r \in BvPush(v, bit).storage[q + 1]) = (r \in v.storage[q + 1])
         /\ \E q \in Nat, r \in 0..(WordBits - 1) :
               WordBits * q + r = BvLen(v) /\ (r \in BvPush(v, bit).storage[q + 1]) = bit
<1> DEFINE u == BvPush(v, bit)
           n == Len(v.storage)
           l == v.len_of_last
<1>1. /\ v.storage \in Seq(SUBSET (0..(WordBits - 1))) /\ n \in Nat \ {0} /\ l \in 0..WordBits
      /\ \A j \in v.storage[n] : j < l
  BY DEF BitVecs
<1>2. CASE l = WordBits
  <2>1. u.storage = Append(v.storage, IF bit THEN {0} ELSE {}) /\ u.len_of_last = 1
    BY <1>2, PushStorage
  <2> HIDE DEF u
  <2>2. Len(u.storage) = n + 1 /\ u.storage[n + 1] = (IF bit THEN {0} ELSE {})
        /\ \A q \in 1..n : u.storage[q] = v.storage[q]
    BY <1>1, <2>1
  <2>3. BvLen(v) = WordBits * n + 0 /\ BvLen(u) = WordBits * n + 1
    BY <1>1, <1>2, <2>1, <2>2, WordBitsAssumption DEF BvLen
  <2>4. ASSUME NEW q \in Nat, NEW r \in 0..(WordBits - 1), WordBits * q + r < BvLen(v)
        PROVE  (r \in u.storage[q + 1]) = (r \in v.storage[q + 1])
    <3>1. q + 1 \in 1..n
      BY <1>1, <2>4, InStorage
    <3> QED BY <3>1, <2>2
  <2>5. (0 \in u.storage[n + 1]) = bit
    BY <2>2
  <2>6. n \in Nat /\ 0 \in 0..(WordBits - 1) /\ WordBits * n \in Nat
    BY <1>1, WordBitsAssumption
  <2>7. \E q \in Nat, r \in 0..(WordBits - 1) : WordBits * q + r = BvLen(v) /\ (r \in u.storage[q + 1]) = bit
    BY <2>3, <2>5, <2>6
  <2>8. BvLen(u) = BvLen(v) + 1
    BY <2>3, <2>6
  <2> QED BY <2>4, <2>7, <2>8 DEF u
<1>3. CASE l # WordBits
  <2> DEFINE w == v.storage[n] \cup (IF bit THEN {l} ELSE {})
  <2>1. u.storage = [v.storage EXCEPT ![n] = w] /\ u.len_of_last = l + 1
    BY <1>3, PushStorage
  <2>2. (l \in w) = bit /\ \A r \in 0..(WordBits - 1) : r < l => (r \in w) = (r \in v.storage[n])
    <3>1. l \notin v.storage[n]
      BY <1>1
    <3>2. (l \in w) = bit
      BY <3>1
    <3>3. ASSUME NEW r \in 0..(WordBits - 1), r < l PROVE (r \in w) = (r \in v.storage[n])
      BY <3>3, <1>1, WordBitsAssumption
    <3> QED BY <3>2, <3>3
  <2> HIDE DEF u, w
  <2>3. Len(u.storage) = n /\ u.storage[n] = w /\ \A q \in 1..(n - 1) : u.storage[q] = v.storage[q]
    BY <1>1, <2>1
  <2>4. BvLen(v) = WordBits * (n - 1) + l /\ BvLen(u) = WordBits * (n - 1) + (l + 1)
    BY <2>1, <2>3 DEF BvLen
  <2>5. ASSUME NEW q \in Nat, NEW r \in 0..(WordBits - 1), WordBits * q + r < BvLen(v)
        PROVE  (r \in u.storage[q + 1]) = (r \in v.storage[q + 1])
    <3>1. q + 1 < n \/ (q + 1 = n /\ r < l)
      BY <2>5, InStorage
    <3>2. CASE q + 1 < n
      <4>1. q + 1 \in 1..(n - 1)
        BY <3>2, <1>1
      <4> QED BY <4>1, <2>3
    <3>3. CASE q + 1 = n /\ r < l
      BY <3>3, <2>2, <2>3
    <3> QED BY <3>1, <3>2, <3>3
  <2>6. n - 1 \in Nat /\ (n - 1) + 1 = n /\ l \in 0..(WordBits - 1) /\ WordBits * (n - 1) \in Nat
    BY <1>1, <1>3, WordBitsAssumption
  <2>7. (l \in u.storage[(n - 1) + 1]) = bit
    BY <2>2, <2>3, <2>6
  <2>8. \E q \in Nat, r \in 0..(WordBits - 1) : WordBits * q + r = BvLen(v) /\ (r \in u.storage[q + 1]) = bit
    BY <2>4, <2>6, <2>7
  <2>9. BvLen(u) = BvLen(v) + 1
    BY <2>4, <2>6, WordBitsAssumption
  <2> QED BY <2>5, <2>8, <2>9 DEF u
<1> QED BY <1>2, <1>3

\* Push adds its bit at the end and changes no other.
LEMMA PushBits ==
  ASSUME NEW v \in BitVecs, NEW bit \in BOOLEAN
  PROVE  /\ BvPush(v, bit) \in BitVecs
         /\ BvLen(BvPush(v, bit)) = BvLen(v) + 1
         /\ BvBits(BvPush(v, bit)) = Append(BvBits(v), bit)
<1> DEFINE u == BvPush(v, bit)
           before == BvBits(v)
           after == BvBits(u)
<1>1. u \in BitVecs /\ BvLen(u) = BvLen(v) + 1
  BY PushStorage, PushPositions
<1>2. BvLen(v) \in Nat
  BY LenType
<1>3. /\ before \in Seq(BOOLEAN) /\ Len(before) = BvLen(v)
      /\ after \in Seq(BOOLEAN) /\ Len(after) = BvLen(v) + 1
  BY <1>1, BitsType
<1>4. ASSUME NEW i \in 1..BvLen(v) PROVE after[i] = before[i]
  <2>1. PICK q \in Nat, r \in 0..(WordBits - 1) : i = WordBits * q + r + 1 /\ WordBits * q + r < BvLen(v)
    BY PositionOf
  <2>2. WordBits * q + r < BvLen(u)
    BY <1>1, <1>2, <2>1, WordBitsAssumption
  <2>3. before[i] = (r \in v.storage[q + 1])
    BY <2>1, BitAt
  <2>4. after[i] = (r \in u.storage[q + 1])
    BY <1>1, <2>1, <2>2, BitAt
  <2>5. (r \in u.storage[q + 1]) = (r \in v.storage[q + 1])
    BY <2>1, PushPositions
  <2> QED BY <2>3, <2>4, <2>5
<1>5. after[BvLen(v) + 1] = bit
  <2>1. PICK q \in Nat, r \in 0..(WordBits - 1) : WordBits * q + r = BvLen(v) /\ (r \in u.storage[q + 1]) = bit
    BY PushPositions
  <2>2. WordBits * q + r < BvLen(u)
    BY <1>1, <1>2, <2>1
  <2>3. after[WordBits * q + r + 1] = (r \in u.storage[q + 1])
    BY <1>1, <2>2, BitAt
  <2> QED BY <2>1, <2>3
<1> HIDE DEF before, after, u
<1>6. after = Append(before, bit)
  <2> DEFINE app == Append(before, bit)
  <2>1. app \in Seq(BOOLEAN) /\ Len(app) = BvLen(v) + 1 /\ app[BvLen(v) + 1] = bit
        /\ \A i \in 1..BvLen(v) : app[i] = before[i]
    BY <1>2, <1>3
  <2> HIDE DEF app
  <2>2. \A i \in 1..Len(after) : after[i] = app[i]
    BY <2>1, <1>2, <1>3, <1>4, <1>5
  <2> QED BY <2>1, <2>2, <1>3, SameBits DEF app
<1> QED BY <1>1, <1>6 DEF before, after, u

\* Vectors of the same length have the same number of words.
LEMMA SameWords ==
  ASSUME NEW a \in BitVecs, NEW b \in BitVecs, BvLen(a) = BvLen(b)
  PROVE  ~(Len(a.storage) < Len(b.storage))
<1> SUFFICES ASSUME Len(a.storage) < Len(b.storage) PROVE FALSE
  OBVIOUS
<1> DEFINE m == Len(a.storage)
           n == Len(b.storage)
<1>1. m \in Nat \ {0} /\ n \in Nat \ {0} /\ m < n /\ b.len_of_last > 0 /\ b.len_of_last \in Nat
  BY DEF BitVecs
<1>2. n - 1 \in Nat /\ 0 \in 0..(WordBits - 1) /\ (n - 1) + 1 = n
  BY <1>1, WordBitsAssumption
<1>3. WordBits * (n - 1) + 0 < BvLen(b)
  BY <1>1, <1>2, InStorage
<1>4. n < m \/ n = m
  BY <1>2, <1>3, InStorage
<1> QED BY <1>1, <1>4

(***************************************************************************)
(* A vector is determined by its bits: == on BitVec, which compares words, *)
(* is equality of the bits.                                                *)
(***************************************************************************)
LEMMA BitsDetermine ==
  ASSUME NEW a \in BitVecs, NEW b \in BitVecs, BvBits(a) = BvBits(b)
  PROVE  a = b
<1> DEFINE n == Len(a.storage)
           l == a.len_of_last
           Word == SUBSET (0..(WordBits - 1))
<1>1. BvLen(a) = BvLen(b)
  BY BitsType
<1>2. /\ a.storage \in Seq(Word) /\ n \in Nat \ {0} /\ l \in 0..WordBits
      /\ \A j \in a.storage[n] : j < l
  BY DEF BitVecs
<1>3. /\ b.storage \in Seq(Word) /\ Len(b.storage) \in Nat /\ b.len_of_last \in 0..WordBits
      /\ \A j \in b.storage[Len(b.storage)] : j < b.len_of_last
  BY DEF BitVecs
<1>4. Len(b.storage) = n
  BY <1>1, <1>2, <1>3, SameWords
<1>5. b.len_of_last = l
  <2>1. WordBits * (n - 1) + l = WordBits * (n - 1) + b.len_of_last
    BY <1>1, <1>4 DEF BvLen
  <2>2. WordBits * (n - 1) \in Int
    BY <1>2, WordBitsAssumption
  <2> QED BY <2>1, <2>2, <1>2, <1>3, WordBitsAssumption
<1>6. ASSUME NEW q \in 1..n PROVE a.storage[q] = b.storage[q]
  <2>1. a.storage[q] \in Word /\ b.storage[q] \in Word
    BY <1>2, <1>3, <1>4
  <2>2. q - 1 \in Nat /\ (q - 1) + 1 = q
    BY <1>2
  <2>3. ASSUME NEW r \in 0..(WordBits - 1) PROVE r \in a.storage[q] <=> r \in b.storage[q]
    <3>1. CASE WordBits * (q - 1) + r < BvLen(a)
      <4>1. BvBits(a)[WordBits * (q - 1) + r + 1] = (r \in a.storage[q])
        BY <2>2, <3>1, BitAt
      <4>2. BvBits(b)[WordBits * (q - 1) + r + 1] = (r \in b.storage[q])
        BY <1>1, <2>2, <3>1, BitAt
      <4> QED BY <4>1, <4>2
    <3>2. CASE ~(WordBits * (q - 1) + r < BvLen(a))
      <4>1. ~(q < n) /\ ~(q = n /\ r < l)
        BY <2>2, <3>2, InStorage
      <4>2. q = n /\ ~(r < l)
        BY <4>1, <1>2
      <4> QED BY <4>2, <1>2, <1>3, <1>4, <1>5
    <3> QED BY <3>1, <3>2
  <2> QED BY <2>1, <2>3
<1>7. a.storage = b.storage
  BY <1>2, <1>3, <1>4, <1>6
<1>8. a = [storage |-> a.storage, len_of_last |-> l]
  BY DEF BitVecs
<1>9. b = [storage |-> b.storage, len_of_last |-> b.len_of_last]
  BY DEF BitVecs
<1> QED BY <1>5, <1>7, <1>8, <1>9

\* What get returns, inside the vector and beyond it.
LEMMA GetBit ==
  ASSUME NEW v \in BitVecs, NEW i \in Nat
  PROVE  BvGet(v, i) = IF i < BvLen(v) THEN {BvBits(v)[i + 1]} ELSE {}
<1>1. BvLen(v) \in Nat
  BY LenType
<1>2. CASE i < BvLen(v)
  <2> DEFINE b == (i % WordBits) \in v.storage[(i \div WordBits) + 1]
  <2>1. BvGet(v, i) = {b} /\ b \in BOOLEAN
    BY <1>1, <1>2 DEF BvGet
  <2>2. i + 1 \in 1..BvLen(v) /\ (i + 1) - 1 = i
    BY <1>1, <1>2
  <2>3. BvBits(v)[i + 1] = (TRUE \in BvGet(v, i))
    BY <2>2 DEF BvBits
  <2> HIDE DEF b
  <2>4. (TRUE \in {b}) = b
    BY <2>1, SingleBit
  <2> QED BY <1>2, <2>1, <2>3, <2>4
<1>3. CASE ~(i < BvLen(v))
  BY <1>1, <1>3 DEF BvGet
<1> QED BY <1>2, <1>3

\* One more bit of s is one more bit of the concatenation.
LEMMA ConcatNext ==
  ASSUME NEW B \in Seq(BOOLEAN), NEW s \in Seq(BOOLEAN), NEW n \in 0..(Len(s) - 1)
  PROVE  B \o SubSeq(s, 1, n + 1) = Append(B \o SubSeq(s, 1, n), s[n + 1])
<1> DEFINE t == SubSeq(s, 1, n)
           u == SubSeq(s, 1, n + 1)
<1>1. t \in Seq(BOOLEAN) /\ Len(t) = n /\ \A i \in 1..n : t[i] = s[i]
  OBVIOUS
<1>2. u \in Seq(BOOLEAN) /\ Len(u) = n + 1 /\ \A i \in 1..(n + 1) : u[i] = s[i]
  OBVIOUS
<1> HIDE DEF t, u
<1>3. u = Append(t, s[n + 1])
  <2>1. s[n + 1] \in BOOLEAN
    OBVIOUS
  <2> DEFINE w == Append(t, s[n + 1])
  <2>2. w \in Seq(BOOLEAN) /\ Len(w) = n + 1 /\ w[n + 1] = s[n + 1] /\ \A i \in 1..n : w[i] = s[i]
    BY <1>1, <2>1
  <2> HIDE DEF w
  <2>3. \A i \in 1..Len(u) : u[i] = w[i]
    BY <1>2, <2>2
  <2> QED BY <1>2, <2>2, <2>3, SameBits DEF w
<1>4. s[n + 1] \in BOOLEAN
  OBVIOUS
<1>5. B \o Append(t, s[n + 1]) = Append(B \o t, s[n + 1])
  BY <1>1, <1>4
<1> QED BY <1>3, <1>5 DEF t, u

\* Pushing a list of bits adds them at the end in their order.
LEMMA PushAllBits ==
  ASSUME NEW v \in BitVecs, NEW s \in Seq(BOOLEAN)
  PROVE  BvPushAll(v, s) \in BitVecs /\ BvBits(BvPushAll(v, s)) = BvBits(v) \o s
<1> DEFINE N == Len(s)
           Loop(h) == h = [n \in 0..N |-> IF n = 0 THEN v ELSE BvPush(h[n - 1], s[n])]
           pushed == CHOOSE h : Loop(h)
           g == [x \in BitVecs \X (1..N) |-> BvPush(x[1], s[x[2]])]
<1>1. BvPushAll(v, s) = pushed[N]
  BY DEF BvPushAll
<1>2. N \in Nat /\ \A n \in 1..N : s[n] \in BOOLEAN
  OBVIOUS
<1> HIDE DEF N
<1>3. IsBody(g, BitVecs, N)
  BY <1>2, PushBits DEF IsBody
<1>4. \A b \in BitVecs, n \in 1..N : g[<<b, n>>] = BvPush(b, s[n])
  OBVIOUS
<1> HIDE DEF g
<1>5. PICK f : IsRun(f, g, BitVecs, v, N)
  BY <1>2, <1>3, LoopStates
<1>6. Loop(f)
  <2>1. \A n \in 1..N : f[n] = BvPush(f[n - 1], s[n])
    <3> TAKE n \in 1..N
    <3>1. f[n - 1] \in BitVecs
      BY <1>2, <1>5 DEF IsRun
    <3> QED BY <3>1, <1>4, <1>5 DEF IsRun
  <2>2. \A n \in 0..N : f[n] = IF n = 0 THEN v ELSE BvPush(f[n - 1], s[n])
    BY <1>2, <1>5, <2>1 DEF IsRun
  <2> QED BY <1>5, <2>2 DEF IsRun
<1>7. Loop(pushed)
  <2> HIDE DEF Loop
  <2> QED BY <1>6
<1>8. pushed[0] = v /\ \A n \in 0..(N - 1) : pushed[n + 1] = BvPush(pushed[n], s[n + 1])
  <2> HIDE DEF pushed
  <2>1. \A n \in 0..N : pushed[n] = IF n = 0 THEN v ELSE BvPush(pushed[n - 1], s[n])
    BY <1>7
  <2>2. ASSUME NEW n \in 0..(N - 1) PROVE pushed[n + 1] = BvPush(pushed[n], s[n + 1])
    <3>1. n + 1 \in 0..N /\ n + 1 # 0 /\ (n + 1) - 1 = n
      BY <1>2
    <3> QED BY <2>1, <3>1
  <2> QED BY <1>2, <2>1, <2>2
<1> HIDE DEF pushed, Loop
<1> DEFINE S == {n \in 0..N : pushed[n] \in BitVecs /\ BvBits(pushed[n]) = BvBits(v) \o SubSeq(s, 1, n)}
<1>9. BvBits(v) \in Seq(BOOLEAN)
  BY BitsType
<1>10. 0 \in S
  BY <1>2, <1>8, <1>9
<1>11. ASSUME NEW n \in 0..(N - 1), n \in S PROVE n + 1 \in S
  <2>1. pushed[n] \in BitVecs /\ BvBits(pushed[n]) = BvBits(v) \o SubSeq(s, 1, n)
    BY <1>11
  <2>2. s[n + 1] \in BOOLEAN /\ n + 1 \in 0..N
    BY <1>2
  <2>3. pushed[n + 1] \in BitVecs /\ BvBits(pushed[n + 1]) = Append(BvBits(pushed[n]), s[n + 1])
    BY <1>8, <2>1, <2>2, PushBits
  <2>4. BvBits(pushed[n + 1]) = BvBits(v) \o SubSeq(s, 1, n + 1)
    BY <1>9, <2>1, <2>3, ConcatNext DEF N
  <2> QED BY <2>2, <2>3, <2>4
<1> HIDE DEF S
<1>12. N \in S
  <2>1. N \in Nat /\ N \in 0..N
    BY <1>2
  <2>2. \A n \in 0..N : n \in S
    BY <2>1, <1>10, <1>11, BoundedInduction
  <2> QED BY <2>1, <2>2
<1>13. SubSeq(s, 1, N) = s
  BY DEF N
<1> QED BY <1>1, <1>12, <1>13 DEF S

\* from_slice builds a vector of the slice's bits.
LEMMA FromSliceBits ==
  ASSUME NEW s \in Seq(BOOLEAN)
  PROVE  FromSlice(s) \in BitVecs /\ BvBits(FromSlice(s)) = s /\ BvLen(FromSlice(s)) = Len(s)
<1>1. FromSlice(s) \in BitVecs /\ BvBits(FromSlice(s)) = << >> \o s
  BY NewIsEmpty, PushAllBits DEF FromSlice
<1>2. << >> \o s = s
  OBVIOUS
<1> QED BY <1>1, <1>2, BitsType

\* append adds the bits of the other vector.
LEMMA AppendBits ==
  ASSUME NEW v \in BitVecs, NEW w \in BitVecs
  PROVE  /\ BvAppend(v, w) \in BitVecs
         /\ BvBits(BvAppend(v, w)) = BvBits(v) \o BvBits(w)
         /\ BvLen(BvAppend(v, w)) = BvLen(v) + BvLen(w)
<1>1. /\ BvBits(v) \in Seq(BOOLEAN) /\ Len(BvBits(v)) = BvLen(v)
      /\ BvBits(w) \in Seq(BOOLEAN) /\ Len(BvBits(w)) = BvLen(w)
  BY BitsType
<1>2. BvAppend(v, w) \in BitVecs /\ BvBits(BvAppend(v, w)) = BvBits(v) \o BvBits(w)
  BY <1>1, PushAllBits DEF BvAppend
<1>3. Len(BvBits(v) \o BvBits(w)) = BvLen(v) + BvLen(w)
  BY <1>1
<1> QED BY <1>2, <1>3, BitsType

\* range fails when it leaves the vector, and else is the part it names.
LEMMA RangeBits ==
  ASSUME NEW v \in BitVecs, NEW from \in Nat, NEW to \in Nat
  PROVE  IF from < to /\ BvLen(v) < to THEN BvRange(v, from, to) = {}
         ELSE \E u \in BitVecs : /\ BvRange(v, from, to) = {u}
                                 /\ BvBits(u) = SubSeq(BvBits(v), from + 1, to)
<1> DEFINE n == IF to > from THEN to - from ELSE 0
           s == [i \in 1..n |-> TRUE \in BvGet(v, from + i - 1)]
           Out == \E i \in 1..n : BvGet(v, from + i - 1) = {}
<1>1. BvRange(v, from, to) = IF Out THEN {} ELSE {FromSlice(s)}
  BY DEF BvRange
<1>2. BvLen(v) \in Nat /\ BvBits(v) \in Seq(BOOLEAN) /\ Len(BvBits(v)) = BvLen(v)
  BY LenType, BitsType
<1>3. n \in Nat /\ \A i \in 1..n : from + i - 1 \in Nat /\ from < to /\ from + i - 1 < to /\ (from + i - 1) + 1 = from + i
  OBVIOUS
<1>4. CASE from < to /\ BvLen(v) < to
  <2>1. n \in 1..n /\ from + n - 1 \in Nat /\ ~(from + n - 1 < BvLen(v))
    BY <1>2, <1>4
  <2>2. BvGet(v, from + n - 1) = {}
    BY <2>1, GetBit
  <2> QED BY <1>1, <1>4, <2>1, <2>2
<1>5. CASE ~(from < to /\ BvLen(v) < to)
  <2> DEFINE B == BvBits(v)
  <2>1. ASSUME NEW i \in 1..n PROVE BvGet(v, from + i - 1) = {B[from + i]} /\ B[from + i] \in BOOLEAN
    <3>1. from + i - 1 < BvLen(v) /\ from + i - 1 \in Nat /\ (from + i - 1) + 1 = from + i
      BY <1>2, <1>3, <1>5
    <3>2. B[from + i] \in BOOLEAN
      BY <1>2, <3>1
    <3> QED BY <3>1, <3>2, GetBit
  <2> HIDE DEF B
  <2>2. ~Out
    BY <2>1
  <2>3. \A i \in 1..n : (TRUE \in BvGet(v, from + i - 1)) = B[from + i]
    BY <2>1, SingleBit
  <2>4. s = [i \in 1..n |-> B[from + i]]
    BY <2>3
  <2>5. s \in Seq(BOOLEAN)
    BY <1>3, <2>1, <2>4
  <2>6. SubSeq(B, from + 1, to) = [i \in 1..n |-> B[from + i]]
    BY <1>2, <1>5 DEF B
  <2> HIDE DEF s, Out
  <2>7. FromSlice(s) \in BitVecs /\ BvBits(FromSlice(s)) = s
    BY <2>5, FromSliceBits
  <2>8. BvRange(v, from, to) = {FromSlice(s)}
    BY <1>1, <2>2
  <2> QED BY <1>5, <2>4, <2>6, <2>7, <2>8 DEF B
<1> QED BY <1>4, <1>5

-----------------------------------------------------------------------------
(***************************************************************************)
(* Whatever operations built it, the vector is represented as BitVecs      *)
(* says: words in use, and no stray one-bit for == to trip over.           *)
(***************************************************************************)
Represented == bv \in BitVecs

\* Every operation keeps the representation.
THEOREM RepresentationHolds == Spec => []Represented
<1>1. Init => Represented
  BY NewIsEmpty DEF Init, Represented
<1>2. Represented /\ [Next]_bv => Represented'
  <2> SUFFICES ASSUME bv \in BitVecs, [Next]_bv PROVE bv' \in BitVecs
    BY DEF Represented
  <2>1. CASE \E bit \in BOOLEAN : Push(bit)
    BY <2>1, PushBits DEF Push
  <2>2. CASE \E other \in Others : AppendOther(other)
    <3>1. PICK other \in Others : AppendOther(other)
      BY <2>2
    <3>2. FromSlice(other) \in BitVecs
      BY ObjectAssumption, FromSliceBits
    <3> QED BY <3>1, <3>2, AppendBits DEF AppendOther
  <2>3. CASE \E from, to \in 0..(MaxBits + 1) : Range(from, to)
    <3>1. PICK from, to \in 0..(MaxBits + 1) : bv' \in BvRange(bv, from, to)
      BY <2>3 DEF Range
    <3>2. from \in Nat /\ to \in Nat
      BY ObjectAssumption
    <3>3. BvRange(bv, from, to) # {}
      BY <3>1
    <3>4. ~(from < to /\ BvLen(bv) < to)
      BY <3>2, <3>3, RangeBits
    <3>5. \E u \in BitVecs : BvRange(bv, from, to) = {u}
      BY <3>2, <3>4, RangeBits
    <3> QED BY <3>1, <3>5
  <2>4. CASE UNCHANGED bv
    BY <2>4
  <2> QED BY <2>1, <2>2, <2>3, <2>4 DEF Next
<1> QED BY <1>1, <1>2, PTL DEF Spec

(***************************************************************************)
(* A vector has one representation: it is the one from_slice builds of its *)
(* bits.                                                                   *)
(***************************************************************************)
THEOREM CanonicalHolds == Spec => []Canonical
<1>1. Represented => Canonical
  <2> SUFFICES ASSUME bv \in BitVecs PROVE bv = FromSlice(BvBits(bv))
    BY DEF Canonical, Represented
  <2>1. BvBits(bv) \in Seq(BOOLEAN)
    BY BitsType
  <2>2. FromSlice(BvBits(bv)) \in BitVecs /\ BvBits(FromSlice(BvBits(bv))) = BvBits(bv)
    BY <2>1, FromSliceBits
  <2> QED BY <2>2, BitsDetermine
<1> QED BY <1>1, RepresentationHolds, PTL

\* is_empty, which looks at the last word alone, agrees with len.
THEOREM IsEmptyHolds == Spec => []IsEmptyAgrees
<1>1. Represented => IsEmptyAgrees
  BY LenType DEF IsEmptyAgrees, Represented
<1> QED BY <1>1, RepresentationHolds, PTL

\* push on the vector is push on the list.
LEMMA PushActs ==
  ASSUME Represented, NEW bit \in BOOLEAN, Push(bit)
  PROVE  List!Push(bit)
BY PushBits DEF Push, List!Push, Represented

\* append of another vector is append of its list.
LEMMA AppendActs ==
  ASSUME Represented, NEW other \in Others, AppendOther(other)
  PROVE  List!AppendOther(other)
<1>1. FromSlice(other) \in BitVecs /\ BvBits(FromSlice(other)) = other
  BY ObjectAssumption, FromSliceBits
<1> QED BY <1>1, AppendBits DEF AppendOther, List!AppendOther, Represented

\* range on the vector is the sublist, and never begins or ends outside.
LEMMA RangeActs ==
  ASSUME Represented, NEW from \in Nat, NEW to \in Nat, Range(from, to)
  PROVE  List!Range(from, to) /\ \E t, f \in 0..Len(BvBits(bv)) : List!Range(f, t)
<1> DEFINE B == BvBits(bv)
<1>1. B \in Seq(BOOLEAN) /\ Len(B) = BvLen(bv) /\ BvLen(bv) \in Nat
  BY LenType, BitsType DEF Represented
<1>2. bv' \in BvRange(bv, from, to)
  BY DEF Range
<1>3. ~(from < to /\ BvLen(bv) < to)
  BY <1>2, RangeBits DEF Represented
<1>4. PICK u \in BitVecs : BvRange(bv, from, to) = {u} /\ BvBits(u) = SubSeq(B, from + 1, to)
  BY <1>3, RangeBits DEF Represented
<1>5. BvBits(bv') = SubSeq(B, from + 1, to)
  BY <1>2, <1>4
<1>6. List!Range(from, to)
  BY <1>1, <1>3, <1>5 DEF List!Range
<1>7. CASE from < to
  <2>1. from \in 0..Len(B) /\ to \in 0..Len(B)
    BY <1>1, <1>3, <1>7
  <2> QED BY <1>6, <2>1
<1>8. CASE ~(from < to)
  <2>1. SubSeq(B, from + 1, to) = << >> /\ SubSeq(B, 0 + 1, 0) = << >>
    BY <1>1, <1>8
  <2>2. List!Range(0, 0)
    <3>1. BvBits(bv') = SubSeq(BvBits(bv), 0 + 1, 0)
      BY <1>5, <2>1
    <3>2. ~(0 < 0)
      OBVIOUS
    <3> QED BY <3>1, <3>2, Zenon DEF List!Range
  <2>3. 0 \in 0..Len(B)
    BY <1>1
  <2> QED BY <1>6, <2>2, <2>3
<1> QED BY <1>7, <1>8, <1>6

(***************************************************************************)
(* The vector implements a list of booleans, operation by operation.       *)
(***************************************************************************)
THEOREM ActsAsListHolds == Spec => ActsAsList
<1> DEFINE Acts == /\ \A bit \in BOOLEAN : Push(bit) => List!Push(bit)
                   /\ \A other \in Others : AppendOther(other) => List!AppendOther(other)
                   /\ \A from, to \in 0..(MaxBits + 1) : Range(from, to) => List!Range(from, to)
<1>1. Init => List!Init
  BY NewIsEmpty DEF Init, List!Init
<1>2. Represented => Acts
  <2> SUFFICES ASSUME Represented PROVE Acts
    OBVIOUS
  <2>1. \A bit \in BOOLEAN : Push(bit) => List!Push(bit)
    BY PushActs
  <2>2. \A other \in Others : AppendOther(other) => List!AppendOther(other)
    BY AppendActs
  <2>3. \A from, to \in 0..(MaxBits + 1) : from \in Nat /\ to \in Nat
    BY ObjectAssumption
  <2>4. \A from, to \in 0..(MaxBits + 1) : Range(from, to) => List!Range(from, to)
    BY <2>3, RangeActs
  <2> QED BY <2>1, <2>2, <2>4
<1>3. Represented /\ [Next]_bv => [List!Next]_(BvBits(bv))
  <2> SUFFICES ASSUME Represented, [Next]_bv PROVE [List!Next]_(BvBits(bv))
    OBVIOUS
  <2>1. CASE \E bit \in BOOLEAN : Push(bit)
    <3>1. \E bit \in BOOLEAN : List!Push(bit)
      BY <2>1, PushActs
    <3> QED BY <3>1 DEF List!Next
  <2>2. CASE \E other \in Others : AppendOther(other)
    <3>1. \E other \in Others : List!AppendOther(other)
      BY <2>2, AppendActs
    <3> QED BY <3>1 DEF List!Next
  <2>3. CASE \E from, to \in 0..(MaxBits + 1) : Range(from, to)
    <3>1. PICK from, to \in 0..(MaxBits + 1) : Range(from, to)
      BY <2>3
    <3>2. from \in Nat /\ to \in Nat
      BY ObjectAssumption
    <3>3. \E t, f \in 0..Len(BvBits(bv)) : List!Range(f, t)
      BY <3>1, <3>2, RangeActs
    <3> QED BY <3>3 DEF List!Next
  <2>4. CASE UNCHANGED bv
    BY <2>4
  <2> QED BY <2>1, <2>2, <2>3, <2>4 DEF Next
<1> HIDE DEF Acts
<1>4. Spec => List!Spec /\ [][Acts]_bv
  BY <1>1, <1>2, <1>3, RepresentationHolds, PTL DEF Spec, List!Spec
<1> QED BY <1>4 DEF Acts, ActsAsList

-----------------------------------------------------------------------------
(* The compressor. *)

\* The states of its loop and the first of them.
CompressStates == [payload : BitVecs, previous : SUBSET BitVecs, found : BOOLEAN]
CompressStart == [payload |-> BvNew, previous |-> {}, found |-> TRUE]

\* f is the sequence of the states of compress(n, seq).
IsCompress(f, n, seq) ==
  /\ f \in [0..Len(seq) -> CompressStates]
  /\ f[0] = CompressStart
  /\ \A k \in 0..(Len(seq) - 1) : f[k + 1] = CompressStep(f[k], n, seq[k + 1])

\* What an iteration does: give up, repeat, or write the element out.
CompressEffect(s, n, e, t) ==
  /\ t \in CompressStates
  /\ t.found <=> (s.found /\ BvLen(e) = n)
  /\ t.found /\ s.previous = {e} =>
       /\ t.previous = {e}
       /\ BvLen(t.payload) = BvLen(s.payload) + 1
       /\ BvBits(t.payload) = Append(BvBits(s.payload), FALSE)
  /\ t.found /\ s.previous # {e} =>
       /\ t.previous = {e}
       /\ BvLen(t.payload) = BvLen(s.payload) + 1 + n
       /\ BvBits(t.payload) = Append(BvBits(s.payload), TRUE) \o BvBits(e)

\* The body of the loop has this effect.
LEMMA CompressCases ==
  ASSUME NEW s \in CompressStates, NEW n \in Nat, NEW e \in BitVecs
  PROVE  CompressEffect(s, n, e, CompressStep(s, n, e))
<1> USE DEF CompressEffect
<1> DEFINE t == CompressStep(s, n, e)
<1>1. s.payload \in BitVecs /\ s.previous \in SUBSET BitVecs /\ s.found \in BOOLEAN
  BY DEF CompressStates
<1>2. CASE ~(s.found /\ BvLen(e) = n)
  <2>1. t = [s EXCEPT !.found = FALSE]
    BY <1>2 DEF CompressStep
  <2>2. t \in CompressStates /\ t.found = FALSE
    BY <2>1, <1>1 DEF CompressStates
  <2> QED BY <1>2, <2>2
<1>3. CASE s.found /\ BvLen(e) = n /\ s.previous = {e}
  <2> DEFINE w == BvPush(s.payload, FALSE)
  <2>1. t = [s EXCEPT !.payload = w]
    BY <1>3 DEF CompressStep
  <2>2. w \in BitVecs /\ BvLen(w) = BvLen(s.payload) + 1 /\ BvBits(w) = Append(BvBits(s.payload), FALSE)
    BY <1>1, PushBits
  <2> HIDE DEF w
  <2>3. t \in CompressStates /\ t.found = s.found /\ t.previous = s.previous /\ t.payload = w
    BY <2>1, <2>2, <1>1 DEF CompressStates
  <2> HIDE DEF t
  <2>4. t.found = TRUE
    BY <2>3, <1>3, <1>1
  <2> QED BY <1>3, <2>2, <2>3, <2>4 DEF t
<1>4. CASE s.found /\ BvLen(e) = n /\ s.previous # {e}
  <2> DEFINE x == BvPush(s.payload, TRUE)
             w == BvAppend(x, e)
  <2>1. t = [s EXCEPT !.payload = w, !.previous = {e}]
    BY <1>4 DEF CompressStep
  <2>2. x \in BitVecs /\ BvLen(x) = BvLen(s.payload) + 1 /\ BvBits(x) = Append(BvBits(s.payload), TRUE)
    BY <1>1, PushBits
  <2> HIDE DEF x
  <2>3. w \in BitVecs /\ BvLen(w) = BvLen(x) + BvLen(e) /\ BvBits(w) = BvBits(x) \o BvBits(e)
    BY <2>2, AppendBits
  <2> HIDE DEF w
  <2>4. t \in CompressStates /\ t.found = s.found /\ t.previous = {e} /\ t.payload = w
    BY <2>1, <2>3, <1>1 DEF CompressStates
  <2> HIDE DEF t
  <2>5. t.found = TRUE
    BY <2>4, <1>4, <1>1
  <2>6. BvLen(w) = BvLen(s.payload) + 1 + n
    BY <2>2, <2>3, <1>4
  <2>7. BvBits(w) = Append(BvBits(s.payload), TRUE) \o BvBits(e)
    BY <2>2, <2>3
  <2> QED BY <1>4, <2>4, <2>5, <2>6, <2>7 DEF t
<1> QED BY <1>2, <1>3, <1>4

\* The loop of compress has its sequence of states and ends in the last.
LEMMA CompressRuns ==
  ASSUME NEW n \in Nat, NEW seq \in Seq(BitVecs)
  PROVE  \E f : IsCompress(f, n, seq) /\ CompressBits(n, seq) = f[Len(seq)]
<1> DEFINE N == Len(seq)
           Loop(h) == h = [k \in 0..N |-> IF k = 0 THEN [payload |-> BvNew, previous |-> {}, found |-> TRUE]
                                          ELSE CompressStep(h[k - 1], n, seq[k])]
           loop == CHOOSE h : Loop(h)
           g == [x \in CompressStates \X (1..N) |-> CompressStep(x[1], n, seq[x[2]])]
<1>1. CompressBits(n, seq) = loop[N]
  BY DEF CompressBits
<1>2. N \in Nat /\ \A k \in 1..N : seq[k] \in BitVecs
  OBVIOUS
<1> HIDE DEF N
<1>3. IsBody(g, CompressStates, N)
  BY <1>2, CompressCases DEF IsBody, CompressEffect
<1>4. \A s \in CompressStates, k \in 1..N : g[<<s, k>>] = CompressStep(s, n, seq[k])
  OBVIOUS
<1> HIDE DEF g
<1>5. CompressStart \in CompressStates
  BY NewIsEmpty DEF CompressStart, CompressStates
<1>6. PICK f : IsRun(f, g, CompressStates, CompressStart, N)
  BY <1>2, <1>3, <1>5, LoopStates
<1>7. Loop(f)
  <2>1. \A k \in 1..N : f[k] = CompressStep(f[k - 1], n, seq[k])
    <3> TAKE k \in 1..N
    <3>1. f[k - 1] \in CompressStates
      BY <1>2, <1>6 DEF IsRun
    <3> QED BY <3>1, <1>4, <1>6 DEF IsRun
  <2>2. \A k \in 0..N : f[k] = IF k = 0 THEN CompressStart ELSE CompressStep(f[k - 1], n, seq[k])
    BY <1>2, <1>6, <2>1 DEF IsRun
  <2> QED BY <1>6, <2>2 DEF IsRun, CompressStart
<1>8. Loop(loop)
  <2> HIDE DEF Loop
  <2> QED BY <1>7
<1>9. loop[0] = CompressStart /\ \A k \in 0..(N - 1) : loop[k + 1] = CompressStep(loop[k], n, seq[k + 1])
  <2> HIDE DEF loop
  <2>1. \A k \in 0..N : loop[k] = IF k = 0 THEN CompressStart ELSE CompressStep(loop[k - 1], n, seq[k])
    BY <1>8 DEF CompressStart
  <2>2. ASSUME NEW k \in 0..(N - 1) PROVE loop[k + 1] = CompressStep(loop[k], n, seq[k + 1])
    <3>1. k + 1 \in 0..N /\ k + 1 # 0 /\ (k + 1) - 1 = k
      BY <1>2
    <3> QED BY <2>1, <3>1
  <2> QED BY <1>2, <2>1, <2>2
<1>10. \A k \in 0..N : loop[k] \in CompressStates
  <2> HIDE DEF loop, Loop
  <2> DEFINE S == {k \in 0..N : loop[k] \in CompressStates}
  <2>1. 0 \in S
    BY <1>2, <1>5, <1>9
  <2>2. ASSUME NEW k \in 0..(N - 1), k \in S PROVE k + 1 \in S
    <3>1. loop[k] \in CompressStates /\ seq[k + 1] \in BitVecs /\ k + 1 \in 0..N
      BY <1>2, <2>2
    <3>2. CompressStep(loop[k], n, seq[k + 1]) \in CompressStates
      BY <3>1, CompressCases DEF CompressEffect
    <3> QED BY <3>1, <3>2, <1>9
  <2> HIDE DEF S
  <2>3. N \in Nat
    BY <1>2
  <2>4. \A k \in 0..N : k \in S
    BY <2>1, <2>2, <2>3, BoundedInduction
  <2> QED BY <2>4 DEF S
<1>11. loop \in [0..N -> CompressStates]
  <2> HIDE DEF loop
  <2>1. loop = [k \in 0..N |-> loop[k]]
    BY <1>8
  <2> QED BY <1>10, <2>1
<1> HIDE DEF loop, Loop
<1>12. IsCompress(loop, n, seq)
  BY <1>9, <1>11 DEF IsCompress, N
<1> QED BY <1>1, <1>12 DEF N

\* Two consecutive states of a run.
LEMMA CompressRound ==
  ASSUME NEW n \in Nat, NEW seq \in Seq(BitVecs), NEW f, IsCompress(f, n, seq),
         NEW k \in 0..(Len(seq) - 1)
  PROVE  /\ k \in 0..Len(seq) /\ k + 1 \in 0..Len(seq)
         /\ f[k] \in CompressStates /\ f[k + 1] \in CompressStates /\ seq[k + 1] \in BitVecs
         /\ BvLen(f[k].payload) \in Nat /\ BvLen(f[k + 1].payload) \in Nat
         /\ CompressEffect(f[k], n, seq[k + 1], f[k + 1])
<1>1. k \in 0..Len(seq) /\ k + 1 \in 0..Len(seq) /\ seq[k + 1] \in BitVecs
  OBVIOUS
<1>2. f[k] \in CompressStates /\ f[k + 1] \in CompressStates /\ f[k + 1] = CompressStep(f[k], n, seq[k + 1])
  BY <1>1 DEF IsCompress
<1>3. CompressEffect(f[k], n, seq[k + 1], f[k + 1])
  BY <1>1, <1>2, CompressCases
<1>4. f[k].payload \in BitVecs /\ f[k + 1].payload \in BitVecs
  BY <1>2 DEF CompressStates
<1> QED BY <1>1, <1>2, <1>3, <1>4, LenType

\* Every element is of length n.
AllOfLength(n, seq) == \A i \in 1..Len(seq) : BvLen(seq[i]) = n

\* Up to an element, the compressor has found only elements of its length.
LEMMA CompressFound ==
  ASSUME NEW n \in Nat, NEW seq \in Seq(BitVecs), NEW f, IsCompress(f, n, seq)
  PROVE  \A k \in 0..Len(seq) : f[k].found <=> \A i \in 1..k : BvLen(seq[i]) = n
<1> DEFINE N == Len(seq)
           S == {k \in 0..N : f[k].found <=> \A i \in 1..k : BvLen(seq[i]) = n}
<1>1. N \in Nat
  OBVIOUS
<1>2. 0 \in S
  BY <1>1 DEF IsCompress, CompressStart
<1>3. ASSUME NEW k \in 0..(N - 1), k \in S PROVE k + 1 \in S
  <2>1. CompressEffect(f[k], n, seq[k + 1], f[k + 1])
    BY CompressRound
  <2>2. f[k + 1].found <=> (f[k].found /\ BvLen(seq[k + 1]) = n)
    BY <2>1 DEF CompressEffect
  <2>3. f[k].found <=> \A i \in 1..k : BvLen(seq[i]) = n
    BY <1>3
  <2>4. \A i : i \in 1..(k + 1) <=> i \in 1..k \/ i = k + 1
    OBVIOUS
  <2>5. k + 1 \in 0..N
    OBVIOUS
  <2> HIDE DEF N
  <2>6. f[k + 1].found <=> \A i \in 1..(k + 1) : BvLen(seq[i]) = n
    BY <2>2, <2>3, <2>4
  <2> QED BY <2>5, <2>6
<1> HIDE DEF S, N
<1>4. \A k \in 0..N : k \in S
  BY <1>1, <1>2, <1>3, BoundedInduction
<1> QED BY <1>4 DEF S, N

\* The compressor accepts exactly the sequences of elements of its length.
LEMMA CompressAccepts ==
  ASSUME NEW n \in Nat, NEW seq \in Seq(BitVecs)
  PROVE  CompressBits(n, seq).found <=> AllOfLength(n, seq)
<1>1. PICK f : IsCompress(f, n, seq) /\ CompressBits(n, seq) = f[Len(seq)]
  BY CompressRuns
<1>2. Len(seq) \in 0..Len(seq)
  OBVIOUS
<1> QED BY <1>1, <1>2, CompressFound DEF AllOfLength

\* The element before the next, after k elements: an Option.
Before(seq, k) == IF k = 0 THEN {} ELSE {seq[k]}

\* What the compressor remembers, and that it writes a bit per element.
LEMMA CompressPrevious ==
  ASSUME NEW n \in Nat, NEW seq \in Seq(BitVecs), NEW f, IsCompress(f, n, seq), AllOfLength(n, seq)
  PROVE  \A k \in 0..Len(seq) : /\ f[k].previous = Before(seq, k)
                                /\ k <= BvLen(f[k].payload)
<1> DEFINE N == Len(seq)
           S == {k \in 0..N : /\ f[k].previous = Before(seq, k)
                              /\ k <= BvLen(f[k].payload)}
<1>1. N \in Nat
  OBVIOUS
<1>2. 0 \in S
  BY <1>1, NewIsEmpty DEF IsCompress, CompressStart, Before
<1>3. ASSUME NEW k \in 0..(N - 1), k \in S PROVE k + 1 \in S
  <2>1. CompressEffect(f[k], n, seq[k + 1], f[k + 1])
    BY CompressRound
  <2>2. f[k + 1].found
    BY CompressFound DEF AllOfLength
  <2>3. BvLen(f[k].payload) \in Nat /\ BvLen(f[k + 1].payload) \in Nat
    BY CompressRound
  <2>4. k <= BvLen(f[k].payload)
    BY <1>3
  <2>5. f[k + 1].previous = {seq[k + 1]} /\ BvLen(f[k].payload) + 1 <= BvLen(f[k + 1].payload)
    <3>1. CASE f[k].previous = {seq[k + 1]}
      BY <2>1, <2>2, <2>3, <3>1 DEF CompressEffect
    <3>2. CASE f[k].previous # {seq[k + 1]}
      BY <2>1, <2>2, <2>3, <3>2 DEF CompressEffect
    <3> QED BY <3>1, <3>2
  <2>6. k + 1 \in 0..N /\ k + 1 # 0 /\ k + 1 <= BvLen(f[k + 1].payload)
    BY <2>3, <2>4, <2>5
  <2>7. f[k + 1].previous = Before(seq, k + 1)
    BY <2>5, <2>6 DEF Before
  <2> QED BY <2>6, <2>7
<1> HIDE DEF S, N
<1>4. \A k \in 0..N : k \in S
  BY <1>1, <1>2, <1>3, BoundedInduction
<1> QED BY <1>4 DEF S, N

\* v begins with the bits of u.
BeginsWith(v, u) ==
  BvLen(u) <= BvLen(v) /\ \A i \in 1..BvLen(u) : BvBits(v)[i] = BvBits(u)[i]

\* Append adds a list of one element.
LEMMA AppendOne ==
  ASSUME NEW B \in Seq(BOOLEAN), NEW b \in BOOLEAN
  PROVE  <<b>> \in Seq(BOOLEAN) /\ Append(B, b) = B \o <<b>>
<1> DEFINE one == <<b>>
           s == Append(B, b)
           t == B \o one
<1>1. one \in Seq(BOOLEAN) /\ Len(one) = 1 /\ one[1] = b
  OBVIOUS
<1>2. s \in Seq(BOOLEAN) /\ Len(s) = Len(B) + 1 /\ s[Len(B) + 1] = b /\ \A i \in 1..Len(B) : s[i] = B[i]
  OBVIOUS
<1> HIDE DEF one
<1>3. t \in Seq(BOOLEAN) /\ Len(t) = Len(B) + 1 /\ t[Len(B) + 1] = b /\ \A i \in 1..Len(B) : t[i] = B[i]
  <2>1. Len(B) \in Nat /\ one \in Seq(BOOLEAN)
    BY <1>1
  <2>2. t \in Seq(BOOLEAN) /\ Len(t) = Len(B) + Len(one)
    BY <2>1
  <2>3. \A i \in 1..Len(B) : t[i] = B[i]
    BY <2>1
  <2>4. t[Len(B) + 1] = one[Len(B) + 1 - Len(B)]
    BY <1>1, <2>1
  <2>5. Len(B) + 1 - Len(B) = 1
    BY <2>1
  <2> QED BY <1>1, <2>2, <2>3, <2>4, <2>5
<1>4. Len(B) \in Nat
  OBVIOUS
<1> HIDE DEF s, t
<1>5. \A i \in 1..Len(s) : s[i] = t[i]
  BY <1>2, <1>3, <1>4
<1>6. s = t
  BY <1>2, <1>3, <1>5, SameBits
<1> QED BY <1>1, <1>6 DEF one, s, t

\* The bits that a literal element adds.
LEMMA LiteralBits ==
  ASSUME NEW B \in Seq(BOOLEAN), NEW E \in Seq(BOOLEAN)
  PROVE  /\ <<TRUE>> \o E \in Seq(BOOLEAN)
         /\ Append(B, TRUE) \o E = B \o (<<TRUE>> \o E)
<1> DEFINE one == <<TRUE>>
<1>1. one \in Seq(BOOLEAN) /\ Append(B, TRUE) = B \o one
  BY AppendOne
<1> HIDE DEF one
<1>2. (B \o one) \o E = B \o (one \o E) /\ one \o E \in Seq(BOOLEAN)
  BY <1>1
<1> QED BY <1>1, <1>2 DEF one

\* A vector that grew begins with what it was.
LEMMA GrownBegins ==
  ASSUME NEW u \in BitVecs, NEW w \in BitVecs, NEW t \in Seq(BOOLEAN), BvBits(w) = BvBits(u) \o t
  PROVE  BeginsWith(w, u)
<1> DEFINE B == BvBits(u)
<1>1. B \in Seq(BOOLEAN) /\ Len(B) = BvLen(u) /\ BvLen(u) \in Nat /\ BvLen(w) = Len(B \o t)
  BY BitsType, LenType
<1>2. BvBits(w) = B \o t
  OBVIOUS
<1> HIDE DEF B
<1>3. Len(B \o t) = Len(B) + Len(t) /\ Len(t) \in Nat
  <2>1. B \in Seq(BOOLEAN)
    BY <1>1
  <2> QED BY <2>1
<1>4. \A i \in 1..Len(B) : (B \o t)[i] = B[i]
  BY <1>1
<1>5. BvLen(u) <= BvLen(w)
  BY <1>1, <1>3
<1>6. \A i \in 1..BvLen(u) : BvBits(w)[i] = B[i]
  BY <1>1, <1>2, <1>4
<1> QED BY <1>5, <1>6 DEF BeginsWith, B

\* Each state of the compressor has a beginning of the final payload.
LEMMA CompressExtends ==
  ASSUME NEW n \in Nat, NEW seq \in Seq(BitVecs), NEW f, IsCompress(f, n, seq), AllOfLength(n, seq)
  PROVE  \A k \in 0..Len(seq) : BeginsWith(f[Len(seq)].payload, f[k].payload)
<1> DEFINE N == Len(seq)
           P == f[N].payload
           S == {j \in 0..N : BeginsWith(P, f[N - j].payload)}
<1>1. N \in Nat
  OBVIOUS
<1>2. \A k \in 0..N : f[k] \in CompressStates /\ f[k].payload \in BitVecs /\ BvLen(f[k].payload) \in Nat
  BY LenType DEF IsCompress, CompressStates
<1>3. 0 \in S
  BY <1>1, <1>2 DEF BeginsWith
<1>4. ASSUME NEW j \in 0..(N - 1), j \in S PROVE j + 1 \in S
  <2> DEFINE k == N - (j + 1)
             u == f[k].payload
             w == f[k + 1].payload
  <2>1. k \in 0..(N - 1) /\ k + 1 = N - j /\ k \in 0..N /\ k + 1 \in 0..N /\ j + 1 \in 0..N
    BY <1>1
  <2>2. BeginsWith(P, w)
    BY <1>4, <2>1
  <2>3. seq[k + 1] \in BitVecs /\ CompressEffect(f[k], n, seq[k + 1], f[k + 1])
    BY <2>1, CompressRound
  <2>4. f[k + 1].found
    BY <2>1, CompressFound DEF AllOfLength
  <2>5. u \in BitVecs /\ w \in BitVecs /\ BvLen(u) \in Nat /\ BvLen(w) \in Nat /\ BvLen(P) \in Nat
    BY <1>1, <1>2, <2>1
  <2>6. BvBits(u) \in Seq(BOOLEAN) /\ Len(BvBits(u)) = BvLen(u) /\ BvBits(seq[k + 1]) \in Seq(BOOLEAN)
    BY <2>3, <2>5, BitsType
  <2> HIDE DEF N, P
  <2>7. BeginsWith(w, u)
    <3>1. CASE f[k].previous = {seq[k + 1]}
      <4>1. BvBits(w) = Append(BvBits(u), FALSE)
        BY <2>3, <2>4, <3>1 DEF CompressEffect
      <4>2. Append(BvBits(u), FALSE) = BvBits(u) \o <<FALSE>> /\ <<FALSE>> \in Seq(BOOLEAN)
        BY <2>6, AppendOne
      <4> QED BY <2>5, <4>1, <4>2, GrownBegins
    <3>2. CASE f[k].previous # {seq[k + 1]}
      <4> DEFINE t == <<TRUE>> \o BvBits(seq[k + 1])
      <4>1. BvBits(w) = Append(BvBits(u), TRUE) \o BvBits(seq[k + 1])
        BY <2>3, <2>4, <3>2 DEF CompressEffect
      <4>2. t \in Seq(BOOLEAN) /\ Append(BvBits(u), TRUE) \o BvBits(seq[k + 1]) = BvBits(u) \o t
        BY <2>6, LiteralBits
      <4> QED BY <2>5, <4>1, <4>2, GrownBegins
    <3> QED BY <3>1, <3>2
  <2> HIDE DEF u, w
  <2>8. BeginsWith(P, u)
    BY <2>2, <2>5, <2>7 DEF BeginsWith
  <2> QED BY <2>1, <2>8 DEF u
<1> HIDE DEF S, N, P
<1>5. \A j \in 0..N : j \in S
  BY <1>1, <1>3, <1>4, BoundedInduction
<1>6. ASSUME NEW k \in 0..N PROVE BeginsWith(P, f[k].payload)
  <2>1. N - k \in 0..N /\ N - (N - k) = k
    BY <1>1
  <2> QED BY <2>1, <1>5 DEF S
<1> QED BY <1>6 DEF N, P

\* The element size that CompressedBitVec::compress takes from the front.
ElementSize(seq) == IF seq = << >> THEN 0 ELSE BvLen(seq[1])

\* What CompressedBitVec::compress returns.
LEMMA CompressReturns ==
  ASSUME NEW seq \in Seq(BitVecs)
  PROVE  /\ ElementSize(seq) \in Nat
         /\ BvCompress(seq) = IF AllOfLength(ElementSize(seq), seq)
                              THEN {[bits |-> CompressBits(ElementSize(seq), seq).payload,
                                     element_size |-> ElementSize(seq)]}
                              ELSE {}
<1> DEFINE n == ElementSize(seq)
<1>1. n \in Nat
  <2>1. CASE seq = << >>
    BY <2>1 DEF ElementSize
  <2>2. CASE seq # << >>
    <3>1. seq[1] \in BitVecs
      BY <2>2
    <3> QED BY <2>2, <3>1, LenType DEF ElementSize
  <2> QED BY <2>1, <2>2
<1>2. BvCompress(seq) = IF CompressBits(n, seq).found
                        THEN {[bits |-> CompressBits(n, seq).payload, element_size |-> n]} ELSE {}
  BY DEF BvCompress, ElementSize
<1> HIDE DEF n
<1>3. CompressBits(n, seq).found <=> AllOfLength(n, seq)
  BY <1>1, CompressAccepts
<1> QED BY <1>1, <1>2, <1>3 DEF n

(***************************************************************************)
(* compress returns None exactly for sequences with elements of several    *)
(* lengths.                                                                *)
(***************************************************************************)
THEOREM OnlyMixedLengthsRejected ==
  ASSUME NEW seq \in Seq(BitVecs)
  PROVE  BvCompress(seq) = {} <=> \E i, j \in 1..Len(seq) : BvLen(seq[i]) # BvLen(seq[j])
<1> DEFINE n == ElementSize(seq)
<1>1. BvCompress(seq) = {} <=> ~AllOfLength(n, seq)
  BY CompressReturns
<1>2. CASE seq = << >>
  <2>1. Len(seq) = 0
    BY <1>2
  <2> QED BY <1>1, <2>1 DEF AllOfLength
<1>3. CASE seq # << >>
  <2>1. 1 \in 1..Len(seq) /\ n = BvLen(seq[1])
    BY <1>3 DEF ElementSize
  <2> QED BY <1>1, <2>1 DEF AllOfLength
<1> QED BY <1>2, <1>3

\* The case that the runs check, in every reachable state.
THEOREM MixedLengthsHolds == Spec => []MixedLengthsRejected
<1>1. Represented => MixedLengthsRejected
  <2> SUFFICES ASSUME Represented, NEW other \in Others
               PROVE  BvCompress(<<bv, bv, FromSlice(other)>>) = {} <=> BvLen(bv) # Len(other)
    BY DEF MixedLengthsRejected
  <2> DEFINE w == FromSlice(other)
             seq == <<bv, bv, w>>
  <2>1. bv \in BitVecs /\ w \in BitVecs /\ BvLen(w) = Len(other)
    BY ObjectAssumption, FromSliceBits DEF Represented
  <2> HIDE DEF w
  <2>2. seq \in Seq(BitVecs) /\ Len(seq) = 3 /\ seq[1] = bv /\ seq[2] = bv /\ seq[3] = w
    BY <2>1
  <2> HIDE DEF seq
  <2>3. BvCompress(seq) = {} <=> \E i, j \in 1..3 : BvLen(seq[i]) # BvLen(seq[j])
    BY <2>2, OnlyMixedLengthsRejected
  <2>4. (\E i, j \in 1..3 : BvLen(seq[i]) # BvLen(seq[j])) <=> BvLen(bv) # BvLen(w)
    <3>1. \A i \in 1..3 : i = 1 \/ i = 2 \/ i = 3
      OBVIOUS
    <3> QED BY <2>2, <3>1
  <2> QED BY <2>1, <2>3, <2>4 DEF seq, w
<1> QED BY <1>1, RepresentationHolds, PTL

-----------------------------------------------------------------------------
(* The decompressor. *)

\* The states of its loop and the first of them.
DecompressStates ==
  [idx : Nat, seq : Seq(BitVecs), previous : {{}} \cup {{u} : u \in BitVecs}, found : BOOLEAN]
DecompressStart == [idx |-> 0, seq |-> << >>, previous |-> {}, found |-> TRUE]

\* An iteration, or none once the loop has ended.
DecompressRound(s, n, p) ==
  IF s.found /\ s.idx < BvLen(p) THEN DecompressStep(s, n, p) ELSE s

\* d is the sequence of the states of decompress(n, p).
IsDecompress(d, n, p) ==
  /\ d \in [0..BvLen(p) -> DecompressStates]
  /\ d[0] = DecompressStart
  /\ \A k \in 0..(BvLen(p) - 1) : d[k + 1] = DecompressRound(d[k], n, p)

\* The element of an Option that holds one.
LEMMA OnlyElement == \A u : (CHOOSE e \in {u} : TRUE) = u
OBVIOUS

(***************************************************************************)
(* What an iteration does to a state inside the payload: read element u,   *)
(* repeat it, or fail.                                                     *)
(***************************************************************************)
TakesElement(s, t, u, bits) ==
  /\ u \in BitVecs
  /\ t = [idx |-> s.idx + bits, seq |-> Append(s.seq, u), previous |-> {u}, found |-> TRUE]

\* A one-bit with n bits after it is read as an element of length n.
LEMMA ReadsLiteral ==
  ASSUME NEW n \in Nat, NEW p \in BitVecs, NEW s \in DecompressStates,
         s.idx + 1 + n <= BvLen(p), BvBits(p)[s.idx + 1] = TRUE
  PROVE  \E u \in BitVecs : /\ TakesElement(s, DecompressStep(s, n, p), u, 1 + n)
                            /\ BvBits(u) = SubSeq(BvBits(p), s.idx + 2, s.idx + 1 + n)
<1> DEFINE i == s.idx
<1>1. i \in Nat /\ BvLen(p) \in Nat /\ i < BvLen(p) /\ i + 1 + n <= BvLen(p)
  BY LenType DEF DecompressStates
<1>2. BvGet(p, i) = {TRUE}
  BY <1>1, GetBit
<1>3. i + 1 \in Nat /\ i + n + 1 \in Nat /\ ~(BvLen(p) < i + n + 1) /\ (i + 1) + 1 = i + 2 /\ i + n + 1 = i + 1 + n
  BY <1>1
<1>4. PICK u \in BitVecs : /\ BvRange(p, i + 1, i + n + 1) = {u}
                           /\ BvBits(u) = SubSeq(BvBits(p), (i + 1) + 1, i + n + 1)
  BY <1>3, RangeBits
<1>5. {u} # {}
  OBVIOUS
<1>6. DecompressStep(s, n, p) = [idx |-> i + 1 + n, seq |-> Append(s.seq, u), previous |-> {u}, found |-> TRUE]
  BY <1>2, <1>4, <1>5, OnlyElement DEF DecompressStep
<1>7. i + 1 + n = i + (1 + n)
  BY <1>1
<1> QED BY <1>3, <1>4, <1>6, <1>7 DEF TakesElement

\* A one-bit without n bits after it ends the loop with None.
LEMMA LiteralCutOff ==
  ASSUME NEW n \in Nat, NEW p \in BitVecs, NEW s \in DecompressStates, s.idx < BvLen(p),
         ~(s.idx + 1 + n <= BvLen(p)), BvBits(p)[s.idx + 1] = TRUE
  PROVE  DecompressStep(s, n, p) = [idx |-> s.idx + 1 + n, seq |-> s.seq, previous |-> {}, found |-> FALSE]
<1> DEFINE i == s.idx
<1>1. i \in Nat /\ BvLen(p) \in Nat
  BY LenType DEF DecompressStates
<1>2. BvGet(p, i) = {TRUE}
  BY <1>1, GetBit
<1>3. i + 1 \in Nat /\ i + n + 1 \in Nat /\ BvLen(p) < i + n + 1 /\ i + 1 < i + n + 1
  BY <1>1
<1>4. BvRange(p, i + 1, i + n + 1) = {}
  BY <1>3, RangeBits
<1> QED BY <1>2, <1>4 DEF DecompressStep

\* A zero-bit repeats the element before it, if there is one.
LEMMA ReadsRepeat ==
  ASSUME NEW n \in Nat, NEW p \in BitVecs, NEW s \in DecompressStates, s.idx < BvLen(p),
         BvBits(p)[s.idx + 1] = FALSE
  PROVE  /\ \A u \in BitVecs : s.previous = {u} => TakesElement(s, DecompressStep(s, n, p), u, 1)
         /\ s.previous = {} => DecompressStep(s, n, p) = [idx |-> s.idx + 1, seq |-> s.seq,
                                                          previous |-> {}, found |-> FALSE]
<1> DEFINE i == s.idx
<1>1. i \in Nat /\ BvLen(p) \in Nat /\ i + 1 + 0 = i + 1
  BY LenType DEF DecompressStates
<1>2. BvGet(p, i) = {FALSE} /\ {FALSE} # {TRUE}
  BY <1>1, GetBit
<1>3. ASSUME NEW u \in BitVecs, s.previous = {u} PROVE TakesElement(s, DecompressStep(s, n, p), u, 1)
  <2>1. {u} # {}
    OBVIOUS
  <2> QED BY <1>1, <1>2, <1>3, <2>1, OnlyElement DEF DecompressStep, TakesElement
<1>4. ASSUME s.previous = {}
      PROVE  DecompressStep(s, n, p) = [idx |-> i + 1, seq |-> s.seq, previous |-> {}, found |-> FALSE]
  BY <1>1, <1>2, <1>4 DEF DecompressStep
<1> QED BY <1>3, <1>4

\* The loop stays in its states.
LEMMA DecompressType ==
  ASSUME NEW n \in Nat, NEW p \in BitVecs, NEW s \in DecompressStates
  PROVE  DecompressRound(s, n, p) \in DecompressStates
<1> DEFINE t == DecompressStep(s, n, p)
<1>1. s.idx \in Nat /\ s.seq \in Seq(BitVecs) /\ BvLen(p) \in Nat
      /\ (s.previous = {} \/ \E u \in BitVecs : s.previous = {u})
  BY LenType DEF DecompressStates
<1>2. ASSUME NEW u, NEW bits \in Nat, TakesElement(s, t, u, bits) PROVE t \in DecompressStates
  <2>1. u \in BitVecs /\ t = [idx |-> s.idx + bits, seq |-> Append(s.seq, u), previous |-> {u}, found |-> TRUE]
    BY <1>2 DEF TakesElement
  <2> HIDE DEF t
  <2>2. s.idx + bits \in Nat /\ Append(s.seq, u) \in Seq(BitVecs) /\ {u} \in {{}} \cup {{x} : x \in BitVecs}
    BY <1>1, <2>1
  <2> QED BY <2>1, <2>2 DEF DecompressStates
<1>3. ASSUME NEW i \in Nat, t = [idx |-> i, seq |-> s.seq, previous |-> {}, found |-> FALSE]
      PROVE  t \in DecompressStates
  <2> HIDE DEF t
  <2>1. {} \in {{}} \cup {{x} : x \in BitVecs}
    OBVIOUS
  <2> QED BY <1>1, <1>3, <2>1 DEF DecompressStates
<1>4. CASE ~(s.found /\ s.idx < BvLen(p))
  BY <1>4 DEF DecompressRound
<1>5. CASE s.found /\ s.idx < BvLen(p)
  <2>1. DecompressRound(s, n, p) = t
    BY <1>5 DEF DecompressRound
  <2>2. BvBits(p)[s.idx + 1] \in BOOLEAN
    BY <1>1, <1>5, BitsType
  <2>3. CASE BvBits(p)[s.idx + 1] = TRUE
    <3>1. CASE s.idx + 1 + n <= BvLen(p)
      <4>1. 1 + n \in Nat
        OBVIOUS
      <4>2. PICK u \in BitVecs : TakesElement(s, t, u, 1 + n)
        BY <2>3, <3>1, ReadsLiteral
      <4>3. t \in DecompressStates
        BY <1>2, <4>1, <4>2
      <4> QED BY <2>1, <4>3
    <3>2. CASE ~(s.idx + 1 + n <= BvLen(p))
      <4>1. s.idx + 1 + n \in Nat
        BY <1>1
      <4>2. t = [idx |-> s.idx + 1 + n, seq |-> s.seq, previous |-> {}, found |-> FALSE]
        BY <1>5, <2>3, <3>2, LiteralCutOff
      <4> QED BY <1>3, <2>1, <4>1, <4>2
    <3> QED BY <3>1, <3>2
  <2>4. CASE BvBits(p)[s.idx + 1] = FALSE
    <3>1. CASE s.previous = {}
      <4>1. s.idx + 1 \in Nat
        BY <1>1
      <4>2. t = [idx |-> s.idx + 1, seq |-> s.seq, previous |-> {}, found |-> FALSE]
        BY <1>5, <2>4, <3>1, ReadsRepeat
      <4> QED BY <1>3, <2>1, <4>1, <4>2
    <3>2. CASE \E u \in BitVecs : s.previous = {u}
      <4>1. \E u : TakesElement(s, t, u, 1)
        BY <1>5, <2>4, <3>2, ReadsRepeat
      <4> QED BY <1>2, <2>1, <4>1
    <3> QED BY <1>1, <3>1, <3>2
  <2> QED BY <2>2, <2>3, <2>4
<1> QED BY <1>4, <1>5

\* The loop of decompress has its sequence of states and ends in the last.
LEMMA DecompressRuns ==
  ASSUME NEW n \in Nat, NEW p \in BitVecs
  PROVE  \E d : IsDecompress(d, n, p) /\ DecompressBits(n, p) = d[BvLen(p)]
<1> DEFINE N == BvLen(p)
           Loop(h) == h = [k \in 0..N |-> IF k = 0 THEN DecompressStart
                                          ELSE DecompressRound(h[k - 1], n, p)]
           loop == CHOOSE h : Loop(h)
           g == [x \in DecompressStates \X (1..N) |-> DecompressRound(x[1], n, p)]
<1>1. DecompressBits(n, p) = loop[N]
  BY DEF DecompressBits, DecompressStart, DecompressRound
<1>2. N \in Nat
  BY LenType
<1> HIDE DEF N
<1>3. IsBody(g, DecompressStates, N)
  BY <1>2, DecompressType DEF IsBody
<1>4. \A s \in DecompressStates, k \in 1..N : g[<<s, k>>] = DecompressRound(s, n, p)
  OBVIOUS
<1> HIDE DEF g
<1>5. DecompressStart \in DecompressStates
  BY DEF DecompressStart, DecompressStates
<1>6. PICK f : IsRun(f, g, DecompressStates, DecompressStart, N)
  BY <1>2, <1>3, <1>5, LoopStates
<1>7. Loop(f)
  <2>1. \A k \in 1..N : f[k] = DecompressRound(f[k - 1], n, p)
    <3> TAKE k \in 1..N
    <3>1. f[k - 1] \in DecompressStates
      BY <1>2, <1>6 DEF IsRun
    <3> QED BY <3>1, <1>4, <1>6 DEF IsRun
  <2>2. \A k \in 0..N : f[k] = IF k = 0 THEN DecompressStart ELSE DecompressRound(f[k - 1], n, p)
    BY <1>2, <1>6, <2>1 DEF IsRun
  <2> QED BY <1>6, <2>2 DEF IsRun
<1>8. Loop(loop)
  <2> HIDE DEF Loop
  <2> QED BY <1>7
<1>9. loop[0] = DecompressStart /\ \A k \in 0..(N - 1) : loop[k + 1] = DecompressRound(loop[k], n, p)
  <2> HIDE DEF loop
  <2>1. \A k \in 0..N : loop[k] = IF k = 0 THEN DecompressStart ELSE DecompressRound(loop[k - 1], n, p)
    BY <1>8
  <2>2. ASSUME NEW k \in 0..(N - 1) PROVE loop[k + 1] = DecompressRound(loop[k], n, p)
    <3>1. k + 1 \in 0..N /\ k + 1 # 0 /\ (k + 1) - 1 = k
      BY <1>2
    <3> QED BY <2>1, <3>1
  <2> QED BY <1>2, <2>1, <2>2
<1>10. \A k \in 0..N : loop[k] \in DecompressStates
  <2> HIDE DEF loop, Loop
  <2> DEFINE S == {k \in 0..N : loop[k] \in DecompressStates}
  <2>1. 0 \in S
    BY <1>2, <1>5, <1>9
  <2>2. ASSUME NEW k \in 0..(N - 1), k \in S PROVE k + 1 \in S
    <3>1. loop[k] \in DecompressStates /\ k + 1 \in 0..N
      BY <1>2, <2>2
    <3>2. DecompressRound(loop[k], n, p) \in DecompressStates
      BY <3>1, DecompressType
    <3> QED BY <3>1, <3>2, <1>9
  <2> HIDE DEF S
  <2>3. \A k \in 0..N : k \in S
    BY <1>2, <2>1, <2>2, BoundedInduction
  <2> QED BY <2>3 DEF S
<1>11. loop \in [0..N -> DecompressStates]
  <2> HIDE DEF loop
  <2>1. loop = [k \in 0..N |-> loop[k]]
    BY <1>8
  <2> QED BY <1>10, <2>1
<1> HIDE DEF loop, Loop
<1>12. IsDecompress(loop, n, p)
  BY <1>9, <1>11 DEF IsDecompress, N
<1> QED BY <1>1, <1>12 DEF N

\* A list that begins with B, a one-bit and E shows the one-bit and E.
LEMMA LiteralPart ==
  ASSUME NEW B \in Seq(BOOLEAN), NEW E \in Seq(BOOLEAN), NEW Q \in Seq(BOOLEAN), NEW W,
         W = Append(B, TRUE) \o E, Len(W) <= Len(Q), \A i \in 1..Len(W) : Q[i] = W[i]
  PROVE  /\ Q[Len(B) + 1] = TRUE
         /\ SubSeq(Q, Len(B) + 2, Len(B) + 1 + Len(E)) = E
<1> DEFINE A == Append(B, TRUE)
           m == Len(B) + 1
           T == SubSeq(Q, Len(B) + 2, Len(B) + 1 + Len(E))
<1>1. A \in Seq(BOOLEAN) /\ Len(A) = m /\ A[m] = TRUE /\ m \in Nat /\ m >= 1 /\ Len(E) \in Nat /\ Len(B) \in Nat
  OBVIOUS
<1> HIDE DEF A
<1>2. W \in Seq(BOOLEAN) /\ Len(W) = m + Len(E)
  <2>1. W = A \o E /\ A \in Seq(BOOLEAN)
    BY <1>1 DEF A
  <2>2. Len(A \o E) = Len(A) + Len(E) /\ A \o E \in Seq(BOOLEAN)
    BY <2>1
  <2> QED BY <1>1, <2>1, <2>2
<1>3. W[m] = TRUE /\ \A i \in 1..Len(E) : W[m + i] = E[i]
  <2>1. W = A \o E /\ A \in Seq(BOOLEAN)
    BY <1>1 DEF A
  <2>2. \A i \in 1..Len(A) : (A \o E)[i] = A[i]
    BY <2>1
  <2>3. \A i \in 1..Len(E) : (A \o E)[Len(A) + i] = E[i]
    BY <2>1
  <2>4. m \in 1..Len(A)
    BY <1>1
  <2>5. W[m] = TRUE
    BY <1>1, <2>1, <2>2, <2>4
  <2>6. \A i \in 1..Len(E) : W[m + i] = E[i]
    <3> HIDE DEF m
    <3> QED BY <1>1, <2>1, <2>3
  <2> QED BY <2>5, <2>6
<1>4. Q[m] = TRUE
  <2>1. m \in 1..Len(W)
    BY <1>1, <1>2
  <2> HIDE DEF m
  <2> QED BY <1>3, <2>1
<1>5. T \in Seq(BOOLEAN) /\ Len(T) = Len(E) /\ \A i \in 1..Len(E) : T[i] = Q[m + i]
  BY <1>1, <1>2
<1> HIDE DEF T
<1>6. \A i \in 1..Len(E) : T[i] = E[i]
  <2> TAKE i \in 1..Len(E)
  <2>1. m + i \in 1..Len(W)
    BY <1>1, <1>2
  <2> QED BY <1>3, <1>5, <2>1
<1>7. T = E
  BY <1>5, <1>6, SameBits
<1> QED BY <1>4, <1>7 DEF T

\* One more element of a sequence.
LEMMA OneMoreElement ==
  ASSUME NEW s \in Seq(BitVecs), NEW k \in 0..(Len(s) - 1)
  PROVE  SubSeq(s, 1, k + 1) = Append(SubSeq(s, 1, k), s[k + 1])
<1> DEFINE t == SubSeq(s, 1, k)
           u == SubSeq(s, 1, k + 1)
           w == Append(t, s[k + 1])
<1>1. t \in Seq(BitVecs) /\ Len(t) = k /\ \A i \in 1..k : t[i] = s[i]
  OBVIOUS
<1>2. u \in Seq(BitVecs) /\ Len(u) = k + 1 /\ \A i \in 1..(k + 1) : u[i] = s[i]
  OBVIOUS
<1>3. s[k + 1] \in BitVecs
  OBVIOUS
<1> HIDE DEF t, u
<1>4. w \in Seq(BitVecs) /\ Len(w) = k + 1 /\ w[k + 1] = s[k + 1] /\ \A i \in 1..k : w[i] = s[i]
  BY <1>1, <1>3
<1> HIDE DEF w
<1>5. \A i \in 1..(k + 1) : u[i] = w[i]
  BY <1>2, <1>4
<1>6. u = w
  BY <1>2, <1>4, <1>5
<1> QED BY <1>6 DEF t, u, w

\* The state of the decompressor that has read what f wrote in k rounds.
InStep(f, seq, k) ==
  [idx |-> BvLen(f[k].payload), seq |-> SubSeq(seq, 1, k), previous |-> f[k].previous, found |-> TRUE]

(***************************************************************************)
(* The two loops in step: after k rounds on the compressor's payload, the  *)
(* decompressor has the first k elements and stands where the compressor   *)
(* stood.                                                                  *)
(***************************************************************************)
LEMMA LoopsInStep ==
  ASSUME NEW n \in Nat, NEW seq \in Seq(BitVecs), NEW f, IsCompress(f, n, seq), AllOfLength(n, seq),
         NEW k \in 0..(Len(seq) - 1), NEW p \in BitVecs, p = f[Len(seq)].payload
  PROVE  DecompressRound(InStep(f, seq, k), n, p) = InStep(f, seq, k + 1)
<1> DEFINE u == f[k].payload
           w == f[k + 1].payload
           e == seq[k + 1]
           L == BvLen(u)
           s == InStep(f, seq, k)
           B == BvBits(u)
           E == BvBits(e)
           Q == BvBits(p)
<1>1. /\ k \in 0..Len(seq) /\ k + 1 \in 0..Len(seq) /\ e \in BitVecs
      /\ f[k] \in CompressStates /\ f[k + 1] \in CompressStates
      /\ L \in Nat /\ BvLen(w) \in Nat /\ CompressEffect(f[k], n, e, f[k + 1])
  BY CompressRound
<1>2. u \in BitVecs /\ w \in BitVecs
  BY <1>1 DEF CompressStates
<1>3. f[k + 1].found
  BY <1>1, CompressFound DEF AllOfLength
<1>4. f[k].previous = Before(seq, k)
  BY <1>1, CompressPrevious
<1>5. BvLen(w) <= BvLen(p) /\ \A i \in 1..BvLen(w) : Q[i] = BvBits(w)[i]
  BY <1>1, CompressExtends DEF BeginsWith
<1>6. BvLen(e) = n
  BY <1>1 DEF AllOfLength
<1>7. SubSeq(seq, 1, k + 1) = Append(SubSeq(seq, 1, k), e)
  BY OneMoreElement
<1>8. /\ B \in Seq(BOOLEAN) /\ Len(B) = L /\ E \in Seq(BOOLEAN) /\ Len(E) = n
      /\ Q \in Seq(BOOLEAN) /\ Len(Q) = BvLen(p) /\ BvLen(p) \in Nat
      /\ BvBits(w) \in Seq(BOOLEAN) /\ Len(BvBits(w)) = BvLen(w)
  BY <1>1, <1>2, <1>6, BitsType, LenType
<1>9. s \in DecompressStates
  <2>1. SubSeq(seq, 1, k) \in Seq(BitVecs)
    OBVIOUS
  <2>2. k # 0 => seq[k] \in BitVecs
    OBVIOUS
  <2>3. f[k].previous \in {{}} \cup {{x} : x \in BitVecs}
    BY <1>4, <2>2 DEF Before
  <2> QED BY <1>1, <2>1, <2>3 DEF InStep, DecompressStates
<1>10. s.idx = L /\ s.seq = SubSeq(seq, 1, k) /\ s.previous = f[k].previous /\ s.found = TRUE
  BY DEF InStep
<1> HIDE DEF s
<1>11. ASSUME NEW bits \in Nat, BvLen(w) = L + bits, f[k + 1].previous = {e}, L < BvLen(p),
              TakesElement(s, DecompressStep(s, n, p), e, bits)
       PROVE  DecompressRound(s, n, p) = InStep(f, seq, k + 1)
  <2>1. DecompressRound(s, n, p) = DecompressStep(s, n, p)
    BY <1>10, <1>11 DEF DecompressRound
  <2>2. DecompressStep(s, n, p) = [idx |-> L + bits, seq |-> Append(SubSeq(seq, 1, k), e),
                                   previous |-> {e}, found |-> TRUE]
    BY <1>10, <1>11 DEF TakesElement
  <2> QED BY <1>7, <1>11, <2>1, <2>2 DEF InStep
<1>12. CASE f[k].previous = {e}
  <2>1. f[k + 1].previous = {e} /\ BvLen(w) = L + 1 /\ BvBits(w) = Append(B, FALSE)
    BY <1>1, <1>3, <1>12 DEF CompressEffect
  <2>2. L + 1 \in 1..BvLen(w) /\ L < BvLen(p)
    BY <1>1, <1>5, <1>8, <2>1
  <2>3. Append(B, FALSE)[L + 1] = FALSE
    BY <1>8
  <2>4. Q[L + 1] = FALSE
    BY <1>5, <2>1, <2>2, <2>3
  <2>5. TakesElement(s, DecompressStep(s, n, p), e, 1)
    BY <1>1, <1>9, <1>10, <1>12, <2>2, <2>4, ReadsRepeat
  <2> QED BY <1>11, <2>1, <2>2, <2>5 DEF s
<1>13. CASE f[k].previous # {e}
  <2>1. f[k + 1].previous = {e} /\ BvLen(w) = L + 1 + n /\ BvBits(w) = Append(B, TRUE) \o E
    BY <1>1, <1>3, <1>13 DEF CompressEffect
  <2>2. L < BvLen(p) /\ L + 1 + n <= BvLen(p) /\ 1 + n \in Nat /\ L + 1 + n = L + (1 + n)
    BY <1>1, <1>5, <1>8, <2>1
  <2>3. Q[L + 1] = TRUE /\ SubSeq(Q, L + 2, L + 1 + n) = E
    <3> HIDE DEF B, E, Q, L, w
    <3>1. Len(BvBits(w)) <= Len(Q) /\ \A i \in 1..Len(BvBits(w)) : Q[i] = BvBits(w)[i]
      BY <1>5, <1>8
    <3> QED BY <1>8, <2>1, <3>1, LiteralPart
  <2>4. PICK x \in BitVecs : TakesElement(s, DecompressStep(s, n, p), x, 1 + n)
                             /\ BvBits(x) = SubSeq(Q, L + 2, L + 1 + n)
    <3>1. s.idx + 1 + n <= BvLen(p) /\ BvBits(p)[s.idx + 1] = TRUE
      BY <1>10, <2>2, <2>3
    <3>2. \E x \in BitVecs : TakesElement(s, DecompressStep(s, n, p), x, 1 + n)
                             /\ BvBits(x) = SubSeq(BvBits(p), s.idx + 2, s.idx + 1 + n)
      BY <1>9, <3>1, ReadsLiteral
    <3> QED BY <1>10, <3>2
  <2>5. x = e
    BY <1>1, <2>3, <2>4, BitsDetermine
  <2> QED BY <1>11, <2>1, <2>2, <2>4, <2>5 DEF s
<1> QED BY <1>12, <1>13 DEF s

\* Decompressing what the compressor wrote gives the elements back.
LEMMA DecompressInverts ==
  ASSUME NEW n \in Nat, NEW seq \in Seq(BitVecs), AllOfLength(n, seq)
  PROVE  LET s == DecompressBits(n, CompressBits(n, seq).payload) IN s.found /\ s.seq = seq
<1>1. PICK f : IsCompress(f, n, seq) /\ CompressBits(n, seq) = f[Len(seq)]
  BY CompressRuns
<1> DEFINE N == Len(seq)
           p == f[N].payload
           M == BvLen(p)
<1>2. N \in Nat /\ N \in 0..N
  OBVIOUS
<1>3. p \in BitVecs /\ M \in Nat
  <2>1. f[N] \in CompressStates
    BY <1>1, <1>2 DEF IsCompress
  <2>2. p \in BitVecs
    BY <2>1 DEF CompressStates
  <2> QED BY <2>2, LenType
<1>4. N <= M
  <2>1. \A j \in 0..Len(seq) : j <= BvLen(f[j].payload)
    BY <1>1, CompressPrevious
  <2> QED BY <1>2, <2>1
<1>5. PICK d : IsDecompress(d, n, p) /\ DecompressBits(n, p) = d[M]
  BY <1>3, DecompressRuns
<1>6. \A k \in 0..(N - 1) : DecompressRound(InStep(f, seq, k), n, p) = InStep(f, seq, k + 1)
  BY <1>1, <1>3, LoopsInStep
<1>7. InStep(f, seq, 0) = DecompressStart
  <2>1. f[0] = CompressStart /\ SubSeq(seq, 1, 0) = << >>
    BY <1>1 DEF IsCompress
  <2>2. BvLen(f[0].payload) = 0 /\ f[0].previous = {}
    BY <2>1, NewIsEmpty DEF CompressStart
  <2> QED BY <2>1, <2>2 DEF InStep, DecompressStart
<1>8. InStep(f, seq, N).idx = M /\ InStep(f, seq, N).found = TRUE /\ InStep(f, seq, N).seq = seq
  <2>1. SubSeq(seq, 1, N) = seq
    OBVIOUS
  <2> QED BY <2>1 DEF InStep
<1>9. d[0] = DecompressStart /\ \A k \in 0..(M - 1) : d[k + 1] = DecompressRound(d[k], n, p)
  BY <1>5 DEF IsDecompress
<1>10. CompressBits(n, seq).payload = p
  BY <1>1
<1> HIDE DEF N, p, M
<1>11. d[N] = InStep(f, seq, N)
  <2> DEFINE S == {k \in 0..N : d[k] = InStep(f, seq, k)}
  <2>1. 0 \in S
    BY <1>2, <1>7, <1>9
  <2>2. ASSUME NEW k \in 0..(N - 1), k \in S PROVE k + 1 \in S
    <3>1. k \in 0..(M - 1) /\ k + 1 \in 0..N
      BY <1>2, <1>3, <1>4
    <3>2. d[k] = InStep(f, seq, k)
      BY <2>2
    <3>3. d[k + 1] = InStep(f, seq, k + 1)
      BY <1>6, <1>9, <3>1, <3>2
    <3> QED BY <3>1, <3>3
  <2> HIDE DEF S
  <2>3. \A k \in 0..N : k \in S
    BY <1>2, <2>1, <2>2, BoundedInduction
  <2> QED BY <1>2, <2>3 DEF S
<1>12. d[M] = InStep(f, seq, N)
  <2> DEFINE S == {j \in 0..(M - N) : d[N + j] = InStep(f, seq, N)}
  <2>1. M - N \in Nat
    BY <1>2, <1>3, <1>4
  <2>2. 0 \in S
    BY <1>2, <1>11, <2>1
  <2>3. ASSUME NEW j \in 0..((M - N) - 1), j \in S PROVE j + 1 \in S
    <3>1. N + j \in 0..(M - 1) /\ (N + j) + 1 = N + (j + 1) /\ j + 1 \in 0..(M - N)
      BY <1>2, <1>3, <2>1
    <3>2. d[(N + j) + 1] = DecompressRound(InStep(f, seq, N), n, p)
      BY <1>9, <2>3, <3>1
    <3>3. ~(InStep(f, seq, N).idx < BvLen(p))
      BY <1>3, <1>8 DEF M
    <3>4. DecompressRound(InStep(f, seq, N), n, p) = InStep(f, seq, N)
      BY <3>3 DEF DecompressRound
    <3> QED BY <3>1, <3>2, <3>4
  <2> HIDE DEF S
  <2>4. \A j \in 0..(M - N) : j \in S
    BY <2>1, <2>2, <2>3, BoundedInduction
  <2>5. M - N \in 0..(M - N) /\ N + (M - N) = M
    BY <1>2, <1>3, <2>1
  <2> QED BY <2>4, <2>5 DEF S
<1> QED BY <1>5, <1>8, <1>10, <1>12

(***************************************************************************)
(* The codec is lossless: what compress makes of a sequence of vectors,    *)
(* decompress turns into that sequence.  This is what LowLatency assumes   *)
(* of its codec (CodecAssumption), proved of the one in the source.        *)
(***************************************************************************)
THEOREM CodecLossless ==
  \A seq \in Seq(BitVecs) : \A c \in BvCompress(seq) : BvDecompress(c) = {seq}
<1> SUFFICES ASSUME NEW seq \in Seq(BitVecs), NEW c \in BvCompress(seq) PROVE BvDecompress(c) = {seq}
  OBVIOUS
<1> DEFINE n == ElementSize(seq)
           p == CompressBits(n, seq).payload
<1>1. n \in Nat /\ AllOfLength(n, seq) /\ c = [bits |-> p, element_size |-> n]
  BY CompressReturns
<1> HIDE DEF n
<1>2. DecompressBits(n, p).found /\ DecompressBits(n, p).seq = seq
  BY <1>1, DecompressInverts
<1> HIDE DEF p
<1>3. c.bits = p /\ c.element_size = n
  BY <1>1
<1> QED BY <1>2, <1>3 DEF BvDecompress

-----------------------------------------------------------------------------
(* Payloads from the network: any bits, any element size. *)

\* The state in which the compressor ends, for elements of its length.
LEMMA CompressEnds ==
  ASSUME NEW n \in Nat, NEW seq \in Seq(BitVecs)
  PROVE  /\ CompressBits(n, seq) \in CompressStates
         /\ BvLen(CompressBits(n, seq).payload) \in Nat
         /\ AllOfLength(n, seq) => CompressBits(n, seq).previous = Before(seq, Len(seq))
         /\ seq = << >> => BvLen(CompressBits(n, seq).payload) = 0
<1>1. PICK f : IsCompress(f, n, seq) /\ CompressBits(n, seq) = f[Len(seq)]
  BY CompressRuns
<1>2. Len(seq) \in 0..Len(seq)
  OBVIOUS
<1>3. CompressBits(n, seq) \in CompressStates
  BY <1>1, <1>2 DEF IsCompress
<1>4. BvLen(CompressBits(n, seq).payload) \in Nat
  BY <1>3, LenType DEF CompressStates
<1>5. AllOfLength(n, seq) => CompressBits(n, seq).previous = Before(seq, Len(seq))
  BY <1>1, <1>2, CompressPrevious
<1>6. seq = << >> => BvLen(CompressBits(n, seq).payload) = 0
  <2> SUFFICES ASSUME seq = << >> PROVE BvLen(CompressBits(n, seq).payload) = 0
    OBVIOUS
  <2>1. Len(seq) = 0
    OBVIOUS
  <2>2. CompressBits(n, seq) = CompressStart
    BY <1>1, <2>1 DEF IsCompress
  <2> QED BY <2>2, NewIsEmpty DEF CompressStart
<1> QED BY <1>3, <1>4, <1>5, <1>6

\* An element at the end of the sequence is one more iteration.
LEMMA CompressOneMore ==
  ASSUME NEW n \in Nat, NEW seq \in Seq(BitVecs), NEW e \in BitVecs
  PROVE  CompressBits(n, Append(seq, e)) = CompressStep(CompressBits(n, seq), n, e)
<1> DEFINE more == Append(seq, e)
           N == Len(seq)
<1>1. more \in Seq(BitVecs) /\ Len(more) = N + 1 /\ more[N + 1] = e /\ N \in Nat
      /\ \A k \in 0..(N - 1) : more[k + 1] = seq[k + 1]
  OBVIOUS
<1> HIDE DEF more
<1>2. PICK f : IsCompress(f, n, seq) /\ CompressBits(n, seq) = f[Len(seq)]
  BY CompressRuns
<1>3. PICK h : IsCompress(h, n, more) /\ CompressBits(n, more) = h[Len(more)]
  BY <1>1, CompressRuns
<1>4. f[0] = CompressStart /\ \A k \in 0..(N - 1) : f[k + 1] = CompressStep(f[k], n, seq[k + 1])
  BY <1>2 DEF IsCompress
<1>5. h[0] = CompressStart /\ \A k \in 0..N : h[k + 1] = CompressStep(h[k], n, more[k + 1])
  <2>1. Len(more) - 1 = N
    BY <1>1
  <2> QED BY <1>3, <2>1 DEF IsCompress
<1>6. CompressBits(n, seq) = f[N] /\ CompressBits(n, more) = h[N + 1]
  BY <1>1, <1>2, <1>3
<1> HIDE DEF N
<1> DEFINE S == {k \in 0..N : h[k] = f[k]}
<1>7. 0 \in S
  BY <1>1, <1>4, <1>5
<1>8. ASSUME NEW k \in 0..(N - 1), k \in S PROVE k + 1 \in S
  <2>1. k \in 0..N /\ k + 1 \in 0..N
    BY <1>1
  <2>2. h[k + 1] = CompressStep(h[k], n, more[k + 1])
    BY <1>5, <2>1
  <2>3. f[k + 1] = CompressStep(f[k], n, seq[k + 1])
    BY <1>4
  <2>4. h[k] = f[k] /\ more[k + 1] = seq[k + 1]
    BY <1>1, <1>8
  <2> QED BY <2>1, <2>2, <2>3, <2>4
<1> HIDE DEF S
<1>9. \A k \in 0..N : k \in S
  BY <1>1, <1>7, <1>8, BoundedInduction
<1>10. N \in 0..N
  BY <1>1
<1>11. h[N] = f[N]
  BY <1>9, <1>10 DEF S
<1>12. h[N + 1] = CompressStep(h[N], n, e)
  BY <1>1, <1>5, <1>10
<1> QED BY <1>6, <1>11, <1>12 DEF more

(***************************************************************************)
(* What the decompressor has read: elements of its length, which it could  *)
(* have read from no fewer bits.                                           *)
(***************************************************************************)
ReadSoFar(s, n, p) ==
  s.found => /\ s.idx <= BvLen(p)
             /\ s.previous = Before(s.seq, Len(s.seq))
             /\ AllOfLength(n, s.seq)
             /\ BvLen(CompressBits(n, s.seq).payload) <= s.idx

\* Taking an element of length n from enough bits keeps it.
LEMMA TakingReads ==
  ASSUME NEW n \in Nat, NEW p \in BitVecs, NEW s \in DecompressStates, s.found, ReadSoFar(s, n, p),
         NEW t, NEW u, NEW bits \in Nat, TakesElement(s, t, u, bits),
         BvLen(u) = n, s.idx + bits <= BvLen(p),
         \/ bits = 1 + n
         \/ bits = 1 /\ s.previous = {u}
  PROVE  ReadSoFar(t, n, p)
<1> DEFINE q == s.seq
           r == Append(q, u)
           c == CompressBits(n, q)
           d == CompressBits(n, r)
<1>1. u \in BitVecs /\ t.idx = s.idx + bits /\ t.seq = r /\ t.previous = {u}
  BY DEF TakesElement
<1>2. q \in Seq(BitVecs) /\ s.idx \in Nat /\ BvLen(p) \in Nat
  BY LenType DEF DecompressStates
<1>3. s.previous = Before(q, Len(q)) /\ AllOfLength(n, q) /\ BvLen(c.payload) <= s.idx
  BY DEF ReadSoFar
<1>4. r \in Seq(BitVecs) /\ Len(r) = Len(q) + 1 /\ r[Len(q) + 1] = u /\ (\A i \in 1..Len(q) : r[i] = q[i]) /\ Len(q) \in Nat
  BY <1>1, <1>2
<1> HIDE DEF r, q
<1>5. t.previous = Before(t.seq, Len(t.seq))
  <2>1. Len(r) # 0 /\ r[Len(r)] = u
    BY <1>4
  <2> QED BY <1>1, <2>1 DEF Before
<1>6. AllOfLength(n, r)
  BY <1>3, <1>4 DEF AllOfLength
<1>7. /\ c \in CompressStates /\ BvLen(c.payload) \in Nat /\ c.previous = s.previous
      /\ d \in CompressStates /\ BvLen(d.payload) \in Nat
  BY <1>2, <1>3, <1>4, CompressEnds
<1>8. CompressEffect(c, n, u, d)
  <2>1. d = CompressStep(c, n, u)
    BY <1>1, <1>2, CompressOneMore DEF r
  <2> QED BY <1>1, <1>7, <2>1, CompressCases
<1>9. d.found
  BY <1>4, <1>6, CompressAccepts
<1> HIDE DEF c, d
<1>10. BvLen(d.payload) <= BvLen(c.payload) + bits
  <2>1. CASE c.previous = {u}
    <3>1. BvLen(d.payload) = BvLen(c.payload) + 1
      BY <1>8, <1>9, <2>1 DEF CompressEffect
    <3> QED BY <1>7, <3>1
  <2>2. CASE c.previous # {u}
    <3>1. BvLen(d.payload) = BvLen(c.payload) + 1 + n
      BY <1>8, <1>9, <2>2 DEF CompressEffect
    <3> QED BY <1>7, <2>2, <3>1
  <2> QED BY <2>1, <2>2
<1>11. BvLen(d.payload) <= s.idx + bits
  BY <1>2, <1>3, <1>7, <1>10
<1> QED BY <1>1, <1>5, <1>6, <1>11 DEF ReadSoFar, c, d

\* Every iteration keeps it.
LEMMA ReadsOn ==
  ASSUME NEW n \in Nat, NEW p \in BitVecs, NEW s \in DecompressStates, ReadSoFar(s, n, p)
  PROVE  ReadSoFar(DecompressRound(s, n, p), n, p)
<1> DEFINE t == DecompressStep(s, n, p)
           Q == BvBits(p)
<1>1. s.idx \in Nat /\ s.seq \in Seq(BitVecs) /\ BvLen(p) \in Nat
      /\ (s.previous = {} \/ \E u \in BitVecs : s.previous = {u})
      /\ Q \in Seq(BOOLEAN) /\ Len(Q) = BvLen(p)
  BY LenType, BitsType DEF DecompressStates
<1>2. CASE ~(s.found /\ s.idx < BvLen(p))
  BY <1>2 DEF DecompressRound
<1>3. CASE s.found /\ s.idx < BvLen(p)
  <2>1. DecompressRound(s, n, p) = t
    BY <1>3 DEF DecompressRound
  <2>2. Q[s.idx + 1] \in BOOLEAN
    BY <1>1, <1>3
  <2>3. CASE Q[s.idx + 1] = TRUE /\ s.idx + 1 + n <= BvLen(p)
    <3>1. PICK u \in BitVecs : /\ TakesElement(s, t, u, 1 + n)
                               /\ BvBits(u) = SubSeq(Q, s.idx + 2, s.idx + 1 + n)
      BY <2>3, ReadsLiteral
    <3>2. Len(SubSeq(Q, s.idx + 2, s.idx + 1 + n)) = n
      BY <1>1, <2>3
    <3>3. BvLen(u) = n
      BY <3>1, <3>2, BitsType
    <3>4. 1 + n \in Nat /\ s.idx + (1 + n) <= BvLen(p)
      BY <1>1, <2>3
    <3> HIDE DEF t
    <3>5. ReadSoFar(t, n, p)
      BY <1>3, <3>1, <3>3, <3>4, TakingReads
    <3> QED BY <2>1, <3>5
  <2>4. CASE Q[s.idx + 1] = TRUE /\ ~(s.idx + 1 + n <= BvLen(p))
    <3>1. t = [idx |-> s.idx + 1 + n, seq |-> s.seq, previous |-> {}, found |-> FALSE]
      BY <1>3, <2>4, LiteralCutOff
    <3> QED BY <2>1, <3>1 DEF ReadSoFar
  <2>5. CASE Q[s.idx + 1] = FALSE /\ s.previous = {}
    <3>1. t = [idx |-> s.idx + 1, seq |-> s.seq, previous |-> {}, found |-> FALSE]
      BY <1>3, <2>5, ReadsRepeat
    <3> QED BY <2>1, <3>1 DEF ReadSoFar
  <2>6. CASE Q[s.idx + 1] = FALSE /\ \E u \in BitVecs : s.previous = {u}
    <3>1. PICK u \in BitVecs : s.previous = {u}
      BY <2>6
    <3>2. TakesElement(s, t, u, 1)
      BY <1>3, <2>6, <3>1, ReadsRepeat
    <3>3. BvLen(u) = n
      <4>1. {u} = Before(s.seq, Len(s.seq)) /\ AllOfLength(n, s.seq)
        BY <1>3, <3>1 DEF ReadSoFar
      <4>2. Len(s.seq) # 0 /\ u = s.seq[Len(s.seq)]
        BY <4>1 DEF Before
      <4>3. Len(s.seq) \in 1..Len(s.seq)
        BY <1>1, <4>2
      <4> QED BY <4>1, <4>2, <4>3 DEF AllOfLength
    <3>4. 1 \in Nat /\ s.idx + 1 <= BvLen(p)
      BY <1>1, <1>3
    <3> HIDE DEF t
    <3>5. ReadSoFar(t, n, p)
      BY <1>3, <3>1, <3>2, <3>3, <3>4, TakingReads
    <3> QED BY <2>1, <3>5
  <2> QED BY <1>1, <2>2, <2>3, <2>4, <2>5, <2>6
<1> QED BY <1>2, <1>3

\* What the decompressor returns, whatever the payload.
LEMMA DecompressEnds ==
  ASSUME NEW n \in Nat, NEW p \in BitVecs
  PROVE  DecompressBits(n, p) \in DecompressStates /\ ReadSoFar(DecompressBits(n, p), n, p)
<1> DEFINE M == BvLen(p)
<1>1. M \in Nat
  BY LenType
<1>2. PICK d : IsDecompress(d, n, p) /\ DecompressBits(n, p) = d[M]
  BY DecompressRuns
<1>3. /\ \A k \in 0..M : d[k] \in DecompressStates
      /\ d[0] = DecompressStart
      /\ \A k \in 0..(M - 1) : d[k + 1] = DecompressRound(d[k], n, p)
  BY <1>2 DEF IsDecompress
<1>4. ReadSoFar(DecompressStart, n, p)
  <2>1. << >> \in Seq(BitVecs) /\ Len(<< >>) = 0
    OBVIOUS
  <2>2. AllOfLength(n, << >>) /\ Before(<< >>, Len(<< >>)) = {}
    BY <2>1 DEF AllOfLength, Before
  <2>3. BvLen(CompressBits(n, << >>).payload) = 0
    BY <2>1, CompressEnds
  <2> QED BY <1>1, <2>2, <2>3 DEF ReadSoFar, DecompressStart
<1> DEFINE S == {k \in 0..M : ReadSoFar(d[k], n, p)}
<1> HIDE DEF M
<1>5. 0 \in S
  BY <1>1, <1>3, <1>4
<1>6. ASSUME NEW k \in 0..(M - 1), k \in S PROVE k + 1 \in S
  <2>1. k \in 0..M /\ k + 1 \in 0..M
    BY <1>1
  <2>2. d[k] \in DecompressStates /\ ReadSoFar(d[k], n, p)
    BY <1>3, <1>6, <2>1
  <2>3. ReadSoFar(DecompressRound(d[k], n, p), n, p)
    BY <2>2, ReadsOn
  <2> QED BY <1>3, <2>1, <2>3
<1> HIDE DEF S
<1>7. \A k \in 0..M : k \in S
  BY <1>1, <1>5, <1>6, BoundedInduction
<1>8. M \in 0..M
  BY <1>1
<1> QED BY <1>2, <1>3, <1>7, <1>8 DEF S

(***************************************************************************)
(* Whatever the network delivers as a payload, and with whatever element   *)
(* size: decompress rejects it or returns equally long elements, and       *)
(* compressing those gives a payload that is no longer and decompresses to *)
(* the same elements.                                                      *)
(***************************************************************************)
THEOREM CodecRoundTripHolds == Spec => []CodecRoundTrip
<1>1. Represented => CodecRoundTrip
  <2> SUFFICES ASSUME Represented, NEW n \in ElementSizes,
                      NEW seq \in BvDecompress([bits |-> bv, element_size |-> n])
               PROVE  /\ \A i \in DOMAIN seq : BvLen(seq[i]) = n
                      /\ \E c \in BvCompress(seq) : BvDecompress(c) = {seq} /\ BvLen(c.bits) <= BvLen(bv)
    BY DEF CodecRoundTrip
  <2> DEFINE s == DecompressBits(n, bv)
             m == ElementSize(seq)
             c == [bits |-> CompressBits(m, seq).payload, element_size |-> m]
  <2>1. bv \in BitVecs /\ n \in Nat /\ BvLen(bv) \in Nat
    BY ObjectAssumption, LenType DEF Represented
  <2>2. s.found /\ seq = s.seq
    BY DEF BvDecompress
  <2>3. s \in DecompressStates /\ ReadSoFar(s, n, bv)
    BY <2>1, DecompressEnds
  <2>4. seq \in Seq(BitVecs) /\ s.idx \in Nat
    BY <2>2, <2>3 DEF DecompressStates
  <2>5. s.idx <= BvLen(bv) /\ AllOfLength(n, seq) /\ BvLen(CompressBits(n, seq).payload) <= s.idx
    BY <2>2, <2>3 DEF ReadSoFar
  <2> HIDE DEF s
  <2>6. \A i \in DOMAIN seq : BvLen(seq[i]) = n
    BY <2>4, <2>5 DEF AllOfLength
  <2>7. m \in Nat /\ AllOfLength(m, seq) /\ BvLen(CompressBits(m, seq).payload) <= BvLen(bv)
    <3>1. CASE seq = << >>
      <4>1. m = 0 /\ Len(seq) = 0
        BY <3>1 DEF ElementSize
      <4>2. BvLen(CompressBits(m, seq).payload) = 0
        BY <2>4, <3>1, <4>1, CompressEnds
      <4> QED BY <2>1, <4>1, <4>2 DEF AllOfLength
    <3>2. CASE seq # << >>
      <4>1. m = n
        BY <2>4, <2>5, <3>2 DEF ElementSize, AllOfLength
      <4>2. BvLen(CompressBits(n, seq).payload) \in Nat
        BY <2>1, <2>4, CompressEnds
      <4> QED BY <2>1, <2>4, <2>5, <4>1, <4>2
    <3> QED BY <3>1, <3>2
  <2>8. c \in BvCompress(seq)
    BY <2>4, <2>7, CompressReturns
  <2>9. BvDecompress(c) = {seq}
    BY <2>4, <2>8, CodecLossless
  <2>10. c.bits = CompressBits(m, seq).payload
    OBVIOUS
  <2> HIDE DEF m, c
  <2>11. BvLen(c.bits) <= BvLen(bv)
    BY <2>7, <2>10
  <2> QED BY <2>6, <2>8, <2>9, <2>11
<1> QED BY <1>1, RepresentationHolds, PTL
=============================================================================
