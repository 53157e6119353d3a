------------------------ MODULE ReliableOrderProofs -------------------------
(***************************************************************************)
(* Proofs about Reliable: what reaches an application comes in order, for  *)
(* every number of connections that share the server's queue.              *)
(***************************************************************************)
EXTENDS ReliableProofs

-----------------------------------------------------------------------------
(***************************************************************************)
(* Sequences of message numbers.  Zero is no message, and may be anywhere. *)
(***************************************************************************)
Ordered(s) == \A i, j \in DOMAIN s : i < j /\ s[j] # 0 => s[i] < s[j]

Below(s, t) == \A i \in DOMAIN s, j \in DOMAIN t : t[j] # 0 => s[i] < t[j]

Within(s, n) == \A i \in DOMAIN s : s[i] <= n

\* The elements of a sequence with one more at its end.
LEMMA AppendElements ==
  ASSUME NEW S, NEW s \in Seq(S), NEW e \in S
  PROVE  /\ Append(s, e) \in Seq(S)
         /\ Len(Append(s, e)) = Len(s) + 1 /\ DOMAIN Append(s, e) = 1..(Len(s) + 1)
         /\ \A i \in 1..Len(s) : Append(s, e)[i] = s[i]
         /\ Append(s, e)[Len(s) + 1] = e
OBVIOUS

\* The elements of a sequence without its first n.
LEMMA RestElements ==
  ASSUME NEW S, NEW s \in Seq(S), NEW n \in 0..Len(s)
  PROVE  /\ SubSeq(s, n + 1, Len(s)) \in Seq(S)
         /\ DOMAIN SubSeq(s, n + 1, Len(s)) = 1..(Len(s) - n)
         /\ Len(SubSeq(s, n + 1, Len(s))) = Len(s) - n
         /\ \A i \in 1..(Len(s) - n) : n + i \in DOMAIN s /\ SubSeq(s, n + 1, Len(s))[i] = s[n + i]
OBVIOUS

\* The tail of a sequence is the rest after its first element.
LEMMA TailElements ==
  ASSUME NEW S, NEW s \in Seq(S), s # << >>
  PROVE  /\ Len(s) \in Nat \ {0} /\ Tail(s) \in Seq(S) /\ Head(s) = s[1] /\ Head(s) \in S
         /\ DOMAIN Tail(s) = 1..(Len(s) - 1)
         /\ Len(Tail(s)) = Len(s) - 1
         /\ \A i \in 1..(Len(s) - 1) : i + 1 \in DOMAIN s /\ Tail(s)[i] = s[i + 1]
OBVIOUS

\* The elements of two sequences, one after the other.
LEMMA ConcatElements ==
  ASSUME NEW S, NEW s \in Seq(S), NEW t \in Seq(S)
  PROVE  /\ s \o t \in Seq(S) /\ DOMAIN (s \o t) = 1..(Len(s) + Len(t))
         /\ \A i \in 1..Len(s) : (s \o t)[i] = s[i]
         /\ \A i \in (Len(s) + 1)..(Len(s) + Len(t)) : i - Len(s) \in DOMAIN t /\ (s \o t)[i] = t[i - Len(s)]
OBVIOUS

\* Two sequences in order, the one below the other, are one in order.
LEMMA ConcatOrdered ==
  ASSUME NEW s \in Seq(Nat), NEW t \in Seq(Nat), Ordered(s), Ordered(t), Below(s, t)
  PROVE  Ordered(s \o t)
<1>1. SUFFICES ASSUME NEW i \in DOMAIN (s \o t), NEW j \in DOMAIN (s \o t), i < j, (s \o t)[j] # 0
               PROVE  (s \o t)[i] < (s \o t)[j]
  BY DEF Ordered
<1>2. i \in 1..(Len(s) + Len(t)) /\ j \in 1..(Len(s) + Len(t)) /\ Len(s) \in Nat /\ Len(t) \in Nat
  BY ConcatElements
<1>3. CASE j \in 1..Len(s)
  <2>1. i \in 1..Len(s) /\ i \in DOMAIN s /\ j \in DOMAIN s
    BY <1>1, <1>2, <1>3
  <2>2. (s \o t)[i] = s[i] /\ (s \o t)[j] = s[j]
    BY <1>3, <2>1, ConcatElements
  <2>3. QED BY <1>1, <2>1, <2>2 DEF Ordered
<1>4. CASE i \in 1..Len(s) /\ j \notin 1..Len(s)
  <2>1. i \in DOMAIN s /\ j \in (Len(s) + 1)..(Len(s) + Len(t))
    BY <1>2, <1>4
  <2>2. (s \o t)[i] = s[i] /\ (s \o t)[j] = t[j - Len(s)] /\ j - Len(s) \in DOMAIN t
    BY <1>4, <2>1, ConcatElements
  <2>3. QED BY <1>1, <2>1, <2>2 DEF Below
<1>5. CASE i \notin 1..Len(s)
  <2>1. i \in (Len(s) + 1)..(Len(s) + Len(t)) /\ j \in (Len(s) + 1)..(Len(s) + Len(t))
    BY <1>1, <1>2, <1>5
  <2>2. /\ (s \o t)[i] = t[i - Len(s)] /\ i - Len(s) \in DOMAIN t
        /\ (s \o t)[j] = t[j - Len(s)] /\ j - Len(s) \in DOMAIN t
    BY <2>1, ConcatElements
  <2>3. i - Len(s) < j - Len(s)
    BY <1>1, <1>2
  <2>4. QED BY <1>1, <2>2, <2>3 DEF Ordered
<1>6. QED BY <1>3, <1>4, <1>5

\* Below, for two sequences one after the other.
LEMMA ConcatBelow ==
  ASSUME NEW s \in Seq(Nat), NEW t \in Seq(Nat), NEW u \in Seq(Nat)
  PROVE  /\ Below(s, u) /\ Below(t, u) => Below(s \o t, u)
         /\ Below(u, s) /\ Below(u, t) => Below(u, s \o t)
         /\ \A n \in Nat : Within(s, n) /\ Within(t, n) => Within(s \o t, n)
<1>1. \A i \in DOMAIN (s \o t) : \/ \E k \in DOMAIN s : (s \o t)[i] = s[k]
                                 \/ \E k \in DOMAIN t : (s \o t)[i] = t[k]
  <2> SUFFICES ASSUME NEW i \in DOMAIN (s \o t)
               PROVE  \/ \E k \in DOMAIN s : (s \o t)[i] = s[k]
                      \/ \E k \in DOMAIN t : (s \o t)[i] = t[k]
    OBVIOUS
  <2>1. i \in 1..(Len(s) + Len(t)) /\ Len(s) \in Nat /\ Len(t) \in Nat
    BY ConcatElements
  <2>2. CASE i \in 1..Len(s)
    <3>1. i \in DOMAIN s /\ (s \o t)[i] = s[i]
      BY <2>2, ConcatElements
    <3>2. QED BY <3>1
  <2>3. CASE i \notin 1..Len(s)
    <3>1. i \in (Len(s) + 1)..(Len(s) + Len(t))
      BY <2>1, <2>3
    <3>2. QED BY <3>1, ConcatElements
  <2>4. QED BY <2>2, <2>3
<1>2. QED BY <1>1 DEF Below, Within

\* Taking elements away from a sequence takes nothing out of order.
LEMMA Fewer ==
  ASSUME NEW s \in Seq(Nat), NEW t \in Seq(Nat), NEW u \in Seq(Nat), NEW n \in 0..Len(s),
         t = << >> \/ t = SubSeq(s, n + 1, Len(s))
  PROVE  /\ Ordered(s) => Ordered(t)
         /\ Below(s, u) => Below(t, u)
         /\ Below(u, s) => Below(u, t)
         /\ \A k \in Nat : Within(s, k) => Within(t, k)
<1>1. CASE t = << >>
  <2>1. DOMAIN t = {}
    BY <1>1
  <2>2. QED BY <2>1 DEF Ordered, Below, Within
<1>2. CASE t = SubSeq(s, n + 1, Len(s))
  <2>0. /\ DOMAIN t = 1..(Len(s) - n) /\ Len(s) \in Nat /\ n \in Nat
        /\ \A i \in 1..(Len(s) - n) : n + i \in DOMAIN s /\ t[i] = s[n + i]
    BY <1>2, RestElements
  <2>1. \A i \in DOMAIN t : i \in Nat /\ n + i \in DOMAIN s /\ t[i] = s[n + i]
    <3> SUFFICES ASSUME NEW i \in DOMAIN t PROVE i \in Nat /\ n + i \in DOMAIN s /\ t[i] = s[n + i]
      OBVIOUS
    <3>1. i \in 1..(Len(s) - n)
      BY <2>0
    <3>2. i \in Nat
      BY <2>0, <3>1
    <3>3. n + i \in DOMAIN s
      BY <2>0, <3>1
    <3>4. t[i] = s[n + i]
      BY <2>0, <3>1
    <3>5. QED BY <3>2, <3>3, <3>4
  <2>2. ASSUME NEW i \in DOMAIN t, NEW j \in DOMAIN t, i < j PROVE n + i < n + j
    <3>1. i \in Nat /\ j \in Nat /\ n \in Nat
      BY <2>0, <2>1
    <3>2. QED BY <2>2, <3>1
  <2>3. Ordered(s) => Ordered(t)
    BY <2>1, <2>2 DEF Ordered
  <2>4. QED BY <2>1, <2>3 DEF Below, Within
<1>3. QED BY <1>1, <1>2

\* Every element of t is one of s.
Part(t, s) == \A i \in DOMAIN t : \E k \in DOMAIN s : t[i] = s[k]

\* What is left of a sequence is part of it.
LEMMA RestIsPart ==
  ASSUME NEW s \in Seq(Nat), NEW t, NEW n \in 0..Len(s),
         t = << >> \/ t = SubSeq(s, n + 1, Len(s))
  PROVE  Part(t, s)
<1>1. CASE t = << >>
  <2>1. DOMAIN t = {}
    BY <1>1
  <2>2. QED BY <2>1 DEF Part
<1>2. CASE t = SubSeq(s, n + 1, Len(s))
  <2>1. /\ DOMAIN t = 1..(Len(s) - n)
        /\ \A i \in 1..(Len(s) - n) : n + i \in DOMAIN s /\ t[i] = s[n + i]
    BY <1>2, RestElements
  <2>2. QED BY <2>1 DEF Part
<1>3. QED BY <1>1, <1>2

\* What is below a sequence, above it or bounds it does so to its parts.
LEMMA PartStays ==
  ASSUME NEW s, NEW t, Part(t, s)
  PROVE  /\ \A u : Below(s, u) => Below(t, u)
         /\ \A u : Below(u, s) => Below(u, t)
         /\ \A k : Within(s, k) => Within(t, k)
<1>1. ASSUME NEW u, Below(s, u) PROVE Below(t, u)
  BY <1>1 DEF Part, Below
<1>2. ASSUME NEW u, Below(u, s) PROVE Below(u, t)
  BY <1>2 DEF Part, Below
<1>3. ASSUME NEW k, Within(s, k) PROVE Within(t, k)
  BY <1>3 DEF Part, Within
<1>4. QED BY <1>1, <1>2, <1>3

\* One more element at the end, none or larger than all that must be below it.
LEMMA OneMore ==
  ASSUME NEW s \in Seq(Nat), NEW e \in Nat, NEW u \in Seq(Nat)
  PROVE  /\ Ordered(s) /\ (e = 0 \/ \A i \in DOMAIN s : s[i] < e) => Ordered(Append(s, e))
         /\ Below(s, u) /\ (e = 0 \/ \A j \in DOMAIN u : u[j] # 0 => e < u[j]) => Below(Append(s, e), u)
         /\ Below(u, s) /\ (e = 0 \/ \A i \in DOMAIN u : u[i] < e) => Below(u, Append(s, e))
         /\ \A k \in Nat : Within(s, k) /\ e <= k => Within(Append(s, e), k)
<1> DEFINE t == Append(s, e)
<1>1. /\ Len(s) \in Nat /\ DOMAIN s = 1..Len(s) /\ DOMAIN t = 1..(Len(s) + 1)
      /\ \A i \in DOMAIN s : t[i] = s[i]
      /\ t[Len(s) + 1] = e
  BY AppendElements
<1>2. \A i \in DOMAIN t : (i \in DOMAIN s /\ t[i] = s[i]) \/ (i = Len(s) + 1 /\ t[i] = e)
  BY <1>1
<1>3. \A j \in DOMAIN u : u[j] \in Nat
  OBVIOUS
<1> HIDE DEF t
<1>4. ASSUME Ordered(s), e = 0 \/ \A i \in DOMAIN s : s[i] < e PROVE Ordered(t)
  <2> SUFFICES ASSUME NEW i \in DOMAIN t, NEW j \in DOMAIN t, i < j, t[j] # 0 PROVE t[i] < t[j]
    BY DEF Ordered
  <2>1. i \in DOMAIN s /\ t[i] = s[i]
    BY <1>1
  <2>2. CASE j \in DOMAIN s
    BY <1>1, <1>4, <2>1, <2>2 DEF Ordered
  <2>3. CASE j = Len(s) + 1
    BY <1>1, <1>4, <2>1, <2>3
  <2>4. QED BY <1>2, <2>2, <2>3
<1>5. ASSUME Below(s, u), e = 0 \/ \A j \in DOMAIN u : u[j] # 0 => e < u[j] PROVE Below(t, u)
  <2> SUFFICES ASSUME NEW i \in DOMAIN t, NEW j \in DOMAIN u, u[j] # 0 PROVE t[i] < u[j]
    BY DEF Below
  <2>1. CASE i \in DOMAIN s /\ t[i] = s[i]
    BY <1>5, <2>1 DEF Below
  <2>2. CASE t[i] = e
    BY <1>3, <1>5, <2>2
  <2>3. QED BY <1>2, <2>1, <2>2
<1>6. ASSUME Below(u, s), e = 0 \/ \A i \in DOMAIN u : u[i] < e PROVE Below(u, t)
  <2> SUFFICES ASSUME NEW i \in DOMAIN u, NEW j \in DOMAIN t, t[j] # 0 PROVE u[i] < t[j]
    BY DEF Below
  <2>1. CASE j \in DOMAIN s /\ t[j] = s[j]
    BY <1>6, <2>1 DEF Below
  <2>2. CASE t[j] = e
    BY <1>6, <2>2
  <2>3. QED BY <1>2, <2>1, <2>2
<1>7. \A k \in Nat : Within(s, k) /\ e <= k => Within(t, k)
  BY <1>2 DEF Within
<1>8. QED BY <1>4, <1>5, <1>6, <1>7 DEF t

(***************************************************************************)
(* The first of t goes to the end of s and n elements leave t: what was in *)
(* order stays so.                                                         *)
(***************************************************************************)
LEMMA Passes ==
  ASSUME NEW s \in Seq(Nat), NEW t \in Seq(Nat), NEW n \in 1..Len(t), t[1] # 0,
         Ordered(s), Ordered(t), Below(s, t)
  PROVE  Ordered(Append(s, t[1])) /\ Below(Append(s, t[1]), SubSeq(t, n + 1, Len(t)))
<1> DEFINE r == SubSeq(t, n + 1, Len(t))
<1>0. /\ n \in 0..Len(t) /\ 1 \in DOMAIN t /\ t[1] \in Nat
  OBVIOUS
<1>1. /\ r \in Seq(Nat) /\ DOMAIN r = 1..(Len(t) - n)
      /\ \A j \in 1..(Len(t) - n) : n + j \in DOMAIN t /\ r[j] = t[n + j]
  BY <1>0, RestElements
<1>2. Below(s, r)
  BY <1>0, <1>1, Fewer
<1>3. \A i \in DOMAIN s : s[i] < t[1]
  BY <1>0 DEF Below
<1>4. Ordered(Append(s, t[1]))
  BY <1>0, <1>3, OneMore
<1> HIDE DEF r
<1>5. \A j \in DOMAIN r : r[j] # 0 => t[1] < r[j]
  <2> SUFFICES ASSUME NEW j \in DOMAIN r, r[j] # 0 PROVE t[1] < r[j]
    OBVIOUS
  <2>1. j \in 1..(Len(t) - n)
    BY <1>1
  <2>2. n + j \in DOMAIN t /\ r[j] = t[n + j]
    BY <1>1, <2>1
  <2>3. 1 < n + j
    BY <2>1
  <2>4. QED BY <1>0, <2>2, <2>3 DEF Ordered
<1>6. Below(Append(s, t[1]), r)
  BY <1>0, <1>1, <1>2, <1>5, OneMore
<1>7. QED BY <1>4, <1>6 DEF r

\* And so it does with every other sequence.
LEMMA PassesOthers ==
  ASSUME NEW s \in Seq(Nat), NEW t \in Seq(Nat), 1 \in DOMAIN t, NEW u \in Seq(Nat)
  PROVE  /\ Below(u, s) /\ Below(u, t) => Below(u, Append(s, t[1]))
         /\ Below(s, u) /\ Below(t, u) => Below(Append(s, t[1]), u)
         /\ \A k \in Nat : Within(s, k) /\ Within(t, k) => Within(Append(s, t[1]), k)
<1>0. t[1] \in Nat
  OBVIOUS
<1>1. ASSUME Below(u, s), Below(u, t) PROVE Below(u, Append(s, t[1]))
  <2>1. t[1] = 0 \/ \A i \in DOMAIN u : u[i] < t[1]
    BY <1>1 DEF Below
  <2>2. QED BY <1>0, <1>1, <2>1, OneMore
<1>2. ASSUME Below(s, u), Below(t, u) PROVE Below(Append(s, t[1]), u)
  <2>1. \A j \in DOMAIN u : u[j] # 0 => t[1] < u[j]
    BY <1>2 DEF Below
  <2>2. QED BY <1>0, <1>2, <2>1, OneMore
<1>3. ASSUME NEW k \in Nat, Within(s, k), Within(t, k) PROVE Within(Append(s, t[1]), k)
  <2>1. t[1] <= k
    BY <1>3 DEF Within
  <2>2. QED BY <1>0, <1>3, <2>1, OneMore
<1>4. QED BY <1>1, <1>2, <1>3

-----------------------------------------------------------------------------
(***************************************************************************)
(* The numbers of the messages of a sequence.                              *)
(***************************************************************************)
Image(f, s) == [i \in DOMAIN s |-> f[s[i]]]

\* It is a sequence of the same length.
LEMMA ImageTyped ==
  ASSUME NEW S, NEW f \in [S -> Nat], NEW s \in Seq(S)
  PROVE  /\ Image(f, s) \in Seq(Nat) /\ Len(Image(f, s)) = Len(s)
         /\ DOMAIN Image(f, s) = DOMAIN s
         /\ \A i \in DOMAIN s : s[i] \in S /\ Image(f, s)[i] = f[s[i]]
BY DEF Image

\* Sequences with the same elements are equal.
LEMMA SameSequence ==
  ASSUME NEW s \in Seq(Nat), NEW t \in Seq(Nat), Len(s) = Len(t), \A i \in 1..Len(s) : s[i] = t[i]
  PROVE  s = t
OBVIOUS

\* The image of a longer sequence is the longer image.
LEMMA ImageAppend ==
  ASSUME NEW S, NEW f \in [S -> Nat], NEW s \in Seq(S), NEW e \in S
  PROVE  Image(f, Append(s, e)) = Append(Image(f, s), f[e])
<1> DEFINE t == Append(s, e)
           m == Image(f, s)
           u == Append(m, f[e])
           v == Image(f, t)
<1>1. /\ t \in Seq(S) /\ Len(t) = Len(s) + 1 /\ Len(s) \in Nat
      /\ \A i \in 1..Len(s) : t[i] = s[i]
      /\ t[Len(s) + 1] = e
  BY AppendElements
<1>2. /\ m \in Seq(Nat) /\ Len(m) = Len(s)
      /\ \A i \in DOMAIN s : m[i] = f[s[i]]
  BY ImageTyped
<1>3. f[e] \in Nat /\ DOMAIN s = 1..Len(s)
  OBVIOUS
<1> HIDE DEF t, m
<1>4. /\ u \in Seq(Nat) /\ Len(u) = Len(m) + 1
      /\ \A i \in 1..Len(m) : u[i] = m[i]
      /\ u[Len(m) + 1] = f[e]
  BY <1>2, <1>3, AppendElements
<1>5. /\ v \in Seq(Nat) /\ Len(v) = Len(t) /\ DOMAIN t = 1..Len(t)
      /\ \A i \in DOMAIN t : v[i] = f[t[i]]
  <2>1. t \in Seq(S)
    BY <1>1
  <2>2. DOMAIN t = 1..Len(t)
    BY <2>1
  <2>3. QED BY <2>1, <2>2, ImageTyped
<1> HIDE DEF u, v
<1>6. ASSUME NEW i \in 1..Len(v) PROVE v[i] = u[i]
  <2>1. i \in 1..(Len(s) + 1) /\ v[i] = f[t[i]]
    BY <1>1, <1>5
  <2>2. CASE i \in 1..Len(s)
    <3>1. t[i] = s[i] /\ u[i] = m[i] /\ m[i] = f[s[i]]
      BY <1>1, <1>2, <1>3, <1>4, <2>2
    <3>2. QED BY <2>1, <3>1
  <2>3. CASE i = Len(s) + 1
    <3>1. t[i] = e /\ u[i] = f[e]
      BY <1>1, <1>2, <1>4, <2>3
    <3>2. QED BY <2>1, <3>1
  <2>4. QED BY <1>1, <2>1, <2>2, <2>3
<1>7. v = u
  BY <1>1, <1>2, <1>4, <1>5, <1>6, SameSequence
<1>8. QED BY <1>7 DEF t, m, u, v

\* The image of what is left is what is left of the image.
LEMMA ImageRest ==
  ASSUME NEW S, NEW f \in [S -> Nat], NEW s \in Seq(S), NEW n \in 0..Len(s)
  PROVE  Image(f, SubSeq(s, n + 1, Len(s))) = SubSeq(Image(f, s), n + 1, Len(Image(f, s)))
<1> DEFINE t == SubSeq(s, n + 1, Len(s))
           m == Image(f, s)
           u == SubSeq(m, n + 1, Len(m))
           v == Image(f, t)
<1>1. /\ t \in Seq(S) /\ Len(t) = Len(s) - n /\ Len(s) \in Nat
      /\ \A i \in 1..(Len(s) - n) : n + i \in DOMAIN s /\ t[i] = s[n + i]
  BY RestElements
<1>2. /\ m \in Seq(Nat) /\ Len(m) = Len(s)
      /\ \A i \in DOMAIN s : m[i] = f[s[i]]
  BY ImageTyped
<1> HIDE DEF t, m
<1>3. n \in 0..Len(m)
  BY <1>2
<1>4. /\ u \in Seq(Nat) /\ Len(u) = Len(m) - n
      /\ \A i \in 1..(Len(m) - n) : u[i] = m[n + i]
  BY <1>2, <1>3, RestElements
<1>5. /\ v \in Seq(Nat) /\ Len(v) = Len(t) /\ DOMAIN t = 1..Len(t)
      /\ \A i \in DOMAIN t : v[i] = f[t[i]]
  <2>1. t \in Seq(S)
    BY <1>1
  <2>2. DOMAIN t = 1..Len(t)
    BY <2>1
  <2>3. QED BY <2>1, <2>2, ImageTyped
<1> HIDE DEF u, v
<1>6. ASSUME NEW i \in 1..Len(v) PROVE v[i] = u[i]
  <2>1. i \in 1..(Len(s) - n) /\ v[i] = f[t[i]]
    BY <1>1, <1>5
  <2>2. n + i \in DOMAIN s /\ t[i] = s[n + i] /\ u[i] = m[n + i]
    BY <1>1, <1>2, <1>4, <2>1
  <2>3. QED BY <1>2, <2>1, <2>2
<1>7. v = u
  BY <1>1, <1>2, <1>4, <1>5, <1>6, SameSequence
<1>8. QED BY <1>7 DEF t, m, u, v

\* Head and tail in the same terms.
LEMMA TailIsRest ==
  ASSUME NEW S, NEW s \in Seq(S), s # << >>
  PROVE  1 \in 1..Len(s) /\ Head(s) = s[1] /\ Tail(s) = SubSeq(s, 1 + 1, Len(s))
OBVIOUS

-----------------------------------------------------------------------------
(***************************************************************************)
(* What one step may do to what connection p says: nothing; the servicer   *)
(* announces the client; it reads, drops what shared the read, and tells   *)
(* of a chat message; the connection is opened; the peer sends.            *)
(***************************************************************************)
Still(p) == up'[p] = up[p] /\ to_application'[p] = to_application[p]

IsAnnounced(p) ==
  /\ up'[p] = up[p] /\ to_application[p] = << >>
  /\ to_application'[p] = Append(to_application[p], ClientData)

IsRead(p) ==
  /\ \E n \in 1..Len(up[p]) : up'[p] = SubSeq(up[p], n + 1, Len(up[p]))
  /\ \/ to_application'[p] = to_application[p]
     \/ /\ to_application[p] # << >> /\ up[p][1].id # 0
        /\ to_application'[p] = Append(to_application[p], up[p][1])

IsOpened(p) ==
  up'[p] \in {<< >>, <<JoinRequest>>} /\ to_application'[p] = to_application[p]

IsSent(p) ==
  /\ p \in Peers /\ to_application'[p] = to_application[p]
  /\ peer_sent'[p] = peer_sent[p] + 1
  /\ \E m \in {JoinRequest, ClientChat(peer_sent'[p])} : up'[p] = Append(up[p], m)

\* What a read does to the stream.
LEMMA ReadUpTakes ==
  ASSUME TypeOK, NEW p \in Conns, NEW m, ReadUp(p, m)
  PROVE  /\ m = up[p][1]
         /\ \E n \in 1..Len(up[p]) : up' = [up EXCEPT ![p] = SubSeq(up[p], n + 1, Len(up[p]))]
<1>1. PICK n \in 1..buf_len :
         /\ n <= Len(up[p]) /\ m = up[p][1]
         /\ up' = [up EXCEPT ![p] = SubSeq(up[p], n + 1, Len(up[p]))]
  BY DEF ReadUp
<1>2. buf_len \in Nat /\ up[p] \in Seq(ClientMessages)
  BY StreamsAssumption DEF TypeOK
<1>3. n \in 1..Len(up[p])
  BY <1>1, <1>2
<1>4. QED BY <1>1, <1>3

\* A servicer touches what its own connection says, in one of these ways.
LEMMA ServicerHears ==
  ASSUME TypeOK, JoinInv, NEW p \in Conns, ServicerRuns(p) \/ ServicerReads(p), NEW q \in Conns
  PROVE  Still(q) \/ IsAnnounced(q) \/ IsRead(q)
<1>0. /\ up \in [Conns -> Seq(ClientMessages)]
      /\ to_application \in [Conns -> Seq({ClientData} \cup ClientMessages)]
  BY DEF TypeOK
<1>1. CASE UNCHANGED <<up, to_application>>
  BY <1>1 DEF Still
<1>2. CASE AnnounceClient(p)
  <2>1. CASE ~ReceiverAlive
    BY <1>1, <1>2, <2>1 DEF AnnounceClient, EndServicer, CloseServerEnds
  <2>2. CASE ReceiverAlive
    <3>1. /\ UNCHANGED up /\ servicer_pc[p] = "announce"
          /\ to_application' = [to_application EXCEPT ![p] = Append(to_application[p], ClientData)]
      BY <1>2, <2>2 DEF AnnounceClient, streamVars
    <3>2. to_application[p] = << >>
      BY <3>1 DEF JoinInv, Told
    <3>3. CASE q = p
      BY <1>0, <3>1, <3>2, <3>3 DEF IsAnnounced
    <3>4. CASE q # p
      BY <1>0, <3>1, <3>4 DEF Still
    <3>5. QED BY <3>3, <3>4
  <2>3. QED BY <2>1, <2>2
<1>3. CASE ReadJoinRequest(p) \/ RejectRejoin(p)
  <2>1. ReadUp(p, JoinRequest) /\ UNCHANGED to_application
    BY <1>3 DEF ReadJoinRequest, RejectRejoin, ServicerOnlyGoes
  <2>2. PICK n \in 1..Len(up[p]) : up' = [up EXCEPT ![p] = SubSeq(up[p], n + 1, Len(up[p]))]
    BY <2>1, ReadUpTakes
  <2>3. CASE q = p
    BY <1>0, <2>1, <2>2, <2>3 DEF IsRead
  <2>4. CASE q # p
    BY <1>0, <2>1, <2>2, <2>4 DEF Still
  <2>5. QED BY <2>3, <2>4
<1>4. CASE ReadChat(p)
  <2>1. PICK id \in 1..MaxUp :
          /\ ReadUp(p, ClientChat(id))
          /\ to_application' =
               IF ReceiverAlive THEN [to_application EXCEPT ![p] = Append(@, ClientChat(id))]
                                ELSE to_application
    BY <1>4 DEF ReadChat
  <2>2. /\ ClientChat(id) = up[p][1]
        /\ \E n \in 1..Len(up[p]) : up' = [up EXCEPT ![p] = SubSeq(up[p], n + 1, Len(up[p]))]
    BY <2>1, ReadUpTakes
  <2>3. to_application[p] # << >>
    BY <1>4 DEF ReadChat, JoinInv, Told, Looping
  <2>4. ClientChat(id).id # 0
    BY StreamsAssumption DEF ClientChat
  <2>5. \/ UNCHANGED to_application
        \/ to_application' = [to_application EXCEPT ![p] = Append(to_application[p], up[p][1])]
    BY <2>1, <2>2
  <2>6. CASE q = p
    BY <1>0, <2>2, <2>3, <2>4, <2>5, <2>6 DEF IsRead
  <2>7. CASE q # p
    BY <1>0, <2>2, <2>5, <2>7 DEF Still
  <2>8. QED BY <2>6, <2>7
<1>5. CASE ConfirmJoin(p) \/ DrainOne(p) \/ DrainEnds(p) \/ Forward(p) \/ ForwardFails(p)
           \/ ForwardEnds(p) \/ CheckSwitch(p) \/ JoinFails(p) \/ ReadNothing(p)
  <2>1. UNCHANGED <<up, to_application>>
    BY <1>5 DEF ConfirmJoin, DrainOne, DrainEnds, Forward, ForwardFails, ForwardEnds, CheckSwitch,
                JoinFails, ReadNothing, WriteDown, ServicerOnlyGoes, EndServicer, CloseServerEnds,
                streamVars
  <2>2. QED BY <1>1, <2>1
<1>6. QED BY <1>2, <1>3, <1>4, <1>5 DEF ServicerRuns, ServicerReads

\* Every step, seen from what one connection says.
LEMMA Hears ==
  ASSUME TypeOK, JoinInv, [Next]_vars, NEW q \in Conns
  PROVE  /\ Still(q) \/ IsAnnounced(q) \/ IsRead(q) \/ IsOpened(q) \/ IsSent(q)
         /\ q \in Peers => peer_sent'[q] \in {peer_sent[q], peer_sent[q] + 1}
<1>0. /\ up \in [Conns -> Seq(ClientMessages)] /\ peer_sent \in [Peers -> 0..MaxUp]
  BY DEF TypeOK
<1>1. ASSUME NEW p \in Clients, ClientActs(p)
      PROVE  (Still(q) \/ IsOpened(q)) /\ UNCHANGED peer_sent
  <2>1. UNCHANGED <<to_application, peer_sent>>
    BY <1>1 DEF ClientActs, ClientReads, ClientRuns, ClientStep, serverVars
  <2>2. UNCHANGED up \/ up' = [up EXCEPT ![p] = <<JoinRequest>>]
    BY <1>1 DEF ClientActs, ClientReads, ClientRuns, ClientStep, ReceiveServerMessage, ReceiveNothing,
                ReceiveConfirmation, ReceiveAuthenticationError, ReceiveChat, ReadDown, Rest,
                DropServicer, SpawnServicers, Connect, OpenAndWrite, ConnectFails,
                ReliableClientApp, SendChatMessage, TakeChatHistory, LowLatencyShutdown, Quit,
                ClientProcessEnds, CloseClientEnd, streamVars
  <2>3. up'[q] = up[q] \/ up'[q] = <<JoinRequest>>
    BY <1>0, <2>2
  <2>4. QED BY <2>1, <2>3 DEF Still, IsOpened
<1>2. ASSUME NEW p \in Peers, PeerStep(p)
      PROVE  /\ Still(q) \/ IsOpened(q) \/ IsSent(q)
             /\ q \in Peers => peer_sent'[q] \in {peer_sent[q], peer_sent[q] + 1}
  <2>1. UNCHANGED to_application
    BY <1>2 DEF PeerStep, serverVars
  <2>2. CASE PeerConnects(p) \/ PeerLeaves(p)
    <3>1. /\ UNCHANGED peer_sent
          /\ UNCHANGED up \/ up' = [up EXCEPT ![p] = << >>]
      BY <2>2 DEF PeerConnects, PeerLeaves, OpenAndWrite, CloseClientEnd
    <3>2. up'[q] = up[q] \/ up'[q] = << >>
      BY <1>0, <3>1
    <3>3. QED BY <2>1, <3>1, <3>2 DEF Still, IsOpened
  <2>3. CASE PeerSends(p)
    <3>1. PICK m \in {JoinRequest, ClientChat(peer_sent[p] + 1)} :
             up' = [up EXCEPT ![p] = Append(up[p], m)]
      BY <2>3 DEF PeerSends, WriteUp
    <3>2. peer_sent' = [peer_sent EXCEPT ![p] = @ + 1]
      BY <2>3 DEF PeerSends
    <3>3. CASE q = p
      <4>1. /\ peer_sent'[q] = peer_sent[q] + 1 /\ up'[q] = Append(up[q], m)
            /\ m \in {JoinRequest, ClientChat(peer_sent'[q])}
        BY <1>0, <3>1, <3>2, <3>3
      <4>2. QED BY <1>2, <2>1, <3>3, <4>1 DEF IsSent
    <3>4. CASE q # p
      <4>1. up'[q] = up[q] /\ (q \in Peers => peer_sent'[q] = peer_sent[q])
        BY <1>0, <3>1, <3>2, <3>4
      <4>2. QED BY <2>1, <4>1 DEF Still
    <3>5. QED BY <3>3, <3>4
  <2>4. QED BY <1>2, <2>2, <2>3 DEF PeerStep
<1>3. ASSUME \/ Listener \/ ServerGoes \/ QuitStores \/ DropReceiver
             \/ \E user \in User, kind \in AppKinds : SendReliable(user, kind)
      PROVE  Still(q)
  <2>1. UNCHANGED <<up, to_application>>
    BY <1>3 DEF Listener, ListenerStarts, AcceptFails, ListenerChecks, ListenerFails, ListenerJoins,
                Accept, ListenerTo, CloseServerEnds, ServerGoes, QuitDropsSender, QuitDropsReceiver,
                DropSender, QuitStores, DropReceiver, AppTo, SendReliable, streamVars
  <2>2. QED BY <2>1 DEF Still
<1>4. CASE UNCHANGED vars
  BY <1>4 DEF vars, streamVars, serverVars, Still
<1>5. ASSUME ClientsSame PROVE UNCHANGED peer_sent
  BY <1>5 DEF ClientsSame
<1>6. QED BY <1>1, <1>2, <1>3, <1>4, <1>5, ServicerHears DEF Next, ClientActs

-----------------------------------------------------------------------------
(***************************************************************************)
(* Chats: the application has been told of the client first; what it has   *)
(* been told and what is under way to the server are in order, the first   *)
(* before the second; and both are of the messages the peer has sent.  (A  *)
(* Client of this crate sends its JoinRequest only.)                       *)
(***************************************************************************)
Sayings == {ClientData} \cup ClientMessages

SaidId == [m \in Sayings |-> m.id]

UpIds(p)   == Image(SaidId, up[p])
ToldIds(p) == Image(SaidId, to_application[p])

Said(p) == IF p \in Peers THEN peer_sent[p] ELSE 0

AnnouncedFirst(p) ==
  \A i \in DOMAIN to_application[p] :
     /\ (to_application[p][i] = ClientData) <=> (i = 1)
     /\ i > 1 => to_application[p][i].id # 0

ChatsInOrder(p) ==
  /\ Ordered(ToldIds(p)) /\ Ordered(UpIds(p)) /\ Below(ToldIds(p), UpIds(p))
  /\ Within(ToldIds(p), Said(p)) /\ Within(UpIds(p), Said(p))

Chats == \A p \in Conns : AnnouncedFirst(p) /\ ChatsInOrder(p)

\* The numbers of what is said.
LEMMA SaidIdTyped ==
  /\ SaidId \in [Sayings -> Nat]
  /\ JoinRequest \in Sayings /\ SaidId[JoinRequest] = 0
  /\ ClientData \in Sayings /\ SaidId[ClientData] = 0
  /\ \A id \in 1..MaxUp : ClientChat(id) \in Sayings /\ SaidId[ClientChat(id)] = id
<1>1. \A m \in Sayings : m.id \in Nat
  BY StreamsAssumption DEF Sayings, ClientMessages, JoinRequest, ClientChat, ClientData
<1>2. SaidId \in [Sayings -> Nat]
  BY <1>1 DEF SaidId
<1>3. JoinRequest \in Sayings /\ ClientData \in Sayings /\ \A id \in 1..MaxUp : ClientChat(id) \in Sayings
  BY DEF Sayings, ClientMessages
<1>4. SaidId[JoinRequest] = 0 /\ SaidId[ClientData] = 0 /\ \A id \in 1..MaxUp : SaidId[ClientChat(id)] = id
  BY <1>3 DEF SaidId, JoinRequest, ClientData, ClientChat
<1>5. QED BY <1>2, <1>3, <1>4

\* The numbers of the sayings with one more.
LEMMA SaidAppend ==
  ASSUME NEW s \in Seq(Sayings), NEW e \in Sayings
  PROVE  Image(SaidId, Append(s, e)) = Append(Image(SaidId, s), SaidId[e])
BY SaidIdTyped, ImageAppend

\* And of what is left of them.
LEMMA SaidRest ==
  ASSUME NEW s \in Seq(Sayings), NEW n \in 0..Len(s)
  PROVE  Image(SaidId, SubSeq(s, n + 1, Len(s))) = SubSeq(Image(SaidId, s), n + 1, Len(Image(SaidId, s)))
BY SaidIdTyped, ImageRest

\* The numbers of a sequence of sayings.
LEMMA SaidImage ==
  ASSUME NEW s \in Seq(Sayings)
  PROVE  Image(SaidId, s) \in Seq(Nat) /\ Len(Image(SaidId, s)) = Len(s)
BY SaidIdTyped, ImageTyped

\* The sequences these are about.
SaidOK ==
  \A p \in Conns :
     /\ up[p] \in Seq(Sayings) /\ to_application[p] \in Seq(Sayings)
     /\ UpIds(p) \in Seq(Nat) /\ ToldIds(p) \in Seq(Nat)
     /\ Len(UpIds(p)) = Len(up[p]) /\ Len(ToldIds(p)) = Len(to_application[p])
     /\ Said(p) \in Nat

\* They have their types.
LEMMA SaidTyped == TypeOK => SaidOK
<1> SUFFICES ASSUME TypeOK, NEW p \in Conns
             PROVE  /\ up[p] \in Seq(Sayings) /\ to_application[p] \in Seq(Sayings)
                    /\ UpIds(p) \in Seq(Nat) /\ ToldIds(p) \in Seq(Nat)
                    /\ Len(UpIds(p)) = Len(up[p]) /\ Len(ToldIds(p)) = Len(to_application[p])
                    /\ Said(p) \in Nat
  BY DEF SaidOK
<1>1. up[p] \in Seq(ClientMessages) /\ to_application[p] \in Seq(Sayings)
  BY DEF TypeOK, Sayings
<1>2. up[p] \in Seq(Sayings)
  BY <1>1 DEF Sayings
<1>3. Said(p) \in Nat
  BY StreamsAssumption DEF TypeOK, Said
<1>4. QED BY <1>1, <1>2, <1>3, SaidImage DEF UpIds, ToldIds

\* Larger bounds.
LEMMA WithinMore ==
  ASSUME NEW s \in Seq(Nat), NEW m \in Nat, NEW n \in Nat, m <= n, Within(s, m)
  PROVE  Within(s, n)
BY DEF Within

\* The announcement stays first, and only chat messages follow it.
LEMMA AnnouncedStep ==
  ASSUME TypeOK, JoinInv, [Next]_vars, NEW q \in Conns, AnnouncedFirst(q)
  PROVE  AnnouncedFirst(q)'
<1> DEFINE S == {ClientData} \cup ClientMessages
           a == to_application[q]
<1>0. a \in Seq(S) /\ Len(a) \in Nat
  BY DEF TypeOK
<1>1. CASE to_application'[q] = a
  BY <1>1 DEF AnnouncedFirst
<1>2. CASE a = << >> /\ to_application'[q] = Append(a, ClientData)
  <2>1. DOMAIN Append(a, ClientData) = {1} /\ Append(a, ClientData)[1] = ClientData
    BY <1>2
  <2>2. QED BY <1>2, <2>1 DEF AnnouncedFirst
<1>3. ASSUME NEW m \in S, m.id # 0, a # << >>, to_application'[q] = Append(a, m)
      PROVE  AnnouncedFirst(q)'
  <2>1. /\ DOMAIN a = 1..Len(a) /\ DOMAIN Append(a, m) = 1..(Len(a) + 1)
        /\ \A i \in 1..Len(a) : Append(a, m)[i] = a[i]
        /\ Append(a, m)[Len(a) + 1] = m
    BY <1>0, AppendElements
  <2>2. Len(a) # 0
    BY <1>0, <1>3
  <2>3. m # ClientData
    BY <1>3 DEF ClientData
  <2> DEFINE b == to_application'[q]
  <2>4. /\ b = Append(a, m)
        /\ \A i \in DOMAIN b : (i \in DOMAIN a /\ b[i] = a[i]) \/ (i > 1 /\ b[i] = m)
    BY <1>0, <1>3, <2>1, <2>2
  <2>5. 1 \in DOMAIN a
    BY <1>0, <2>1, <2>2
  <2> HIDE DEF S, a, b
  <2>6. \A i \in DOMAIN a : (a[i] = ClientData <=> i = 1) /\ (i > 1 => a[i].id # 0)
    BY DEF AnnouncedFirst, a
  <2>7. \A i \in DOMAIN b : (b[i] = ClientData <=> i = 1) /\ (i > 1 => b[i].id # 0)
    BY <1>3, <2>3, <2>4, <2>6
  <2>8. QED BY <2>7 DEF AnnouncedFirst, b
<1>4. CASE IsRead(q)
  <2>1. PICK n \in 1..Len(up[q]) : TRUE
    BY <1>4 DEF IsRead
  <2>2. up[q] \in Seq(ClientMessages)
    BY DEF TypeOK
  <2>3. up[q][1] \in S
    <3>1. 1 \in DOMAIN up[q]
      BY <2>1, <2>2
    <3>2. QED BY <2>2, <3>1
  <2>4. QED BY <1>1, <1>3, <1>4, <2>3 DEF IsRead
<1>5. QED BY <1>1, <1>2, <1>4, Hears DEF Still, IsAnnounced, IsOpened, IsSent

\* Reads and sends keep the order.
LEMMA ChatsInOrderStep ==
  ASSUME TypeOK, TypeOK', JoinInv, [Next]_vars, NEW q \in Conns, ChatsInOrder(q)
  PROVE  ChatsInOrder(q)'
<1> DEFINE s == ToldIds(q)
           t == UpIds(q)
           k == Said(q)
           s1 == ToldIds(q)'
           t1 == UpIds(q)'
           k1 == Said(q)'
<1>0. /\ up[q] \in Seq(Sayings) /\ to_application[q] \in Seq(Sayings)
      /\ s \in Seq(Nat) /\ t \in Seq(Nat) /\ k \in Nat
      /\ Len(t) = Len(up[q])
  BY SaidTyped DEF SaidOK
<1>1. s1 \in Seq(Nat) /\ t1 \in Seq(Nat) /\ k1 \in Nat
  <2>1. (TypeOK => SaidOK)'
    BY SaidTyped, PTL
  <2>2. QED BY <2>1 DEF SaidOK
<1>2. /\ s1 = Image(SaidId, to_application'[q]) /\ t1 = Image(SaidId, up'[q])
      /\ s = Image(SaidId, to_application[q]) /\ t = Image(SaidId, up[q])
  BY DEF ToldIds, UpIds
<1>3. k1 \in {k, k + 1} /\ k <= k1
  <2>1. q \in Peers => peer_sent'[q] \in {peer_sent[q], peer_sent[q] + 1}
    BY Hears
  <2>2. k1 = (IF q \in Peers THEN peer_sent'[q] ELSE 0) /\ k = (IF q \in Peers THEN peer_sent[q] ELSE 0)
    BY DEF Said
  <2>3. QED BY <1>0, <2>1, <2>2
<1>4. Ordered(s) /\ Ordered(t) /\ Below(s, t) /\ Within(s, k) /\ Within(t, k)
  BY DEF ChatsInOrder
<1>5. /\ ChatsInOrder(q)' <=> /\ Ordered(s1) /\ Ordered(t1) /\ Below(s1, t1)
                              /\ Within(s1, k1) /\ Within(t1, k1)
  BY DEF ChatsInOrder, Ordered, Below, Within
<1>6. /\ Still(q) => s1 = s /\ t1 = t
      /\ IsAnnounced(q) => s1 = Append(s, 0) /\ t1 = t
  <2>1. Image(SaidId, Append(to_application[q], ClientData)) = Append(s, SaidId[ClientData])
    BY <1>0, <1>2, SaidIdTyped, SaidAppend
  <2>2. QED BY <1>2, <2>1, SaidIdTyped DEF Still, IsAnnounced
<1>7. IsRead(q) => \E n \in 1..Len(t) :
                      /\ t1 = SubSeq(t, n + 1, Len(t))
                      /\ s1 = s \/ (t[1] # 0 /\ s1 = Append(s, t[1]))
  <2> HAVE IsRead(q)
  <2>1. PICK n \in 1..Len(up[q]) : up'[q] = SubSeq(up[q], n + 1, Len(up[q]))
    BY DEF IsRead
  <2>2. n \in 0..Len(up[q]) /\ 1 \in DOMAIN up[q] /\ up[q][1] \in Sayings
    BY <1>0, <2>1
  <2>3. t1 = SubSeq(t, n + 1, Len(t))
    BY <1>0, <1>2, <2>1, <2>2, SaidRest
  <2>4. t[1] = SaidId[up[q][1]] /\ SaidId[up[q][1]] = up[q][1].id
    BY <1>2, <2>2 DEF Image, SaidId
  <2>5. Image(SaidId, Append(to_application[q], up[q][1])) = Append(s, t[1])
    BY <1>0, <1>2, <2>2, <2>4, SaidAppend
  <2>6. s1 = s \/ (t[1] # 0 /\ s1 = Append(s, t[1]))
    BY <1>2, <2>4, <2>5 DEF IsRead
  <2>7. QED BY <1>0, <2>3, <2>6
<1>8. IsOpened(q) => s1 = s /\ \A i \in DOMAIN t1 : t1[i] = 0
  <2> HAVE IsOpened(q)
  <2>1. \A i \in DOMAIN up'[q] : up'[q][i] = JoinRequest
    BY DEF IsOpened
  <2>2. QED BY <1>2, <2>1, SaidIdTyped DEF IsOpened, Image
<1>9. IsSent(q) => s1 = s /\ k1 = k + 1 /\ (t1 = Append(t, 0) \/ t1 = Append(t, k1))
  <2> HAVE IsSent(q)
  <2>1. k1 = peer_sent'[q] /\ k = peer_sent[q] /\ k1 = k + 1
    BY DEF IsSent, Said
  <2>2. k1 \in 1..MaxUp
    BY <1>0, <2>1, StreamsAssumption DEF TypeOK, IsSent
  <2>3. PICK m \in {JoinRequest, ClientChat(k1)} : up'[q] = Append(up[q], m)
    BY <2>1 DEF IsSent
  <2>4. m \in Sayings /\ SaidId[m] \in {0, k1}
    BY <2>2, <2>3, SaidIdTyped
  <2>5. t1 = Append(t, SaidId[m])
    BY <1>0, <1>2, <2>3, <2>4, SaidAppend
  <2>6. s1 = s
    BY <1>2 DEF IsSent
  <2>7. QED BY <2>1, <2>4, <2>5, <2>6
<1> HIDE DEF s, t, k, s1, t1, k1
<1>10. Within(s, k1) /\ Within(t, k1)
  BY <1>0, <1>1, <1>3, <1>4, WithinMore
<1>11. CASE Still(q)
  BY <1>4, <1>5, <1>6, <1>10, <1>11
<1>12. CASE IsAnnounced(q)
  <2>1. s1 = Append(s, 0) /\ t1 = t /\ 0 \in Nat
    BY <1>6, <1>12
  <2>2. Ordered(s1)
    BY <1>0, <1>4, <2>1, OneMore
  <2>3. Below(s1, t1)
    BY <1>0, <1>4, <2>1, OneMore
  <2>4. Within(s1, k1)
    BY <1>0, <1>1, <1>10, <2>1, OneMore
  <2>5. QED BY <1>4, <1>5, <1>10, <2>1, <2>2, <2>3, <2>4
<1>13. CASE IsRead(q)
  <2>1. PICK n \in 1..Len(t) : /\ t1 = SubSeq(t, n + 1, Len(t))
                               /\ s1 = s \/ (t[1] # 0 /\ s1 = Append(s, t[1]))
    BY <1>7, <1>13
  <2>2. n \in 0..Len(t)
    BY <2>1
  <2>3. Ordered(t1) /\ Within(t1, k1) /\ Below(s, t1)
    BY <1>0, <1>1, <1>4, <1>10, <2>1, <2>2, Fewer
  <2>4. CASE s1 = s
    BY <1>4, <1>5, <1>10, <2>3, <2>4
  <2>5. CASE t[1] # 0 /\ s1 = Append(s, t[1])
    <3>1. Ordered(s1) /\ Below(s1, t1)
      BY <1>0, <1>4, <2>1, <2>5, Passes
    <3>2. Within(s1, k1)
      <4>1. 1 \in DOMAIN t /\ t[1] \in Nat /\ t[1] <= k1
        BY <1>0, <1>10, <2>1 DEF Within
      <4>2. QED BY <1>0, <1>1, <1>10, <2>5, <4>1, OneMore
    <3>3. QED BY <1>5, <2>3, <2>5, <3>1, <3>2
  <2>6. QED BY <2>1, <2>4, <2>5
<1>14. CASE IsOpened(q)
  <2>1. Ordered(t1) /\ Below(s, t1) /\ Within(t1, k1)
    BY <1>1, <1>8, <1>14 DEF Ordered, Below, Within
  <2>2. QED BY <1>4, <1>5, <1>8, <1>10, <1>14, <2>1
<1>15. CASE IsSent(q)
  <2>1. PICK e \in Nat : /\ t1 = Append(t, e) /\ s1 = s /\ e <= k1
                         /\ e = 0 \/ (e = k + 1)
    BY <1>0, <1>1, <1>9, <1>15
  <2>2. e = 0 \/ ((\A i \in DOMAIN t : t[i] < e) /\ \A i \in DOMAIN s : s[i] < e)
    BY <1>0, <1>4, <2>1 DEF Within
  <2>3. Ordered(t1) /\ Below(s, t1) /\ Within(t1, k1)
    BY <1>0, <1>1, <1>4, <1>10, <2>1, <2>2, OneMore
  <2>4. QED BY <1>4, <1>5, <1>10, <2>1, <2>3
<1>16. QED BY <1>11, <1>12, <1>13, <1>14, <1>15, Hears

\* The invariant about what connections say, in every reachable state.
LEMMA ChatsInvariant == Spec => []Chats
<1>1. Init => Chats
  <2> SUFFICES ASSUME Init, NEW p \in Conns PROVE AnnouncedFirst(p) /\ ChatsInOrder(p)
    BY DEF Chats
  <2>1. up[p] = << >> /\ to_application[p] = << >>
    BY DEF Init, StreamsInit, ServerInit
  <2>2. DOMAIN up[p] = {} /\ DOMAIN to_application[p] = {}
    BY <2>1
  <2>3. QED BY <2>2 DEF AnnouncedFirst, ChatsInOrder, Ordered, Below, Within, UpIds, ToldIds, Image
<1>2. TypeOK /\ TypeOK' /\ JoinInv /\ Chats /\ [Next]_vars => Chats'
  <2> SUFFICES ASSUME TypeOK, TypeOK', JoinInv, Chats, [Next]_vars, NEW q \in Conns
               PROVE  AnnouncedFirst(q)' /\ ChatsInOrder(q)'
    BY DEF Chats
  <2>1. AnnouncedFirst(q) /\ ChatsInOrder(q)
    BY DEF Chats
  <2>2. QED BY <2>1, AnnouncedStep, ChatsInOrderStep
<1>3. QED BY <1>1, <1>2, JoinInvariant, PTL DEF Spec

(***************************************************************************)
(* The server's application is told of a client once and first, then of    *)
(* its chat messages in the order in which they were sent, however many    *)
(* messages a read takes and whatever peers send.                          *)
(***************************************************************************)
THEOREM JoinComesFirstThenChats == Spec => []JoinThenChats
<1>1. TypeOK /\ Chats => JoinThenChats
  <2> SUFFICES ASSUME TypeOK, Chats, NEW p \in Conns, NEW i \in DOMAIN to_application[p]
               PROVE  /\ (to_application[p][i] = ClientData) <=> (i = 1)
                      /\ i > 1 => to_application[p][i - 1].id < to_application[p][i].id
    BY DEF JoinThenChats
  <2>1. AnnouncedFirst(p) /\ Ordered(ToldIds(p))
    BY DEF Chats, ChatsInOrder
  <2>2. ASSUME i > 1 PROVE to_application[p][i - 1].id < to_application[p][i].id
    <3>1. to_application[p] \in Seq(Sayings)
      BY SaidTyped DEF SaidOK
    <3>2. i \in Nat /\ i - 1 \in DOMAIN to_application[p] /\ i - 1 < i
      BY <2>2, <3>1
    <3>3. /\ DOMAIN ToldIds(p) = DOMAIN to_application[p]
          /\ ToldIds(p)[i] = to_application[p][i].id
          /\ ToldIds(p)[i - 1] = to_application[p][i - 1].id
      <4>1. to_application[p][i] \in Sayings /\ to_application[p][i - 1] \in Sayings
        BY <3>1, <3>2
      <4>2. QED BY <3>2, <4>1 DEF ToldIds, Image, SaidId
    <3>4. to_application[p][i].id # 0
      BY <2>1, <2>2 DEF AnnouncedFirst
    <3>5. QED BY <2>1, <3>2, <3>3, <3>4 DEF Ordered
  <2>3. QED BY <2>1, <2>2 DEF AnnouncedFirst
<1>2. QED BY <1>1, ChatsInvariant, JoinInvariant, PTL

-----------------------------------------------------------------------------
(***************************************************************************)
(* What one step may do to the way of the application's messages to        *)
(* connection p: nothing; the queue loses a message to another servicer or *)
(* gets one; p's servicer drains one, discards its batch, forwards or      *)
(* skips one, or confirms a join; the client reads; its application takes  *)
(* the chat messages, or they are dropped.                                 *)
(***************************************************************************)
ClientSame(p) == p \in Clients => taken'[p] = taken[p] /\ chat_in'[p] = chat_in[p]

ServerSame(p) == batch'[p] = batch[p] /\ queue' = queue /\ sent' = sent

WayStays(p) == ClientSame(p) /\ down'[p] = down[p] /\ ServerSame(p)

QueueLoses(p) ==
  /\ ClientSame(p) /\ down'[p] = down[p] /\ batch'[p] = batch[p] /\ sent' = sent
  /\ queue # << >> /\ queue' = Tail(queue)

QueueGets(p) ==
  /\ ClientSame(p) /\ down'[p] = down[p] /\ batch'[p] = batch[p]
  /\ \E m \in Addressed : /\ m.payload.id = Len(sent) + 1
                          /\ queue' = Append(queue, m) /\ sent' = Append(sent, m.to)

Drains(p) ==
  /\ ClientSame(p) /\ down'[p] = down[p] /\ sent' = sent /\ queue # << >>
  /\ batch'[p] = Append(batch[p], Head(queue)) /\ queue' = Tail(queue)

Discards(p) ==
  /\ ClientSame(p) /\ down'[p] = down[p] /\ batch'[p] = << >> /\ queue' = queue /\ sent' = sent

PassesOn(p) ==
  /\ ClientSame(p) /\ queue' = queue /\ sent' = sent /\ batch[p] # << >>
  /\ batch'[p] = Tail(batch[p])
  /\ \/ down'[p] = down[p]
     \/ /\ Head(batch[p]).to = UserOf[p]
        /\ down'[p] = Append(down[p], Head(batch[p]).payload)

AnswersJoin(p) ==
  ClientSame(p) /\ down'[p] = Append(down[p], Confirmation(0)) /\ ServerSame(p)

ReadsOne(p) ==
  /\ p \in Clients /\ taken'[p] = taken[p] /\ ServerSame(p)
  /\ \E n \in 1..Len(down[p]) : down'[p] = SubSeq(down[p], n + 1, Len(down[p]))
  /\ \/ chat_in'[p] = chat_in[p]
     \/ down[p][1].id # 0 /\ chat_in'[p] = Append(chat_in[p], down[p][1].id)

TakesAll(p) ==
  /\ p \in Clients /\ down'[p] = down[p] /\ ServerSame(p) /\ chat_in'[p] = << >>
  /\ taken'[p] = taken[p] \/ taken'[p] = taken[p] \o chat_in[p]

OnTheWay(p) ==
  \/ WayStays(p) \/ QueueLoses(p) \/ QueueGets(p) \/ Drains(p) \/ Discards(p)
  \/ PassesOn(p) \/ AnswersJoin(p) \/ ReadsOne(p) \/ TakesAll(p)

\* What a read by a client does to the stream.
LEMMA ReadDownTakes ==
  ASSUME TypeOK, NEW p \in Conns, NEW m, ReadDown(p, m)
  PROVE  /\ m = down[p][1]
         /\ \E n \in 1..Len(down[p]) : down' = [down EXCEPT ![p] = SubSeq(down[p], n + 1, Len(down[p]))]
<1>1. PICK n \in 1..buf_len :
         /\ n <= Len(down[p]) /\ m = down[p][1]
         /\ down' = [down EXCEPT ![p] = SubSeq(down[p], n + 1, Len(down[p]))]
  BY DEF ReadDown
<1>2. buf_len \in Nat /\ down[p] \in Seq(ServerMessages)
  BY StreamsAssumption DEF TypeOK
<1>3. n \in 1..Len(down[p])
  BY <1>1, <1>2
<1>4. QED BY <1>1, <1>3

\* The steps of a client.
LEMMA ClientOnTheWay ==
  ASSUME TypeOK, NEW p \in Clients, ClientActs(p), NEW q \in Conns
  PROVE  OnTheWay(q)
<1>0. /\ p \in Conns /\ UNCHANGED <<batch, queue, sent>>
      /\ chat_in \in [Clients -> Seq(Ids)] /\ taken \in [Clients -> Seq(Ids)]
      /\ down \in [Conns -> Seq(ServerMessages)]
  BY DEF TypeOK, Conns, ClientActs, ClientReads, ClientRuns, ClientStep, serverVars, applicationVars
<1>1. CASE q # p
  <2>1. WritesNothing(q) /\ (q \in Clients => ClientRests(q))
    BY <1>1, ClientTouches
  <2>2. QED BY <1>0, <2>1 DEF WritesNothing, ClientRests, OnTheWay, WayStays, ClientSame, ServerSame
<1>2. CASE UNCHANGED <<down, chat_in, taken>>
  BY <1>0, <1>2 DEF OnTheWay, WayStays, ClientSame, ServerSame
<1>3. CASE q = p /\ (ReceiveConfirmation(p) \/ ReceiveAuthenticationError(p))
  <2>1. (\E m : ReadDown(p, m)) /\ UNCHANGED <<chat_in, taken>>
    BY <1>3 DEF ReceiveConfirmation, ReceiveAuthenticationError
  <2>2. PICK n \in 1..Len(down[p]) : down' = [down EXCEPT ![p] = SubSeq(down[p], n + 1, Len(down[p]))]
    BY <1>0, <2>1, ReadDownTakes
  <2>3. QED BY <1>0, <1>3, <2>1, <2>2 DEF OnTheWay, ReadsOne, ServerSame
<1>4. CASE q = p /\ ReceiveChat(p)
  <2>1. PICK id \in 1..MaxSent : ReadDown(p, ServerChat(id)) /\
           (UNCHANGED chat_in \/ chat_in' = [chat_in EXCEPT ![p] = Append(chat_in[p], id)])
    BY <1>4 DEF ReceiveChat
  <2>2. /\ ServerChat(id) = down[p][1]
        /\ \E n \in 1..Len(down[p]) : down' = [down EXCEPT ![p] = SubSeq(down[p], n + 1, Len(down[p]))]
    BY <1>0, <2>1, ReadDownTakes
  <2>3. down[p][1].id = id /\ id # 0
    BY <2>1, <2>2, StreamsAssumption DEF ServerChat
  <2>4. taken' = taken
    BY <1>4 DEF ReceiveChat
  <2>5. chat_in'[p] = chat_in[p] \/ chat_in'[p] = Append(chat_in[p], id)
    BY <1>0, <2>1
  <2>6. \E n \in 1..Len(down[p]) : down'[p] = SubSeq(down[p], n + 1, Len(down[p]))
    BY <1>0, <2>2
  <2>7. QED BY <1>0, <1>4, <2>3, <2>4, <2>5, <2>6 DEF OnTheWay, ReadsOne, ServerSame
<1>5. CASE q = p /\ (TakeChatHistory(p) \/ Quit(p) \/ ClientProcessEnds(p))
  <2>1. /\ UNCHANGED down
        /\ chat_in' = [chat_in EXCEPT ![p] = << >>]
        /\ UNCHANGED taken \/ taken' = [taken EXCEPT ![p] = taken[p] \o chat_in[p]]
    BY <1>5 DEF TakeChatHistory, Quit, ClientProcessEnds, CloseClientEnd, streamVars
  <2>2. chat_in'[p] = << >> /\ (taken'[p] = taken[p] \/ taken'[p] = taken[p] \o chat_in[p])
    BY <1>0, <2>1
  <2>3. QED BY <1>0, <1>5, <2>1, <2>2 DEF OnTheWay, TakesAll, ServerSame
<1>6. CASE \/ ReceiveNothing(p) \/ Rest(p) \/ DropServicer(p) \/ SpawnServicers(p)
           \/ Connect(p) \/ ConnectFails(p) \/ SendChatMessage(p) \/ LowLatencyShutdown(p)
  <2>1. UNCHANGED <<down, chat_in, taken>>
    BY <1>6 DEF ReceiveNothing, Rest, DropServicer, SpawnServicers, Connect, OpenAndWrite,
                ConnectFails, SendChatMessage, LowLatencyShutdown, CloseClientEnd, streamVars
  <2>2. QED BY <1>2, <2>1
<1>7. QED BY <1>1, <1>3, <1>4, <1>5, <1>6
          DEF ClientActs, ClientReads, ClientRuns, ClientStep, ReceiveServerMessage, ReliableClientApp

\* The steps of a servicer; a batch is touched by its own servicer only.
LEMMA ServicerOnTheWay ==
  ASSUME TypeOK, NEW p \in Conns, ServicerRuns(p) \/ ServicerReads(p),
         UNCHANGED <<chat_in, taken>>, NEW q \in Conns
  PROVE  OnTheWay(q) /\ (q # p => batch'[q] = batch[q])
<1>0. /\ batch \in [Conns -> Seq(Addressed)] /\ down \in [Conns -> Seq(ServerMessages)]
      /\ ClientSame(q)
  BY DEF TypeOK, ClientSame
<1>1. CASE UNCHANGED <<down, batch, queue, sent>>
  BY <1>0, <1>1 DEF OnTheWay, WayStays, ServerSame
<1>2. CASE ConfirmJoin(p)
  <2>1. /\ down' = [down EXCEPT ![p] = Append(down[p], Confirmation(0))]
        /\ UNCHANGED <<batch, queue, sent>>
    BY <1>2 DEF ConfirmJoin, WriteDown, ServicerOnlyGoes, applicationVars
  <2>2. CASE q = p
    BY <1>0, <2>1, <2>2 DEF OnTheWay, AnswersJoin, ServerSame
  <2>3. CASE q # p
    BY <1>0, <2>1, <2>3 DEF OnTheWay, WayStays, ServerSame
  <2>4. QED BY <2>2, <2>3
<1>3. CASE DrainOne(p)
  <2>1. /\ queue # << >> /\ batch' = [batch EXCEPT ![p] = Append(batch[p], Head(queue))]
        /\ queue' = Tail(queue) /\ UNCHANGED <<down, sent>>
    BY <1>3 DEF DrainOne, applicationVars, streamVars
  <2>2. CASE q = p
    BY <1>0, <2>1, <2>2 DEF OnTheWay, Drains
  <2>3. CASE q # p
    BY <1>0, <2>1, <2>3 DEF OnTheWay, QueueLoses
  <2>4. QED BY <2>2, <2>3
<1>4. CASE batch' = [batch EXCEPT ![p] = << >>] /\ UNCHANGED <<down, queue, sent>>
  <2>1. CASE q = p
    BY <1>0, <1>4, <2>1 DEF OnTheWay, Discards
  <2>2. CASE q # p
    BY <1>0, <1>4, <2>2 DEF OnTheWay, WayStays, ServerSame
  <2>3. QED BY <2>1, <2>2
<1>5. CASE Forward(p)
  <2>1. /\ batch[p] # << >> /\ batch' = [batch EXCEPT ![p] = Tail(batch[p])]
        /\ UNCHANGED <<queue, sent>>
        /\ \/ UNCHANGED down
           \/ /\ Head(batch[p]).to = UserOf[p]
              /\ down' = [down EXCEPT ![p] = Append(down[p], Head(batch[p]).payload)]
    BY <1>5 DEF Forward, WriteDown, IsForUser, applicationVars, streamVars
  <2>2. CASE q = p
    BY <1>0, <2>1, <2>2 DEF OnTheWay, PassesOn
  <2>3. CASE q # p
    BY <1>0, <2>1, <2>3 DEF OnTheWay, WayStays, ServerSame
  <2>4. QED BY <2>2, <2>3
<1>6. CASE DrainEnds(p) \/ ForwardFails(p)
  <2>1. /\ UNCHANGED <<down, queue, sent>>
        /\ UNCHANGED batch \/ batch' = [batch EXCEPT ![p] = << >>]
    BY <1>6 DEF DrainEnds, ForwardFails, applicationVars, streamVars
  <2>2. QED BY <1>1, <1>4, <2>1
<1>7. CASE EndServicer(p)
  BY <1>4, <1>7 DEF EndServicer, CloseServerEnds, applicationVars
<1>8. CASE /\ ~EndServicer(p)
           /\ \/ AnnounceClient(p) \/ ForwardEnds(p) \/ CheckSwitch(p) \/ JoinFails(p)
              \/ ReadJoinRequest(p) \/ ReadNothing(p) \/ ReadChat(p) \/ RejectRejoin(p)
  <2>1. UNCHANGED <<down, batch, queue, sent>>
    BY <1>8 DEF AnnounceClient, ForwardEnds, CheckSwitch, JoinFails, ReadJoinRequest, ReadNothing,
                ReadChat, RejectRejoin, ReadUp, ServicerOnlyGoes, applicationVars, streamVars
  <2>2. QED BY <1>1, <2>1
<1>9. QED BY <1>2, <1>3, <1>5, <1>6, <1>7, <1>8 DEF ServicerRuns, ServicerReads

\* A message the application sends is numbered and addressed.
LEMMA SendOnTheWay ==
  ASSUME TypeOK, NEW user \in User, NEW kind \in AppKinds, SendReliable(user, kind),
         UNCHANGED <<chat_in, taken>>, NEW q \in Conns
  PROVE  OnTheWay(q) /\ UNCHANGED batch
<1>0. ClientSame(q) /\ UNCHANGED <<batch, down>>
  BY DEF ClientSame, SendReliable, streamVars
<1>1. CASE UNCHANGED <<queue, sent>>
  BY <1>0, <1>1 DEF OnTheWay, WayStays, ServerSame
<1>2. CASE ~UNCHANGED <<queue, sent>>
  <2> DEFINE m == ToClient(user, [type |-> kind, id |-> Len(sent) + 1])
  <2>1. Len(sent) < MaxSent /\ sent' = Append(sent, user) /\ queue' = Append(queue, m)
    BY <1>2 DEF SendReliable
  <2>2. Len(sent) + 1 \in Ids
    <3>1. Len(sent) \in Nat
      BY DEF TypeOK
    <3>2. QED BY <2>1, <3>1, StreamsAssumption DEF Ids
  <2>3. m \in Addressed
    BY <2>2, ServerAssumption DEF ToClient, Addressed, ServerMessages
  <2>4. m.to = user /\ m.payload.id = Len(sent) + 1
    BY DEF ToClient
  <2> HIDE DEF m
  <2>5. QED BY <1>0, <2>1, <2>3, <2>4 DEF OnTheWay, QueueGets
<1>3. QED BY <1>0, <1>1, <1>2

\* Every step, seen from the way to one connection.
LEMMA WaySteps ==
  ASSUME TypeOK, [Next]_vars, NEW q \in Conns
  PROVE  OnTheWay(q)
<1>1. CASE UNCHANGED <<down, batch, queue, sent, chat_in, taken>>
  BY <1>1 DEF OnTheWay, WayStays, ServerSame, ClientSame
<1>2. ASSUME NEW p \in Peers, PeerStep(p) PROVE OnTheWay(q)
  BY <1>1, <1>2 DEF PeerStep, PeerConnects, PeerSends, PeerLeaves, OpenAndWrite, WriteUp, CloseClientEnd,
              serverVars, applicationVars, reliableVars
<1>3. ASSUME ClientsSame PROVE UNCHANGED <<chat_in, taken>>
  BY <1>3 DEF ClientsSame, reliableVars
<1>4. ASSUME ClientsSame, Listener \/ ServerGoes \/ QuitStores \/ DropReceiver PROVE OnTheWay(q)
  <2>1. UNCHANGED <<down, batch, queue, sent>>
    BY <1>4 DEF Listener, ListenerStarts, AcceptFails, ListenerChecks, ListenerFails, ListenerJoins,
                Accept, ListenerTo, CloseServerEnds, ServerGoes, QuitDropsSender, QuitDropsReceiver,
                DropSender, QuitStores, DropReceiver, AppTo, applicationVars, streamVars
  <2>2. QED BY <1>1, <1>3, <1>4, <2>1
<1>5. CASE UNCHANGED vars
  BY <1>1, <1>5 DEF vars, streamVars, serverVars, applicationVars, reliableVars
<1>6. QED BY <1>2, <1>3, <1>4, <1>5, ClientOnTheWay, ServicerOnTheWay, SendOnTheWay DEF Next, ClientActs

\* One step touches one servicer's batch at most.
LEMMA OneBatch ==
  ASSUME TypeOK, [Next]_vars, NEW p \in Conns, NEW q \in Conns, p # q
  PROVE  batch'[p] = batch[p] \/ batch'[q] = batch[q]
<1>1. ASSUME NEW r \in Conns, ServicerRuns(r) \/ ServicerReads(r), ClientsSame
      PROVE  batch'[p] = batch[p] \/ batch'[q] = batch[q]
  <2>1. UNCHANGED <<chat_in, taken>>
    BY <1>1 DEF ClientsSame, reliableVars
  <2>2. \A o \in Conns : o # r => batch'[o] = batch[o]
    BY <1>1, <2>1, ServicerOnTheWay
  <2>3. QED BY <2>2
<1>2. ASSUME NEW r \in Clients, ClientActs(r) PROVE UNCHANGED batch
  BY <1>2 DEF ClientActs, ClientReads, ClientRuns, ClientStep, serverVars
<1>3. ASSUME NEW r \in Peers, PeerStep(r) PROVE UNCHANGED batch
  BY <1>3 DEF PeerStep, serverVars
<1>4. ASSUME \/ Listener \/ ServerGoes \/ QuitStores \/ DropReceiver
             \/ \E user \in User, kind \in AppKinds : SendReliable(user, kind)
      PROVE  UNCHANGED batch
  BY <1>4 DEF Listener, ListenerStarts, AcceptFails, ListenerChecks, ListenerFails, ListenerJoins,
              Accept, ListenerTo, ServerGoes, QuitDropsSender, QuitDropsReceiver,
              DropSender, QuitStores, DropReceiver, AppTo, SendReliable
<1>5. CASE UNCHANGED vars
  BY <1>5 DEF vars, serverVars
<1>6. QED BY <1>1, <1>2, <1>3, <1>4, <1>5 DEF Next, ClientActs

-----------------------------------------------------------------------------
(***************************************************************************)
(* The stations on the way of messages to a connection: g, what its        *)
(* application was given; w, what waits in its queue; d, the stream; b,    *)
(* the batch; q, the server's queue.  They are in line when each is in     *)
(* order, each is below the ones after it, and no number exceeds n.        *)
(***************************************************************************)
InLine(g, w, d, b, q, n) ==
  /\ Ordered(g) /\ Ordered(w) /\ Ordered(d) /\ Ordered(b) /\ Ordered(q)
  /\ Below(g, w) /\ Below(g, d) /\ Below(g, b) /\ Below(g, q)
  /\ Below(w, d) /\ Below(w, b) /\ Below(w, q)
  /\ Below(d, b) /\ Below(d, q) /\ Below(b, q)
  /\ Within(g, n) /\ Within(w, n) /\ Within(d, n) /\ Within(b, n) /\ Within(q, n)

\* Stations that are in line are in order as one sequence.
LEMMA LineIsOrdered ==
  ASSUME NEW g \in Seq(Nat), NEW w \in Seq(Nat), NEW d \in Seq(Nat), NEW b \in Seq(Nat),
         NEW q \in Seq(Nat), NEW n \in Nat, InLine(g, w, d, b, q, n)
  PROVE  Ordered((((g \o w) \o d) \o b) \o q)
<1>0. /\ Ordered(g) /\ Ordered(w) /\ Ordered(d) /\ Ordered(b) /\ Ordered(q)
      /\ Below(g, w) /\ Below(g, d) /\ Below(g, b) /\ Below(g, q)
      /\ Below(w, d) /\ Below(w, b) /\ Below(w, q)
      /\ Below(d, b) /\ Below(d, q) /\ Below(b, q)
  BY DEF InLine
<1> DEFINE gw == g \o w
<1>1. gw \in Seq(Nat) /\ Ordered(gw) /\ Below(gw, d) /\ Below(gw, b) /\ Below(gw, q)
  BY <1>0, ConcatElements, ConcatOrdered, ConcatBelow
<1> HIDE DEF gw
<1> DEFINE gwd == gw \o d
<1>2. gwd \in Seq(Nat) /\ Ordered(gwd) /\ Below(gwd, b) /\ Below(gwd, q)
  BY <1>0, <1>1, ConcatElements, ConcatOrdered, ConcatBelow
<1> HIDE DEF gwd
<1> DEFINE gwdb == gwd \o b
<1>3. gwdb \in Seq(Nat) /\ Ordered(gwdb) /\ Below(gwdb, q)
  BY <1>0, <1>2, ConcatElements, ConcatOrdered, ConcatBelow
<1> HIDE DEF gwdb
<1>4. Ordered(gwdb \o q)
  BY <1>0, <1>3, ConcatOrdered
<1>5. QED BY <1>4 DEF gw, gwd, gwdb

\* Messages that leave a station leave the others in line.
LEMMA LineQueueLoses ==
  ASSUME NEW g \in Seq(Nat), NEW w \in Seq(Nat), NEW d \in Seq(Nat), NEW b \in Seq(Nat),
         NEW q \in Seq(Nat), NEW n \in Nat, InLine(g, w, d, b, q, n),
         NEW k \in 0..Len(q), NEW r \in Seq(Nat), r = SubSeq(q, k + 1, Len(q))
  PROVE  InLine(g, w, d, b, r, n)
<1>1. Part(r, q)
  BY RestIsPart
<1>2. Ordered(q) => Ordered(r)
  BY Fewer
<1>3. Below(g, q) => Below(g, r)
  BY <1>1, PartStays
<1>4. Below(w, q) => Below(w, r)
  BY <1>1, PartStays
<1>5. Below(d, q) => Below(d, r)
  BY <1>1, PartStays
<1>6. Below(b, q) => Below(b, r)
  BY <1>1, PartStays
<1>7. Within(q, n) => Within(r, n)
  BY <1>1, PartStays
<1>8. QED BY <1>2, <1>3, <1>4, <1>5, <1>6, <1>7 DEF InLine

\* From the batch.
LEMMA LineBatchLoses ==
  ASSUME NEW g \in Seq(Nat), NEW w \in Seq(Nat), NEW d \in Seq(Nat), NEW b \in Seq(Nat),
         NEW q \in Seq(Nat), NEW n \in Nat, InLine(g, w, d, b, q, n),
         NEW k \in 0..Len(b), NEW r \in Seq(Nat), r = << >> \/ r = SubSeq(b, k + 1, Len(b))
  PROVE  InLine(g, w, d, r, q, n)
<1>1. Part(r, b)
  BY RestIsPart
<1>2. Ordered(b) => Ordered(r)
  BY Fewer
<1>3. Below(g, b) => Below(g, r)
  BY <1>1, PartStays
<1>4. Below(w, b) => Below(w, r)
  BY <1>1, PartStays
<1>5. Below(d, b) => Below(d, r)
  BY <1>1, PartStays
<1>6. Below(b, q) => Below(r, q)
  BY <1>1, PartStays
<1>7. Within(b, n) => Within(r, n)
  BY <1>1, PartStays
<1>8. QED BY <1>2, <1>3, <1>4, <1>5, <1>6, <1>7 DEF InLine

\* From the stream.
LEMMA LineStreamLoses ==
  ASSUME NEW g \in Seq(Nat), NEW w \in Seq(Nat), NEW d \in Seq(Nat), NEW b \in Seq(Nat),
         NEW q \in Seq(Nat), NEW n \in Nat, InLine(g, w, d, b, q, n),
         NEW k \in 0..Len(d), NEW r \in Seq(Nat), r = SubSeq(d, k + 1, Len(d))
  PROVE  InLine(g, w, r, b, q, n)
<1>1. Part(r, d)
  BY RestIsPart
<1>2. Ordered(d) => Ordered(r)
  BY Fewer
<1>3. Below(g, d) => Below(g, r)
  BY <1>1, PartStays
<1>4. Below(w, d) => Below(w, r)
  BY <1>1, PartStays
<1>5. Below(d, b) => Below(r, b)
  BY <1>1, PartStays
<1>6. Below(d, q) => Below(r, q)
  BY <1>1, PartStays
<1>7. Within(d, n) => Within(r, n)
  BY <1>1, PartStays
<1>8. QED BY <1>2, <1>3, <1>4, <1>5, <1>6, <1>7 DEF InLine

\* From the client's queue.
LEMMA LineWaitingLoses ==
  ASSUME NEW g \in Seq(Nat), NEW w \in Seq(Nat), NEW d \in Seq(Nat), NEW b \in Seq(Nat),
         NEW q \in Seq(Nat), NEW n \in Nat, InLine(g, w, d, b, q, n),
         NEW r \in Seq(Nat), r = << >>
  PROVE  InLine(g, r, d, b, q, n)
<1>0. 0 \in 0..Len(w)
  OBVIOUS
<1>1. /\ Ordered(w) => Ordered(r)
      /\ Below(g, w) => Below(g, r)
      /\ Below(w, d) => Below(r, d)
      /\ Below(w, b) => Below(r, b)
      /\ Below(w, q) => Below(r, q)
      /\ Within(w, n) => Within(r, n)
  BY <1>0, Fewer
<1>2. QED BY <1>1 DEF InLine

\* A servicer drains a message.
LEMMA LineDrains ==
  ASSUME NEW g \in Seq(Nat), NEW w \in Seq(Nat), NEW d \in Seq(Nat), NEW b \in Seq(Nat),
         NEW q \in Seq(Nat), NEW n \in Nat, InLine(g, w, d, b, q, n),
         1 \in 1..Len(q), q[1] # 0, NEW r \in Seq(Nat), r = SubSeq(q, 1 + 1, Len(q)),
         NEW c \in Seq(Nat), c = Append(b, q[1])
  PROVE  InLine(g, w, d, c, r, n)
<1>0. 1 \in 0..Len(q) /\ 1 \in DOMAIN q
  OBVIOUS
<1>1. InLine(g, w, d, b, r, n)
  BY <1>0, LineQueueLoses
<1>2. Ordered(c) /\ Below(c, r)
  BY Passes DEF InLine
<1>3. /\ Below(g, b) /\ Below(g, q) => Below(g, c)
      /\ Below(w, b) /\ Below(w, q) => Below(w, c)
      /\ Below(d, b) /\ Below(d, q) => Below(d, c)
      /\ Within(b, n) /\ Within(q, n) => Within(c, n)
  BY <1>0, PassesOthers
<1>4. QED BY <1>1, <1>2, <1>3 DEF InLine

\* A servicer writes a message of its batch.
LEMMA LineForwards ==
  ASSUME NEW g \in Seq(Nat), NEW w \in Seq(Nat), NEW d \in Seq(Nat), NEW b \in Seq(Nat),
         NEW q \in Seq(Nat), NEW n \in Nat, InLine(g, w, d, b, q, n),
         1 \in 1..Len(b), b[1] # 0, NEW r \in Seq(Nat), r = SubSeq(b, 1 + 1, Len(b)),
         NEW c \in Seq(Nat), c = Append(d, b[1])
  PROVE  InLine(g, w, c, r, q, n)
<1>0. 1 \in 0..Len(b) /\ 1 \in DOMAIN b
  OBVIOUS
<1>1. InLine(g, w, d, r, q, n)
  BY <1>0, LineBatchLoses
<1>2. Ordered(c) /\ Below(c, r)
  BY Passes DEF InLine
<1>3. /\ Below(g, d) /\ Below(g, b) => Below(g, c)
      /\ Below(w, d) /\ Below(w, b) => Below(w, c)
      /\ Below(d, q) /\ Below(b, q) => Below(c, q)
      /\ Within(d, n) /\ Within(b, n) => Within(c, n)
  BY <1>0, PassesOthers
<1>4. QED BY <1>1, <1>2, <1>3 DEF InLine

\* A client reads a message for its application.
LEMMA LineReads ==
  ASSUME NEW g \in Seq(Nat), NEW w \in Seq(Nat), NEW d \in Seq(Nat), NEW b \in Seq(Nat),
         NEW q \in Seq(Nat), NEW n \in Nat, InLine(g, w, d, b, q, n),
         NEW k \in 1..Len(d), d[1] # 0, NEW r \in Seq(Nat), r = SubSeq(d, k + 1, Len(d)),
         NEW c \in Seq(Nat), c = Append(w, d[1])
  PROVE  InLine(g, c, r, b, q, n)
<1>0. k \in 0..Len(d) /\ 1 \in DOMAIN d
  OBVIOUS
<1>1. InLine(g, w, r, b, q, n)
  BY <1>0, LineStreamLoses
<1>2. Ordered(c) /\ Below(c, r)
  BY Passes DEF InLine
<1>3. /\ Below(g, w) /\ Below(g, d) => Below(g, c)
      /\ Below(w, b) /\ Below(d, b) => Below(c, b)
      /\ Below(w, q) /\ Below(d, q) => Below(c, q)
      /\ Within(w, n) /\ Within(d, n) => Within(c, n)
  BY <1>0, PassesOthers
<1>4. QED BY <1>1, <1>2, <1>3 DEF InLine

\* The servicer's own Confirmation is numbered 0.
LEMMA LineConfirms ==
  ASSUME NEW g \in Seq(Nat), NEW w \in Seq(Nat), NEW d \in Seq(Nat), NEW b \in Seq(Nat),
         NEW q \in Seq(Nat), NEW n \in Nat, InLine(g, w, d, b, q, n),
         NEW c \in Seq(Nat), c = Append(d, 0)
  PROVE  InLine(g, w, c, b, q, n)
<1>1. /\ Ordered(d) => Ordered(c)
      /\ Below(g, d) => Below(g, c)
      /\ Below(w, d) => Below(w, c)
      /\ Below(d, b) => Below(c, b)
      /\ Below(d, q) => Below(c, q)
      /\ Within(d, n) => Within(c, n)
  BY OneMore
<1>2. QED BY <1>1 DEF InLine

\* The application sends a message with the next number.
LEMMA LineSends ==
  ASSUME NEW g \in Seq(Nat), NEW w \in Seq(Nat), NEW d \in Seq(Nat), NEW b \in Seq(Nat),
         NEW q \in Seq(Nat), NEW n \in Nat, InLine(g, w, d, b, q, n),
         NEW c \in Seq(Nat), c = Append(q, n + 1)
  PROVE  InLine(g, w, d, b, c, n + 1)
<1>0. /\ Within(g, n + 1) /\ Within(w, n + 1) /\ Within(d, n + 1) /\ Within(b, n + 1)
      /\ Within(q, n + 1)
  BY WithinMore DEF InLine
<1>1. ASSUME NEW s \in Seq(Nat), Within(s, n) PROVE \A i \in DOMAIN s : s[i] < n + 1
  BY <1>1 DEF Within
<1>2. /\ Ordered(q) => Ordered(c)
      /\ Within(q, n + 1) => Within(c, n + 1)
  BY <1>1, OneMore DEF InLine
<1>3. ASSUME NEW s \in Seq(Nat), Within(s, n), Below(s, q) PROVE Below(s, c)
  BY <1>1, <1>3, OneMore
<1>4. QED BY <1>0, <1>2, <1>3 DEF InLine

\* The client's application takes what waits for it.
LEMMA LineTakes ==
  ASSUME NEW g \in Seq(Nat), NEW w \in Seq(Nat), NEW d \in Seq(Nat), NEW b \in Seq(Nat),
         NEW q \in Seq(Nat), NEW n \in Nat, InLine(g, w, d, b, q, n),
         NEW r \in Seq(Nat), r = << >>, NEW c \in Seq(Nat), c = g \o w
  PROVE  InLine(c, r, d, b, q, n)
<1>1. InLine(g, r, d, b, q, n)
  BY LineWaitingLoses
<1>2. Ordered(c)
  BY ConcatOrdered DEF InLine
<1>3. /\ Below(g, d) /\ Below(w, d) => Below(c, d)
      /\ Below(g, b) /\ Below(w, b) => Below(c, b)
      /\ Below(g, q) /\ Below(w, q) => Below(c, q)
      /\ Within(g, n) /\ Within(w, n) => Within(c, n)
  BY ConcatBelow
<1>4. Below(c, r)
  <2>1. DOMAIN r = {}
    OBVIOUS
  <2>2. QED BY <2>1 DEF Below
<1>5. QED BY <1>1, <1>2, <1>3, <1>4 DEF InLine

-----------------------------------------------------------------------------
(***************************************************************************)
(* The numbers of the application's messages at the stations on the way to *)
(* connection p.                                                           *)
(***************************************************************************)
DownId    == [m \in ServerMessages |-> m.id]
PayloadId == [m \in Addressed |-> m.payload.id]

GivenIds(p)   == IF p \in Clients THEN taken[p] ELSE << >>
WaitingIds(p) == IF p \in Clients THEN chat_in[p] ELSE << >>
DownIds(p)    == Image(DownId, down[p])
BatchIds(p)   == Image(PayloadId, batch[p])
QueueIds      == Image(PayloadId, queue)

\* The numbers of messages are numbers.
LEMMA NumbersTyped ==
  /\ DownId \in [ServerMessages -> Nat] /\ PayloadId \in [Addressed -> Nat]
  /\ \A m \in ServerMessages : DownId[m] = m.id
  /\ \A m \in Addressed : m.payload \in ServerMessages /\ PayloadId[m] = m.payload.id
<1>1. MaxSent \in Nat
  BY StreamsAssumption
<1>2. \A m \in ServerMessages : m.id \in Nat
  BY <1>1 DEF ServerMessages, Ids
<1>3. \A m \in Addressed : m.payload \in ServerMessages
  BY DEF Addressed
<1>4. QED BY <1>2, <1>3 DEF DownId, PayloadId

\* The numbers of a queue or batch.
LEMMA PayloadImage ==
  ASSUME NEW s \in Seq(Addressed)
  PROVE  Image(PayloadId, s) \in Seq(Nat) /\ Len(Image(PayloadId, s)) = Len(s)
<1>1. PayloadId \in [Addressed -> Nat]
  BY NumbersTyped
<1>2. QED BY <1>1, ImageTyped

\* The numbers of a stream.
LEMMA DownImage ==
  ASSUME NEW s \in Seq(ServerMessages)
  PROVE  Image(DownId, s) \in Seq(Nat) /\ Len(Image(DownId, s)) = Len(s)
<1>1. DownId \in [ServerMessages -> Nat]
  BY NumbersTyped
<1>2. QED BY <1>1, ImageTyped

\* A sequence of ids is one of numbers.
LEMMA IdsAreNumbers == ASSUME NEW s \in Seq(Ids) PROVE s \in Seq(Nat)
<1>1. Len(s) \in Nat /\ s = [i \in 1..Len(s) |-> s[i]] /\ \A i \in 1..Len(s) : s[i] \in Ids
  OBVIOUS
<1>2. \A i \in 1..Len(s) : s[i] \in Nat
  BY <1>1, StreamsAssumption DEF Ids
<1>3. QED BY <1>1, <1>2

\* The stations hold sequences of numbers, one for each message.
StationsOK ==
  /\ queue \in Seq(Addressed) /\ QueueIds \in Seq(Nat) /\ Len(QueueIds) = Len(queue)
  /\ sent \in Seq(User) /\ Len(sent) \in Nat
  /\ \A p \in Conns :
       /\ down[p] \in Seq(ServerMessages) /\ batch[p] \in Seq(Addressed)
       /\ GivenIds(p) \in Seq(Nat) /\ WaitingIds(p) \in Seq(Nat)
       /\ DownIds(p) \in Seq(Nat) /\ Len(DownIds(p)) = Len(down[p])
       /\ BatchIds(p) \in Seq(Nat) /\ Len(BatchIds(p)) = Len(batch[p])

\* They do in every state of the right type.
LEMMA StationsTyped == TypeOK => StationsOK
<1> SUFFICES ASSUME TypeOK PROVE StationsOK
  OBVIOUS
<1>1. /\ queue \in Seq(Addressed) /\ QueueIds \in Seq(Nat) /\ Len(QueueIds) = Len(queue)
  <2>1. queue \in Seq(Addressed)
    BY DEF TypeOK
  <2>2. QED BY <2>1, PayloadImage DEF QueueIds
<1>2. sent \in Seq(User) /\ Len(sent) \in Nat
  BY DEF TypeOK
<1>3. ASSUME NEW p \in Conns
      PROVE  /\ down[p] \in Seq(ServerMessages) /\ batch[p] \in Seq(Addressed)
             /\ GivenIds(p) \in Seq(Nat) /\ WaitingIds(p) \in Seq(Nat)
             /\ DownIds(p) \in Seq(Nat) /\ Len(DownIds(p)) = Len(down[p])
             /\ BatchIds(p) \in Seq(Nat) /\ Len(BatchIds(p)) = Len(batch[p])
  <2>1. down[p] \in Seq(ServerMessages) /\ batch[p] \in Seq(Addressed)
    BY DEF TypeOK
  <2>2. DownIds(p) \in Seq(Nat) /\ Len(DownIds(p)) = Len(down[p])
    BY <2>1, DownImage DEF DownIds
  <2>3. BatchIds(p) \in Seq(Nat) /\ Len(BatchIds(p)) = Len(batch[p])
    BY <2>1, PayloadImage DEF BatchIds
  <2>4. GivenIds(p) \in Seq(Nat) /\ WaitingIds(p) \in Seq(Nat)
    <3>1. CASE p \notin Clients
      <4>1. << >> \in Seq(Nat)
        OBVIOUS
      <4>2. QED BY <3>1, <4>1 DEF GivenIds, WaitingIds
    <3>2. CASE p \in Clients
      <4>1. taken[p] \in Seq(Ids) /\ chat_in[p] \in Seq(Ids)
        BY <3>2 DEF TypeOK
      <4>2. taken[p] \in Seq(Nat) /\ chat_in[p] \in Seq(Nat)
        BY <4>1, IdsAreNumbers
      <4>3. QED BY <3>2, <4>2 DEF GivenIds, WaitingIds
    <3>3. QED BY <3>1, <3>2
  <2>5. QED BY <2>1, <2>2, <2>3, <2>4
<1>4. QED BY <1>1, <1>2, <1>3 DEF StationsOK

\* The numbers of a queue or batch with one more message.
LEMMA PayloadAppend ==
  ASSUME NEW s \in Seq(Addressed), NEW e \in Addressed
  PROVE  Image(PayloadId, Append(s, e)) = Append(Image(PayloadId, s), e.payload.id)
<1>1. Image(PayloadId, Append(s, e)) = Append(Image(PayloadId, s), PayloadId[e])
  BY NumbersTyped, ImageAppend
<1>2. QED BY <1>1, NumbersTyped

\* Of a queue or batch without its first message.
LEMMA PayloadTail ==
  ASSUME NEW s \in Seq(Addressed), s # << >>
  PROVE  LET u == Image(PayloadId, s) IN
         /\ 1 \in 1..Len(u) /\ u[1] = Head(s).payload.id /\ Head(s) \in Addressed
         /\ Head(s) = s[1] /\ 1 \in DOMAIN s
         /\ Image(PayloadId, Tail(s)) = SubSeq(u, 1 + 1, Len(u))
<1> DEFINE u == Image(PayloadId, s)
<1>1. Len(s) \in Nat \ {0} /\ Head(s) = s[1] /\ Head(s) \in Addressed
  BY TailElements
<1>2. Len(u) = Len(s) /\ \A i \in DOMAIN s : u[i] = PayloadId[s[i]]
  BY NumbersTyped, ImageTyped
<1>3. 1 \in DOMAIN s /\ 1 \in 1..Len(s) /\ 1 \in 0..Len(s)
  BY <1>1
<1>4. u[1] = Head(s).payload.id
  BY <1>1, <1>2, <1>3, NumbersTyped
<1>5. Tail(s) = SubSeq(s, 1 + 1, Len(s))
  BY TailIsRest
<1>6. Image(PayloadId, SubSeq(s, 1 + 1, Len(s))) = SubSeq(u, 1 + 1, Len(u))
  BY <1>3, NumbersTyped, ImageRest
<1>7. QED BY <1>1, <1>2, <1>3, <1>4, <1>5, <1>6

\* Of a stream to which a message is written.
LEMMA DownAppend ==
  ASSUME NEW s \in Seq(ServerMessages), NEW e \in ServerMessages
  PROVE  Image(DownId, Append(s, e)) = Append(Image(DownId, s), e.id)
<1>1. Image(DownId, Append(s, e)) = Append(Image(DownId, s), DownId[e])
  BY NumbersTyped, ImageAppend
<1>2. QED BY <1>1, NumbersTyped

\* Of a stream from which n messages are read.
LEMMA DownRest ==
  ASSUME NEW s \in Seq(ServerMessages), NEW n \in 1..Len(s)
  PROVE  LET u == Image(DownId, s) IN
         /\ n \in 1..Len(u) /\ u[1] = s[1].id
         /\ Image(DownId, SubSeq(s, n + 1, Len(s))) = SubSeq(u, n + 1, Len(u))
<1> DEFINE u == Image(DownId, s)
<1>1. 1 \in DOMAIN s /\ s[1] \in ServerMessages /\ n \in 0..Len(s)
  OBVIOUS
<1>2. Len(u) = Len(s) /\ \A i \in DOMAIN s : u[i] = DownId[s[i]]
  BY NumbersTyped, ImageTyped
<1>3. u[1] = s[1].id
  BY <1>1, <1>2, NumbersTyped
<1>4. Image(DownId, SubSeq(s, n + 1, Len(s))) = SubSeq(u, n + 1, Len(u))
  BY <1>1, NumbersTyped, ImageRest
<1>5. QED BY <1>2, <1>3, <1>4

-----------------------------------------------------------------------------
(***************************************************************************)
(* The same steps, seen from the numbers at the stations.                  *)
(***************************************************************************)
ClientKeeps(p) == GivenIds(p)' = GivenIds(p) /\ WaitingIds(p)' = WaitingIds(p)
StreamKeeps(p) == DownIds(p)' = DownIds(p)
BatchKeeps(p)  == BatchIds(p)' = BatchIds(p)
QueueKeeps     == QueueIds' = QueueIds /\ sent' = sent

NumbersStay(p) == ClientKeeps(p) /\ StreamKeeps(p) /\ BatchKeeps(p) /\ QueueKeeps

NumberLost(p) ==
  /\ ClientKeeps(p) /\ StreamKeeps(p) /\ BatchKeeps(p) /\ sent' = sent
  /\ 1 \in 1..Len(QueueIds) /\ QueueIds' = SubSeq(QueueIds, 1 + 1, Len(QueueIds))

NumberSent(p) ==
  /\ ClientKeeps(p) /\ StreamKeeps(p) /\ BatchKeeps(p)
  /\ QueueIds' = Append(QueueIds, Len(sent) + 1)
  /\ \E user \in User : sent' = Append(sent, user)

NumberDrained(p) ==
  /\ ClientKeeps(p) /\ StreamKeeps(p) /\ sent' = sent
  /\ 1 \in 1..Len(QueueIds) /\ QueueIds[1] # 0
  /\ QueueIds' = SubSeq(QueueIds, 1 + 1, Len(QueueIds))
  /\ BatchIds(p)' = Append(BatchIds(p), QueueIds[1])
  /\ batch'[p] # batch[p]

NumbersDiscarded(p) ==
  ClientKeeps(p) /\ StreamKeeps(p) /\ BatchIds(p)' = << >> /\ QueueKeeps

NumberForwarded(p) ==
  /\ ClientKeeps(p) /\ QueueKeeps
  /\ 1 \in 1..Len(BatchIds(p)) /\ BatchIds(p)[1] # 0
  /\ BatchIds(p)' = SubSeq(BatchIds(p), 1 + 1, Len(BatchIds(p)))
  /\ \/ StreamKeeps(p)
     \/ /\ sent[BatchIds(p)[1]] = UserOf[p]
        /\ DownIds(p)' = Append(DownIds(p), BatchIds(p)[1])

NumberZero(p) ==
  ClientKeeps(p) /\ DownIds(p)' = Append(DownIds(p), 0) /\ BatchKeeps(p) /\ QueueKeeps

NumberRead(p) ==
  /\ GivenIds(p)' = GivenIds(p) /\ BatchKeeps(p) /\ QueueKeeps
  /\ \E n \in 1..Len(DownIds(p)) : DownIds(p)' = SubSeq(DownIds(p), n + 1, Len(DownIds(p)))
  /\ \/ WaitingIds(p)' = WaitingIds(p)
     \/ DownIds(p)[1] # 0 /\ WaitingIds(p)' = Append(WaitingIds(p), DownIds(p)[1])

NumbersTaken(p) ==
  /\ StreamKeeps(p) /\ BatchKeeps(p) /\ QueueKeeps /\ WaitingIds(p)' = << >>
  /\ GivenIds(p)' = GivenIds(p) \/ GivenIds(p)' = GivenIds(p) \o WaitingIds(p)

NumbersMove(p) ==
  \/ NumbersStay(p) \/ NumberLost(p) \/ NumberSent(p) \/ NumberDrained(p) \/ NumbersDiscarded(p)
  \/ NumberForwarded(p) \/ NumberZero(p) \/ NumberRead(p) \/ NumbersTaken(p)

(***************************************************************************)
(* What is in the queue or a batch was sent, and to the user to whom it is *)
(* addressed; x is the list of the users to whom messages were sent.       *)
(***************************************************************************)
IsGenuine(m, x)  == m.payload.id \in DOMAIN x /\ x[m.payload.id] = m.to
AreGenuine(s, x) == \A i \in DOMAIN s : IsGenuine(s[i], x)

Genuine(p) == AreGenuine(queue, sent) /\ AreGenuine(batch[p], sent)

\* The numbers move as the messages do.
LEMMA NumbersFollow ==
  ASSUME TypeOK, NEW p \in Conns, Genuine(p), OnTheWay(p)
  PROVE  NumbersMove(p)
<1>0. /\ queue \in Seq(Addressed) /\ sent \in Seq(User) /\ Len(sent) \in Nat
      /\ down[p] \in Seq(ServerMessages) /\ batch[p] \in Seq(Addressed)
  BY StationsTyped DEF StationsOK
<1>1. /\ ClientSame(p) => ClientKeeps(p)
      /\ down'[p] = down[p] => StreamKeeps(p)
      /\ batch'[p] = batch[p] => BatchKeeps(p)
      /\ queue' = queue => QueueIds' = QueueIds
  BY DEF ClientSame, ClientKeeps, GivenIds, WaitingIds, StreamKeeps, DownIds, BatchKeeps, BatchIds,
         QueueIds, Image
<1>2. DOMAIN sent = 1..Len(sent) /\ 0 \notin DOMAIN sent
  BY <1>0
<1>3. ASSUME queue # << >>
      PROVE  /\ 1 \in 1..Len(QueueIds) /\ QueueIds[1] # 0 /\ QueueIds[1] = Head(queue).payload.id
             /\ Head(queue) \in Addressed
             /\ queue' = Tail(queue) => QueueIds' = SubSeq(QueueIds, 1 + 1, Len(QueueIds))
  <2>1. /\ 1 \in 1..Len(QueueIds) /\ QueueIds[1] = Head(queue).payload.id
        /\ Head(queue) \in Addressed /\ Head(queue) = queue[1] /\ 1 \in DOMAIN queue
        /\ Image(PayloadId, Tail(queue)) = SubSeq(QueueIds, 1 + 1, Len(QueueIds))
    BY <1>0, <1>3, PayloadTail DEF QueueIds
  <2>2. QueueIds[1] \in DOMAIN sent
    BY <2>1 DEF Genuine, AreGenuine, IsGenuine
  <2>3. queue' = Tail(queue) => QueueIds' = Image(PayloadId, Tail(queue))
    BY DEF QueueIds
  <2>4. QED BY <1>2, <2>1, <2>2, <2>3
<1>4. CASE WayStays(p)
  BY <1>1, <1>4 DEF WayStays, ServerSame, NumbersMove, NumbersStay, QueueKeeps
<1>5. CASE QueueLoses(p)
  BY <1>1, <1>3, <1>5 DEF QueueLoses, NumbersMove, NumberLost
<1>6. CASE QueueGets(p)
  <2>1. PICK m \in Addressed : /\ m.payload.id = Len(sent) + 1
                               /\ queue' = Append(queue, m) /\ sent' = Append(sent, m.to)
    BY <1>6 DEF QueueGets
  <2>2. Image(PayloadId, Append(queue, m)) = Append(QueueIds, Len(sent) + 1)
    BY <1>0, <2>1, PayloadAppend DEF QueueIds
  <2>3. QueueIds' = Append(QueueIds, Len(sent) + 1)
    BY <2>1, <2>2 DEF QueueIds
  <2>4. m.to \in User
    BY <2>1 DEF Addressed
  <2>5. QED BY <1>1, <1>6, <2>1, <2>3, <2>4 DEF QueueGets, NumbersMove, NumberSent
<1>7. CASE Drains(p)
  <2>1. batch'[p] = Append(batch[p], Head(queue)) /\ Head(queue) \in Addressed
    BY <1>3, <1>7 DEF Drains
  <2>2. Image(PayloadId, Append(batch[p], Head(queue))) = Append(BatchIds(p), Head(queue).payload.id)
    BY <1>0, <2>1, PayloadAppend DEF BatchIds
  <2>3. BatchIds(p)' = Append(BatchIds(p), QueueIds[1])
    <3>1. BatchIds(p)' = Image(PayloadId, batch'[p])
      BY DEF BatchIds
    <3>2. QED BY <1>3, <1>7, <2>1, <2>2, <3>1 DEF Drains
  <2>4. batch'[p] # batch[p]
    <3>1. Len(batch'[p]) = Len(batch[p]) + 1 /\ Len(batch[p]) \in Nat
      BY <1>0, <2>1, AppendElements
    <3>2. QED BY <3>1
  <2>5. QED BY <1>1, <1>3, <1>7, <2>3, <2>4 DEF Drains, NumbersMove, NumberDrained
<1>8. CASE Discards(p)
  <2>1. BatchIds(p)' = << >>
    <3>1. BatchIds(p)' = Image(PayloadId, batch'[p])
      BY DEF BatchIds
    <3>2. Image(PayloadId, << >>) = << >>
      BY DEF Image
    <3>3. QED BY <1>8, <3>1, <3>2 DEF Discards
  <2>2. QED BY <1>1, <1>8, <2>1 DEF Discards, NumbersMove, NumbersDiscarded, QueueKeeps
<1>9. CASE PassesOn(p)
  <2>1. batch[p] # << >>
    BY <1>9 DEF PassesOn
  <2>2. /\ 1 \in 1..Len(BatchIds(p)) /\ BatchIds(p)[1] = Head(batch[p]).payload.id
        /\ Head(batch[p]) \in Addressed /\ Head(batch[p]) = batch[p][1] /\ 1 \in DOMAIN batch[p]
        /\ Image(PayloadId, Tail(batch[p])) = SubSeq(BatchIds(p), 1 + 1, Len(BatchIds(p)))
    BY <1>0, <2>1, PayloadTail DEF BatchIds
  <2>3. BatchIds(p)[1] # 0 /\ sent[BatchIds(p)[1]] = Head(batch[p]).to
    <3>1. BatchIds(p)[1] \in DOMAIN sent /\ sent[BatchIds(p)[1]] = Head(batch[p]).to
      BY <2>2 DEF Genuine, AreGenuine, IsGenuine
    <3>2. QED BY <1>2, <3>1
  <2>4. BatchIds(p)' = SubSeq(BatchIds(p), 1 + 1, Len(BatchIds(p)))
    <3>1. BatchIds(p)' = Image(PayloadId, batch'[p])
      BY DEF BatchIds
    <3>2. QED BY <1>9, <2>2, <3>1 DEF PassesOn
  <2>5. CASE down'[p] = down[p]
    BY <1>1, <1>9, <2>2, <2>3, <2>4, <2>5 DEF PassesOn, NumbersMove, NumberForwarded, QueueKeeps
  <2>6. CASE Head(batch[p]).to = UserOf[p] /\ down'[p] = Append(down[p], Head(batch[p]).payload)
    <3>1. Head(batch[p]).payload \in ServerMessages
      BY <2>2, NumbersTyped
    <3>2. Image(DownId, Append(down[p], Head(batch[p]).payload)) = Append(DownIds(p), BatchIds(p)[1])
      BY <1>0, <2>2, <3>1, DownAppend DEF DownIds
    <3>3. DownIds(p)' = Image(DownId, down'[p])
      BY DEF DownIds
    <3>4. DownIds(p)' = Append(DownIds(p), BatchIds(p)[1])
      BY <2>6, <3>2, <3>3
    <3>5. QED BY <1>1, <1>9, <2>2, <2>3, <2>4, <2>6, <3>4
              DEF PassesOn, NumbersMove, NumberForwarded, QueueKeeps
  <2>7. QED BY <1>9, <2>5, <2>6 DEF PassesOn
<1>10. CASE AnswersJoin(p)
  <2>1. Confirmation(0) \in ServerMessages /\ Confirmation(0).id = 0
    BY StreamsAssumption DEF Confirmation, ServerMessages, Ids
  <2>2. Image(DownId, Append(down[p], Confirmation(0))) = Append(DownIds(p), 0)
    BY <1>0, <2>1, DownAppend DEF DownIds
  <2>3. DownIds(p)' = Append(DownIds(p), 0)
    BY <1>10, <2>2 DEF AnswersJoin, DownIds
  <2>4. QED BY <1>1, <1>10, <2>3 DEF AnswersJoin, ServerSame, NumbersMove, NumberZero, QueueKeeps
<1>11. CASE ReadsOne(p)
  <2>1. PICK n \in 1..Len(down[p]) : down'[p] = SubSeq(down[p], n + 1, Len(down[p]))
    BY <1>11 DEF ReadsOne
  <2>2. /\ n \in 1..Len(DownIds(p)) /\ DownIds(p)[1] = down[p][1].id
        /\ Image(DownId, SubSeq(down[p], n + 1, Len(down[p]))) = SubSeq(DownIds(p), n + 1, Len(DownIds(p)))
    BY <1>0, DownRest DEF DownIds
  <2>3. DownIds(p)' = SubSeq(DownIds(p), n + 1, Len(DownIds(p)))
    BY <2>1, <2>2 DEF DownIds
  <2>4. /\ GivenIds(p)' = GivenIds(p)
        /\ \/ WaitingIds(p)' = WaitingIds(p)
           \/ DownIds(p)[1] # 0 /\ WaitingIds(p)' = Append(WaitingIds(p), DownIds(p)[1])
    BY <1>11, <2>2 DEF ReadsOne, GivenIds, WaitingIds
  <2>5. QED BY <1>1, <1>11, <2>2, <2>3, <2>4 DEF ReadsOne, ServerSame, NumbersMove, NumberRead, QueueKeeps
<1>12. CASE TakesAll(p)
  <2>1. /\ WaitingIds(p)' = << >>
        /\ GivenIds(p)' = GivenIds(p) \/ GivenIds(p)' = GivenIds(p) \o WaitingIds(p)
    BY <1>12 DEF TakesAll, GivenIds, WaitingIds
  <2>2. QED BY <1>1, <1>12, <2>1 DEF TakesAll, ServerSame, NumbersMove, NumbersTaken, QueueKeeps
<1>13. QED BY <1>4, <1>5, <1>6, <1>7, <1>8, <1>9, <1>10, <1>11, <1>12 DEF OnTheWay

-----------------------------------------------------------------------------
(***************************************************************************)
(* The invariant: messages in the queue and in batches are genuine; the    *)
(* stations to every connection are in line; what has been written to a    *)
(* connection is for its user; no two connections hold the same message.   *)
(***************************************************************************)
Elements(s) == {s[i] : i \in DOMAIN s}

OwnIds(p)  == Elements(GivenIds(p)) \cup Elements(WaitingIds(p)) \cup Elements(DownIds(p))
HeldIds(p) == OwnIds(p) \cup Elements(BatchIds(p))

Line(p) == InLine(GivenIds(p), WaitingIds(p), DownIds(p), BatchIds(p), QueueIds, Len(sent))

Owned(p) == \A id \in OwnIds(p) \ {0} : sent[id] = UserOf[p]

Apart == \A p, q \in Conns : p # q => HeldIds(p) \cap HeldIds(q) \subseteq {0}

WayInv == Apart /\ \A p \in Conns : Genuine(p) /\ Line(p) /\ Owned(p)

\* The list of what was sent only grows.
LEMMA SentGrows ==
  ASSUME TypeOK, NEW p \in Conns, OnTheWay(p)
  PROVE  \A id \in DOMAIN sent : id \in DOMAIN sent' /\ sent'[id] = sent[id]
<1>0. sent \in Seq(User) /\ Len(sent) \in Nat /\ DOMAIN sent = 1..Len(sent)
  BY DEF TypeOK
<1>1. CASE sent' = sent
  BY <1>1
<1>2. ASSUME NEW user \in User, sent' = Append(sent, user)
      PROVE  \A id \in DOMAIN sent : id \in DOMAIN sent' /\ sent'[id] = sent[id]
  <2>1. /\ DOMAIN Append(sent, user) = 1..(Len(sent) + 1)
        /\ \A i \in 1..Len(sent) : Append(sent, user)[i] = sent[i]
    BY <1>0, AppendElements
  <2>2. QED BY <1>0, <1>2, <2>1
<1>3. CASE QueueGets(p)
  BY <1>2, <1>3 DEF QueueGets, Addressed
<1>4. QED BY <1>1, <1>3 DEF OnTheWay, WayStays, QueueLoses, Drains, Discards, PassesOn, AnswersJoin,
                            ReadsOne, TakesAll, ServerSame

\* Taking the first message away, or adding a genuine one.
LEMMA GenuineElements ==
  ASSUME NEW x, NEW s \in Seq(Addressed), AreGenuine(s, x)
  PROVE  /\ s # << >> => IsGenuine(Head(s), x) /\ AreGenuine(Tail(s), x)
         /\ \A m \in Addressed : IsGenuine(m, x) => AreGenuine(Append(s, m), x)
<1>1. ASSUME s # << >> PROVE IsGenuine(Head(s), x) /\ AreGenuine(Tail(s), x)
  <2>1. /\ Len(s) \in Nat \ {0} /\ Head(s) = s[1] /\ DOMAIN Tail(s) = 1..(Len(s) - 1)
        /\ \A i \in 1..(Len(s) - 1) : i + 1 \in DOMAIN s /\ Tail(s)[i] = s[i + 1]
    BY <1>1, TailElements
  <2>2. 1 \in DOMAIN s
    BY <2>1
  <2>3. QED BY <2>1, <2>2 DEF AreGenuine
<1>2. ASSUME NEW m \in Addressed, IsGenuine(m, x) PROVE AreGenuine(Append(s, m), x)
  <2>1. /\ DOMAIN Append(s, m) = 1..(Len(s) + 1) /\ Len(s) \in Nat /\ DOMAIN s = 1..Len(s)
        /\ \A i \in 1..Len(s) : Append(s, m)[i] = s[i]
        /\ Append(s, m)[Len(s) + 1] = m
    BY AppendElements
  <2>2. \A i \in DOMAIN Append(s, m) : i \in DOMAIN s \/ i = Len(s) + 1
    BY <2>1
  <2>3. QED BY <1>2, <2>1, <2>2 DEF AreGenuine
<1>3. QED BY <1>1, <1>2

\* Messages stay genuine.
LEMMA GenuineStep ==
  ASSUME TypeOK, NEW p \in Conns, Genuine(p), OnTheWay(p)
  PROVE  Genuine(p)'
<1>0. /\ queue \in Seq(Addressed) /\ batch[p] \in Seq(Addressed)
      /\ sent \in Seq(User) /\ Len(sent) \in Nat
  BY StationsTyped DEF StationsOK
<1>1. AreGenuine(queue, sent') /\ AreGenuine(batch[p], sent')
  BY SentGrows DEF Genuine, AreGenuine, IsGenuine
<1>2. SUFFICES AreGenuine(queue', sent') /\ AreGenuine(batch'[p], sent')
  BY DEF Genuine, AreGenuine, IsGenuine
<1>3. CASE QueueGets(p)
  <2>1. PICK m \in Addressed : /\ m.payload.id = Len(sent) + 1
                               /\ queue' = Append(queue, m) /\ sent' = Append(sent, m.to)
    BY <1>3 DEF QueueGets
  <2>2. m.to \in User
    BY DEF Addressed
  <2>3. DOMAIN sent' = 1..(Len(sent) + 1) /\ sent'[Len(sent) + 1] = m.to
    BY <1>0, <2>1, <2>2, AppendElements
  <2>4. IsGenuine(m, sent')
    BY <1>0, <2>1, <2>3 DEF IsGenuine
  <2>5. QED BY <1>0, <1>1, <1>3, <2>1, <2>4, GenuineElements DEF QueueGets
<1>4. CASE QueueLoses(p)
  BY <1>0, <1>1, <1>4, GenuineElements DEF QueueLoses
<1>5. CASE Drains(p)
  <2>1. queue # << >> /\ queue' = Tail(queue) /\ batch'[p] = Append(batch[p], Head(queue))
    BY <1>5 DEF Drains
  <2>2. Head(queue) \in Addressed
    BY <1>0, <2>1, TailElements
  <2>3. QED BY <1>0, <1>1, <2>1, <2>2, GenuineElements
<1>6. CASE Discards(p)
  <2>1. DOMAIN batch'[p] = {} /\ queue' = queue
    BY <1>6 DEF Discards
  <2>2. QED BY <1>1, <2>1 DEF AreGenuine
<1>7. CASE PassesOn(p)
  BY <1>0, <1>1, <1>7, GenuineElements DEF PassesOn
<1>8. CASE WayStays(p) \/ AnswersJoin(p) \/ ReadsOne(p) \/ TakesAll(p)
  BY <1>1, <1>8 DEF WayStays, AnswersJoin, ReadsOne, TakesAll, ServerSame
<1>9. QED BY <1>3, <1>4, <1>5, <1>6, <1>7, <1>8 DEF OnTheWay

\* The stations stay in line.
LEMMA LineStep ==
  ASSUME TypeOK, TypeOK', NEW p \in Conns, Line(p), NumbersMove(p)
  PROVE  Line(p)'
<1> DEFINE g == GivenIds(p)
           w == WaitingIds(p)
           d == DownIds(p)
           b == BatchIds(p)
           q == QueueIds
           n == Len(sent)
           g1 == GivenIds(p)'
           w1 == WaitingIds(p)'
           d1 == DownIds(p)'
           b1 == BatchIds(p)'
           q1 == QueueIds'
           n1 == Len(sent')
<1>0. /\ g \in Seq(Nat) /\ w \in Seq(Nat) /\ d \in Seq(Nat) /\ b \in Seq(Nat) /\ q \in Seq(Nat)
      /\ n \in Nat
  BY StationsTyped DEF StationsOK
<1>1. /\ g1 \in Seq(Nat) /\ w1 \in Seq(Nat) /\ d1 \in Seq(Nat) /\ b1 \in Seq(Nat) /\ q1 \in Seq(Nat)
      /\ n1 \in Nat
  <2>1. (TypeOK => StationsOK)'
    BY StationsTyped, PTL
  <2>2. QED BY <2>1 DEF StationsOK
<1>2. InLine(g, w, d, b, q, n)
  BY DEF Line
<1>3. Line(p)' <=> InLine(g1, w1, d1, b1, q1, n1)
  BY DEF Line, InLine, Ordered, Below, Within
<1>4. \/ g1 = g /\ w1 = w /\ d1 = d /\ b1 = b /\ q1 = q /\ n1 = n
      \/ /\ g1 = g /\ w1 = w /\ d1 = d /\ b1 = b /\ n1 = n
         /\ 1 \in 1..Len(q) /\ q1 = SubSeq(q, 1 + 1, Len(q))
      \/ /\ g1 = g /\ w1 = w /\ d1 = d /\ b1 = b
         /\ q1 = Append(q, n + 1) /\ n1 = n + 1
      \/ /\ g1 = g /\ w1 = w /\ d1 = d /\ n1 = n
         /\ 1 \in 1..Len(q) /\ q[1] # 0 /\ q1 = SubSeq(q, 1 + 1, Len(q)) /\ b1 = Append(b, q[1])
      \/ g1 = g /\ w1 = w /\ d1 = d /\ b1 = << >> /\ q1 = q /\ n1 = n
      \/ /\ g1 = g /\ w1 = w /\ q1 = q /\ n1 = n
         /\ 1 \in 1..Len(b) /\ b[1] # 0 /\ b1 = SubSeq(b, 1 + 1, Len(b))
         /\ d1 = d \/ d1 = Append(d, b[1])
      \/ g1 = g /\ w1 = w /\ d1 = Append(d, 0) /\ b1 = b /\ q1 = q /\ n1 = n
      \/ /\ g1 = g /\ b1 = b /\ q1 = q /\ n1 = n
         /\ \E k \in 1..Len(d) : d1 = SubSeq(d, k + 1, Len(d))
         /\ w1 = w \/ (d[1] # 0 /\ w1 = Append(w, d[1]))
      \/ /\ d1 = d /\ b1 = b /\ q1 = q /\ n1 = n /\ w1 = << >>
         /\ g1 = g \/ g1 = g \o w
  <2>1. ASSUME NEW user \in User PROVE Len(Append(sent, user)) = n + 1
    <3>1. sent \in Seq(User)
      BY DEF TypeOK
    <3>2. QED BY <3>1, AppendElements
  <2>2. NumberSent(p) => n1 = n + 1
    BY <2>1 DEF NumberSent
  <2>3. QED BY <2>2 DEF NumbersMove, NumbersStay, NumberLost, NumberSent, NumberDrained, NumbersDiscarded,
                        NumberForwarded, NumberZero, NumberRead, NumbersTaken, ClientKeeps, StreamKeeps,
                        BatchKeeps, QueueKeeps
<1> HIDE DEF g, w, d, b, q, n, g1, w1, d1, b1, q1, n1
<1>5. CASE g1 = g /\ w1 = w /\ d1 = d /\ b1 = b /\ q1 = q /\ n1 = n
  BY <1>2, <1>3, <1>5
<1>6. CASE /\ g1 = g /\ w1 = w /\ d1 = d /\ b1 = b /\ n1 = n
           /\ 1 \in 1..Len(q) /\ q1 = SubSeq(q, 1 + 1, Len(q))
  <2>1. 1 \in 0..Len(q)
    BY <1>6
  <2>2. QED BY <1>0, <1>1, <1>2, <1>3, <1>6, <2>1, LineQueueLoses
<1>7. CASE /\ g1 = g /\ w1 = w /\ d1 = d /\ b1 = b
           /\ q1 = Append(q, n + 1) /\ n1 = n + 1
  BY <1>0, <1>1, <1>2, <1>3, <1>7, LineSends
<1>8. CASE /\ g1 = g /\ w1 = w /\ d1 = d /\ n1 = n
           /\ 1 \in 1..Len(q) /\ q[1] # 0 /\ q1 = SubSeq(q, 1 + 1, Len(q)) /\ b1 = Append(b, q[1])
  BY <1>0, <1>1, <1>2, <1>3, <1>8, LineDrains
<1>9. CASE g1 = g /\ w1 = w /\ d1 = d /\ b1 = << >> /\ q1 = q /\ n1 = n
  <2>1. 0 \in 0..Len(b)
    BY <1>0
  <2>2. QED BY <1>0, <1>1, <1>2, <1>3, <1>9, <2>1, LineBatchLoses
<1>10. CASE /\ g1 = g /\ w1 = w /\ q1 = q /\ n1 = n
            /\ 1 \in 1..Len(b) /\ b[1] # 0 /\ b1 = SubSeq(b, 1 + 1, Len(b))
            /\ d1 = d \/ d1 = Append(d, b[1])
  <2>1. CASE d1 = d
    <3>1. 1 \in 0..Len(b)
      BY <1>10
    <3>2. QED BY <1>0, <1>1, <1>2, <1>3, <1>10, <2>1, <3>1, LineBatchLoses
  <2>2. CASE d1 = Append(d, b[1])
    BY <1>0, <1>1, <1>2, <1>3, <1>10, <2>2, LineForwards
  <2>3. QED BY <1>10, <2>1, <2>2
<1>11. CASE g1 = g /\ w1 = w /\ d1 = Append(d, 0) /\ b1 = b /\ q1 = q /\ n1 = n
  BY <1>0, <1>1, <1>2, <1>3, <1>11, LineConfirms
<1>12. CASE /\ g1 = g /\ b1 = b /\ q1 = q /\ n1 = n
            /\ \E k \in 1..Len(d) : d1 = SubSeq(d, k + 1, Len(d))
            /\ w1 = w \/ (d[1] # 0 /\ w1 = Append(w, d[1]))
  <2>1. PICK k \in 1..Len(d) : d1 = SubSeq(d, k + 1, Len(d))
    BY <1>12
  <2>2. CASE w1 = w
    <3>1. k \in 0..Len(d)
      BY <2>1
    <3>2. QED BY <1>0, <1>1, <1>2, <1>3, <1>12, <2>1, <2>2, <3>1, LineStreamLoses
  <2>3. CASE d[1] # 0 /\ w1 = Append(w, d[1])
    BY <1>0, <1>1, <1>2, <1>3, <1>12, <2>1, <2>3, LineReads
  <2>4. QED BY <1>12, <2>2, <2>3
<1>13. CASE /\ d1 = d /\ b1 = b /\ q1 = q /\ n1 = n /\ w1 = << >>
            /\ g1 = g \/ g1 = g \o w
  <2>1. CASE g1 = g
    BY <1>0, <1>1, <1>2, <1>3, <1>13, <2>1, LineWaitingLoses
  <2>2. CASE g1 = g \o w
    BY <1>0, <1>1, <1>2, <1>3, <1>13, <2>2, LineTakes
  <2>3. QED BY <1>13, <2>1, <2>2
<1>14. QED BY <1>4, <1>5, <1>6, <1>7, <1>8, <1>9, <1>10, <1>11, <1>12, <1>13

\* The elements of a sequence that grows, shrinks, or follows another.
LEMMA ElementsAre ==
  ASSUME NEW s \in Seq(Nat)
  PROVE  /\ \A e \in Nat : Elements(Append(s, e)) = Elements(s) \cup {e}
         /\ \A n \in 0..Len(s) : Elements(SubSeq(s, n + 1, Len(s))) \subseteq Elements(s)
         /\ \A t \in Seq(Nat) : Elements(s \o t) \subseteq Elements(s) \cup Elements(t)
         /\ 1 \in 1..Len(s) => s[1] \in Elements(s)
<1>1. ASSUME NEW e \in Nat PROVE Elements(Append(s, e)) = Elements(s) \cup {e}
  <2> DEFINE t == Append(s, e)
  <2>1. /\ DOMAIN t = 1..(Len(s) + 1) /\ Len(s) \in Nat /\ DOMAIN s = 1..Len(s)
        /\ \A i \in 1..Len(s) : t[i] = s[i]
        /\ t[Len(s) + 1] = e
    BY AppendElements
  <2>2. /\ \A i \in DOMAIN t : i \in DOMAIN s \/ i = Len(s) + 1
        /\ \A i \in DOMAIN s : i \in DOMAIN t
        /\ Len(s) + 1 \in DOMAIN t
    BY <2>1
  <2> HIDE DEF t
  <2>3. Elements(t) = Elements(s) \cup {e}
    BY <2>1, <2>2 DEF Elements
  <2>4. QED BY <2>3 DEF t
<1>2. ASSUME NEW n \in 0..Len(s) PROVE Elements(SubSeq(s, n + 1, Len(s))) \subseteq Elements(s)
  <2>1. Part(SubSeq(s, n + 1, Len(s)), s)
    BY RestIsPart
  <2>2. QED BY <2>1 DEF Part, Elements
<1>3. ASSUME NEW t \in Seq(Nat) PROVE Elements(s \o t) \subseteq Elements(s) \cup Elements(t)
  <2> DEFINE u == s \o t
  <2>1. /\ DOMAIN u = 1..(Len(s) + Len(t)) /\ Len(s) \in Nat /\ Len(t) \in Nat /\ DOMAIN s = 1..Len(s)
        /\ \A i \in 1..Len(s) : u[i] = s[i]
        /\ \A i \in (Len(s) + 1)..(Len(s) + Len(t)) : i - Len(s) \in DOMAIN t /\ u[i] = t[i - Len(s)]
    BY ConcatElements
  <2>2. \A i \in DOMAIN u : i \in 1..Len(s) \/ i \in (Len(s) + 1)..(Len(s) + Len(t))
    BY <2>1
  <2> HIDE DEF u
  <2>3. \A i \in DOMAIN u : (\E k \in DOMAIN s : u[i] = s[k]) \/ \E k \in DOMAIN t : u[i] = t[k]
    BY <2>1, <2>2
  <2>4. Elements(u) \subseteq Elements(s) \cup Elements(t)
    BY <2>3 DEF Elements
  <2>5. QED BY <2>4 DEF u
<1>4. 1 \in 1..Len(s) => s[1] \in Elements(s)
  BY DEF Elements
<1>5. QED BY <1>1, <1>2, <1>3, <1>4

(***************************************************************************)
(* A connection comes to hold a message by draining it from the queue, and *)
(* its user to own one by being its addressee.                             *)
(***************************************************************************)
LEMMA HoldingMoves ==
  ASSUME TypeOK, NEW p \in Conns, NumbersMove(p)
  PROVE  /\ \A id \in OwnIds(p)' : \/ id \in OwnIds(p) \cup {0}
                                   \/ id \in Elements(BatchIds(p)) /\ sent[id] = UserOf[p]
         /\ \/ HeldIds(p)' \subseteq HeldIds(p) \cup {0}
            \/ /\ 1 \in 1..Len(QueueIds) /\ QueueIds[1] # 0 /\ batch'[p] # batch[p]
               /\ HeldIds(p)' \subseteq HeldIds(p) \cup {QueueIds[1]}
<1> DEFINE g == GivenIds(p)
           w == WaitingIds(p)
           d == DownIds(p)
           b == BatchIds(p)
           g1 == GivenIds(p)'
           w1 == WaitingIds(p)'
           d1 == DownIds(p)'
           b1 == BatchIds(p)'
           first == QueueIds[1]
<1>0. /\ g \in Seq(Nat) /\ w \in Seq(Nat) /\ d \in Seq(Nat) /\ b \in Seq(Nat) /\ QueueIds \in Seq(Nat)
  BY StationsTyped DEF StationsOK
<1>1. /\ OwnIds(p) = Elements(g) \cup Elements(w) \cup Elements(d)
      /\ OwnIds(p)' = Elements(g1) \cup Elements(w1) \cup Elements(d1)
      /\ HeldIds(p) = OwnIds(p) \cup Elements(b)
      /\ HeldIds(p)' = OwnIds(p)' \cup Elements(b1)
  BY DEF OwnIds, HeldIds, Elements
<1>2. CASE NumbersStay(p) \/ NumberLost(p) \/ NumberSent(p)
  <2>1. g1 = g /\ w1 = w /\ d1 = d /\ b1 = b
    BY <1>2 DEF NumbersStay, NumberLost, NumberSent, ClientKeeps, StreamKeeps, BatchKeeps
  <2> HIDE DEF g, w, d, b, g1, w1, d1, b1
  <2>2. QED BY <1>1, <2>1
<1>3. CASE NumberDrained(p)
  <2>1. /\ g1 = g /\ w1 = w /\ d1 = d /\ b1 = Append(b, first)
        /\ 1 \in 1..Len(QueueIds) /\ first # 0 /\ batch'[p] # batch[p]
    BY <1>3 DEF NumberDrained, ClientKeeps, StreamKeeps
  <2>2. first \in Nat
    BY <1>0, <2>1
  <2> HIDE DEF g, w, d, b, g1, w1, d1, b1, first
  <2>3. Elements(b1) = Elements(b) \cup {first}
    BY <1>0, <2>1, <2>2, ElementsAre
  <2>4. OwnIds(p)' = OwnIds(p)
    BY <1>1, <2>1
  <2>5. QED BY <1>1, <2>1, <2>3, <2>4 DEF first
<1>4. CASE NumbersDiscarded(p)
  <2>1. g1 = g /\ w1 = w /\ d1 = d /\ b1 = << >>
    BY <1>4 DEF NumbersDiscarded, ClientKeeps, StreamKeeps
  <2>2. Elements(b1) = {}
    BY <2>1 DEF Elements
  <2> HIDE DEF g, w, d, b, g1, w1, d1, b1
  <2>3. QED BY <1>1, <2>1, <2>2
<1>5. CASE NumberForwarded(p)
  <2>1. /\ g1 = g /\ w1 = w /\ 1 \in 1..Len(b) /\ b1 = SubSeq(b, 1 + 1, Len(b))
        /\ d1 = d \/ (sent[b[1]] = UserOf[p] /\ d1 = Append(d, b[1]))
    BY <1>5 DEF NumberForwarded, ClientKeeps, StreamKeeps
  <2> HIDE DEF g, w, d, b, g1, w1, d1, b1
  <2>2. b[1] \in Elements(b) /\ b[1] \in Nat /\ 1 \in 0..Len(b)
    BY <1>0, <2>1, ElementsAre
  <2>3. Elements(b1) \subseteq Elements(b)
    BY <1>0, <2>1, <2>2, ElementsAre
  <2>4. d1 = Append(d, b[1]) => Elements(d1) = Elements(d) \cup {b[1]}
    BY <1>0, <2>2, ElementsAre
  <2>5. \A id \in OwnIds(p)' : id \in OwnIds(p) \/ (id \in Elements(b) /\ sent[id] = UserOf[p])
    BY <1>1, <2>1, <2>2, <2>4
  <2>6. QED BY <1>1, <2>3, <2>5 DEF b
<1>6. CASE NumberZero(p)
  <2>1. g1 = g /\ w1 = w /\ d1 = Append(d, 0) /\ b1 = b
    BY <1>6 DEF NumberZero, ClientKeeps, BatchKeeps
  <2> HIDE DEF g, w, d, b, g1, w1, d1, b1
  <2>2. Elements(d1) = Elements(d) \cup {0}
    BY <1>0, <2>1, ElementsAre
  <2>3. QED BY <1>1, <2>1, <2>2
<1>7. CASE NumberRead(p)
  <2>1. PICK n \in 1..Len(d) : d1 = SubSeq(d, n + 1, Len(d))
    BY <1>7 DEF NumberRead
  <2>2. g1 = g /\ b1 = b /\ (w1 = w \/ w1 = Append(w, d[1]))
    BY <1>7 DEF NumberRead, BatchKeeps
  <2> HIDE DEF g, w, d, b, g1, w1, d1, b1
  <2>3. n \in 0..Len(d) /\ 1 \in 1..Len(d)
    BY <1>0
  <2>4. d[1] \in Elements(d) /\ d[1] \in Nat /\ Elements(d1) \subseteq Elements(d)
    BY <1>0, <2>1, <2>3, ElementsAre
  <2>5. w1 = Append(w, d[1]) => Elements(w1) = Elements(w) \cup {d[1]}
    BY <1>0, <2>4, ElementsAre
  <2>6. OwnIds(p)' \subseteq OwnIds(p)
    BY <1>1, <2>2, <2>4, <2>5
  <2>7. QED BY <1>1, <2>2, <2>6
<1>8. CASE NumbersTaken(p)
  <2>1. d1 = d /\ b1 = b /\ w1 = << >> /\ (g1 = g \/ g1 = g \o w)
    BY <1>8 DEF NumbersTaken, StreamKeeps, BatchKeeps
  <2>2. Elements(w1) = {}
    BY <2>1 DEF Elements
  <2> HIDE DEF g, w, d, b, g1, w1, d1, b1
  <2>3. Elements(g1) \subseteq Elements(g) \cup Elements(w)
    BY <1>0, <2>1, ElementsAre
  <2>4. QED BY <1>1, <2>1, <2>2, <2>3
<1>9. QED BY <1>2, <1>3, <1>4, <1>5, <1>6, <1>7, <1>8 DEF NumbersMove

\* What a connection holds has been sent.
LEMMA HeldWereSent ==
  ASSUME TypeOK, NEW p \in Conns, Line(p), NEW id \in HeldIds(p) \ {0}
  PROVE  id \in DOMAIN sent
<1>0. /\ GivenIds(p) \in Seq(Nat) /\ WaitingIds(p) \in Seq(Nat) /\ DownIds(p) \in Seq(Nat)
      /\ BatchIds(p) \in Seq(Nat) /\ Len(sent) \in Nat /\ DOMAIN sent = 1..Len(sent)
  BY StationsTyped DEF StationsOK
<1>1. /\ Within(GivenIds(p), Len(sent)) /\ Within(WaitingIds(p), Len(sent))
      /\ Within(DownIds(p), Len(sent)) /\ Within(BatchIds(p), Len(sent))
  BY DEF Line, InLine
<1>2. ASSUME NEW s \in Seq(Nat), Within(s, Len(sent)), id \in Elements(s) PROVE id \in DOMAIN sent
  <2>1. PICK i \in DOMAIN s : id = s[i]
    BY <1>2 DEF Elements
  <2>2. id \in Nat /\ id <= Len(sent) /\ id # 0
    BY <1>2, <2>1 DEF Within
  <2>3. QED BY <1>0, <2>2
<1>3. QED BY <1>0, <1>1, <1>2 DEF HeldIds, OwnIds

\* What waits in the queue is held by no connection.
LEMMA QueuedAreNotHeld ==
  ASSUME TypeOK, NEW p \in Conns, Line(p), 1 \in 1..Len(QueueIds), QueueIds[1] # 0
  PROVE  QueueIds[1] \notin HeldIds(p)
<1>0. /\ GivenIds(p) \in Seq(Nat) /\ WaitingIds(p) \in Seq(Nat) /\ DownIds(p) \in Seq(Nat)
      /\ BatchIds(p) \in Seq(Nat) /\ QueueIds \in Seq(Nat)
  BY StationsTyped DEF StationsOK
<1>1. /\ Below(GivenIds(p), QueueIds) /\ Below(WaitingIds(p), QueueIds)
      /\ Below(DownIds(p), QueueIds) /\ Below(BatchIds(p), QueueIds)
  BY DEF Line, InLine
<1>2. ASSUME NEW s \in Seq(Nat), Below(s, QueueIds) PROVE QueueIds[1] \notin Elements(s)
  <2>1. 1 \in DOMAIN QueueIds /\ QueueIds[1] \in Nat
    BY <1>0
  <2>2. \A i \in DOMAIN s : s[i] \in Nat /\ s[i] < QueueIds[1]
    BY <1>2, <2>1 DEF Below
  <2>3. QED BY <2>1, <2>2 DEF Elements
<1>3. QED BY <1>0, <1>1, <1>2 DEF HeldIds, OwnIds

\* What has been written to a connection stays its user's.
LEMMA OwnedStep ==
  ASSUME TypeOK, NEW p \in Conns, Line(p), Owned(p), OnTheWay(p), NumbersMove(p)
  PROVE  Owned(p)'
<1> SUFFICES ASSUME NEW id \in OwnIds(p)' \ {0} PROVE sent'[id] = UserOf[p]
  BY DEF Owned
<1>1. id \in OwnIds(p) \/ (id \in Elements(BatchIds(p)) /\ sent[id] = UserOf[p])
  BY HoldingMoves
<1>2. sent[id] = UserOf[p] /\ id \in HeldIds(p)
  BY <1>1 DEF Owned, HeldIds
<1>3. id \in DOMAIN sent
  BY <1>2, HeldWereSent
<1>4. QED BY <1>2, <1>3, SentGrows

\* Connections stay apart: only one servicer drains a message.
LEMMA ApartStep ==
  ASSUME TypeOK, WayInv, [Next]_vars, \A p \in Conns : NumbersMove(p)
  PROVE  Apart'
<1> SUFFICES ASSUME NEW p \in Conns, NEW q \in Conns, p # q,
                    NEW id \in HeldIds(p)', id \in HeldIds(q)', id # 0
             PROVE  FALSE
  BY DEF Apart
<1>1. HeldIds(p) \cap HeldIds(q) \subseteq {0} /\ Line(p) /\ Line(q)
  BY DEF WayInv, Apart
<1>2. id \in HeldIds(p) \/ /\ 1 \in 1..Len(QueueIds) /\ QueueIds[1] # 0
                           /\ batch'[p] # batch[p] /\ id = QueueIds[1]
  BY HoldingMoves
<1>3. id \in HeldIds(q) \/ /\ 1 \in 1..Len(QueueIds) /\ QueueIds[1] # 0
                           /\ batch'[q] # batch[q] /\ id = QueueIds[1]
  BY HoldingMoves
<1>4. batch'[p] = batch[p] \/ batch'[q] = batch[q]
  BY OneBatch
<1>5. 1 \in 1..Len(QueueIds) /\ QueueIds[1] # 0 =>
        QueueIds[1] \notin HeldIds(p) /\ QueueIds[1] \notin HeldIds(q)
  BY <1>1, QueuedAreNotHeld
<1>6. QED BY <1>1, <1>2, <1>3, <1>4, <1>5

\* The invariant about the way, in every reachable state.
LEMMA WayInvariant == Spec => []WayInv
<1>1. Init => WayInv
  <2> SUFFICES ASSUME Init PROVE WayInv
    OBVIOUS
  <2>1. queue = << >>
    BY DEF Init, ServerInit
  <2>2. ASSUME NEW p \in Conns
        PROVE  /\ DOMAIN GivenIds(p) = {} /\ DOMAIN WaitingIds(p) = {} /\ DOMAIN DownIds(p) = {}
               /\ DOMAIN BatchIds(p) = {} /\ DOMAIN batch[p] = {}
    <3>1. /\ down[p] = << >> /\ batch[p] = << >>
          /\ p \in Clients => taken[p] = << >> /\ chat_in[p] = << >>
      BY DEF Init, StreamsInit, ServerInit, ReliableInit
    <3>2. GivenIds(p) = << >> /\ WaitingIds(p) = << >>
      BY <3>1 DEF GivenIds, WaitingIds
    <3>3. DOMAIN down[p] = {} /\ DOMAIN batch[p] = {}
      BY <3>1
    <3>4. QED BY <3>2, <3>3 DEF DownIds, BatchIds, Image
  <2>3. DOMAIN QueueIds = {} /\ DOMAIN queue = {}
    BY <2>1 DEF QueueIds, Image
  <2>4. ASSUME NEW p \in Conns PROVE Genuine(p) /\ Line(p)
    BY <2>2, <2>3 DEF Genuine, AreGenuine, Line, InLine, Ordered, Below, Within
  <2>5. ASSUME NEW p \in Conns PROVE HeldIds(p) = {} /\ OwnIds(p) = {}
    BY <2>2 DEF HeldIds, OwnIds, Elements
  <2>6. QED BY <2>4, <2>5 DEF WayInv, Apart, Owned
<1>2. TypeOK /\ TypeOK' /\ WayInv /\ [Next]_vars => WayInv'
  <2> SUFFICES ASSUME TypeOK, TypeOK', WayInv, [Next]_vars PROVE WayInv'
    OBVIOUS
  <2>1. ASSUME NEW p \in Conns PROVE OnTheWay(p) /\ Genuine(p) /\ Line(p) /\ Owned(p)
    BY WaySteps DEF WayInv
  <2>2. ASSUME NEW p \in Conns PROVE NumbersMove(p)
    BY <2>1, NumbersFollow
  <2>3. Apart'
    BY <2>2, ApartStep
  <2>4. ASSUME NEW p \in Conns PROVE Genuine(p)' /\ Line(p)' /\ Owned(p)'
    BY <2>1, <2>2, GenuineStep, LineStep, OwnedStep
  <2>5. QED BY <2>3, <2>4 DEF WayInv
<1>3. QED BY <1>1, <1>2, JoinInvariant, PTL DEF Spec

-----------------------------------------------------------------------------
\* The way of Reliable is made of the stations.
LEMMA WayIsStations ==
  ASSUME TypeOK, NEW p \in Conns
  PROVE  /\ Written(p) = (GivenIds(p) \o WaitingIds(p)) \o DownIds(p)
         /\ Way(p) = (((GivenIds(p) \o WaitingIds(p)) \o DownIds(p)) \o BatchIds(p)) \o QueueIds
<1>0. down[p] \in Seq(ServerMessages) /\ batch[p] \in Seq(Addressed) /\ queue \in Seq(Addressed)
  BY StationsTyped DEF StationsOK
<1>1. Received(p) = GivenIds(p) \o WaitingIds(p)
  <2>1. CASE p \in Clients
    BY <2>1 DEF Received, GivenIds, WaitingIds
  <2>2. CASE p \notin Clients
    <3>1. << >> \o << >> = << >>
      OBVIOUS
    <3>2. QED BY <2>2, <3>1 DEF Received, GivenIds, WaitingIds
  <2>3. QED BY <2>1, <2>2
<1>2. [i \in DOMAIN down[p] |-> down[p][i].id] = DownIds(p)
  <2>1. \A i \in DOMAIN down[p] : DownId[down[p][i]] = down[p][i].id
    BY <1>0, NumbersTyped
  <2>2. QED BY <2>1 DEF DownIds, Image
<1>3. [i \in DOMAIN batch[p] |-> batch[p][i].payload.id] = BatchIds(p)
  <2>1. \A i \in DOMAIN batch[p] : PayloadId[batch[p][i]] = batch[p][i].payload.id
    BY <1>0, NumbersTyped
  <2>2. QED BY <2>1 DEF BatchIds, Image
<1>4. [i \in DOMAIN queue |-> queue[i].payload.id] = QueueIds
  <2>1. \A i \in DOMAIN queue : PayloadId[queue[i]] = queue[i].payload.id
    BY <1>0, NumbersTyped
  <2>2. QED BY <2>1 DEF QueueIds, Image
<1>5. Written(p) = (GivenIds(p) \o WaitingIds(p)) \o DownIds(p)
  BY <1>1, <1>2 DEF Written
<1>6. QED BY <1>3, <1>4, <1>5 DEF Way

\* What is written to a connection is what it holds outside its batch.
LEMMA WrittenAreOwn ==
  ASSUME TypeOK, NEW p \in Conns, NEW id \in IdsIn(Written(p))
  PROVE  id \in OwnIds(p) \ {0} /\ id \in HeldIds(p) \ {0}
<1> DEFINE g == GivenIds(p)
           w == WaitingIds(p)
           d == DownIds(p)
           gw == g \o w
<1>1. g \in Seq(Nat) /\ w \in Seq(Nat) /\ d \in Seq(Nat)
  BY StationsTyped DEF StationsOK
<1>2. id \in Elements(gw \o d) /\ id # 0
  BY WayIsStations DEF IdsIn, Elements
<1>3. OwnIds(p) = Elements(g) \cup Elements(w) \cup Elements(d)
  BY DEF OwnIds
<1> HIDE DEF g, w, d
<1>4. gw \in Seq(Nat) /\ Elements(gw) \subseteq Elements(g) \cup Elements(w)
  BY <1>1, ConcatElements, ElementsAre
<1> HIDE DEF gw
<1>5. Elements(gw \o d) \subseteq Elements(gw) \cup Elements(d)
  BY <1>1, <1>4, ElementsAre
<1>6. id \in OwnIds(p)
  BY <1>2, <1>3, <1>4, <1>5
<1>7. QED BY <1>2, <1>6 DEF HeldIds

(***************************************************************************)
(* Messages reach a connection in the order of send_reliable, for every    *)
(* number of servicers that take turns at the shared queue.                *)
(***************************************************************************)
THEOREM MessagesKeepTheirOrder == Spec => []NothingOvertakes
<1>1. TypeOK /\ WayInv => NothingOvertakes
  <2> SUFFICES ASSUME TypeOK, WayInv, NEW p \in Conns PROVE Ordered(Way(p))
    BY DEF NothingOvertakes, Ordered
  <2>1. /\ GivenIds(p) \in Seq(Nat) /\ WaitingIds(p) \in Seq(Nat) /\ DownIds(p) \in Seq(Nat)
        /\ BatchIds(p) \in Seq(Nat) /\ QueueIds \in Seq(Nat) /\ Len(sent) \in Nat
    BY StationsTyped DEF StationsOK
  <2>2. InLine(GivenIds(p), WaitingIds(p), DownIds(p), BatchIds(p), QueueIds, Len(sent))
    BY DEF WayInv, Line
  <2>3. Ordered((((GivenIds(p) \o WaitingIds(p)) \o DownIds(p)) \o BatchIds(p)) \o QueueIds)
    BY <2>1, <2>2, LineIsOrdered
  <2>4. Way(p) = (((GivenIds(p) \o WaitingIds(p)) \o DownIds(p)) \o BatchIds(p)) \o QueueIds
    BY WayIsStations
  <2>5. QED BY <2>3, <2>4
<1>2. QED BY <1>1, WayInvariant, JoinInvariant, PTL

(***************************************************************************)
(* A servicer writes to its client only what was sent to the user who      *)
(* joined on that connection.                                              *)
(***************************************************************************)
THEOREM ClientsGetTheirOwn == Spec => []OnlyOwnMessages
<1>1. TypeOK /\ WayInv => OnlyOwnMessages
  <2> SUFFICES ASSUME TypeOK, WayInv, NEW p \in Conns, NEW id \in IdsIn(Written(p))
               PROVE  sent[id] = UserOf[p]
    BY DEF OnlyOwnMessages
  <2>1. Owned(p)
    BY DEF WayInv
  <2>2. QED BY <2>1, WrittenAreOwn DEF Owned
<1>2. QED BY <1>1, WayInvariant, JoinInvariant, PTL

(***************************************************************************)
(* A message is drained by one servicer and so written to one connection   *)
(* at most, also when a user has joined on several.                        *)
(***************************************************************************)
THEOREM EachIsDeliveredOnce == Spec => []NeverOnTwoConnections
<1>1. TypeOK /\ WayInv => NeverOnTwoConnections
  <2> SUFFICES ASSUME TypeOK, WayInv, NEW p \in Conns, NEW q \in Conns, p # q,
                      NEW id \in IdsIn(Written(p)), id \in IdsIn(Written(q))
               PROVE  FALSE
    BY DEF NeverOnTwoConnections
  <2>1. HeldIds(p) \cap HeldIds(q) \subseteq {0}
    BY DEF WayInv, Apart
  <2>2. QED BY <2>1, WrittenAreOwn
<1>2. QED BY <1>1, WayInvariant, JoinInvariant, PTL
=============================================================================
