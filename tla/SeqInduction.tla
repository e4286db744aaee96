---------------------------- MODULE SeqInduction ----------------------------
(* Induction over the natural numbers, stated with sets, and what it gives   *)
(* for sequences built up piece by piece: the first octets stay where they   *)
(* are.  Induction comes from the well-foundedness of strict inclusion on    *)
(* finite sets, by way of the initial intervals of the natural numbers.      *)
EXTENDS Integers, Sequences, SequencesExt, SequenceTheorems, FiniteSetTheorems, TLAPS

\* Every set of natural numbers that is not empty has a least element.
LEMMA LeastElement ==
  ASSUME NEW T \in SUBSET Nat, T # {}
  PROVE  \E n \in T : \A m \in T : n <= m
<1> DEFINE below == {0..n : n \in T}
           R == StrictSubsetOrdering(Nat)
<1>1. IsWellFoundedOn(R, FiniteSubsetsOf(Nat))
  BY FS_StrictSubsetOrderingWellFounded
<1>2. \A n \in T : IsFiniteSet(0..n) /\ 0..n \in SUBSET Nat
  BY FS_Interval
<1>3. below \subseteq FiniteSubsetsOf(Nat) /\ below # {}
  BY <1>2 DEF FiniteSubsetsOf
<1>4. \E s \in below : \A r \in below : ~(<<r, s>> \in R)
  <2> HIDE DEF R, below
  <2> QED BY <1>1, <1>3, WFMin
<1>5. PICK n \in T : \A r \in below : ~(<<r, 0..n>> \in R)
  BY <1>4
<1>6. \A m \in T : n <= m
  <2> SUFFICES ASSUME NEW m \in T, m < n PROVE FALSE
    OBVIOUS
  <2>1. 0..m \subseteq 0..n /\ 0..m # 0..n /\ 0..m \in SUBSET Nat /\ 0..n \in SUBSET Nat
    OBVIOUS
  <2>2. <<0..m, 0..n>> \in R
    BY <2>1 DEF StrictSubsetOrdering
  <2> QED BY <1>5, <2>2
<1> QED BY <1>6

\* Induction up to a bound, for the property of being in a set.
LEMMA InductionUpTo ==
  ASSUME NEW N \in Nat, NEW T, 0 \in T,
         \A n \in 0..(N - 1) : n \in T => n + 1 \in T
  PROVE  \A n \in 0..N : n \in T
<1> DEFINE Out == {n \in 0..N : n \notin T}
<1> SUFFICES ASSUME Out # {} PROVE FALSE
  OBVIOUS
<1>1. Out \in SUBSET Nat
  OBVIOUS
<1>2. PICK n \in Out : \A m \in Out : n <= m
  <2> HIDE DEF Out
  <2> QED BY <1>1, LeastElement
<1>3. n # 0 /\ n \in 0..N /\ n \notin T
  BY <1>2
<1>4. n - 1 \in 0..(N - 1) /\ n - 1 \in 0..N /\ ~(n <= n - 1)
  BY <1>3
<1>5. n - 1 \in T
  BY <1>2, <1>4
<1>6. n - 1 + 1 \in T
  BY <1>4, <1>5
<1> QED BY <1>3, <1>6

\* The same with the hypothesis for all smaller numbers.
LEMMA StrongInductionUpTo ==
  ASSUME NEW N \in Nat, NEW T,
         \A n \in 0..N : (\A m \in 0..(n - 1) : m \in T) => n \in T
  PROVE  \A n \in 0..N : n \in T
<1> DEFINE Out == {n \in 0..N : n \notin T}
<1> SUFFICES ASSUME Out # {} PROVE FALSE
  OBVIOUS
<1>1. Out \in SUBSET Nat
  OBVIOUS
<1>2. PICK n \in Out : \A m \in Out : n <= m
  <2> HIDE DEF Out
  <2> QED BY <1>1, LeastElement
<1>3. \A m \in 0..(n - 1) : m \in 0..N /\ ~(n <= m)
  BY <1>2
<1> QED BY <1>2, <1>3

-----------------------------------------------------------------------------
\* f[i] is made of the first i pieces.
Pieces(f, b, n) == \A i \in 1..n : f[i] = f[i - 1] \o b[i]

\* What has been appended to stays in front.
LEMMA PiecesKeepFront ==
  ASSUME NEW S, NEW n \in Nat, NEW f \in [0..n -> Seq(S)], NEW b \in [1..n -> Seq(S)],
         Pieces(f, b, n), NEW i \in 0..n
  PROVE  \A j \in i..n : /\ Len(f[i]) <= Len(f[j])
                         /\ \A p \in 1..Len(f[i]) : f[j][p] = f[i][p]
<1> DEFINE Keeps(j) == j < i \/ (/\ Len(f[i]) <= Len(f[j])
                                 /\ \A p \in 1..Len(f[i]) : f[j][p] = f[i][p])
           T == {j \in 0..n : Keeps(j)}
<1>1. 0 \in T
  OBVIOUS
<1>2. ASSUME NEW j \in 0..(n - 1), j \in T PROVE j + 1 \in T
  <2>1. j + 1 \in 1..n /\ (j + 1) - 1 = j /\ j \in 0..n /\ j + 1 \in 0..n
    OBVIOUS
  <2>2. f[j + 1] = f[j] \o b[j + 1] /\ f[j] \in Seq(S) /\ b[j + 1] \in Seq(S) /\ f[i] \in Seq(S)
    BY <2>1 DEF Pieces
  <2>3. /\ Len(f[j + 1]) = Len(f[j]) + Len(b[j + 1])
        /\ \A p \in 1..Len(f[j]) : f[j + 1][p] = f[j][p]
        /\ Len(f[j]) \in Nat /\ Len(b[j + 1]) \in Nat /\ Len(f[i]) \in Nat
    <3>1. \A p \in 1..(Len(f[j]) + Len(b[j + 1])) :
            (f[j] \o b[j + 1])[p] = IF p <= Len(f[j]) THEN f[j][p] ELSE b[j + 1][p - Len(f[j])]
      BY <2>2, ConcatProperties
    <3>2. Len(f[j] \o b[j + 1]) = Len(f[j]) + Len(b[j + 1])
      BY <2>2, ConcatProperties
    <3>3. Len(f[j]) \in Nat /\ Len(b[j + 1]) \in Nat /\ Len(f[i]) \in Nat
      BY <2>2, LenProperties
    <3>4. \A x, y \in Nat : \A p \in 1..x : p \in 1..(x + y) /\ p <= x
      OBVIOUS
    <3> QED BY <2>2, <3>1, <3>2, <3>3, <3>4
  <2>4. CASE j + 1 <= i
    BY <2>1, <2>4
  <2>5. CASE i <= j
    BY <1>2, <2>1, <2>3, <2>5
  <2> QED BY <2>4, <2>5
<1>3. \A j \in 0..n : j \in T
  <2> HIDE DEF T
  <2> QED BY <1>1, <1>2, InductionUpTo
<1> QED BY <1>3

\* Any pieces can be put together.
LEMMA PiecesExist ==
  ASSUME NEW S, NEW n \in Nat, NEW a \in Seq(S), NEW b \in [1..n -> Seq(S)]
  PROVE  \E f \in [0..n -> Seq(S)] : f[0] = a /\ Pieces(f, b, n)
<1> DEFINE Built(k) == \E f \in [0..k -> Seq(S)] : f[0] = a /\ Pieces(f, b, k)
           T == {k \in 0..n : Built(k)}
<1>1. 0 \in T
  <2> DEFINE g == [k \in 0..0 |-> a]
  <2>1. g \in [0..0 -> Seq(S)] /\ g[0] = a
    OBVIOUS
  <2>2. Pieces(g, b, 0)
    BY DEF Pieces
  <2> HIDE DEF g
  <2> QED BY <2>1, <2>2
<1>2. ASSUME NEW k \in 0..(n - 1), k \in T PROVE k + 1 \in T
  <2>1. PICK f \in [0..k -> Seq(S)] : f[0] = a /\ Pieces(f, b, k)
    BY <1>2
  <2> DEFINE g == [j \in 0..(k + 1) |-> IF j = k + 1 THEN f[k] \o b[k + 1] ELSE f[j]]
  <2>2. f[k] \o b[k + 1] \in Seq(S)
    BY ConcatProperties
  <2>3. g \in [0..(k + 1) -> Seq(S)] /\ g[0] = a
    BY <2>1, <2>2
  <2>4. Pieces(g, b, k + 1)
    <3> SUFFICES ASSUME NEW j \in 1..(k + 1) PROVE g[j] = g[j - 1] \o b[j]
      BY DEF Pieces
    <3>1. /\ j \in 0..(k + 1) /\ j - 1 \in 0..(k + 1) /\ j - 1 # k + 1
          /\ j = k + 1 \/ (j \in 1..k /\ j # k + 1)
          /\ j = k + 1 => j - 1 = k
      OBVIOUS
    <3>2. g[j - 1] = f[j - 1] /\ g[j] = IF j = k + 1 THEN f[k] \o b[k + 1] ELSE f[j]
      BY <3>1
    <3>3. j \in 1..k => f[j] = f[j - 1] \o b[j]
      BY <2>1 DEF Pieces
    <3> HIDE DEF g
    <3> QED BY <3>1, <3>2, <3>3
  <2> HIDE DEF g
  <2>5. Built(k + 1)
    BY <2>3, <2>4
  <2>6. k + 1 \in 0..n
    OBVIOUS
  <2> HIDE DEF Built
  <2> QED BY <2>5, <2>6
<1>3. n \in 0..n => n \in T
  <2> HIDE DEF T
  <2> QED BY <1>1, <1>2, InductionUpTo
<1> QED BY <1>3

\* FlattenSeq puts its sequences together.
LEMMA FlattenPieces ==
  ASSUME NEW S, NEW s \in Seq(Seq(S))
  PROVE  \E f \in [0..Len(s) -> Seq(S)] :
           f[0] = <<>> /\ Pieces(f, s, Len(s)) /\ FlattenSeq(s) = f[Len(s)]
<1> DEFINE n == Len(s)
<1>1. n \in Nat /\ s \in [1..n -> Seq(S)] /\ <<>> \in Seq(S)
  BY LenProperties
<1>2. CASE n = 0
  <2>1. s = <<>>
    BY <1>2, EmptySeq
  <2>2. FlattenSeq(s) = <<>>
    BY <1>2, <2>1 DEF FlattenSeq
  <2> DEFINE g == [k \in 0..0 |-> <<>>]
  <2>3. g \in [0..n -> Seq(S)] /\ g[0] = <<>>
    BY <1>1, <1>2
  <2>4. Pieces(g, s, n)
    BY <1>2 DEF Pieces
  <2> HIDE DEF g
  <2> QED BY <1>2, <2>2, <2>3, <2>4
<1>3. CASE n # 0
  <2> DEFINE Is(h) == h = [i \in 1..n |-> IF i = 1 THEN s[i] ELSE h[i - 1] \o s[i]]
             h == CHOOSE g : Is(g)
             f == [i \in 0..n |-> IF i = 0 THEN <<>> ELSE h[i]]
  <2>1. FlattenSeq(s) = h[n]
    BY <1>3 DEF FlattenSeq
  <2>2. PICK g \in [0..n -> Seq(S)] : g[0] = <<>> /\ Pieces(g, s, n)
    <3> HIDE DEF n
    <3> QED BY <1>1, PiecesExist
  <2>3. Is([i \in 1..n |-> g[i]])
    <3>1. g[1] = s[1]
      <4>1. 1 \in 1..n /\ 1 - 1 = 0
        BY <1>1, <1>3
      <4>2. g[1] = g[1 - 1] \o s[1] /\ s[1] \in Seq(S)
        BY <1>1, <2>2, <4>1 DEF Pieces
      <4>3. g[1] = <<>> \o s[1]
        BY <2>2, <4>1, <4>2
      <4> QED BY <4>2, <4>3, ConcatEmptySeq
    <3>2. \A i \in 1..n : i # 1 => i - 1 \in 1..n
      BY <1>1
    <3> QED BY <1>1, <2>2, <3>1, <3>2 DEF Pieces
  <2>4. Is(h)
    <3> HIDE DEF Is
    <3> QED BY <2>3
  <2> HIDE DEF h
  <2>5. \A i \in 1..n : h[i] \in Seq(S)
    <3> DEFINE T == {i \in 0..n : i = 0 \/ h[i] \in Seq(S)}
    <3>1. 0 \in T
      BY <1>1
    <3>2. ASSUME NEW i \in 0..(n - 1), i \in T PROVE i + 1 \in T
      <4>1. i + 1 \in 1..n /\ (i + 1) - 1 = i /\ i + 1 \in 0..n /\ (i + 1 = 1 <=> i = 0)
        BY <1>1
      <4>2. h[i + 1] = IF i + 1 = 1 THEN s[i + 1] ELSE h[(i + 1) - 1] \o s[i + 1]
        BY <2>4, <4>1
      <4>3. s[i + 1] \in Seq(S) /\ (i = 0 \/ h[i] \in Seq(S))
        BY <1>1, <3>2, <4>1
      <4>4. h[i + 1] \in Seq(S)
        BY <4>1, <4>2, <4>3, ConcatProperties
      <4> QED BY <4>1, <4>4
    <3>3. \A i \in 0..n : i \in T
      <4> HIDE DEF T
      <4> QED BY <1>1, <3>1, <3>2, InductionUpTo
    <3> QED BY <3>3
  <2>6. f \in [0..n -> Seq(S)] /\ f[0] = <<>> /\ FlattenSeq(s) = f[n]
    BY <1>1, <1>3, <2>1, <2>5
  <2>7. Pieces(f, s, n)
    <3> SUFFICES ASSUME NEW i \in 1..n PROVE f[i] = f[i - 1] \o s[i]
      BY DEF Pieces
    <3>1. CASE i = 1
      <4>1. 1 \in 1..n /\ 1 \in 0..n /\ 1 - 1 = 0 /\ 0 \in 0..n
        BY <1>1, <1>3
      <4>2. h[1] = s[1] /\ s[1] \in Seq(S)
        BY <1>1, <2>4, <4>1
      <4>3. f[1] = s[1] /\ f[1 - 1] = <<>>
        BY <4>1, <4>2
      <4> HIDE DEF f
      <4> QED BY <3>1, <4>2, <4>3, ConcatEmptySeq
    <3>2. CASE i # 1
      <4>1. i \in 0..n /\ i - 1 \in 0..n /\ i # 0 /\ i - 1 # 0
        BY <1>1, <3>2
      <4>2. h[i] = h[i - 1] \o s[i]
        BY <2>4, <3>2
      <4>3. f[i] = h[i] /\ f[i - 1] = h[i - 1]
        BY <4>1
      <4> QED BY <4>2, <4>3
    <3> QED BY <3>1, <3>2
  <2> QED BY <2>6, <2>7
<1> QED BY <1>2, <1>3
=============================================================================
