----------------------------- MODULE Subsequences -----------------------------
(***************************************************************************)
(* The subsequence of a sequence at some of its positions, which is what a *)
(* filter over a list keeps, and what is true of it for every sequence.    *)
(***************************************************************************)
EXTENDS Naturals, Sequences, FiniteSets, SequenceTheorems, FiniteSetTheorems,
        TLAPS

\* How many of the positions of I are at or before i.
Rank(I, i) == Cardinality({j \in I : j <= i})

\* The k-th position of I.
Nth(I, k) == CHOOSE i \in I : Rank(I, i) = k

\* The elements of s at the positions of I, in their order.
Picked(s, I) == [k \in 1..Cardinality(I) |-> s[Nth(I, k)]]

\* The last of the positions of S.
Latest(S) == CHOOSE i \in S : \A j \in S : j <= i

------------------------------------------------------------------------------
\* A nonempty set of naturals has a least element.
LEMMA LeastNatural ==
  ASSUME NEW T, T \subseteq Nat, T # {}
  PROVE  \E m \in T : \A k \in T : m <= k
<1>1. PICK m \in T : \A k \in T : ~ (<<k, m>> \in OpToRel(<, Nat))
  BY NatLessThanWellFounded, WFMin
<1>2. ASSUME NEW k \in T
      PROVE  m <= k
  <2>1. k \in Nat /\ m \in Nat
    OBVIOUS
  <2>2. ~ (k < m)
    BY <1>1, <2>1 DEF OpToRel
  <2>3. QED
    BY <2>1, <2>2
<1>3. QED
  BY <1>2

\* A nonempty set of positions has a last one.
LEMMA LastPosition ==
  ASSUME NEW n \in Nat, NEW S \in SUBSET (1..n), S # {}
  PROVE  \E x \in S : \A j \in S : j <= x
<1> DEFINE T == {n - i : i \in S}
<1>1. T \subseteq Nat /\ T # {}
  <2>1. \A i \in S : n - i \in Nat
    OBVIOUS
  <2>2. QED
    BY <2>1
<1>2. PICK m \in T : \A k \in T : m <= k
  BY <1>1, LeastNatural
<1>3. PICK i \in S : m = n - i
  BY <1>2
<1>4. ASSUME NEW j \in S
      PROVE  j <= i
  <2>1. n - j \in T /\ i \in 1..n /\ j \in 1..n
    OBVIOUS
  <2>2. QED
    BY <1>2, <1>3, <2>1
<1>5. QED
  BY <1>4

\* The last of some positions is one of them, and the greatest.
LEMMA LatestIsGreatest ==
  ASSUME NEW n \in Nat, NEW S \in SUBSET (1..n), S # {}
  PROVE  /\ Latest(S) \in S
         /\ \A j \in S : j <= Latest(S)
BY LastPosition DEF Latest

\* Ranks count up to the number of positions, one more at each position.
LEMMA RankCounts ==
  ASSUME NEW n \in Nat, NEW I \in SUBSET (1..n), NEW i \in 0..n
  PROVE  /\ IsFiniteSet(I) /\ Cardinality(I) \in 0..n
         /\ Rank(I, i) \in 0..Cardinality(I)
         /\ Rank(I, 0) = 0 /\ Rank(I, n) = Cardinality(I)
         /\ i \in I => Rank(I, i) = Rank(I, i - 1) + 1
         /\ (i > 0 /\ i \notin I) => Rank(I, i) = Rank(I, i - 1)
<1> DEFINE Below(k) == {j \in I : j <= k}
<1>0. \A j \in I : j \in Nat /\ 1 <= j /\ j <= n
  OBVIOUS
<1>1. IsFiniteSet(1..n) /\ Cardinality(1..n) = n
  BY FS_Interval
<1>2. IsFiniteSet(I) /\ Cardinality(I) <= n /\ Cardinality(I) \in Nat
  BY <1>1, FS_Subset, FS_CardinalityType
<1>3. \A k : /\ IsFiniteSet(Below(k)) /\ Cardinality(Below(k)) \in Nat
             /\ Cardinality(Below(k)) <= Cardinality(I)
  BY <1>2, FS_Subset, FS_CardinalityType
<1>4. Below(0) = {} /\ Below(n) = I
  <2>1. \A j \in I : ~ (j <= 0) /\ j <= n
    BY <1>0
  <2>2. QED
    BY <2>1
<1>5. Rank(I, 0) = 0 /\ Rank(I, n) = Cardinality(I)
  BY <1>4, FS_EmptySet DEF Rank
<1>6. i \in I => Rank(I, i) = Rank(I, i - 1) + 1
  <2> SUFFICES ASSUME i \in I PROVE Rank(I, i) = Rank(I, i - 1) + 1
    OBVIOUS
  <2>0. \A j \in I : (j <= i) <=> (j <= i - 1 \/ j = i)
    BY <1>0
  <2>1. Below(i) = Below(i - 1) \union {i} /\ i \notin Below(i - 1)
    <3>1. ~ (i <= i - 1)
      OBVIOUS
    <3>2. QED
      BY <2>0, <3>1
  <2>2. Cardinality(Below(i - 1) \union {i}) = Cardinality(Below(i - 1)) + 1
    <3> DEFINE T == Below(i - 1)
    <3>1. IsFiniteSet(T) /\ i \notin T
      BY <1>3, <2>1
    <3> HIDE DEF T
    <3>2. Cardinality(T \union {i}) = Cardinality(T) + 1
      BY <3>1, FS_AddElement
    <3>3. QED
      BY <3>2 DEF T
  <2>3. QED
    BY <2>1, <2>2 DEF Rank
<1>7. (i > 0 /\ i \notin I) => Rank(I, i) = Rank(I, i - 1)
  <2>1. (i > 0 /\ i \notin I) => Below(i) = Below(i - 1)
    <3>1. i \notin I => \A j \in I : (j <= i) <=> (j <= i - 1)
      BY <1>0
    <3>2. QED
      BY <3>1
  <2>2. QED
    BY <2>1 DEF Rank
<1>8. Rank(I, i) \in 0..Cardinality(I)
  BY <1>2, <1>3 DEF Rank
<1>9. QED
  BY <1>2, <1>5, <1>6, <1>7, <1>8

\* Ranks grow from position to position.
LEMMA RankGrows ==
  ASSUME NEW n \in Nat, NEW I \in SUBSET (1..n),
         NEW i \in 0..n, NEW j \in I, i < j
  PROVE  Rank(I, i) < Rank(I, j)
<1> DEFINE Low == {k \in I : k <= i}
           High == {k \in I : k <= j}
<1>0. \A k \in I : k \in Nat
  OBVIOUS
<1>1. IsFiniteSet(I)
  BY RankCounts
<1>2. Low \subseteq High /\ j \in High /\ j \notin Low
  <2>1. \A k \in I : k <= i => k <= j
    BY <1>0
  <2>2. j <= j /\ ~ (j <= i)
    BY <1>0
  <2>3. QED
    BY <2>1, <2>2
<1>a. IsFiniteSet(Low) /\ IsFiniteSet(High)
  BY <1>1, FS_Subset
<1>3. Cardinality(Low) <= Cardinality(High) /\ Cardinality(Low) # Cardinality(High)
  BY <1>2, <1>a, FS_Subset
<1>4. Cardinality(Low) \in Nat /\ Cardinality(High) \in Nat
  BY <1>a, FS_CardinalityType
<1>5. QED
  BY <1>3, <1>4 DEF Rank

\* Every rank is the rank of one position.
LEMMA NthIsPosition ==
  ASSUME NEW n \in Nat, NEW I \in SUBSET (1..n)
  PROVE  /\ \A k \in 1..Cardinality(I) : Nth(I, k) \in I /\ Rank(I, Nth(I, k)) = k
         /\ \A i \in I : Rank(I, i) \in 1..Cardinality(I) /\ Nth(I, Rank(I, i)) = i
<1>1. ASSUME NEW k \in 1..Cardinality(I)
      PROVE  \E i \in I : Rank(I, i) = k
  <2> DEFINE T == {i \in 0..n : Rank(I, i) >= k}
  <2>1. Cardinality(I) \in 0..n /\ Rank(I, n) = Cardinality(I) /\ Rank(I, 0) = 0
    BY RankCounts
  <2>2. n \in T /\ T \subseteq Nat
    BY <2>1
  <2>3. PICK m \in T : \A j \in T : m <= j
    BY <2>2, LeastNatural
  <2>4. m # 0 /\ m \in 1..n /\ m - 1 \in 0..n /\ m - 1 \notin T
    BY <2>1, <2>3
  <2>5. /\ Rank(I, m) >= k /\ Rank(I, m) \in Nat
        /\ Rank(I, m - 1) < k /\ Rank(I, m - 1) \in Nat
    BY <2>1, <2>4, RankCounts
  <2>6. m \in I
    BY <2>4, <2>5, RankCounts
  <2>7. Rank(I, m) = Rank(I, m - 1) + 1
    BY <2>4, <2>6, RankCounts
  <2>8. QED
    BY <2>5, <2>6, <2>7
<1>2. ASSUME NEW i \in I, NEW j \in I, Rank(I, i) = Rank(I, j)
      PROVE  i = j
  <2>1. i \in 0..n /\ j \in 0..n
    OBVIOUS
  <2>2. /\ Cardinality(I) \in 0..n
        /\ Rank(I, i) \in 0..Cardinality(I) /\ Rank(I, j) \in 0..Cardinality(I)
    BY <2>1, RankCounts
  <2>3. ~ (i < j) /\ ~ (j < i)
    BY <1>2, <2>1, <2>2, RankGrows
  <2>4. QED
    BY <2>1, <2>3
<1>3. ASSUME NEW i \in I
      PROVE  Rank(I, i) \in 1..Cardinality(I)
  <2>1. i \in 0..n /\ i - 1 \in 0..n
    OBVIOUS
  <2>2. /\ Rank(I, i) \in 0..Cardinality(I) /\ Rank(I, i - 1) \in 0..Cardinality(I)
        /\ Rank(I, i) = Rank(I, i - 1) + 1
        /\ Cardinality(I) \in Nat
    BY <2>1, RankCounts
  <2>3. QED
    BY <2>2
<1>4. QED
  BY <1>1, <1>2, <1>3 DEF Nth

\* The positions of successive ranks are neighbours: none lies between them,
\* and none lies before the first.
LEMMA NthAreNeighbours ==
  ASSUME NEW n \in Nat, NEW I \in SUBSET (1..n),
         NEW k \in 1..Cardinality(I), NEW j \in I, j < Nth(I, k)
  PROVE  /\ k - 1 \in 1..Cardinality(I)
         /\ Nth(I, k - 1) < Nth(I, k)
         /\ j <= Nth(I, k - 1)
<1> DEFINE i == Nth(I, k)
<1>0. \A x \in I : x \in 0..n
  OBVIOUS
<1>1. /\ Cardinality(I) \in Nat
      /\ i \in I /\ Rank(I, i) = k
      /\ Rank(I, j) \in 1..Cardinality(I)
  <2>1. 0 \in 0..n
    OBVIOUS
  <2>2. Cardinality(I) \in 0..n
    BY <2>1, RankCounts
  <2>3. QED
    BY <2>2, NthIsPosition
<1>2. i \in 0..n /\ j \in 0..n
  BY <1>0, <1>1
<1>3. Rank(I, j) < k
  BY <1>1, <1>2, RankGrows
<1>4. k - 1 \in 1..Cardinality(I)
  BY <1>1, <1>3
<1> DEFINE h == Nth(I, k - 1)
<1>5. h \in I /\ Rank(I, h) = k - 1
  BY <1>4, NthIsPosition
<1>6. h \in 0..n
  BY <1>0, <1>5
<1>7. ~ (i < h) /\ i # h
  <2>1. i < h => Rank(I, i) < Rank(I, h)
    BY <1>2, <1>5, RankGrows
  <2>2. QED
    BY <1>1, <1>5, <2>1
<1>8. ~ (h < j)
  <2>1. h < j => Rank(I, h) < Rank(I, j)
    BY <1>6, RankGrows
  <2>2. QED
    BY <1>1, <1>3, <1>5, <2>1
<1>9. QED
  BY <1>2, <1>4, <1>6, <1>7, <1>8

\* A filter keeps a sequence: it is no longer than the whole, its elements are
\* those at the positions picked, each in the place of its position's rank.
LEMMA PickedProperties ==
  ASSUME NEW S, NEW s \in Seq(S), NEW I \in SUBSET (1..Len(s))
  PROVE  /\ Picked(s, I) \in Seq(S)
         /\ Len(Picked(s, I)) = Cardinality(I)
         /\ Len(Picked(s, I)) \in 0..Len(s)
         /\ \A k \in 1..Cardinality(I) :
              Nth(I, k) \in I /\ Picked(s, I)[k] = s[Nth(I, k)]
         /\ Range(Picked(s, I)) = {s[i] : i \in I}
<1> DEFINE n == Len(s)
           picks == Picked(s, I)
           c == Cardinality(I)
<1>1. n \in Nat /\ c \in 0..n
  BY LenProperties, RankCounts
<1>2. \A k \in 1..c : Nth(I, k) \in I /\ picks[k] = s[Nth(I, k)] /\ s[Nth(I, k)] \in S
  BY <1>1, NthIsPosition, ElementOfSeq DEF Picked
<1>3. picks \in [1..c -> S] /\ c \in Nat
  BY <1>1, <1>2 DEF Picked
<1>4. picks \in Seq(S) /\ Len(picks) = c
  BY <1>3
<1>5. Range(picks) = {picks[k] : k \in 1..c}
  BY <1>4, RangeEquality
<1>6. \A i \in I : \E k \in 1..c : picks[k] = s[i]
  <2>1. \A i \in I : Rank(I, i) \in 1..c /\ Nth(I, Rank(I, i)) = i
    BY <1>1, NthIsPosition
  <2>2. QED
    BY <1>2, <2>1
<1>7. Range(picks) = {s[i] : i \in I}
  <2>1. ASSUME NEW k \in 1..c
        PROVE  picks[k] \in {s[i] : i \in I}
    BY <1>2
  <2>2. ASSUME NEW i \in I
        PROVE  s[i] \in {picks[k] : k \in 1..c}
    BY <1>6
  <2>3. QED
    BY <1>5, <2>1, <2>2
<1>8. QED
  BY <1>1, <1>2, <1>4, <1>7

\* What the operations on sequences do to the set of its elements.
LEMMA RangeFacts ==
  ASSUME NEW S, NEW s \in Seq(S)
  PROVE  /\ Range(s) \subseteq S
         /\ s = << >> <=> Range(s) = {}
         /\ \A x \in S : Append(s, x) \in Seq(S) /\ Range(Append(s, x)) = Range(s) \union {x}
         /\ \A r \in Seq(S) : r \o s \in Seq(S) /\ Range(r \o s) = Range(r) \union Range(s)
<1>1. Range(s) \subseteq S
  BY RangeOfSeq
<1>2. s = << >> <=> Range(s) = {}
  <2>1. Range(s) = {s[i] : i \in 1..Len(s)} /\ Len(s) \in Nat
    BY RangeEquality, LenProperties
  <2>2. s # << >> => Len(s) # 0
    BY EmptySeq
  <2>3. s = << >> => Len(s) = 0
    OBVIOUS
  <2>4. Len(s) = 0 => {s[i] : i \in 1..Len(s)} = {}
    OBVIOUS
  <2>5. Len(s) # 0 => s[1] \in {s[i] : i \in 1..Len(s)}
    BY <2>1
  <2>6. QED
    BY <2>1, <2>2, <2>3, <2>4, <2>5
<1>3. ASSUME NEW x \in S
      PROVE  Append(s, x) \in Seq(S) /\ Range(Append(s, x)) = Range(s) \union {x}
  <2>1. <<x>> \in Seq(S) /\ Range(<<x>>) = {x}
    <3>1. <<x>> \in Seq(S) /\ Len(<<x>>) = 1 /\ <<x>>[1] = x
      OBVIOUS
    <3>2. Range(<<x>>) = {<<x>>[i] : i \in 1..1}
      BY <3>1, RangeEquality
    <3>3. QED
      BY <3>1, <3>2
  <2>2. Append(s, x) = s \o <<x>>
    BY AppendIsConcat
  <2>3. Range(s \o <<x>>) = Range(s) \union Range(<<x>>)
    <3> DEFINE u == <<x>>
    <3>1. u \in Seq(S)
      BY <2>1
    <3> HIDE DEF u
    <3>2. Range(s \o u) = Range(s) \union Range(u)
      BY <3>1, RangeConcatenation
    <3>3. QED
      BY <3>2 DEF u
  <2>4. QED
    BY <2>1, <2>2, <2>3, AppendProperties
<1>4. ASSUME NEW r \in Seq(S)
      PROVE  r \o s \in Seq(S) /\ Range(r \o s) = Range(r) \union Range(s)
  BY ConcatProperties, RangeConcatenation
<1>5. QED
  BY <1>1, <1>2, <1>3, <1>4
==============================================================================
