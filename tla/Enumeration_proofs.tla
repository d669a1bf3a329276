------------------------- MODULE Enumeration_proofs -------------------------
(***************************************************************************)
(* Facts about finite sets of numbers in increasing order: every rank is   *)
(* taken by one element, and Ascending lists the elements by rank; and     *)
(* about sequences joined one after the other.                             *)
(***************************************************************************)
EXTENDS Enumeration, Integers, SequencesExt, FiniteSetTheorems, FunctionTheorems,
        SequenceTheorems, WellFoundedInduction, TLAPS

\* The elements of S below i.
SmallerIn(S, i) == {k \in S : k < i}
Rank(S, i) == Cardinality(SmallerIn(S, i))

\* A non-empty set of naturals has a least element.
LEMMA LeastNatural ==
    ASSUME NEW T, T \subseteq Nat, T # {}
    PROVE  \E x \in T : \A y \in T : x <= y
<1>1. PICK x \in T : \A y \in T : ~(<<y, x>> \in OpToRel(<, Nat))
  BY NatLessThanWellFounded, WFMin
<1>2. \A y \in T : ~(y < x)
  BY <1>1 DEF OpToRel
<1>. QED BY <1>2

\* A set that contains zero and n + 1 whenever it contains n has all of 0..N.
LEMMA UpwardInduction ==
    ASSUME NEW N \in Nat, NEW S, 0 \in S,
           \A n \in 0..N : n \in S /\ n < N => n + 1 \in S
    PROVE  \A n \in 0..N : n \in S
<1> DEFINE T == {k \in 0..N : k \notin S}
<1> SUFFICES ASSUME T # {} PROVE FALSE
  OBVIOUS
<1>1. PICK k \in T : \A y \in T : k <= y
  <2>1. T \subseteq Nat
    OBVIOUS
  <2> HIDE DEF T
  <2>. QED BY <2>1, LeastNatural
<1>2. k \in 0..N /\ k # 0 /\ k \notin S
  BY <1>1
<1>3. k - 1 \in 0..N /\ k - 1 < N /\ (k - 1) + 1 = k
  BY <1>2
<1>4. k - 1 \in S
  BY <1>1, <1>2, <1>3
<1>. QED BY <1>2, <1>3, <1>4

\* A rank is a natural number below the cardinality.
LEMMA RankBound ==
    ASSUME NEW S, S \subseteq Nat, IsFiniteSet(S), NEW i \in S
    PROVE  /\ IsFiniteSet(SmallerIn(S, i))
           /\ Rank(S, i) \in Nat
           /\ Rank(S, i) < Cardinality(S)
<1> DEFINE B == SmallerIn(S, i)
<1>1. B \subseteq S /\ i \notin B /\ B # S
  BY DEF SmallerIn
<1> HIDE DEF B
<1>2. IsFiniteSet(B) /\ Cardinality(B) <= Cardinality(S) /\ Cardinality(B) # Cardinality(S)
  BY <1>1, FS_Subset
<1>3. Cardinality(B) \in Nat /\ Cardinality(S) \in Nat
  BY <1>2, FS_CardinalityType
<1>. QED BY <1>2, <1>3 DEF B, Rank

\* A larger element has a larger rank.
LEMMA RankMonotone ==
    ASSUME NEW S, S \subseteq Nat, IsFiniteSet(S), NEW x \in S, NEW y \in S, x < y
    PROVE  Rank(S, x) < Rank(S, y)
<1> DEFINE X == SmallerIn(S, x)
           Y == SmallerIn(S, y)
<1>0. x \in Nat /\ y \in Nat /\ \A k \in S : k \in Nat
  OBVIOUS
<1>a. \A k \in S : k < x => k < y
  BY <1>0
<1>b. ~(x < x)
  BY <1>0
<1>1. X \subseteq Y /\ x \in Y /\ x \notin X
  BY <1>a, <1>b DEF SmallerIn
<1>2. IsFiniteSet(X) /\ IsFiniteSet(Y) /\ Cardinality(X) \in Nat /\ Cardinality(Y) \in Nat
  BY RankBound DEF Rank
<1> HIDE DEF X, Y
<1>3. Cardinality(X) <= Cardinality(Y) /\ Cardinality(X) # Cardinality(Y)
  BY <1>1, <1>2, FS_Subset
<1>. QED BY <1>2, <1>3 DEF X, Y, Rank

\* Two elements have different ranks.
LEMMA RankInjective ==
    ASSUME NEW S, S \subseteq Nat, IsFiniteSet(S),
           NEW x \in S, NEW y \in S, Rank(S, x) = Rank(S, y)
    PROVE  x = y
<1>1. Rank(S, x) \in Nat /\ Rank(S, y) \in Nat /\ x \in Nat /\ y \in Nat
  BY RankBound
<1>2. x < y => Rank(S, x) < Rank(S, y)
  BY RankMonotone
<1>3. y < x => Rank(S, y) < Rank(S, x)
  BY RankMonotone
<1>. QED BY <1>1, <1>2, <1>3

\* An interval from zero has as many elements as its bound.
LEMMA IntervalCardinality ==
    ASSUME NEW n \in Nat
    PROVE  /\ IsFiniteSet(0..(n - 1)) /\ Cardinality(0..(n - 1)) = n
           /\ IsFiniteSet(1..n) /\ Cardinality(1..n) = n
<1>1. n - 1 \in Int /\ n \in Int /\ 0 \in Int /\ 1 \in Int
  OBVIOUS
<1>2. IsFiniteSet(0..(n - 1)) /\ Cardinality(0..(n - 1)) = IF 0 > n - 1 THEN 0 ELSE (n - 1) - 0 + 1
  BY <1>1, FS_Interval
<1>3. IsFiniteSet(1..n) /\ Cardinality(1..n) = IF 1 > n THEN 0 ELSE n - 1 + 1
  BY <1>1, FS_Interval
<1>. QED BY <1>2, <1>3

\* Every number below the cardinality is the rank of an element.
LEMMA RankOnto ==
    ASSUME NEW S, S \subseteq Nat, IsFiniteSet(S), NEW n \in Nat, n < Cardinality(S)
    PROVE  \E i \in S : Rank(S, i) = n
<1> DEFINE T == 0..(Cardinality(S) - 1)
           f == [i \in S |-> Rank(S, i)]
<1>1. Cardinality(S) \in Nat
  BY FS_CardinalityType
<1>2. f \in [S -> T]
  <2>1. \A i \in S : Rank(S, i) \in Nat /\ Rank(S, i) < Cardinality(S)
    BY RankBound
  <2>. QED BY <1>1, <2>1
<1>3. \A i, j \in S : f[i] = f[j] => i = j
  BY RankInjective
<1>4. f \in Injection(S, T)
  BY <1>2, <1>3, Fun_IsInj
<1>5. IsFiniteSet(T) /\ Cardinality(T) = Cardinality(S)
  BY <1>1, IntervalCardinality
<1>6. f \in Surjection(S, T)
  BY <1>4, <1>5, FS_Injection
<1>7. n \in T
  BY <1>1
<1>8. \E i \in S : f[i] = n
  <2> HIDE DEF T, f
  <2>. QED BY <1>6, <1>7 DEF Surjection
<1>. QED BY <1>8

\* A function of 1..n that increases and stays below n takes each k to k - 1.
LEMMA IncreasingIsIdentity ==
    ASSUME NEW n \in Nat, NEW g \in [1..n -> 0..(n - 1)],
           \A j, k \in 1..n : j < k => g[j] < g[k]
    PROVE  \A k \in 1..n : g[k] = k - 1
<1> DEFINE Off == {k \in 1..n : g[k] # k - 1}
<1> SUFFICES ASSUME Off # {} PROVE FALSE
  OBVIOUS
<1>1. PICK k \in Off : \A y \in Off : k <= y
  <2>1. Off \subseteq Nat
    OBVIOUS
  <2> HIDE DEF Off
  <2>. QED BY <2>1, LeastNatural
<1>2. k \in 1..n /\ g[k] \in Nat /\ \A j \in 1..n : j < k => g[j] = j - 1
  BY <1>1
<1>3. g[k] > k - 1
  <2>1. CASE k = 1
    BY <1>1, <1>2, <2>1
  <2>2. CASE k # 1
    <3>1. k - 1 \in 1..n /\ k - 1 < k
      BY <1>2, <2>2
    <3>2. g[k - 1] = k - 2 /\ g[k - 1] < g[k]
      BY <1>2, <3>1
    <3>. QED BY <1>1, <1>2, <3>2
  <2>. QED BY <2>1, <2>2
<1>4. g \in Surjection(1..n, 0..(n - 1))
  <2>1. \A i, j \in 1..n : g[i] = g[j] => i = j
    <3> SUFFICES ASSUME NEW i \in 1..n, NEW j \in 1..n, g[i] = g[j], i # j PROVE FALSE
      OBVIOUS
    <3>1. i < j \/ j < i
      OBVIOUS
    <3>2. g[i] < g[j] \/ g[j] < g[i]
      BY <3>1
    <3>3. g[i] \in Nat /\ g[j] \in Nat
      OBVIOUS
    <3>. QED BY <3>2, <3>3
  <2>2. g \in Injection(1..n, 0..(n - 1))
    BY <2>1, Fun_IsInj
  <2>3. Cardinality(1..n) = Cardinality(0..(n - 1)) /\ IsFiniteSet(0..(n - 1))
    BY IntervalCardinality
  <2>. QED BY <2>2, <2>3, FS_Injection
<1>5. PICK j \in 1..n : g[j] = k - 1
  <2>1. k - 1 \in 0..(n - 1)
    BY <1>2
  <2>2. \A t \in 0..(n - 1) : \E j \in 1..n : g[j] = t
    BY <1>4 DEF Surjection
  <2>. QED BY <2>1, <2>2
<1>6. CASE j < k
  BY <1>2, <1>5, <1>6
<1>7. CASE j = k
  BY <1>1, <1>5, <1>7
<1>8. CASE k < j
  <2>1. g[k] < g[j] /\ g[j] \in Nat
    BY <1>2, <1>8
  <2>. QED BY <1>2, <1>3, <1>5, <2>1
<1>. QED BY <1>2, <1>6, <1>7, <1>8

\* Ascending lists every element, the one of rank k - 1 at position k.
LEMMA AscendingByRank ==
    ASSUME NEW S, S \subseteq Nat, IsFiniteSet(S)
    PROVE  /\ Ascending(S) \in [1..Cardinality(S) -> S]
           /\ \A k \in 1..Cardinality(S) : Rank(S, Ascending(S)[k]) = k - 1
           /\ \A i \in S : /\ Rank(S, i) + 1 \in 1..Cardinality(S)
                           /\ Ascending(S)[Rank(S, i) + 1] = i
<1> DEFINE n == Cardinality(S)
           Increasing(f) == \A j, k \in 1..n : j < k => f[j] < f[k]
           order == Ascending(S)
<1>1. n \in Nat
  BY FS_CardinalityType
<1>2. \E f \in [1..n -> S] : Increasing(f)
  <2> DEFINE f == [k \in 1..n |-> CHOOSE i \in S : Rank(S, i) = k - 1]
  <2>1. ASSUME NEW k \in 1..n PROVE \E i \in S : Rank(S, i) = k - 1
    <3>1. k - 1 \in Nat /\ k - 1 < n
      BY <1>1
    <3>. QED BY <3>1, RankOnto
  <2>2. \A k \in 1..n : f[k] \in S /\ Rank(S, f[k]) = k - 1
    BY <2>1
  <2>3. f \in [1..n -> S]
    BY <2>2
  <2> HIDE DEF f
  <2>4. ASSUME NEW j \in 1..n, NEW k \in 1..n, j < k
        PROVE  f[j] < f[k]
    <3>1. f[j] \in S /\ f[k] \in S /\ f[j] \in Nat /\ f[k] \in Nat
      BY <2>2
    <3>2. Rank(S, f[j]) = j - 1 /\ Rank(S, f[k]) = k - 1
      BY <2>2
    <3>3. f[j] # f[k]
      BY <2>4, <3>2
    <3>4. f[k] < f[j] => Rank(S, f[k]) < Rank(S, f[j])
      BY <3>1, RankMonotone
    <3>. QED BY <2>4, <3>1, <3>2, <3>3, <3>4
  <2>. QED BY <2>3, <2>4
<1>3. order \in [1..n -> S] /\ Increasing(order)
  BY <1>2 DEF Ascending
<1> HIDE DEF order
<1>4. \A k \in 1..n : Rank(S, order[k]) = k - 1
  <2> DEFINE g == [k \in 1..n |-> Rank(S, order[k])]
  <2>1. \A k \in 1..n : Rank(S, order[k]) \in Nat /\ Rank(S, order[k]) < n
    BY <1>3, RankBound
  <2>2. g \in [1..n -> 0..(n - 1)]
    BY <1>1, <2>1
  <2>3. \A j, k \in 1..n : j < k => g[j] < g[k]
    BY <1>3, RankMonotone
  <2>4. \A k \in 1..n : g[k] = k - 1
    <3> HIDE DEF g, n
    <3>. QED BY <1>1, <2>2, <2>3, IncreasingIsIdentity
  <2>. QED BY <2>4
<1>5. ASSUME NEW i \in S
      PROVE  Rank(S, i) + 1 \in 1..n /\ order[Rank(S, i) + 1] = i
  <2> DEFINE k == Rank(S, i) + 1
  <2>1. k \in 1..n /\ k - 1 = Rank(S, i)
    <3>1. Rank(S, i) \in Nat /\ Rank(S, i) < n
      BY RankBound
    <3>. QED BY <1>1, <3>1
  <2>2. order[k] \in S /\ Rank(S, order[k]) = Rank(S, i)
    BY <1>3, <1>4, <2>1
  <2>3. order[k] = i
    BY <2>2, RankInjective
  <2>. QED BY <2>1, <2>3
<1>. QED BY <1>3, <1>4, <1>5 DEF order

-----------------------------------------------------------------------------
(* Sequences joined one after the other *)

\* What f has after i of the sequences of s.
JoinedUpTo(f, s, i) == IF i = 1 THEN s[i] ELSE f[i - 1] \o s[i]

\* f has the sequences of s joined, up to each of them.
Concatenates(f, s) == f = [i \in 1..Len(s) |-> JoinedUpTo(f, s, i)]

\* The recursive definition of such an f has a solution.
LEMMA ConcatenationExists ==
    ASSUME NEW s, Len(s) \in Nat
    PROVE  \E f : Concatenates(f, s)
<1> DEFINE N == Len(s)
           UpTo(f, n) == f = [i \in 1..n |-> JoinedUpTo(f, s, i)]
           S == {n \in 0..N : \E f : UpTo(f, n)}
<1>1. 0 \in S
  <2>1. PICK f : f = [i \in 1..0 |-> s]
    OBVIOUS
  <2>2. \A i : i \notin 1..0
    OBVIOUS
  <2>3. UpTo(f, 0)
    BY <2>1, <2>2
  <2>4. 0 \in 0..N
    OBVIOUS
  <2> HIDE DEF UpTo
  <2>. QED BY <2>3, <2>4
<1>2. ASSUME NEW n \in 0..N, n \in S, n < N PROVE n + 1 \in S
  <2>1. PICK u : UpTo(u, n)
    BY <1>2
  <2> DEFINE v == [i \in 1..(n + 1) |-> JoinedUpTo(u, s, i)]
  <2>2. \A i \in 1..n : i \in 1..(n + 1) /\ v[i] = u[i]
    <3>1. \A i \in 1..n : u[i] = JoinedUpTo(u, s, i)
      BY <2>1
    <3>. QED BY <3>1
  <2> HIDE DEF v
  <2>3. \A i \in 1..(n + 1) : i = 1 \/ i - 1 \in 1..n
    OBVIOUS
  <2>4. \A i \in 1..(n + 1) : JoinedUpTo(u, s, i) = JoinedUpTo(v, s, i)
    BY <2>2, <2>3 DEF JoinedUpTo
  <2>5. v = [i \in 1..(n + 1) |-> JoinedUpTo(v, s, i)]
    BY <2>4 DEF v
  <2>6. n + 1 \in 0..N
    BY <1>2
  <2>. QED BY <2>5, <2>6
<1>3. \A n \in 0..N : n \in S
  <2> HIDE DEF S
  <2>. QED BY <1>1, <1>2, UpwardInduction
<1>4. N \in 0..N
  OBVIOUS
<1>. QED BY <1>3, <1>4 DEF Concatenates

\* Where the elements are: the j-th of sequence i follows all of the sequences before it.
Places(off, s) ==
    /\ off \in [0..Len(s) -> Nat]
    /\ off[0] = 0
    /\ \A i \in 1..Len(s) : off[i] = off[i - 1] + Len(s[i])

IsJoined(w, s, off, n) ==
    /\ Len(w) = off[n]
    /\ \A i \in 1..n : \A j \in 1..Len(s[i]) : off[i - 1] + j \in 1..off[n] /\ w[off[i - 1] + j] = s[i][j]

LEMMA JoinedElements ==
    ASSUME NEW T, NEW s \in Seq(Seq(T)), Len(s) > 0, NEW f, Concatenates(f, s)
    PROVE  /\ \A i \in 1..Len(s) : f[i] \in Seq(T)
           /\ \E off : Places(off, s) /\ IsJoined(f[Len(s)], s, off, Len(s))
<1> DEFINE N == Len(s)
           off == [i \in 0..N |-> IF i = 0 THEN 0 ELSE Len(f[i])]
           Good(n) == n > 0 => f[n] \in Seq(T) /\ IsJoined(f[n], s, off, n)
           S == {n \in 0..N : Good(n)}
<1>1. N \in Nat \ {0} /\ \A i \in 1..N : s[i] \in Seq(T) /\ Len(s[i]) \in Nat
  BY ElementOfSeq, LenProperties
<1>2. \A i \in 1..N : f[i] = JoinedUpTo(f, s, i)
  BY DEF Concatenates
<1>3. 0 \in S
  BY <1>1
<1>4. ASSUME NEW n \in 0..N, n \in S, n < N PROVE n + 1 \in S
  <2>1. n + 1 \in 1..N /\ (n + 1) - 1 = n /\ n + 1 \in 0..N
    BY <1>1, <1>4
  <2>2. CASE n = 0
    <3>1. f[1] = s[1]
      BY SMTT(40), <1>1, <1>2 DEF JoinedUpTo
    <3>2. off[0] = 0 /\ off[1] = Len(s[1])
      BY <1>1, <3>1
    <3>3. f[1] \in Seq(T)
      BY <1>1, <3>1
    <3> HIDE DEF off
    <3>4. IsJoined(f[1], s, off, 1)
      <4>1. \A i \in 1..1 : i = 1 /\ i - 1 = 0
        OBVIOUS
      <4>2. Len(s[1]) \in Nat
        BY <1>1
      <4>. QED BY <3>1, <3>2, <4>1, <4>2 DEF IsJoined
    <3>. QED BY <2>1, <2>2, <3>3, <3>4
  <2>3. CASE n > 0
    <3>0. n + 1 # 1 /\ n \in 1..N
      BY <1>1, <1>4, <2>3
    <3>1. f[n + 1] = f[n] \o s[n + 1]
      BY <1>2, <2>1, <3>0 DEF JoinedUpTo
    <3>2. f[n] \in Seq(T) /\ IsJoined(f[n], s, off, n)
      BY <1>4, <2>3
    <3>3. PICK a, b : a = f[n] /\ b = s[n + 1]
      OBVIOUS
    <3>4. PICK k, l : k = Len(a) /\ l = Len(b)
      OBVIOUS
    <3>5. a \in Seq(T) /\ b \in Seq(T) /\ k \in Nat /\ l \in Nat
      BY <1>1, <2>1, <3>2, <3>3, <3>4, LenProperties
    <3>6. /\ f[n + 1] \in Seq(T) /\ Len(f[n + 1]) = k + l
          /\ \A x \in 1..(k + l) : f[n + 1][x] = IF x <= k THEN a[x] ELSE b[x - k]
      <4>1. /\ a \o b \in Seq(T) /\ Len(a \o b) = Len(a) + Len(b)
            /\ \A x \in 1..(Len(a) + Len(b)) : (a \o b)[x] = IF x <= Len(a) THEN a[x] ELSE b[x - Len(a)]
        BY <3>5, ConcatProperties
      <4>. QED BY <3>1, <3>3, <3>4, <4>1
    <3>7. off[n] = k /\ off[n + 1] = k + l
      <4>1. n # 0 /\ n + 1 # 0 /\ n \in 0..N /\ n + 1 \in 0..N
        BY <2>1, <3>0
      <4>. QED BY <3>3, <3>4, <3>6, <4>1
    <3> HIDE DEF off
    <3>8. ASSUME NEW i \in 1..(n + 1), NEW j \in 1..Len(s[i])
          PROVE  off[i - 1] + j \in 1..off[n + 1] /\ f[n + 1][off[i - 1] + j] = s[i][j]
      <4>1. CASE i = n + 1
        <5>1. j \in 1..l /\ i - 1 = n
          BY <3>3, <3>4, <4>1, <1>4
        <5>2. k + j \in 1..(k + l) /\ ~(k + j <= k) /\ (k + j) - k = j
          BY <3>5, <5>1
        <5>. QED BY <3>3, <3>6, <3>7, <4>1, <5>1, <5>2
      <4>2. CASE i # n + 1
        <5>1. i \in 1..n
          BY <4>2, <1>4
        <5>2. off[i - 1] + j \in 1..off[n] /\ f[n][off[i - 1] + j] = s[i][j]
          BY <3>2, <5>1 DEF IsJoined
        <5>3. PICK x : x = off[i - 1] + j
          OBVIOUS
        <5>4. x \in 1..k
          BY <3>7, <5>2, <5>3
        <5>5. x \in 1..(k + l) /\ x <= k
          BY <3>5, <5>4
        <5>6. f[n + 1][x] = a[x]
          BY <3>6, <5>5
        <5>. QED BY <3>3, <3>7, <5>2, <5>3, <5>5, <5>6
      <4>. QED BY <4>1, <4>2
    <3>9. IsJoined(f[n + 1], s, off, n + 1)
      BY <3>6, <3>7, <3>8 DEF IsJoined
    <3>. QED BY <2>1, <3>6, <3>9
  <2>. QED BY <2>2, <2>3, <1>1, <1>4
<1>5. \A n \in 0..N : n \in S
  <2> HIDE DEF S
  <2>. QED BY <1>1, <1>3, <1>4, UpwardInduction
<1>6. \A i \in 1..N : f[i] \in Seq(T) /\ Len(f[i]) \in Nat
  <2>1. \A i \in 1..N : i \in 0..N /\ i > 0
    BY <1>1
  <2>2. \A i \in 1..N : f[i] \in Seq(T)
    BY <1>5, <2>1
  <2>. QED BY <2>2, LenProperties
<1>7. Places(off, s)
  <2>1. off \in [0..N -> Nat] /\ off[0] = 0
    <3>1. \A i \in 0..N : i = 0 \/ i \in 1..N
      BY <1>1
    <3>. QED BY <1>1, <1>6, <3>1
  <2>2. ASSUME NEW i \in 1..N PROVE off[i] = off[i - 1] + Len(s[i])
    <3>1. i \in 0..N /\ i - 1 \in 0..N /\ i # 0 /\ (i # 1 => i - 1 \in 1..N)
      BY <1>1
    <3>2. off[i] = Len(f[i]) /\ off[i - 1] = IF i = 1 THEN 0 ELSE Len(f[i - 1])
      BY <3>1
    <3>3. CASE i = 1
      BY <1>1, <1>2, <3>2, <3>3 DEF JoinedUpTo
    <3>4. CASE i # 1
      <4>1. f[i] = f[i - 1] \o s[i] /\ f[i - 1] \in Seq(T) /\ s[i] \in Seq(T)
        BY <1>1, <1>2, <1>6, <3>1, <3>4 DEF JoinedUpTo
      <4>2. Len(f[i]) = Len(f[i - 1]) + Len(s[i])
        BY <4>1, ConcatProperties
      <4>. QED BY <3>2, <3>4, <4>2
    <3>. QED BY <3>3, <3>4
  <2> HIDE DEF off
  <2>. QED BY <2>1, <2>2 DEF Places
<1>8. IsJoined(f[N], s, off, N)
  <2>1. N \in 0..N /\ N > 0
    BY <1>1
  <2>2. Good(N)
    BY <1>5, <2>1
  <2>. QED BY <2>1, <2>2
<1> HIDE DEF off
<1>. QED BY <1>6, <1>7, <1>8

\* One sequence more.
LEMMA JoinedOneMore ==
    ASSUME NEW s, NEW f, NEW t, NEW g, Concatenates(f, s), Concatenates(g, t),
           Len(s) \in Nat \ {0}, Len(t) = Len(s) + 1, \A i \in 1..Len(s) : t[i] = s[i]
    PROVE  g[Len(t)] = f[Len(s)] \o t[Len(t)]
<1> DEFINE N == Len(s)
           S == {n \in 0..N : n > 0 => g[n] = f[n]}
<1>1. (\A i \in 1..N : f[i] = JoinedUpTo(f, s, i)) /\ (\A i \in 1..(N + 1) : g[i] = JoinedUpTo(g, t, i))
  BY DEF Concatenates
<1>2. 0 \in S
  OBVIOUS
<1>3. ASSUME NEW n \in 0..N, n \in S, n < N PROVE n + 1 \in S
  <2>1. n + 1 \in 1..N /\ n + 1 \in 1..(N + 1) /\ (n + 1) - 1 = n /\ n + 1 \in 0..N
    BY <1>3
  <2>2. f[n + 1] = JoinedUpTo(f, s, n + 1) /\ g[n + 1] = JoinedUpTo(g, t, n + 1) /\ t[n + 1] = s[n + 1]
    BY <1>1, <2>1
  <2>3. n + 1 = 1 \/ g[n] = f[n]
    BY <1>3
  <2>4. JoinedUpTo(f, s, n + 1) = JoinedUpTo(g, t, n + 1)
    BY <2>1, <2>2, <2>3 DEF JoinedUpTo
  <2>. QED BY <2>1, <2>2, <2>4
<1>4. \A n \in 0..N : n \in S
  <2> HIDE DEF S
  <2>. QED BY <1>2, <1>3, UpwardInduction
<1>5. N + 1 \in 1..(N + 1) /\ (N + 1) - 1 = N /\ N + 1 # 1 /\ N \in 0..N
  OBVIOUS
<1>6. g[N + 1] = g[N] \o t[N + 1]
  BY <1>1, <1>5 DEF JoinedUpTo
<1>7. g[N] = f[N]
  BY <1>4, <1>5
<1>. QED BY <1>6, <1>7

\* What the elements of a flattened sequence of sequences are.
LEMMA FlattenedElements ==
    ASSUME NEW T, NEW s \in Seq(Seq(T))
    PROVE  /\ FlattenSeq(s) \in Seq(T)
           /\ \E off : Places(off, s) /\ IsJoined(FlattenSeq(s), s, off, Len(s))
<1>1. CASE Len(s) = 0
  <2>1. s = <<>>
    BY <1>1, EmptySeq
  <2>2. FlattenSeq(s) = <<>>
    BY <1>1, <2>1 DEF FlattenSeq
  <2> DEFINE off == [i \in 0..0 |-> 0]
  <2>3. off \in [0..0 -> Nat] /\ off[0] = 0 /\ \A i : i \notin 1..0
    OBVIOUS
  <2> HIDE DEF off
  <2>4. Places(off, s) /\ IsJoined(FlattenSeq(s), s, off, Len(s))
    BY <1>1, <2>1, <2>2, <2>3 DEF Places, IsJoined
  <2>. QED BY <2>2, <2>4, EmptySeq
<1>2. CASE Len(s) # 0
  <2>1. Len(s) \in Nat /\ Len(s) > 0 /\ Len(s) \in 1..Len(s)
    BY <1>2, LenProperties
  <2>2. PICK f : f = CHOOSE g : Concatenates(g, s)
    OBVIOUS
  <2>3. Concatenates(f, s)
    BY <2>1, <2>2, ConcatenationExists
  <2>4. FlattenSeq(s) = f[Len(s)]
    BY <1>2, <2>2 DEF FlattenSeq, Concatenates, JoinedUpTo
  <2>5. /\ \A i \in 1..Len(s) : f[i] \in Seq(T)
        /\ \E off : Places(off, s) /\ IsJoined(f[Len(s)], s, off, Len(s))
    BY <2>1, <2>3, JoinedElements
  <2>. QED BY <2>1, <2>4, <2>5
<1>. QED BY <1>1, <1>2

\* A sequence more is appended.
LEMMA FlattenedOneMore ==
    ASSUME NEW T, NEW s \in Seq(Seq(T)), NEW t \in Seq(Seq(T)),
           Len(t) = Len(s) + 1, \A i \in 1..Len(s) : t[i] = s[i]
    PROVE  FlattenSeq(t) = FlattenSeq(s) \o t[Len(t)]
<1>0. Len(s) \in Nat /\ Len(t) # 0 /\ Len(t) \in Nat
  BY LenProperties
<1>1. PICK g : g = CHOOSE h : Concatenates(h, t)
  OBVIOUS
<1>2. Concatenates(g, t)
  BY <1>0, <1>1, ConcatenationExists
<1>3. FlattenSeq(t) = g[Len(t)]
  BY <1>0, <1>1 DEF FlattenSeq, Concatenates, JoinedUpTo
<1>4. CASE Len(s) = 0
  <2>1. g[1] = t[1]
    BY <1>0, <1>2, <1>4 DEF Concatenates, JoinedUpTo
  <2>2. FlattenSeq(s) = <<>>
    BY <1>4, EmptySeq DEF FlattenSeq
  <2>3. t[1] \in Seq(T)
    BY SMTT(40), <1>0, <1>4, ElementOfSeq
  <2>4. <<>> \o t[1] = t[1]
    BY <2>3, ConcatEmptySeq
  <2>. QED BY <1>3, <1>4, <2>1, <2>2, <2>4
<1>5. CASE Len(s) # 0
  <2>1. PICK f : f = CHOOSE h : Concatenates(h, s)
    OBVIOUS
  <2>2. Concatenates(f, s)
    BY <1>0, <2>1, ConcatenationExists
  <2>3. FlattenSeq(s) = f[Len(s)]
    BY <1>5, <2>1 DEF FlattenSeq, Concatenates, JoinedUpTo
  <2>4. Len(s) \in Nat \ {0}
    BY <1>0, <1>5
  <2>5. g[Len(t)] = f[Len(s)] \o t[Len(t)]
    BY <1>2, <2>2, <2>4, JoinedOneMore
  <2>. QED BY <1>3, <2>3, <2>5
<1>. QED BY <1>4, <1>5

=============================================================================
