---------------------------- MODULE OrderingProofs ----------------------------
(***************************************************************************)
(* What the ordering operators return, for every finite set of numbers and *)
(* every sequence: InOrder lists every member once, rising, and Kept lists *)
(* the chosen elements and no others.  Before that, what a choice of the   *)
(* least or the greatest number relies on.                                 *)
(***************************************************************************)
EXTENDS Ordering, FiniteSetTheorems, SequenceTheorems, TLAPS

\* A nonempty set of naturals has a least element.
LEMMA LeastElement ==
  ASSUME NEW T \in SUBSET Nat, T # {}
  PROVE  \E i \in T : \A j \in T : i <= j
<1> DEFINE U == {1 .. i : i \in T}
           R == StrictSubsetOrdering(Nat)
<1>1. U \subseteq FiniteSubsetsOf(Nat) /\ U # {}
  <2>1. \A i \in T : 1 .. i \in SUBSET Nat /\ IsFiniteSet(1 .. i)
    BY FS_Interval
  <2> QED BY <2>1 DEF FiniteSubsetsOf
<1>2. IsWellFoundedOn(R, FiniteSubsetsOf(Nat))
  BY FS_StrictSubsetOrderingWellFounded
<1> HIDE DEF R
<1>3. PICK x \in U : \A y \in U : ~(<<y, x>> \in R)
  <2> HIDE DEF U
  <2> QED BY <1>1, <1>2, WFMin
<1>4. PICK i \in T : x = 1 .. i
  BY <1>3
<1>5. ASSUME NEW j \in T, j < i PROVE FALSE
  <2>1. i \in Nat /\ j \in Nat
    OBVIOUS
  <2>2. 1 .. j \subseteq 1 .. i /\ 1 .. j \in SUBSET Nat /\ 1 .. i \in SUBSET Nat
    BY <1>5, <2>1
  <2>3. i \in 1 .. i /\ i \notin 1 .. j
    BY <1>5, <2>1
  <2>4. <<1 .. j, 1 .. i>> \in R
    BY <2>2, <2>3 DEF R, StrictSubsetOrdering
  <2>5. 1 .. j \in U
    OBVIOUS
  <2> QED BY <1>3, <1>4, <2>4, <2>5
<1>6. \A j \in T : i <= j
  BY <1>5
<1> QED BY <1>6

\* A nonempty set of numbers up to n has a greatest element.
LEMMA GreatestElement ==
  ASSUME NEW n \in Nat, NEW T \in SUBSET (0 .. n), T # {}
  PROVE  \E i \in T : \A j \in T : i >= j
<1> DEFINE U == {n - i : i \in T}
<1>1. U \in SUBSET Nat /\ U # {}
  <2>1. \A i \in T : i \in 0 .. n
    OBVIOUS
  <2>2. \A i \in T : n - i \in Nat
    BY <2>1
  <2> QED BY <2>2
<1> HIDE DEF U
<1>2. PICK u \in U : \A v \in U : u <= v
  BY <1>1, LeastElement
<1>3. PICK i \in T : u = n - i
  BY <1>2 DEF U
<1>4. ASSUME NEW j \in T PROVE i >= j
  <2>1. n - j \in U
    BY DEF U
  <2>2. n - i <= n - j /\ i \in 0 .. n /\ j \in 0 .. n
    BY <1>2, <1>3, <2>1
  <2> QED BY <2>2
<1> QED BY <1>4

-----------------------------------------------------------------------------
\* A larger member has more members below it.
LEMMA RankRises ==
  ASSUME NEW F \in SUBSET Nat, IsFiniteSet(F)
  PROVE  /\ \A s \in F : Rank(s, F) \in Nat /\ Rank(s, F) < Cardinality(F)
         /\ \A s, t \in F : s < t => Rank(s, F) < Rank(t, F)
         /\ \A s, t \in F : Rank(s, F) = Rank(t, F) => s = t
<1> DEFINE below(s) == {x \in F : x < s}
<1>1. \A s \in F : IsFiniteSet(below(s)) /\ Rank(s, F) \in Nat
  BY FS_Subset, FS_CardinalityType DEF Rank
<1>2. ASSUME NEW s \in F, NEW t \in F, s < t
      PROVE  Rank(s, F) < Rank(t, F)
  <2>1. s \in Nat /\ t \in Nat
    OBVIOUS
  <2>2. ASSUME NEW x \in below(s) PROVE x \in below(t)
    <3>1. x \in Nat /\ x < s /\ x \in F
      OBVIOUS
    <3> QED BY <2>1, <3>1, <1>2
  <2>3. s \in below(t) /\ s \notin below(s)
    BY <2>1, <1>2
  <2>4. /\ Cardinality(below(s)) <= Cardinality(below(t))
        /\ Cardinality(below(t)) # Cardinality(below(s))
    BY <1>1, <2>2, <2>3, FS_Subset
  <2> HIDE DEF below
  <2>5. Cardinality(below(s)) = Rank(s, F) /\ Cardinality(below(t)) = Rank(t, F)
    BY DEF Rank, below
  <2> QED BY <1>1, <2>4, <2>5
<1>3. ASSUME NEW s \in F PROVE Rank(s, F) < Cardinality(F)
  <2>1. s \in Nat
    OBVIOUS
  <2>2. below(s) \in SUBSET F /\ s \in F /\ s \notin below(s)
    BY <2>1
  <2>3. /\ Cardinality(below(s)) <= Cardinality(F)
        /\ Cardinality(F) # Cardinality(below(s))
    BY <2>2, FS_Subset
  <2>4. Cardinality(F) \in Nat
    BY FS_CardinalityType
  <2> HIDE DEF below
  <2>5. Cardinality(below(s)) = Rank(s, F)
    BY DEF Rank, below
  <2> QED BY <1>1, <2>3, <2>4, <2>5
<1> HIDE DEF below
<1>4. ASSUME NEW s \in F, NEW t \in F, Rank(s, F) = Rank(t, F) PROVE s = t
  <2>1. s \in Nat /\ t \in Nat /\ ~(s < t) /\ ~(t < s)
    BY <1>1, <1>2, <1>4
  <2> QED BY <2>1
<1> QED BY <1>1, <1>2, <1>3, <1>4

\* The members of a set of numbers with fewer than n members below them are at
\* most n: why a scan in session order that stops at a cap keeps to the cap.
LEMMA RankBound ==
  ASSUME NEW F \in SUBSET Nat, IsFiniteSet(F), NEW n \in Nat
  PROVE  LET S == {s \in F : Rank(s, F) < n}
         IN  IsFiniteSet(S) /\ Cardinality(S) <= n
<1> DEFINE S == {s \in F : Rank(s, F) < n}
           f == [s \in S |-> Rank(s, F)]
<1>1. ASSUME NEW s \in S PROVE Rank(s, F) \in 0 .. n - 1
  <2>1. Rank(s, F) \in Nat /\ Rank(s, F) < n
    BY RankRises
  <2> HIDE DEF S
  <2> QED BY <2>1
<1>2. ASSUME NEW s \in S, NEW t \in S, f[s] = f[t] PROVE s = t
  BY <1>2, RankRises
<1>3. f \in Injection(S, 0 .. n - 1)
  BY <1>1, <1>2 DEF Injection, IsInjective
<1>4. IsFiniteSet(0 .. n - 1) /\ Cardinality(0 .. n - 1) = n
  BY FS_Interval
<1> QED BY <1>3, <1>4, FS_Injection

\* InOrder lists the members of a set, each of them once.
LEMMA ListedOnce ==
  ASSUME NEW S \in SUBSET Nat, IsFiniteSet(S)
  PROVE  /\ Cardinality(S) \in Nat
         /\ InOrder(S) \in [1..Cardinality(S) -> S]
         /\ \A k \in 1..Cardinality(S) : Rank(InOrder(S)[k], S) = k - 1
         /\ \A s \in S : \E k \in 1..Cardinality(S) : InOrder(S)[k] = s
         /\ \A j, k \in 1..Cardinality(S) : InOrder(S)[j] = InOrder(S)[k] => j = k
<1> DEFINE n == Cardinality(S)
           f == [s \in S |-> Rank(s, S) + 1]
<1>1. n \in Nat
  BY FS_CardinalityType
<1>2. \A s \in S : Rank(s, S) \in Nat /\ Rank(s, S) < n
  BY RankRises
<1>3. \A s, t \in S : Rank(s, S) = Rank(t, S) => s = t
  BY RankRises
<1> HIDE DEF n
<1>4. f \in Injection(S, 1..n)
  BY <1>1, <1>2, <1>3 DEF Injection, IsInjective
<1>5. IsFiniteSet(1..n) /\ Cardinality(1..n) = n
  BY <1>1, FS_Interval
<1>6. f \in Surjection(S, 1..n)
  <2>1. Cardinality(S) = Cardinality(1..n)
    BY <1>5 DEF n
  <2> QED BY <1>4, <1>5, <2>1, FS_Injection
<1>7. \A k \in 1..n : \E s \in S : Rank(s, S) = k - 1
  <2>1. \A k \in 1..n : \E s \in S : f[s] = k
    BY <1>6 DEF Surjection
  <2>2. ASSUME NEW k \in 1..n PROVE \E s \in S : Rank(s, S) = k - 1
    <3>1. PICK s \in S : Rank(s, S) + 1 = k
      BY <2>1
    <3>2. Rank(s, S) \in Nat
      BY <1>2
    <3> QED BY <1>1, <3>1, <3>2
  <2> QED BY <2>2
<1>8. ASSUME NEW k \in 1..n
      PROVE  InOrder(S)[k] \in S /\ Rank(InOrder(S)[k], S) = k - 1
  <2>1. InOrder(S)[k] = CHOOSE s \in S : Rank(s, S) = k - 1
    BY DEF InOrder, n
  <2> QED BY <1>7, <2>1
<1>9. InOrder(S) \in [1..n -> S]
  <2>1. InOrder(S) = [k \in 1..n |-> InOrder(S)[k]]
    BY DEF InOrder, n
  <2> QED BY <1>8, <2>1
<1>10. ASSUME NEW s \in S PROVE \E k \in 1..n : InOrder(S)[k] = s
  <2>1. Rank(s, S) + 1 \in 1..n
    BY <1>1, <1>2
  <2>2. InOrder(S)[Rank(s, S) + 1] \in S
    BY <1>8, <2>1
  <2>3. Rank(InOrder(S)[Rank(s, S) + 1], S) = Rank(s, S)
    BY <1>2, <1>8, <2>1
  <2> QED BY <1>3, <2>1, <2>2, <2>3
<1>11. ASSUME NEW j \in 1..n, NEW k \in 1..n, InOrder(S)[j] = InOrder(S)[k]
       PROVE  j = k
  <2>1. j - 1 = k - 1
    BY <1>8, <1>11
  <2> QED BY <1>1, <2>1
<1> QED BY <1>1, <1>8, <1>9, <1>10, <1>11 DEF n

\* A set of numbers has a least member, the first in order.
LEMMA Least ==
  ASSUME NEW S \in SUBSET Nat, IsFiniteSet(S), S # {}
  PROVE  \E s \in S : \A x \in S : s <= x
<1> DEFINE s == InOrder(S)[1]
           below == {x \in S : x < s}
<1>1. Cardinality(S) \in Nat /\ Cardinality(S) # 0
  BY FS_CardinalityType, FS_EmptySet
<1>2. 1 \in 1..Cardinality(S)
  BY <1>1
<1>3. s \in S /\ Rank(s, S) = 0
  BY <1>2, ListedOnce
<1>4. below = {}
  <2>1. IsFiniteSet(below) /\ Cardinality(below) = 0
    BY <1>3, FS_Subset DEF Rank
  <2> QED BY <2>1, FS_EmptySet
<1>5. \A x \in S : ~(x < s)
  BY <1>4
<1> HIDE DEF s
<1>6. \A x \in S : s <= x
  BY <1>3, <1>5
<1> QED BY <1>3, <1>6

\* retain keeps the chosen elements of a queue and no others, and none twice
\* that was not there twice.
LEMMA Retained ==
  ASSUME NEW T, NEW q \in Seq(T), NEW P \in SUBSET (1..Len(q))
  PROVE  /\ Kept(q, P) \in Seq(T)
         /\ \A k \in 1..Len(Kept(q, P)) : \E i \in P : Kept(q, P)[k] = q[i]
         /\ \A i \in P : \E k \in 1..Len(Kept(q, P)) : Kept(q, P)[k] = q[i]
         /\ (\A i, j \in 1..Len(q) : q[i] = q[j] => i = j) =>
              \A i, j \in 1..Len(Kept(q, P)) : Kept(q, P)[i] = Kept(q, P)[j] => i = j
<1> DEFINE n == Cardinality(P)
<1>1. Len(q) \in Nat /\ IsFiniteSet(1..Len(q)) /\ P \in SUBSET Nat
  BY FS_Interval
<1>2. IsFiniteSet(P)
  BY <1>1, FS_Subset
<1>3. /\ n \in Nat /\ InOrder(P) \in [1..n -> P]
      /\ \A i \in P : \E k \in 1..n : InOrder(P)[k] = i
      /\ \A j, k \in 1..n : InOrder(P)[j] = InOrder(P)[k] => j = k
  BY <1>1, <1>2, ListedOnce
<1>4. Kept(q, P) = [k \in 1..n |-> q[InOrder(P)[k]]]
  BY DEF Kept
<1> HIDE DEF n
<1>5. ASSUME NEW k \in 1..n PROVE InOrder(P)[k] \in P /\ q[InOrder(P)[k]] \in T
  <2>1. InOrder(P)[k] \in P
    BY <1>3
  <2>2. InOrder(P)[k] \in 1..Len(q)
    BY <2>1
  <2> QED BY <2>1, <2>2
<1>6. Kept(q, P) \in Seq(T) /\ Len(Kept(q, P)) = n
  BY <1>3, <1>4, <1>5
<1>7. \A k \in 1..n : Kept(q, P)[k] = q[InOrder(P)[k]]
  BY <1>4
<1>8. \A k \in 1..n : \E i \in P : Kept(q, P)[k] = q[i]
  BY <1>5, <1>7
<1>9. ASSUME NEW i \in P PROVE \E k \in 1..n : Kept(q, P)[k] = q[i]
  BY <1>3, <1>7
<1>10. ASSUME \A i, j \in 1..Len(q) : q[i] = q[j] => i = j,
              NEW i \in 1..n, NEW j \in 1..n, Kept(q, P)[i] = Kept(q, P)[j]
       PROVE  i = j
  <2>1. InOrder(P)[i] \in 1..Len(q) /\ InOrder(P)[j] \in 1..Len(q)
    BY <1>5
  <2>2. q[InOrder(P)[i]] = q[InOrder(P)[j]]
    BY <1>7, <1>10
  <2>3. InOrder(P)[i] = InOrder(P)[j]
    BY <1>10, <2>1, <2>2
  <2> QED BY <1>3, <2>3
<1> QED BY <1>6, <1>8, <1>9, <1>10
=============================================================================
