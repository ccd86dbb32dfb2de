----------------------------- MODULE NatLemmas -----------------------------
(***************************************************************************)
(* Facts about natural numbers and about ranks in finite sets that several *)
(* proofs use.                                                             *)
(***************************************************************************)
EXTENDS Integers, FiniteSets, TLAPS, WellFoundedInduction, FiniteSetTheorems

\* The order of the natural numbers as a set of pairs is well founded.
LEMMA LessWellFounded == IsWellFoundedOn({ss \in Nat \X Nat : ss[1] < ss[2]}, Nat)
  BY NatLessThanWellFounded, Zenon DEF OpToRel

\* A set of natural numbers that is not empty has a least element.
LEMMA LeastNat ==
    ASSUME NEW S \in SUBSET Nat, S # {}
    PROVE  \E n \in S : \A m \in S : n <= m
  <1> DEFINE R == {ss \in Nat \X Nat : ss[1] < ss[2]}
  <1>1. PICK n \in S : \A m \in S : <<m, n>> \notin R
    <2> HIDE DEF R
    <2>1. IsWellFoundedOn(R, Nat)
      BY LessWellFounded DEF R
    <2> QED
      BY <2>1, WFMin
  <1>2. \A m \in S : ~(m < n)
    BY <1>1
  <1> QED
    BY <1>2

-----------------------------------------------------------------------------
\* The elements of S up to x.
UpTo(S, x) == {t \in S : t <= x}

\* One more number to look at adds at most that number.
LEMMA UpToNext ==
    ASSUME NEW S \in SUBSET Nat, IsFiniteSet(S), NEW x \in Nat, x # 0
    PROVE  Cardinality(UpTo(S, x)) =
              IF x \in S THEN Cardinality(UpTo(S, x - 1)) + 1 ELSE Cardinality(UpTo(S, x - 1))
  <1>1. UpTo(S, x) = IF x \in S THEN UpTo(S, x - 1) \cup {x} ELSE UpTo(S, x - 1)
    <2>1. \A t \in Nat : t <= x <=> t <= x - 1 \/ t = x
      OBVIOUS
    <2>2. \A t : t \in UpTo(S, x) <=> t \in UpTo(S, x - 1) \/ (t = x /\ x \in S)
      BY <2>1 DEF UpTo
    <2>3. CASE x \in S
      <3> DEFINE B == UpTo(S, x - 1) \cup {x}
      <3>1. \A t : t \in UpTo(S, x) <=> t \in B
        BY <2>2, <2>3
      <3>2. UpTo(S, x) = B
        <4> HIDE DEF B
        <4> QED
          BY <3>1, Zenon
      <3> QED
        BY <3>2, <2>3
    <2>4. CASE x \notin S
      <3>1. UpTo(S, x) = UpTo(S, x - 1)
        BY <2>2, <2>4, Zenon
      <3> QED
        BY <3>1, <2>4
    <2> QED
      BY <2>3, <2>4
  <1>2. x \notin UpTo(S, x - 1)
    BY DEF UpTo
  <1>3. IsFiniteSet(UpTo(S, x - 1))
    BY FS_Subset DEF UpTo
  <1> QED
    BY <1>1, <1>2, <1>3, FS_AddElement

\* A finite set of natural numbers has a k-th smallest element.
LEMMA KthExists ==
    ASSUME NEW m \in Nat, NEW S \in SUBSET (0 .. m), NEW k \in 1 .. Cardinality(S)
    PROVE  \E s \in S : Cardinality(UpTo(S, s)) = k
  <1>1. IsFiniteSet(S) /\ S \in SUBSET Nat
    <2>1. IsFiniteSet(0 .. m)
      BY FS_Interval
    <2>2. IsFiniteSet(S)
      BY <2>1, FS_Subset
    <2> QED
      BY <2>2
  <1> DEFINE Big == {x \in Nat : Cardinality(UpTo(S, x)) >= k}
  <1>2. m \in Big
    <2>1. UpTo(S, m) = S
      <3>1. \A t \in S : t <= m
        OBVIOUS
      <3> QED
        BY <3>1, Zenon DEF UpTo
    <2>2. Cardinality(S) \in Nat
      BY <1>1, FS_CardinalityType
    <2> QED
      BY <2>1, <2>2
  <1>3. PICK x \in Big : \A y \in Big : x <= y
    <2> HIDE DEF Big
    <2>1. Big \in SUBSET Nat
      BY DEF Big
    <2> QED
      BY <2>1, <1>2, LeastNat
  <1>4. \A y \in Nat : Cardinality(UpTo(S, y)) \in Nat
    <2> TAKE y \in Nat
    <2>1. UpTo(S, y) \in SUBSET S
      BY DEF UpTo
    <2> QED
      BY <2>1, <1>1, FS_Subset, FS_CardinalityType
  <1>0. \A t \in S : t \in Nat /\ (t <= 0 <=> t = 0)
    OBVIOUS
  <1>5. CASE x = 0
    <2>1. CASE 0 \in S
      <3>1. UpTo(S, 0) = {0}
        <4>1. \A t : t \in UpTo(S, 0) <=> t = 0
          BY <2>1, <1>0 DEF UpTo
        <4> QED
          BY <4>1, Zenon
      <3>2. Cardinality(UpTo(S, 0)) = 1
        BY <3>1, FS_Singleton
      <3> QED
        BY <3>2, <2>1, <1>3, <1>5
    <2>2. CASE 0 \notin S
      <3>1. UpTo(S, 0) = {}
        <4>1. \A t : t \notin UpTo(S, 0)
          BY <2>2, <1>0 DEF UpTo
        <4> QED
          BY <4>1, Zenon
      <3>2. Cardinality(UpTo(S, 0)) = 0
        BY <3>1, FS_EmptySet
      <3> QED
        BY <3>2, <1>3, <1>5
    <2> QED
      BY <2>1, <2>2
  <1>6. CASE x # 0
    <2>1. x - 1 \in Nat /\ x \in Nat
      BY <1>6, <1>3
    <2>2. x - 1 \notin Big
      BY <1>3, <2>1
    <2>3. Cardinality(UpTo(S, x - 1)) < k
      BY <2>2, <2>1, <1>4
    <2> QED
      BY <2>1, <2>3, <1>1, <1>3, <1>4, <1>6, UpToNext
  <1> QED
    BY <1>5, <1>6

-----------------------------------------------------------------------------
\* The elements of M that the relation R, a set of pairs, puts before p.
Preceding(M, R, p) == {q \in M : <<q, p>> \in R}

Reflexive(M, R) == \A p \in M : <<p, p>> \in R
Transitive(M, R) == \A p, q, r \in M : <<p, q>> \in R /\ <<q, r>> \in R => <<p, r>> \in R
Antisymmetric(M, R) == \A p, q \in M : <<p, q>> \in R /\ <<q, p>> \in R => p = q
Total(M, R) == \A p, q \in M : <<p, q>> \in R \/ <<q, p>> \in R

TotalOrder(M, R) ==
    Reflexive(M, R) /\ Transitive(M, R) /\ Antisymmetric(M, R) /\ Total(M, R)

\* What comes later has more elements before it.
LEMMA LaterMore ==
    ASSUME NEW M, IsFiniteSet(M), NEW R, TotalOrder(M, R),
           NEW p \in M, NEW q \in M, p # q, <<p, q>> \in R
    PROVE  Cardinality(Preceding(M, R, p)) < Cardinality(Preceding(M, R, q))
  <1>1. Preceding(M, R, p) \in SUBSET Preceding(M, R, q)
    BY DEF Preceding, TotalOrder, Transitive
  <1>2. q \in Preceding(M, R, q) /\ q \notin Preceding(M, R, p)
    BY DEF Preceding, TotalOrder, Reflexive, Antisymmetric
  <1>3. IsFiniteSet(Preceding(M, R, q)) /\ IsFiniteSet(Preceding(M, R, p))
    BY FS_Subset DEF Preceding
  <1>4. Cardinality(Preceding(M, R, p)) <= Cardinality(Preceding(M, R, q))
        /\ Cardinality(Preceding(M, R, q)) # Cardinality(Preceding(M, R, p))
    BY <1>1, <1>2, <1>3, FS_Subset
  <1>5. Cardinality(Preceding(M, R, p)) \in Nat /\ Cardinality(Preceding(M, R, q)) \in Nat
    BY <1>3, FS_CardinalityType
  <1> QED
    BY <1>4, <1>5

\* In a total order of a finite set every element has a rank of its own.
LEMMA RankType ==
    ASSUME NEW M, IsFiniteSet(M), NEW R, TotalOrder(M, R), NEW p \in M
    PROVE  Cardinality(Preceding(M, R, p)) \in 1 .. Cardinality(M)
  <1>1. p \in Preceding(M, R, p) /\ Preceding(M, R, p) \in SUBSET M
    BY DEF Preceding, TotalOrder, Reflexive
  <1>2. /\ IsFiniteSet(Preceding(M, R, p))
        /\ Cardinality(Preceding(M, R, p)) <= Cardinality(M)
    BY <1>1, FS_Subset
  <1>3. Cardinality(Preceding(M, R, p)) \in Nat /\ Cardinality(M) \in Nat
    BY <1>2, FS_CardinalityType
  <1>4. Cardinality(Preceding(M, R, p)) # 0
    BY <1>1, <1>2, FS_EmptySet
  <1> QED
    BY <1>2, <1>3, <1>4

LEMMA RankDistinct ==
    ASSUME NEW M, IsFiniteSet(M), NEW R, TotalOrder(M, R),
           NEW p \in M, NEW q \in M, p # q
    PROVE  Cardinality(Preceding(M, R, p)) # Cardinality(Preceding(M, R, q))
  <1>1. Cardinality(Preceding(M, R, p)) \in Nat /\ Cardinality(Preceding(M, R, q)) \in Nat
    BY RankType
  <1>2. <<p, q>> \in R \/ <<q, p>> \in R
    BY DEF TotalOrder, Total
  <1> QED
    BY <1>1, <1>2, LaterMore
=============================================================================
