------------------------------- MODULE NatFacts -------------------------------
(***************************************************************************)
(* Facts about natural numbers that the proofs of several components use.  *)
(* LeastNat is the form in which they argue by induction: the provers      *)
(* cannot instantiate an induction rule, but they can look at the least    *)
(* number that violates a claim.                                           *)
(***************************************************************************)
EXTENDS Integers, FiniteSets, FiniteSetTheorems, WellFoundedInduction, TLAPS

\* A non-empty set of numbers has a least element.
LEMMA LeastNat ==
    ASSUME NEW T \in SUBSET Nat, T # {}
    PROVE  \E x \in T : \A y \in T : x <= y
<1> DEFINE R == OpToRel(<, Nat)
<1>1. IsWellFoundedOn(R, Nat)
  BY NatLessThanWellFounded
<1>2. \A x, y \in Nat : <<y, x>> \in R <=> y < x
  BY DEF OpToRel
<1> HIDE DEF R
<1>3. PICK x \in T : \A y \in T : ~ (<<y, x>> \in R)
  BY <1>1, WFMin
<1>4. ASSUME NEW y \in T
      PROVE  x <= y
  <2>1. x \in Nat /\ y \in Nat /\ ~(y < x)
    BY <1>2, <1>3
  <2> QED
    BY <2>1
<1> QED
  BY <1>4

\* A non-empty finite set of numbers has a greatest element.
LEMMA GreatestOf ==
    ASSUME NEW S \in SUBSET Nat, IsFiniteSet(S), S # {}
    PROVE  \E x \in S : \A y \in S : y <= x
<1> DEFINE Above(x) == {y \in S : y > x}
           T == {Cardinality(Above(x)) : x \in S}
<1>1. ASSUME NEW x \in S
      PROVE  IsFiniteSet(Above(x)) /\ Cardinality(Above(x)) \in Nat
  BY FS_Subset, FS_CardinalityType
<1>2. T \in SUBSET Nat /\ T # {}
  BY <1>1
<1>3. PICK k \in T : \A y \in T : k <= y
  BY <1>2, LeastNat
<1>4. PICK x \in S : k = Cardinality(Above(x))
  OBVIOUS
<1>5. ASSUME NEW y \in S, y > x
      PROVE  FALSE
  <2>0. x \in Nat /\ y \in Nat /\ \A z \in S : z \in Nat
    OBVIOUS
  <2>1. Above(y) \subseteq Above(x) /\ y \in Above(x) /\ y \notin Above(y)
    <3>1. y \in Above(x) /\ y \notin Above(y)
      BY <1>5, <2>0
    <3>2. ASSUME NEW z \in Above(y)
          PROVE  z \in Above(x)
      <4>1. z \in S /\ z > y
        OBVIOUS
      <4> QED
        BY <1>5, <2>0, <4>1
    <3> QED
      BY <3>1, <3>2
  <2>2. Cardinality(Above(y)) <= Cardinality(Above(x)) /\ Cardinality(Above(y)) # Cardinality(Above(x))
    BY <1>1, <2>1, FS_Subset
  <2> QED
    <3>1. Cardinality(Above(y)) \in T
      OBVIOUS
    <3>2. Cardinality(Above(x)) <= Cardinality(Above(y))
      BY <1>3, <1>4, <3>1
    <3>3. Cardinality(Above(x)) \in Nat /\ Cardinality(Above(y)) \in Nat
      BY <1>1
    <3> HIDE DEF Above
    <3> QED
      BY <2>2, <3>2, <3>3
<1>6. \A y \in S : y <= x
  BY <1>5
<1> QED
  BY <1>6

\* Induction over the rounds of a loop: a set of numbers that has 0 and, with
\* each number, the next one, has them all.
LEMMA LoopInduction ==
    ASSUME NEW N \in Nat, NEW S, 0 \in S, \A n \in 1 .. N : n - 1 \in S => n \in S
    PROVE  \A n \in 0 .. N : n \in S
<1> DEFINE T == {n \in 0 .. N : n \notin S}
<1> SUFFICES ASSUME T # {}
             PROVE  FALSE
  OBVIOUS
<1>1. T \in SUBSET Nat
  OBVIOUS
<1>2. PICK n \in T : \A y \in T : n <= y
  BY <1>1, LeastNat
<1>3. n \in 1 .. N /\ n - 1 \in 0 .. N /\ ~(n <= n - 1)
  OBVIOUS
<1> QED
  BY <1>2, <1>3

\* A loop of N rounds has a history: a sequence of values that begins with z
\* and goes from each value to the next by the round's function.
IsHistory(g, N, X, z, s) ==
    g \in [0 .. N -> X] /\ g[0] = z /\ \A k \in 1 .. N : g[k] = s[k][g[k - 1]]

\* Such a sequence exists, for every number of rounds.
LEMMA LoopHistory ==
    ASSUME NEW N \in Nat, NEW X, NEW z \in X, NEW s \in [1 .. N -> [X -> X]]
    PROVE  \E g : IsHistory(g, N, X, z, s)
<1> DEFINE P(n) == \E g \in [0 .. n -> X] : g[0] = z /\ \A k \in 1 .. n : g[k] = s[k][g[k - 1]]
           T == {n \in 0 .. N : ~P(n)}
<1>1. P(0)
  <2> DEFINE g == [k \in 0 .. 0 |-> z]
  <2>1. g \in [0 .. 0 -> X] /\ g[0] = z
    OBVIOUS
  <2>2. 1 .. 0 = {}
    OBVIOUS
  <2> HIDE DEF g
  <2> QED
    BY <2>1, <2>2
<1>2. ASSUME NEW n \in 1 .. N, P(n - 1)
      PROVE  P(n)
  <2>1. n \in Nat /\ n - 1 \in Nat /\ n > 0
    OBVIOUS
  <2>2. PICK g \in [0 .. n - 1 -> X] : g[0] = z /\ \A k \in 1 .. n - 1 : g[k] = s[k][g[k - 1]]
    BY <1>2
  <2> DEFINE h == [k \in 0 .. n |-> IF k = n THEN s[n][g[n - 1]] ELSE g[k]]
  <2>3. g[n - 1] \in X
    BY <2>1, <2>2
  <2>4. s[n][g[n - 1]] \in X
    BY <2>3
  <2>5. h \in [0 .. n -> X]
    <3>1. ASSUME NEW k \in 0 .. n, k # n
          PROVE  g[k] \in X
      BY <2>1, <2>2, <3>1
    <3> QED
      BY <2>4, <3>1
  <2>6. \A k \in 0 .. n - 1 : h[k] = g[k]
    BY <2>1
  <2>7. h[n] = s[n][g[n - 1]]
    BY <2>1
  <2> HIDE DEF h
  <2>8. h[0] = z
    BY <2>1, <2>2, <2>6
  <2>9. ASSUME NEW k \in 1 .. n
        PROVE  h[k] = s[k][h[k - 1]]
    <3>1. h[k - 1] = g[k - 1]
      BY <2>1, <2>6
    <3>2. CASE k = n
      BY <2>7, <3>1, <3>2
    <3>3. CASE k # n
      <4>1. k \in 1 .. n - 1 /\ k \in 0 .. n - 1
        BY <2>1, <3>3
      <4> QED
        BY <2>2, <2>6, <3>1, <4>1
    <3> QED
      BY <3>2, <3>3
  <2> QED
    BY <2>5, <2>8, <2>9
<1>3. T = {}
  <2> SUFFICES ASSUME T # {}
               PROVE  FALSE
    OBVIOUS
  <2>1. T \in SUBSET Nat
    OBVIOUS
  <2>2. PICK n \in T : \A y \in T : n <= y
    BY <2>1, LeastNat
  <2>3. n \in 0 .. N /\ ~P(n) /\ n # 0
    BY <1>1
  <2>4. n \in 1 .. N /\ n - 1 \in 0 .. N /\ ~(n <= n - 1)
    BY <2>3
  <2>5. P(n - 1)
    BY <2>2, <2>4
  <2> HIDE DEF P
  <2> QED
    BY <1>2, <2>3, <2>4, <2>5
<1>4. N \in 0 .. N
  OBVIOUS
<1>5. P(N)
  BY <1>3, <1>4
<1> QED
  BY <1>5 DEF IsHistory
==============================================================================
