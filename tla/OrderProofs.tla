----------------------------- MODULE OrderProofs -----------------------------
(***************************************************************************)
(* What the first of some positions is, and what InOrder yields.  For the  *)
(* latter no induction is needed: the number of elements before it differs *)
(* for any two elements of a strict order, so that counting is an injection*)
(* of the set into as many numbers, and therefore takes each of them.      *)
(***************************************************************************)
EXTENDS Orders, FiniteSetsExt, SequencesExt, FiniteSetTheorems, WellFoundedInduction, TLAPS

(* Every set of positions has a first one, and Min is it.                  *)
LEMMA MinIsFirst ==
  ASSUME NEW T, T \subseteq Nat, T # {}
  PROVE  Min(T) \in T /\ \A i \in T : Min(T) <= i
<1>1. PICK x \in T : \A y \in T : <<y, x>> \notin OpToRel(<, Nat)
  BY NatLessThanWellFounded, WFMin
<1>2. \A y \in T : ~(y < x)
  BY <1>1, Zenon DEF OpToRel
<1>3. \A y \in T : x <= y
  BY <1>2
<1> QED
  BY <1>3 DEF Min

-----------------------------------------------------------------------------
(* R puts any two elements of S in an order.                               *)
StrictOrder(S, R) ==
  /\ \A x \in S : <<x, x>> \notin R
  /\ \A x, y, z \in S : <<x, y>> \in R /\ <<y, z>> \in R => <<x, z>> \in R
  /\ \A x, y \in S : x = y \/ <<x, y>> \in R \/ <<y, x>> \in R

Below(S, R, x) == {y \in S : <<y, x>> \in R}

LEMMA BelowCounts ==
  ASSUME NEW S, IsFiniteSet(S), NEW R, StrictOrder(S, R)
  PROVE  /\ \A x \in S : Cardinality(Below(S, R, x)) \in 0..(Cardinality(S) - 1)
         /\ \A x, y \in S :
              <<x, y>> \in R => Cardinality(Below(S, R, x)) < Cardinality(Below(S, R, y))
<1>0. Cardinality(S) \in Nat
  BY FS_CardinalityType
<1>1. ASSUME NEW x \in S
      PROVE  /\ IsFiniteSet(Below(S, R, x)) /\ Cardinality(Below(S, R, x)) \in Nat
             /\ Cardinality(Below(S, R, x)) < Cardinality(S)
  <2>1. Below(S, R, x) \in SUBSET S /\ x \notin Below(S, R, x)
    BY DEF Below, StrictOrder
  <2>2. /\ IsFiniteSet(Below(S, R, x))
        /\ Cardinality(Below(S, R, x)) <= Cardinality(S)
        /\ Cardinality(S) # Cardinality(Below(S, R, x))
    BY <1>1, <2>1, FS_Subset
  <2>3. Cardinality(Below(S, R, x)) \in Nat
    BY <2>2, FS_CardinalityType
  <2> QED
    BY <1>0, <2>2, <2>3
<1>2. ASSUME NEW x \in S, NEW y \in S, <<x, y>> \in R
      PROVE  Cardinality(Below(S, R, x)) < Cardinality(Below(S, R, y))
  <2>1. /\ Below(S, R, x) \in SUBSET Below(S, R, y)
        /\ x \in Below(S, R, y) /\ x \notin Below(S, R, x)
    BY <1>2 DEF Below, StrictOrder
  <2>2. /\ Cardinality(Below(S, R, x)) <= Cardinality(Below(S, R, y))
        /\ Cardinality(Below(S, R, y)) # Cardinality(Below(S, R, x))
    BY <1>1, <2>1, FS_Subset
  <2> QED
    BY <1>1, <2>2
<1> QED
  BY <1>0, <1>1, <1>2

(* The elements of the set, each once, in their order.                     *)
LEMMA InOrderIsSorted ==
  ASSUME NEW S, IsFiniteSet(S), NEW R, StrictOrder(S, R)
  PROVE  /\ InOrder(S, R) \in Seq(S) /\ Len(InOrder(S, R)) = Cardinality(S)
         /\ \A x \in S : \E k \in 1..Cardinality(S) : InOrder(S, R)[k] = x
         /\ \A i, j \in 1..Cardinality(S) :
              i < j => <<InOrder(S, R)[i], InOrder(S, R)[j]>> \in R
<1> DEFINE n == Cardinality(S)
           count(x) == Cardinality(Below(S, R, x))
           rank == [x \in S |-> count(x) + 1]
           s == InOrder(S, R)
<1>1. n \in Nat
  BY FS_CardinalityType
<1>2. /\ \A x \in S : count(x) \in 0..(n - 1)
      /\ \A x, y \in S : <<x, y>> \in R => count(x) < count(y)
  BY BelowCounts
<1>3. \A x, y \in S : count(x) = count(y) => x = y
  <2> SUFFICES ASSUME NEW x \in S, NEW y \in S, count(x) = count(y), x # y PROVE FALSE
    OBVIOUS
  <2>1. <<x, y>> \in R \/ <<y, x>> \in R
    BY DEF StrictOrder
  <2> HIDE DEF count
  <2> QED
    BY <1>1, <1>2, <2>1
<1>4. \A k \in 1..n : \E x \in S : count(x) = k - 1
  <2>1. rank \in [S -> 1..n]
    <3> HIDE DEF count, n
    <3> QED
      BY <1>1, <1>2
  <2>2. rank \in Injection(S, 1..n)
    <3>1. \A x, y \in S : rank[x] = rank[y] => x = y
      <4> HIDE DEF count, n
      <4> QED
        BY <1>1, <1>2, <1>3
    <3> HIDE DEF rank
    <3> QED
      BY <2>1, <3>1 DEF Injection, IsInjective
  <2>3. IsFiniteSet(1..n) /\ Cardinality(1..n) = n
    BY <1>1, FS_Interval
  <2>4. rank \in Surjection(S, 1..n)
    <3> HIDE DEF rank
    <3> QED
      BY <2>2, <2>3, FS_Injection
  <2>5. \A k \in 1..n : \E x \in S : rank[x] = k
    <3> HIDE DEF rank
    <3> QED
      BY <2>4 DEF Surjection
  <2>6. \A x \in S : rank[x] = count(x) + 1 /\ count(x) \in Nat
    <3> HIDE DEF count, n
    <3> QED
      BY <1>1, <1>2
  <2> SUFFICES ASSUME NEW k \in 1..n PROVE \E x \in S : count(x) = k - 1
    OBVIOUS
  <2> HIDE DEF count, n, rank
  <2>7. PICK x \in S : rank[x] = k
    BY <2>5
  <2>8. count(x) = k - 1
    BY <1>1, <2>6, <2>7
  <2> QED
    BY <2>8
<1>5. \A k \in 1..n : s[k] \in S /\ count(s[k]) = k - 1
  <2> SUFFICES ASSUME NEW k \in 1..n PROVE s[k] \in S /\ count(s[k]) = k - 1
    OBVIOUS
  <2>1. s[k] = CHOOSE x \in S : count(x) = k - 1
    BY DEF InOrder, Below
  <2>2. PICK x \in S : count(x) = k - 1
    BY <1>4
  <2> HIDE DEF s, n, count
  <2> QED
    BY <2>1, <2>2
<1>6. s \in Seq(S) /\ Len(s) = n
  <2> DEFINE e(k) == CHOOSE x \in S : Cardinality({y \in S : <<y, x>> \in R}) = k - 1
  <2>1. s = [k \in 1..n |-> e(k)]
    BY DEF InOrder
  <2> HIDE DEF s, n, e
  <2> QED
    BY <1>1, <1>5, <2>1
<1>7. \A x \in S : \E k \in 1..n : s[k] = x
  <2> SUFFICES ASSUME NEW x \in S PROVE \E k \in 1..n : s[k] = x
    OBVIOUS
  <2> HIDE DEF s, n, count
  <2>1. count(x) + 1 \in 1..n
    BY <1>1, <1>2
  <2>2. s[count(x) + 1] \in S /\ count(s[count(x) + 1]) = count(x)
    BY <1>1, <1>2, <1>5, <2>1
  <2> QED
    BY <1>3, <2>1, <2>2
<1>8. \A i, j \in 1..n : i < j => <<s[i], s[j]>> \in R
  <2> SUFFICES ASSUME NEW i \in 1..n, NEW j \in 1..n, i < j PROVE <<s[i], s[j]>> \in R
    OBVIOUS
  <2> HIDE DEF s, n, count
  <2>1. s[i] \in S /\ s[j] \in S /\ count(s[i]) = i - 1 /\ count(s[j]) = j - 1
    BY <1>5
  <2>2. s[i] # s[j]
    BY <1>1, <2>1
  <2>3. <<s[j], s[i]>> \notin R
    BY <1>1, <1>2, <2>1
  <2> QED
    BY <2>1, <2>2, <2>3 DEF StrictOrder
<1> QED
  BY <1>6, <1>7, <1>8
=============================================================================
