-------------------------------- MODULE Ranks --------------------------------
(***************************************************************************)
(* Finite sets of positions, counted from below: what Draft and Slides     *)
(* select in order, and what a list is cut off after.                      *)
(***************************************************************************)
EXTENDS Integers, FiniteSets, FiniteSetTheorems, TLAPS

Below(P, i) == {j \in P : j < i}

LEMMA NumbersBelow ==
  ASSUME NEW m \in Nat
  PROVE  IsFiniteSet(0 .. m - 1) /\ Cardinality(0 .. m - 1) = m
<1>1. 0 \in Int /\ m - 1 \in Int
  OBVIOUS
<1>2. IsFiniteSet(0 .. m - 1) /\ Cardinality(0 .. m - 1) = IF 0 > m - 1 THEN 0 ELSE m - 1 - 0 + 1
  BY <1>1, FS_Interval
<1> QED BY <1>2

\* The elements of a finite set of positions are numbered by what is below them.
LEMMA RanksAreDistinct ==
  ASSUME NEW P \in SUBSET Nat, IsFiniteSet(P)
  PROVE  /\ Cardinality(P) \in Nat
         /\ [i \in P |-> Cardinality(Below(P, i))] \in Bijection(P, 0 .. Cardinality(P) - 1)
<1> DEFINE rank == [i \in P |-> Cardinality(Below(P, i))]
<1>1. Cardinality(P) \in Nat /\ \A i \in P : i \in Nat
  BY FS_CardinalityType
<1>2. ASSUME NEW i \in P
      PROVE  /\ Below(P, i) \subseteq P /\ i \notin Below(P, i)
             /\ IsFiniteSet(Below(P, i)) /\ Cardinality(Below(P, i)) \in Nat
             /\ Cardinality(Below(P, i)) < Cardinality(P)
  <2>1. Below(P, i) \subseteq P /\ i \notin Below(P, i)
    BY <1>1 DEF Below
  <2>2. /\ IsFiniteSet(Below(P, i)) /\ Cardinality(Below(P, i)) <= Cardinality(P)
        /\ Cardinality(Below(P, i)) # Cardinality(P)
    BY <2>1, FS_Subset
  <2>3. Cardinality(Below(P, i)) \in Nat
    BY <2>2, FS_CardinalityType
  <2> QED BY <1>1, <2>1, <2>2, <2>3
<1>3. ASSUME NEW i \in P, NEW k \in P, i < k PROVE rank[i] # rank[k]
  <2> HIDE DEF rank
  <2>1. Below(P, i) \subseteq Below(P, k) /\ i \in Below(P, k)
    <3>1. \A j \in P : j < i => j < k
      BY <1>1, <1>3
    <3> QED BY <1>3, <3>1 DEF Below
  <2>2. IsFiniteSet(Below(P, k))
    BY <1>2
  <2>3. Cardinality(Below(P, i)) # Cardinality(Below(P, k))
    BY <1>2, <2>1, <2>2, FS_Subset
  <2> QED BY <2>3 DEF rank
<1>4. \A i, k \in P : rank[i] = rank[k] => i = k
  <2> HIDE DEF rank
  <2>1. \A i, k \in P : i = k \/ i < k \/ k < i
    BY <1>1
  <2> QED BY <1>3, <2>1
<1>5. rank \in [P -> 0 .. Cardinality(P) - 1]
  <2>1. \A i \in P : Cardinality(Below(P, i)) \in 0 .. Cardinality(P) - 1
    <3>1. \A c, m \in Nat : c < m => c \in 0 .. m - 1
      OBVIOUS
    <3> QED BY <1>1, <1>2, <3>1
  <2> QED BY <2>1
<1>6. rank \in Injection(P, 0 .. Cardinality(P) - 1)
  BY <1>4, <1>5 DEF Injection, IsInjective
<1> HIDE DEF rank
<1>7. IsFiniteSet(0 .. Cardinality(P) - 1) /\ Cardinality(0 .. Cardinality(P) - 1) = Cardinality(P)
  BY <1>1, NumbersBelow
<1>8. rank \in Surjection(P, 0 .. Cardinality(P) - 1)
  BY <1>6, <1>7, FS_Injection
<1>9. rank \in Bijection(P, 0 .. Cardinality(P) - 1)
  BY <1>6, <1>8 DEF Bijection
<1> QED BY <1>1, <1>9 DEF rank

\* The least of a set of positions.
LEMMA LeastExists ==
  ASSUME NEW P \in SUBSET Nat, IsFiniteSet(P), P # {}
  PROVE  \E x \in P : \A y \in P : ~(y < x)
<1> DEFINE rank == [i \in P |-> Cardinality(Below(P, i))]
<1>1. Cardinality(P) \in Nat /\ rank \in Bijection(P, 0 .. Cardinality(P) - 1)
  BY RanksAreDistinct
<1>2. Cardinality(P) # 0
  BY FS_EmptySet
<1>3. 0 \in 0 .. Cardinality(P) - 1
  BY <1>1, <1>2
<1>4. PICK x \in P : rank[x] = 0
  <2> HIDE DEF rank
  <2> QED BY <1>1, <1>3 DEF Bijection, Surjection
<1>5. Cardinality(Below(P, x)) = 0
  BY <1>4
<1>6. Below(P, x) \in SUBSET P
  BY DEF Below
<1>7. Below(P, x) = {}
  BY <1>5, <1>6, FS_Subset, FS_EmptySet
<1> QED BY <1>7 DEF Below

\* A set of positions without gaps is an interval.
LEMMA WithoutGaps ==
  ASSUME NEW m \in Nat, NEW P \in SUBSET (1 .. m), \A i \in P : \A j \in 1 .. i : j \in P
  PROVE  IsFiniteSet(P) /\ Cardinality(P) \in Nat /\ P = 1 .. Cardinality(P)
<1> DEFINE c == Cardinality(P)
           rank == [i \in P |-> Cardinality(Below(P, i))]
<1>1. IsFiniteSet(P) /\ P \in SUBSET Nat
  <2>1. 1 \in Int /\ m \in Int /\ 1 .. m \subseteq Nat
    OBVIOUS
  <2>2. IsFiniteSet(1 .. m)
    BY <2>1, FS_Interval
  <2> QED BY <2>1, <2>2, FS_Subset
<1>2. c \in Nat /\ rank \in Bijection(P, 0 .. c - 1)
  BY <1>1, RanksAreDistinct
<1>3. ASSUME NEW i \in P PROVE rank[i] = i - 1
  <2>1. i \in Nat \ {0}
    OBVIOUS
  <2>2. (\A j \in 1 .. i : j \in P) /\ \A j \in P : j \in Nat \ {0}
    BY <1>3
  <2>3. Below(P, i) = 1 .. i - 1
    <3>1. \A j : j \in Below(P, i) => j \in 1 .. i - 1
      BY <2>1, <2>2 DEF Below
    <3>2. \A j : j \in 1 .. i - 1 => j \in 1 .. i /\ j < i
      BY <2>1
    <3> QED BY <2>2, <3>1, <3>2 DEF Below
  <2>4. Cardinality(1 .. i - 1) = i - 1
    <3>1. 1 \in Int /\ i - 1 \in Int
      BY <2>1
    <3>2. Cardinality(1 .. i - 1) = IF 1 > i - 1 THEN 0 ELSE (i - 1) - 1 + 1
      BY <3>1, FS_Interval
    <3> QED BY <2>1, <3>2
  <2> QED BY <2>3, <2>4
<1> HIDE DEF rank, c
<1>4. /\ \A i \in P : rank[i] \in 0 .. c - 1
      /\ \A v \in 0 .. c - 1 : \E i \in P : rank[i] = v
  BY <1>2 DEF Bijection, Injection, Surjection
<1>5. ASSUME NEW i \in P PROVE i \in 1 .. c
  BY <1>2, <1>3, <1>4
<1>6. ASSUME NEW v \in 1 .. c PROVE v \in P
  <2>1. v - 1 \in 0 .. c - 1
    BY <1>2
  <2>2. PICK i \in P : rank[i] = v - 1
    BY <1>4, <2>1
  <2>3. i = v
    BY <1>3, <2>2
  <2> QED BY <2>3
<1> QED BY <1>1, <1>2, <1>5, <1>6 DEF c

=============================================================================
