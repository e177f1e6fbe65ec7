----------------------------- MODULE UFSLemmas ------------------------------
(***************************************************************************)
(* Facts about the operators of UFS that the proofs about the file system  *)
(* cite.                                                                   *)
(***************************************************************************)
EXTENDS UFS, FiniteSetTheorems, WellFoundedInduction, TLAPS

(***************************************************************************)
(* The first free bit: a non-empty set of numbers has a least element, and *)
(* Least names it.  This is what create and write rely on when they take   *)
(* the first inode or block that is not marked.                            *)
(***************************************************************************)
LEMMA LeastIsMinimum ==
  ASSUME NEW S \in SUBSET Nat, S # {}
  PROVE  Least(S) \in S /\ \A y \in S : Least(S) <= y
<1>1. \E x \in S : \A y \in S : ~ (<<y, x>> \in OpToRel(<, Nat))
  BY NatLessThanWellFounded, WFMin
<1>2. PICK x \in S : \A y \in S : ~ (<<y, x>> \in OpToRel(<, Nat))
  BY <1>1
<1>3. \A y \in S : x <= y
  <2>1. SUFFICES ASSUME NEW y \in S, ~(x <= y) PROVE FALSE
    OBVIOUS
  <2>2. y < x
    BY <2>1
  <2>3. <<y, x>> \in OpToRel(<, Nat)
    BY <2>2 DEF OpToRel
  <2> QED
    BY <1>2, <2>3
<1> QED
  BY <1>3 DEF Least

(***************************************************************************)
(* Division by a positive number.                                          *)
(***************************************************************************)
LEMMA Division ==
  ASSUME NEW n \in Nat, n > 0, NEW x \in Nat
  PROVE  /\ x \div n \in Nat /\ x % n \in Nat /\ x % n < n
         /\ n * (x \div n) <= x /\ x < n * (x \div n) + n
<1>1. x \div n \in Int /\ x % n \in Int
  OBVIOUS
<1>2. x % n >= 0 /\ x % n < n
  OBVIOUS
<1>3. x = n * (x \div n) + (x % n)
  OBVIOUS
<1>4. x \div n >= 0
  OBVIOUS
<1> QED
  BY <1>1, <1>2, <1>3, <1>4

LEMMA DivisionMonotone ==
  ASSUME NEW n \in Nat, n > 0, NEW x \in Nat, NEW y \in Nat, x <= y
  PROVE  x \div n <= y \div n
  OBVIOUS

(***************************************************************************)
(* A position below a size lies in one of the blocks the size takes, so an *)
(* index that unlink computes from an entry stays inside the directory.    *)
(***************************************************************************)
LEMMA DivisionBelow ==
  ASSUME NEW n \in Nat, n > 0, NEW x \in Nat, NEW s \in Nat, x < s
  PROVE  x \div n < (s + n - 1) \div n
<1>1. x + n <= s + n - 1 /\ x + n \in Nat /\ s + n - 1 \in Nat
  OBVIOUS
<1>2. (x + n) \div n <= (s + n - 1) \div n
  BY <1>1, DivisionMonotone
<1>3. (x + n) \div n = (x \div n) + 1
  OBVIOUS
<1>4. x \div n \in Nat /\ (s + n - 1) \div n \in Nat
  BY <1>1, Division
<1> QED
  BY <1>2, <1>3, <1>4

(***************************************************************************)
(* The last index: a non-empty set of numbers up to m has a greatest one.  *)
(***************************************************************************)
LEMMA GreatestExists ==
  ASSUME NEW m \in Nat, NEW S \in SUBSET (0 .. m), S # {}
  PROVE  \E g \in S : \A y \in S : y <= g
<1> DEFINE T == {m - x : x \in S}
<1>0. \A x \in S : x \in Nat /\ m - x \in Nat
  OBVIOUS
<1>1. T \in SUBSET Nat /\ T # {}
  BY <1>0
<1>2. Least(T) \in T /\ \A t \in T : Least(T) <= t
  <2> HIDE DEF T
  <2> QED
    BY <1>1, LeastIsMinimum
<1>3. PICK g \in S : Least(T) = m - g
  BY <1>2
<1>4. \A y \in S : m - g <= m - y
  BY <1>2, <1>3
<1>5. \A y \in S : y <= g
  BY <1>0, <1>4
<1> QED
  BY <1>5

(***************************************************************************)
(* Nth: a set of indices has, for each r below its size, an element that r *)
(* others are smaller than.  read and unlink rely on it when they go from  *)
(* the blocks of an inode that are there to their contents one after       *)
(* another.                                                                *)
(***************************************************************************)
Below(S, x) == {y \in S : y < x}

LEMMA SetOfIndices ==
  ASSUME NEW m \in Nat, NEW S \in SUBSET (0 .. m)
  PROVE  /\ IsFiniteSet(S) /\ Cardinality(S) \in Nat
         /\ \A x \in S : IsFiniteSet(Below(S, x)) /\ Cardinality(Below(S, x)) \in Nat
<1>1. IsFiniteSet(0 .. m)
  BY FS_Interval
<1>2. \A T \in SUBSET (0 .. m) : IsFiniteSet(T) /\ Cardinality(T) \in Nat
  BY <1>1, FS_Subset, FS_CardinalityType
<1>3. \A x \in S : Below(S, x) \in SUBSET (0 .. m)
  BY DEF Below
<1> QED
  BY <1>2, <1>3

LEMMA NthIsElement ==
  ASSUME NEW m \in Nat, NEW S \in SUBSET (0 .. m), NEW r \in Nat, r < Cardinality(S)
  PROVE  Nth(S, r) \in S /\ Cardinality(Below(S, Nth(S, r))) = r
<1> DEFINE B == {x \in S : Cardinality(Below(S, x)) >= r}
<1>1. IsFiniteSet(S) /\ Cardinality(S) \in Nat
      /\ \A x \in S : IsFiniteSet(Below(S, x)) /\ Cardinality(Below(S, x)) \in Nat
  BY SetOfIndices
<1>0. \A y \in S : y \in Nat
  OBVIOUS
<1>2. S # {}
  BY <1>1, FS_EmptySet
<1>3. PICK g \in S : \A y \in S : y <= g
  BY <1>2, GreatestExists
<1>4. Below(S, g) = S \ {g}
  <2>1. \A y \in S : y < g <=> y # g
    BY <1>0, <1>3
  <2> QED
    BY <2>1 DEF Below
<1>5. Cardinality(S \ {g}) = Cardinality(S) - 1
  BY <1>1, FS_RemoveElement
<1>6. g \in B
  <2>1. Cardinality(Below(S, g)) >= r
    BY <1>1, <1>4, <1>5
  <2> QED
    BY <2>1
<1>7. B \in SUBSET Nat /\ B # {}
  BY <1>0, <1>6
<1>8. Least(B) \in B /\ \A y \in B : Least(B) <= y
  <2> HIDE DEF B
  <2> QED
    BY <1>7, LeastIsMinimum
<1> DEFINE x == Least(B)
<1> HIDE DEF x
<1>9. x \in S /\ Cardinality(Below(S, x)) >= r /\ \A y \in B : x <= y
  BY <1>8 DEF x
<1>10. Cardinality(Below(S, x)) <= r
  <2>1. CASE Below(S, x) = {}
    BY <2>1, FS_EmptySet
  <2>2. CASE Below(S, x) # {}
    <3>1. Below(S, x) \in SUBSET (0 .. m)
      BY DEF Below
    <3>2. PICK h \in Below(S, x) : \A y \in Below(S, x) : y <= h
      BY <2>2, <3>1, GreatestExists
    <3>3. h \in S /\ h < x
      BY <3>2 DEF Below
    <3>4. h \notin B
      BY <3>3, <1>9
    <3>5. Cardinality(Below(S, h)) < r
      BY <3>3, <3>4, <1>1
    <3>6. Below(S, x) = Below(S, h) \cup {h} /\ h \notin Below(S, h)
      <4>1. \A y \in S : y < x <=> y < h \/ y = h
        BY <1>0, <3>2, <3>3, <1>9 DEF Below
      <4> QED
        <5>1. ~(h < h)
          BY <3>3, <1>0
        <5> QED
          BY <4>1, <5>1, <3>3 DEF Below
    <3>7. Cardinality(Below(S, x)) = Cardinality(Below(S, h)) + 1
      BY <3>3, <3>6, <1>1, FS_AddElement
    <3> QED
      BY <3>3, <3>5, <3>7, <1>1
  <2> QED
    BY <2>1, <2>2
<1>11. Cardinality(Below(S, x)) = r
  BY <1>1, <1>9, <1>10
<1>12. \E y \in S : Cardinality({z \in S : z < y}) = r
  BY <1>9, <1>11 DEF Below
<1> QED
  BY <1>12 DEF Nth, Below

\* Of all the numbers below n the r-th is r.
LEMMA NthOfAll ==
  ASSUME NEW n \in Nat, NEW r \in 0 .. n - 1
  PROVE  Cardinality(0 .. n - 1) = n /\ Nth(0 .. n - 1, r) = r
<1> DEFINE S == 0 .. n - 1
           x == Nth(S, r)
<1>1. Cardinality(S) = n /\ S \in SUBSET (0 .. n) /\ r \in Nat /\ r < n
  BY FS_Interval
<1> HIDE DEF S
<1>2. x \in S /\ Cardinality(Below(S, x)) = r
  BY <1>1, NthIsElement
<1> HIDE DEF x
<1>3. Below(S, x) = 0 .. x - 1 /\ x \in Nat
  BY <1>2 DEF Below, S
<1>4. Cardinality(0 .. x - 1) = x
  BY <1>3, FS_Interval
<1>5. x = r
  BY <1>2, <1>3, <1>4
<1> QED
  BY <1>1, <1>5 DEF S, x

(***************************************************************************)
(* A position is in the block and in the slot it is computed from.         *)
(***************************************************************************)
LEMMA PositionOf ==
  ASSUME NEW n \in Nat, n > 0, NEW q \in Nat, NEW s \in 0 .. n - 1
  PROVE  (q * n + s) \div n = q /\ (q * n + s) % n = s
<1>1. q * n \in Nat /\ s \in Nat
  OBVIOUS
<1>2. (q * n + s) \div n = q
  OBVIOUS
<1> QED
  BY <1>1, <1>2
=============================================================================
