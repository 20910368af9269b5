------------------------------ MODULE NatFacts ------------------------------
(***************************************************************************)
(* Facts about the natural numbers that the proofs use: sets of numbers    *)
(* have a smallest one, and a largest one if they are bounded, and what    *)
(* goes from each number to the next holds for all of them.                *)
(***************************************************************************)
EXTENDS Naturals, WellFoundedInduction, TLAPS

LEMMA NatOrder == \E R : IsWellFoundedOn(R, Nat) /\ \A x, y \in Nat : x < y => <<x, y>> \in R
<1>1. IsWellFoundedOn(OpToRel(<, Nat), Nat)
  BY NatLessThanWellFounded, Zenon
<1>2. \A x, y \in Nat : x < y => <<x, y>> \in OpToRel(<, Nat)
  BY Zenon DEF OpToRel
<1>3. QED
  BY <1>1, <1>2, Zenon

LEMMA SmallestNat ==
  ASSUME NEW T, T \subseteq Nat, T # {}
  PROVE  \E x \in T : \A y \in T : x <= y
<1>1. PICK R : IsWellFoundedOn(R, Nat) /\ \A x, y \in Nat : x < y => <<x, y>> \in R
  BY NatOrder
<1>2. IsWellFoundedOn(R, Nat)
  BY <1>1
<1>3. \E x \in T : \A y \in T : ~ (<<y, x>> \in R)
  BY <1>2, WFMin, Zenon
<1>4. PICK x \in T : \A y \in T : ~ (<<y, x>> \in R)
  BY <1>3
<1>5. ASSUME NEW y \in T PROVE x <= y
  <2>1. x \in Nat /\ y \in Nat
    OBVIOUS
  <2>2. ~(y < x)
    BY <1>1, <1>4, <2>1
  <2>3. QED
    BY <2>1, <2>2
<1>6. QED
  BY <1>5

\* A set of numbers that has all numbers' predecessors to start from has them all.
LEMMA UpTo ==
  ASSUME NEW n \in Nat, NEW S, 0 \in S, \A k \in 1 .. n : k - 1 \in S => k \in S
  PROVE  \A k \in 0 .. n : k \in S
<1> DEFINE T == {k \in 0 .. n : k \notin S}
<1>1. SUFFICES ASSUME T # {} PROVE FALSE
  OBVIOUS
<1>2. PICK x \in T : \A y \in T : x <= y
  <2>1. T \subseteq Nat
    OBVIOUS
  <2> HIDE DEF T
  <2>2. QED
    BY <1>1, <2>1, SmallestNat
<1>3. x \in 1 .. n
  BY <1>2
<1>4. x - 1 \in S
  BY <1>2, <1>3
<1>5. QED
  BY <1>2, <1>3, <1>4

\* Bounded numbers have a largest one: the smallest bound is one of them.
LEMMA LargestNat ==
  ASSUME NEW S \in SUBSET Nat, S # {}, NEW b \in Nat, \A n \in S : n <= b
  PROVE  \E n \in S : \A m \in S : m <= n
<1> DEFINE T == {c \in Nat : \A m \in S : m <= c}
<1>1. T \subseteq Nat /\ b \in T
  OBVIOUS
<1>2. PICK x \in T : \A c \in T : x <= c
  <2> HIDE DEF T
  <2>1. QED
    BY <1>1, SmallestNat
<1>3. x \in S
  <2>1. SUFFICES ASSUME x \notin S PROVE FALSE
    OBVIOUS
  <2>2. x \in Nat /\ \A m \in S : m \in Nat /\ m <= x /\ m # x
    BY <1>2, <2>1
  <2>3. PICK l \in S : TRUE
    OBVIOUS
  <2> HIDE DEF T
  <2>4. x - 1 \in Nat /\ \A m \in S : m <= x - 1
    BY <2>2, <2>3
  <2>5. x - 1 \in T
    BY <2>4 DEF T
  <2>6. QED
    BY <1>2, <2>2, <2>5
<1>4. QED
  BY <1>2, <1>3
=============================================================================
