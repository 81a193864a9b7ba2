---------------------------- MODULE LeastNumber ----------------------------
(***************************************************************************)
(* The least-number principle as first-order lemmas, which the provers can *)
(* apply: among the intervals 0 .. n of a set of numbers there is one that *)
(* contains no other, because the finite sets are well-founded by strict   *)
(* inclusion.                                                              *)
(***************************************************************************)
EXTENDS Integers, FiniteSetTheorems, WellFoundedInduction, TLAPS

\* A set of natural numbers that is not empty has a least element.
LEMMA LeastOf ==
    ASSUME NEW T, T \subseteq Nat, T # {}
    PROVE  \E m \in T : \A n \in T : m <= n
<1> DEFINE Intervals == {0 .. t : t \in T}
<1>1. Intervals \subseteq FiniteSubsetsOf(Nat)
  <2> SUFFICES ASSUME NEW t \in T
               PROVE  0 .. t \in FiniteSubsetsOf(Nat)
    OBVIOUS
  <2>1. IsFiniteSet(0 .. t)
    BY FS_Interval
  <2> QED
    BY <2>1 DEF FiniteSubsetsOf
<1>2. Intervals # {}
  OBVIOUS
<1>3. PICK M \in Intervals : \A N \in Intervals : <<N, M>> \notin StrictSubsetOrdering(Nat)
  <2> HIDE DEF Intervals
  <2> QED
    BY <1>1, <1>2, WFMin, FS_StrictSubsetOrderingWellFounded
<1>4. PICK m \in T : M = 0 .. m
  BY <1>3
<1>5. ASSUME NEW n \in T, n < m
      PROVE  FALSE
  <2>1. m \in M /\ m \notin 0 .. n
    BY <1>4, <1>5
  <2>2. 0 .. n \subseteq M /\ 0 .. n # M
    BY <1>4, <1>5, <2>1
  <2>3. <<0 .. n, M>> \in StrictSubsetOrdering(Nat)
    BY <1>4, <2>2 DEF StrictSubsetOrdering
  <2> QED
    BY <1>3, <2>3
<1> QED
  BY <1>5

\* A bounded one that is not empty has a greatest element.
LEMMA GreatestOf ==
    ASSUME NEW bound \in Nat, NEW T, T \subseteq 0 .. bound, T # {}
    PROVE  \E m \in T : \A n \in T : n <= m
<1> DEFINE Distances == {bound - t : t \in T}
<1>1. Distances \subseteq Nat /\ Distances # {}
  <2>1. \A t \in T : bound - t \in Nat
    OBVIOUS
  <2>2. Distances # {}
    OBVIOUS
  <2> QED
    BY <2>1, <2>2
<1>2. PICK d \in Distances : \A e \in Distances : d <= e
  <2> HIDE DEF Distances
  <2> QED
    BY <1>1, LeastOf
<1>3. PICK m \in T : d = bound - m
  BY <1>2
<1>4. ASSUME NEW n \in T
      PROVE  n <= m
  BY <1>2, <1>3
<1> QED
  BY <1>4
=============================================================================
