---------------------------- MODULE NumberFacts -----------------------------
(* A fact about natural numbers that the proofs of several modules need.    *)
EXTENDS Integers, FiniteSetTheorems, TLAPS

\* A set of natural numbers that is not empty has a smallest member.
LEMMA LeastNat ==
    ASSUME NEW T \in SUBSET Nat, T # {}
    PROVE  \E x \in T : \A y \in T : x <= y
<1> DEFINE R == StrictSubsetOrdering(Nat)
           U == {0 .. n : n \in T}
<1>1. U \subseteq FiniteSubsetsOf(Nat)
  <2>1. \A n \in T : IsFiniteSet(0 .. n) /\ 0 .. n \subseteq Nat
    BY FS_Interval
  <2> QED
    BY <2>1 DEF FiniteSubsetsOf
<1>2. \E X \in U : \A Y \in U : <<Y, X>> \notin R
  <2>1. IsWellFoundedOn(R, FiniteSubsetsOf(Nat))
    BY FS_StrictSubsetOrderingWellFounded
  <2>2. U # {}
    OBVIOUS
  <2> HIDE DEF R, U
  <2> QED
    BY <1>1, <2>1, <2>2, WFMin
<1>3. PICK x \in T : \A Y \in U : <<Y, 0 .. x>> \notin R
  BY <1>2
<1>4. ASSUME NEW y \in T PROVE x <= y
  <2> SUFFICES ASSUME y < x PROVE FALSE
    OBVIOUS
  <2>1. 0 .. y \subseteq 0 .. x /\ x \in 0 .. x /\ x \notin 0 .. y
    OBVIOUS
  <2>2. 0 .. y \in SUBSET Nat /\ 0 .. x \in SUBSET Nat
    OBVIOUS
  <2>3. <<0 .. y, 0 .. x>> \in R
    <3> DEFINE Y == 0 .. y
               X == 0 .. x
    <3>1. Y \in SUBSET Nat /\ X \in SUBSET Nat /\ Y \subseteq X /\ Y # X
      BY <2>1, <2>2
    <3> HIDE DEF X, Y
    <3>2. <<Y, X>> \in R
      BY <3>1 DEF StrictSubsetOrdering
    <3> QED
      BY <3>2 DEF X, Y
  <2> QED
    BY <1>3, <2>3
<1> QED
  BY <1>4
=============================================================================
