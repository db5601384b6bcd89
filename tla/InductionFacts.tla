---------------------------- MODULE InductionFacts ----------------------------
(***************************************************************************)
(* Induction for the proofs about loops over sequences and sums over sets, *)
(* in the form of a statement about sets: that the order of the naturals   *)
(* is well founded is all it rests on.                                     *)
(***************************************************************************)
EXTENDS Integers, WellFoundedInduction, TLAPS

(* A set that has zero and every successor has every number.               *)
THEOREM SetInduction ==
    ASSUME NEW T \in SUBSET Nat, 0 \in T, \A n \in T : n + 1 \in T
    PROVE  T = Nat
<1> DEFINE U == Nat \ T
<1> SUFFICES ASSUME U # {} PROVE FALSE
  OBVIOUS
<1>1. PICK x \in U : \A y \in U : ~ (<<y, x>> \in OpToRel(<, Nat))
  <2>1. U \subseteq Nat
    OBVIOUS
  <2> HIDE DEF U
  <2> QED
    BY <2>1, NatLessThanWellFounded, WFMin
<1>2. \A y \in U : ~ (y < x)
  BY <1>1 DEF OpToRel
<1>3. x # 0 /\ x - 1 \in Nat /\ x - 1 < x /\ x = (x - 1) + 1
  OBVIOUS
<1>4. x - 1 \in T
  BY <1>2, <1>3
<1> QED
  BY <1>3, <1>4
=============================================================================
