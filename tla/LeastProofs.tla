---------------------------- MODULE LeastProofs -----------------------------
(***************************************************************************)
(* What the operators that CHOOSE a smallest number rest on.                *)
(***************************************************************************)
EXTENDS Integers, WellFoundedInduction, TLAPS

(* A set of naturals that is not empty has a least element: what makes the  *)
(* CHOOSE of DebugBreakpoints!NewId and of ToolCalls!First defined.         *)
LEMMA HasFirst ==
  ASSUME NEW S \in SUBSET Nat, S # {}
  PROVE  \E i \in S : \A j \in S : i <= j
<1>1. PICK i \in S : \A j \in S : ~ (<<j, i>> \in OpToRel(<, Nat))
  BY NatLessThanWellFounded, WFMin
<1>2. ASSUME NEW j \in S PROVE ~ (j < i)
  <2>1. <<j, i>> \in Nat \X Nat
    OBVIOUS
  <2> QED
    BY <1>1, <2>1 DEF OpToRel
<1>3. \A j \in S : ~ (j < i) => i <= j
  OBVIOUS
<1> QED
  BY <1>2, <1>3
=============================================================================
