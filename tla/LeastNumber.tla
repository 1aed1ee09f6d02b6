----------------------------- MODULE LeastNumber -----------------------------
(***************************************************************************)
(* The least-number principle, from the library's fact about minimal       *)
(* elements of a well-founded relation.                                    *)
(***************************************************************************)
EXTENDS Naturals, WellFoundedInduction, TLAPS

LessPairs == {ss \in Nat \X Nat : ss[1] < ss[2]}

LEMMA HasLeast ==
    ASSUME NEW S \in SUBSET Nat, S # {}
    PROVE  \E x \in S : \A y \in S : x <= y
<1>1. IsWellFoundedOn(LessPairs, Nat)
  BY NatLessThanWellFounded DEF OpToRel, LessPairs
<1>2. PICK x \in S : \A y \in S : ~(<<y, x>> \in LessPairs)
  BY <1>1, WFMin
<1>3. ASSUME NEW y \in S PROVE x <= y
  <2>1. x \in Nat /\ y \in Nat
    OBVIOUS
  <2>2. ~(y < x)
    BY <1>2, <2>1 DEF LessPairs
  <2> QED
    BY <2>1, <2>2
<1> QED
  BY <1>3
=============================================================================
