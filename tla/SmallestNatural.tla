--------------------------- MODULE SmallestNatural ---------------------------
(* What Min of the community modules needs: a set of natural numbers has a  *)
(* smallest one.                                                            *)
EXTENDS FiniteSetsExt, WellFoundedInduction, TLAPS

LEMMA SmallestOfNaturals ==
  ASSUME NEW S \in SUBSET Nat, S # {}
  PROVE  \E d \in S : \A e \in S : d <= e
<1>1. IsWellFoundedOn(OpToRel(<, Nat), Nat)
  BY NatLessThanWellFounded
<1>2. PICK d \in S : \A e \in S : ~(<<e, d>> \in OpToRel(<, Nat))
  BY <1>1, WFMin
<1>3. \A e \in S : ~(e < d)
  BY <1>2 DEF OpToRel
<1> QED  BY <1>3

LEMMA MinIsSmallest ==
  ASSUME NEW S \in SUBSET Nat, S # {}
  PROVE  Min(S) \in S /\ \A e \in S : Min(S) <= e
BY SmallestOfNaturals DEF Min

=============================================================================
