----------------------------- MODULE LeastNatural -----------------------------
(* Every set of natural numbers that has an element has a least one: what   *)
(* takes the place of induction in proofs about loops and indexes.          *)
EXTENDS Naturals, WellFoundedInduction, TLAPS

LessOnNat == OpToRel(<, Nat)

\* The least element of a set of natural numbers.
LEMMA LeastExists ==
  ASSUME NEW S, S \subseteq Nat, S # {}
  PROVE  \E k \in S : \A j \in S : k <= j
<1>1. IsWellFoundedOn(LessOnNat, Nat)
  BY NatLessThanWellFounded, Zenon DEF LessOnNat
<1>2. \A j, k \in Nat : << j, k >> \in LessOnNat <=> j < k
  BY DEF LessOnNat, OpToRel
<1>3. PICK k \in S : \A j \in S : ~ (<< j, k >> \in LessOnNat)
  <2> HIDE DEF LessOnNat
  <2> QED BY <1>1, WFMin
<1>4. \A j \in S : ~ (j < k)
  BY <1>2, <1>3
<1> QED BY <1>4
=============================================================================
