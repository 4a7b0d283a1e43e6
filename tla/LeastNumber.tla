---------------------------- MODULE LeastNumber -----------------------------
(***************************************************************************)
(* The one fact about numbers that the proofs need and the library states  *)
(* in a form the provers cannot use.                                       *)
(***************************************************************************)
EXTENDS Naturals, TLAPS, WellFoundedInduction

\* A non-empty set of naturals has a least element: the search loops, which
\* stop at the first hit, are CHOOSE expressions that denote it.
LEMMA LeastExists ==
    ASSUME NEW S \in SUBSET Nat, S # {}
    PROVE  \E i \in S : \A j \in S : i <= j
<1>. DEFINE Less == {ss \in Nat \X Nat : ss[1] < ss[2]}
<1>1. IsWellFoundedOn(Less, Nat)
  BY NatLessThanWellFounded, Zenon DEF OpToRel
<1>2. PICK i \in S : \A j \in S : ~ (<<j, i>> \in Less)
  <2>. HIDE DEF Less
  <2>. QED BY <1>1, WFMin, Zenon
<1>3. \A j \in S : ~ (j < i)
  BY <1>2
<1>. QED BY <1>3
=============================================================================
