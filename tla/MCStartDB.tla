----------------------------- MODULE MCStartDB ------------------------------
(***************************************************************************)
(* Instances of StartDB for TLC: domain.order lists one domain before "*"  *)
(* (priority -1) and one after it (1); the others have priority 0.  The    *)
(* administrator exchanges the two.                                        *)
(***************************************************************************)
EXTENDS StartDB, TLC

CONSTANTS n1, n3

Near(first, last) ==
    [n \in Names |-> IF n = first THEN -1 ELSE IF n = last THEN 1 ELSE 0]

AddrSymmetry == Permutations(Addrs)

TwoOrders == {Near(n1, n3), Near(n3, n1)}
=============================================================================
