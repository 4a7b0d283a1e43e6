-------------------------- MODULE MCCatalogRepair --------------------------
(***************************************************************************)
(* Instances of CatalogRepair for TLC: two input files of one site, of     *)
(* which either may be interrupted.                                        *)
(***************************************************************************)
EXTENDS CatalogRepair

CONSTANT s1

Insertion(time, recs) == [site |-> s1, time |-> time, del |-> FALSE, recs |-> recs]

TwoVersions == {Insertion(1, {1}), Insertion(2, {2})}

\* A version of it, and an older one with no data after its header.
OneEmpty == {Insertion(2, {1}), Insertion(1, {})}
=============================================================================
