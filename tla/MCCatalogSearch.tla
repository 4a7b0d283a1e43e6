--------------------------- MODULE MCCatalogSearch ---------------------------
(***************************************************************************)
(* The instance of CatalogSearch for TLC.  The first site is inserted with  *)
(* two files that share a string but not all of them, and deleted; the     *)
(* second one once.                                                        *)
(***************************************************************************)
EXTENDS CatalogSearch

CONSTANTS s1, s2

Insertion(site, time, recs) == [site |-> site, time |-> time, del |-> FALSE, recs |-> recs]
Deletion(site, time) == [site |-> site, time |-> time, del |-> TRUE, recs |-> {}]

AllInputs ==
    {Insertion(s1, 1, {1, 2}), Insertion(s1, 2, {2, 3}), Deletion(s1, 1), Insertion(s2, 1, {3})}
=============================================================================
