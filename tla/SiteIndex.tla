----------------------------- MODULE SiteIndex ------------------------------
(***************************************************************************)
(* What a start database promises its users: which hosts hold which        *)
(* string.  ADD_SITE adds one pair, DELETE_SITE removes one, and nothing   *)
(* else (opening, closing, reordering, renumbering, a change of address)   *)
(* changes the relation.                                                   *)
(***************************************************************************)
CONSTANTS Starts, Names
VARIABLE rel

Init == rel = {}

Add(s, n) == rel' = rel \cup {<<s, n>>}

Delete(s, n) == rel' = rel \ {<<s, n>>}

Next == \E s \in Starts, n \in Names : Add(s, n) \/ Delete(s, n)

Spec == Init /\ [][Next]_rel

TypeOK == rel \subseteq Starts \X Names
=============================================================================
