---------------------------- MODULE SiteCatalog -----------------------------
(***************************************************************************)
(* What the anonftp catalog promises: a site's strings go over from its old *)
(* file to its new one in an update of its own, one string at a time, each  *)
(* in the direction of the new file; the new file takes its place when the  *)
(* index has exactly its strings; updates do not overlap and touch nothing *)
(* else.  When this can no longer be promised, the catalog is marked.      *)
(***************************************************************************)
CONSTANTS Sites, Starts

VARIABLES
    file,       \* the strings of each site's file
    shown,      \* the strings a search finds each site under
    updates,    \* the updates under way: their sites and new strings
    marked      \* a call has failed, two updates ran at once, or one was killed

vars == <<file, shown, updates, marked>>

Init ==
    /\ file = [s \in Sites |-> {}]
    /\ shown = file
    /\ updates = {}
    /\ marked = FALSE

Begin(s, new) ==
    /\ updates = {}
    /\ updates' = {[site |-> s, strings |-> new]}
    /\ UNCHANGED <<file, shown, marked>>

\* A string becomes, or stays, what the new file says.
Change(u, x) ==
    /\ shown' = [shown EXCEPT ![u.site] = IF x \in u.strings THEN @ \cup {x} ELSE @ \ {x}]
    /\ UNCHANGED <<file, updates, marked>>

End(u) ==
    /\ shown[u.site] = u.strings
    /\ file' = [file EXCEPT ![u.site] = u.strings]
    /\ updates' = {}
    /\ UNCHANGED <<shown, marked>>

\* Nothing is promised from here on.
Spoil == marked' = TRUE

Next ==
    \/ /\ ~ marked
       /\ \/ \E s \in Sites, new \in SUBSET Starts : Begin(s, new)
          \/ \E u \in updates : End(u) \/ \E x \in Starts : Change(u, x)
    \/ Spoil

Spec == Init /\ [][Next]_vars
=============================================================================
