-------------------------- MODULE MCAnonftpUpdate --------------------------
(***************************************************************************)
(* Instances of AnonftpUpdate for TLC: input files for one site.           *)
(***************************************************************************)
EXTENDS AnonftpUpdate

CONSTANT s1

Insertion(time, recs) == [site |-> s1, time |-> time, del |-> FALSE, recs |-> recs]

\* Two versions of the site.
TwoVersions == {Insertion(1, {1, 2}), Insertion(2, {2, 3})}

\* A version of it, and a deletion.
Both == {Insertion(1, {1}), [site |-> s1, time |-> 1, del |-> TRUE, recs |-> {}]}
=============================================================================
