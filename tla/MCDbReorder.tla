----------------------------- MODULE MCDbReorder -----------------------------
(***************************************************************************)
(* Instances of DbReorder for TLC: one catalog with one or two hosts (the   *)
(* other one an update may bring) and an edit of domain.order, and two      *)
(* catalogs with the hosts in different positions of the two host tables.   *)
(***************************************************************************)
EXTENDS DbReorder

CONSTANTS ftp, web, n1, n2

OnlyFtp == <<ftp>>
DefaultList == <<ftp, web>>
DomainOrder == [n \in Names |-> IF n = n1 THEN -1 ELSE 1]
Edited == [n \in Names |-> IF n = n2 THEN 0 ELSE 1]
OneOrder == {DomainOrder}
TwoOrders == {DomainOrder, Edited}
FtpTables == {[c \in {ftp} |-> <<n2>>], [c \in {ftp} |-> <<n2, n1>>]}
BothTables == {[c \in {ftp, web} |-> IF c = ftp THEN <<n2, n1>> ELSE <<n1, n2>>]}
=============================================================================
