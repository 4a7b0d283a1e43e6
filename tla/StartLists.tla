----------------------------- MODULE StartLists -----------------------------
(***************************************************************************)
(* The data of one catalog's start database (src/archie/lib/startdb), as   *)
(* operators without state.                                                *)
(*                                                                         *)
(*   - The host table is a sequence of [addr, name] records.  A port is    *)
(*     part of both: "addr" stands for the pair (ip, port) and "name" for  *)
(*     (hostname, port), because every comparison of host_table.c asks for *)
(*     the port as well.                                                   *)
(*   - A host-table index is a position of that sequence.  The C code      *)
(*     counts from 0 and TLA+ from 1.                                      *)
(*   - The start database maps a string (its offset in the strings file,   *)
(*     "start") to the list of the hosts that hold it: a sequence of       *)
(*     host-table indices.  A missing dbm entry is the empty sequence: the *)
(*     code deletes the entry when its list becomes empty.                 *)
(*   - The END_LIST sentinel and the array of 65536 entries are left out:  *)
(*     a list holds each index at most once (NoDuplicates of StartDB) and  *)
(*     an index is a signed 16-bit number, so the array never fills up.    *)
(***************************************************************************)
EXTENDS Integers, Sequences

Host(a, n) == [addr |-> a, name |-> n]

\* Mutant: the name is not compared.
Matches_AddrOnly(tab, a, n) == {i \in DOMAIN tab : tab[i].addr = a}

\* The entries host_table_find accepts: the address or the name agrees.
Matches(tab, a, n) == {i \in DOMAIN tab : tab[i].addr = a \/ tab[i].name = n}

NotFound == 0

\* host_table_find: the first entry that matches, NotFound if there is none.
HostTableFind(tab, a, n) ==
    IF Matches(tab, a, n) = {}
      THEN NotFound
      ELSE CHOOSE i \in Matches(tab, a, n) :
                 \A j \in Matches(tab, a, n) : i <= j

\* host_table_add: nothing if the host is found, else a new last entry.
HostTableAdd(tab, a, n) ==
    IF HostTableFind(tab, a, n) # NotFound THEN tab ELSE Append(tab, Host(a, n))

\* host_table_replace: the entry found must agree in the old address and in
\* the name; its address is overwritten in place.
CanReplace(tab, old, n) ==
    /\ HostTableFind(tab, old, n) # NotFound
    /\ tab[HostTableFind(tab, old, n)] = Host(old, n)

\* Mutant: the entry is deleted and added again.
HostTableReplace_Moved(tab, old, new, n) ==
    LET f == HostTableFind(tab, old, n)
    IN  SubSeq(tab, 1, f - 1) \o SubSeq(tab, f + 1, Len(tab)) \o <<Host(new, n)>>

HostTableReplace(tab, old, new, n) ==
    [tab EXCEPT ![HostTableFind(tab, old, n)].addr = new]

\* host_table_priority: the priority of every entry under a domain order.
Priorities(tab, order) == [i \in DOMAIN tab |-> order[tab[i].name]]

\* find_in_list
InList(list, i) == \E k \in DOMAIN list : list[k] = i

\* Mutant: a new index always goes to the end.
InsertPos_Last(list, i, prio) == Len(list) + 1

\* insert_in_list stops at the first entry whose priority is greater.
InsertPos(list, i, prio) ==
    LET later == {k \in DOMAIN list : prio[i] < prio[list[k]]}
    IN  IF later = {} THEN Len(list) + 1
        ELSE CHOOSE k \in later : \A m \in later : k <= m

\* Mutant: the entry at that position is overwritten.
InsertInList_NoShift(list, i, prio) ==
    LET p == InsertPos(list, i, prio)
    IN  IF p > Len(list) THEN Append(list, i) ELSE [list EXCEPT ![p] = i]

\* The entries from that position on move up by one.
InsertInList(list, i, prio) ==
    LET p == InsertPos(list, i, prio)
    IN  [k \in 1 .. Len(list) + 1 |->
            IF k < p THEN list[k] ELSE IF k = p THEN i ELSE list[k - 1]]

\* Mutant: no find_in_list first.
AddSite_Unchecked(list, i, prio) == InsertInList(list, i, prio)

\* update_start_dbs with ADD_SITE, and with DELETE_SITE: the entries after the
\* deleted one move down by one.
AddSite(list, i, prio) ==
    IF InList(list, i) THEN list ELSE InsertInList(list, i, prio)

PosInList(list, i) ==
    CHOOSE k \in DOMAIN list : list[k] = i /\ \A m \in 1 .. k - 1 : list[m] # i

\* Mutant: the shift starts one entry too late.
DeleteSite_OffByOne(list, i) ==
    IF ~ InList(list, i) THEN list
    ELSE [k \in 1 .. Len(list) - 1 |->
             IF k <= PosInList(list, i) THEN list[k] ELSE list[k + 1]]

DeleteSite(list, i) ==
    IF ~ InList(list, i) THEN list
    ELSE [k \in 1 .. Len(list) - 1 |->
             IF k < PosInList(list, i) THEN list[k] ELSE list[k + 1]]

\* reorder_list: qsort by priority.  qsort is not stable, so any arrangement
\* of the list in which the priorities do not decrease may be the result.
Ascending(list, prio) ==
    \A j, k \in DOMAIN list : j < k => prio[list[j]] <= prio[list[k]]

SameEntries(l1, l2) ==
    /\ Len(l1) = Len(l2)
    /\ \A i \in DOMAIN l1 : InList(l2, l1[i])
    /\ \A i \in DOMAIN l2 : InList(l1, l2[i])

Distinct(list) == \A j, k \in DOMAIN list : list[j] = list[k] => j = k

Sortings(list, prio) ==
    {l \in [DOMAIN list -> {list[k] : k \in DOMAIN list}] :
        /\ SameEntries(l, list)
        /\ Distinct(list) => Distinct(l)
        /\ Ascending(l, prio)}

\* The sites a client resolves for a string: it copies the list and looks
\* every index up in the host table it read; an index outside that table is
\* skipped ("start/host dbase corrupt").
Resolve(tab, list) ==
    {tab[list[k]].name : k \in {m \in DOMAIN list : list[m] \in DOMAIN tab}}
=============================================================================
