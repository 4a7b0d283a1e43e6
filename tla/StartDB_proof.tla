--------------------------- MODULE StartDB_proof ----------------------------
(***************************************************************************)
(* The start database keeps its promises for every set of hosts, strings   *)
(* and domain orders and every size of the host table.                     *)
(***************************************************************************)
EXTENDS StartDB, StartLists_proof

\* The same hosts, and perhaps more, stand behind the indices of t2.
Extended(t1, t2) ==
    \A i \in DOMAIN t1 : i \in DOMAIN t2 /\ t2[i].name = t1[i].name

Unique(tab) ==
    \A i, j \in DOMAIN tab :
        i # j => tab[i].addr # tab[j].addr /\ tab[i].name # tab[j].name

\* The inductive invariant: what the runs check, and that the table on file
\* and the table in a client's memory are older versions of the current one.
IInv ==
    /\ TypeOK
    /\ NoDuplicates
    /\ IndicesKnown
    /\ HostsUnique
    /\ PrioritiesCurrent
    /\ Sorted
    /\ Extended(tableFile, Current)
    /\ Extended(client, Current)
-----------------------------------------------------------------------------
\* host_table_add appends at most one host and keeps the table unambiguous.
LEMMA AddHostTable ==
    ASSUME NEW tab \in Seq(Hosts), NEW a \in Addrs, NEW n \in Names, Unique(tab)
    PROVE  LET new == HostTableAdd(tab, a, n)
           IN  /\ new \in Seq(Hosts)
               /\ Len(new) <= Len(tab) + 1
               /\ HostTableFind(tab, a, n) # NotFound => new = tab
               /\ Extended(tab, new)
               /\ Unique(new)
<1>. DEFINE new == HostTableAdd(tab, a, n)
<1>1. CASE HostTableFind(tab, a, n) # NotFound
  BY <1>1 DEF HostTableAdd, Extended
<1>2. CASE HostTableFind(tab, a, n) = NotFound
  <2>1. new = Append(tab, Host(a, n)) /\ Host(a, n) \in Hosts
    BY <1>2 DEF HostTableAdd, Host, Hosts
  <2>2. \A i \in DOMAIN tab : tab[i].addr # a /\ tab[i].name # n
    <3>1. Matches(tab, a, n) = {}
      BY <1>2, FindProperties
    <3>. QED BY <3>1 DEF Matches
  <2>3. /\ new \in Seq(Hosts)
        /\ Len(new) = Len(tab) + 1
        /\ \A i \in 1 .. Len(tab) : new[i] = tab[i]
        /\ new[Len(tab) + 1].addr = a
        /\ new[Len(tab) + 1].name = n
    BY <2>1 DEF Host
  <2>. HIDE DEF new
  <2>4. Extended(tab, new)
    BY <2>3 DEF Extended
  <2>5. Unique(new)
    BY <2>2, <2>3 DEF Unique
  <2>. QED BY <1>2, <2>3, <2>4, <2>5 DEF new
<1>. QED BY <1>1, <1>2

\* host_table_replace changes one address, to one no entry has.
LEMMA ReplaceHostTable ==
    ASSUME NEW tab \in Seq(Hosts), NEW old \in Addrs, NEW new \in Addrs, NEW n \in Names,
           Unique(tab), CanReplace(tab, old, n),
           \A i \in DOMAIN tab : tab[i].addr # new
    PROVE  LET t == HostTableReplace(tab, old, new, n)
           IN  /\ t \in Seq(Hosts)
               /\ Len(t) = Len(tab)
               /\ \A i \in DOMAIN tab : t[i].name = tab[i].name
               /\ Unique(t)
<1>. DEFINE f == HostTableFind(tab, old, n)
            t == HostTableReplace(tab, old, new, n)
<1>1. f \in DOMAIN tab
  BY FindProperties DEF CanReplace
<1>2. t = [tab EXCEPT ![f] = [tab[f] EXCEPT !.addr = new]]
  BY DEF HostTableReplace
<1>3. tab[f] \in Hosts
  BY <1>1
<1>4. [tab[f] EXCEPT !.addr = new] = [addr |-> new, name |-> tab[f].name]
  BY <1>3 DEF Hosts
<1>. HIDE DEF f, t
<1>5. /\ t \in Seq(Hosts)
      /\ Len(t) = Len(tab)
      /\ \A i \in DOMAIN tab : t[i] = IF i = f THEN [addr |-> new, name |-> tab[f].name]
                                      ELSE tab[i]
  BY <1>1, <1>2, <1>3, <1>4 DEF Hosts
<1>6. \A i \in DOMAIN tab : t[i].name = tab[i].name
  BY <1>5
<1>7. Unique(t)
  BY <1>5, <1>6 DEF Unique
<1>. QED BY <1>5, <1>6, <1>7 DEF t
-----------------------------------------------------------------------------
\* A new start database satisfies the inductive invariant.
LEMMA InitInvariant == Init => IInv
<1>. SUFFICES ASSUME Init PROVE IInv
  OBVIOUS
<1>1. TypeOK
  <2>1. <<>> \in Seq(Hosts) /\ <<>> \in Seq(Indices) /\ <<>> \in Seq(Int) /\ Len(<<>>) = 0
    OBVIOUS
  <2>2. mixed \in BOOLEAN
    BY Zenon DEF Init
  <2>. QED BY <2>1, <2>2, MaxHostsAssumption DEF Init, TypeOK, TableOK
<1>2. NoDuplicates /\ IndicesKnown /\ Sorted
  BY DEF Init, NoDuplicates, IndicesKnown, Sorted, Distinct, Ascending
<1>. QED
  BY <1>1, <1>2 DEF Init, IInv, HostsUnique, PrioritiesCurrent, Current, Extended

\* The priorities of a table are integers, one per entry.
LEMMA PrioritiesType ==
    ASSUME NEW tab \in Seq(Hosts), NEW o \in Orders
    PROVE  /\ Priorities(tab, o) \in Seq(Int)
           /\ Priorities(tab, o) \in [DOMAIN tab -> Int]
<1>1. o \in [Names -> Int]
  BY OrdersAssumption
<1>2. ASSUME NEW i \in DOMAIN tab PROVE tab[i].name \in Names
  <2>1. tab[i] \in Hosts
    OBVIOUS
  <2>. QED BY <2>1 DEF Hosts
<1>3. Priorities(tab, o) \in [1 .. Len(tab) -> Int]
  BY <1>1, <1>2 DEF Priorities
<1>. QED BY <1>3

\* A list whose indices are all known is a sequence over the table's domain.
LEMMA KnownList ==
    ASSUME IInv, NEW s \in Starts
    PROVE  lists[s] \in Seq(DOMAIN Current)
<1>1. lists[s] \in Seq(Indices) /\ \A k \in 1 .. Len(lists[s]) : lists[s][k] \in DOMAIN Current
  BY DEF IInv, TypeOK, IndicesKnown
<1>2. lists[s] \in [1 .. Len(lists[s]) -> DOMAIN Current]
  BY <1>1
<1>. QED BY <1>1, <1>2
-----------------------------------------------------------------------------
\* update_start_dbs(ADD_SITE).
LEMMA AddToListStep ==
    ASSUME IInv, NEW s \in Starts, NEW i \in Indices, AddToList(s, i)
    PROVE  IInv'
<1>. DEFINE new == AddSite(lists[s], i, prio)
<1>1. /\ phase = "open" /\ phase' = phase
      /\ i \in DOMAIN table
      /\ lists' = [lists EXCEPT ![s] = new]
      /\ UNCHANGED <<order, tableFile, table, prio, sessOrder, effective, client>>
  BY DEF AddToList, session
<1>2. Current = table /\ Current' = table
  BY <1>1 DEF Current
<1>3. lists[s] \in Seq(DOMAIN table) /\ lists[s] \in Seq(Indices)
  BY <1>2, KnownList DEF IInv, TypeOK
<1>4. /\ new \in Seq(Indices)
      /\ Distinct(new)
      /\ \A x : InList(new, x) <=> InList(lists[s], x) \/ x = i
  BY <1>3, AddSiteProperties DEF IInv, NoDuplicates
<1>5. new \in Seq(DOMAIN table)
  BY <1>1, <1>3, AddSiteProperties
<1>6. lists \in [Starts -> Seq(Indices)]
  BY DEF IInv, TypeOK
<1>. HIDE DEF new
<1>7. /\ lists'[s] = new
      /\ \A t \in Starts : t # s => lists'[t] = lists[t]
  BY <1>1, <1>6
<1>8. TypeOK'
  <2>1. mixed' \in BOOLEAN
    BY Zenon DEF AddToList
  <2>2. lists' \in [Starts -> Seq(Indices)]
    BY <1>1, <1>4, <1>6
  <2>. QED BY <1>1, <2>1, <2>2 DEF IInv, TypeOK, TableOK
<1>9. NoDuplicates'
  BY <1>4, <1>7 DEF IInv, NoDuplicates
<1>10. IndicesKnown'
  BY <1>2, <1>5, <1>7 DEF IInv, IndicesKnown
<1>11. Sorted'
  <2>1. SUFFICES ASSUME ~ mixed', NEW t \in Starts
                 PROVE  Ascending(lists'[t], Priorities(table, effective))
    BY <1>1, <1>2 DEF Sorted
  <2>2. ~ mixed /\ (InList(lists[s], i) \/ sessOrder = effective)
    BY <2>1, Zenon DEF AddToList
  <2>3. Ascending(lists[t], Priorities(table, effective))
    BY <1>2, <2>2 DEF IInv, Sorted
  <2>4. CASE t # s
    BY <1>7, <2>3, <2>4
  <2>5. CASE t = s /\ InList(lists[s], i)
    BY <1>7, <2>3, <2>5 DEF new, AddSite
  <2>6. CASE t = s /\ sessOrder = effective
    <3>1. prio = Priorities(table, effective)
      BY <1>1, <2>6 DEF IInv, PrioritiesCurrent
    <3>2. table \in Seq(Hosts) /\ effective \in Orders
      BY DEF IInv, TypeOK, TableOK
    <3>3. prio \in [DOMAIN table -> Int]
      BY <3>1, <3>2, PrioritiesType
    <3>4. Ascending(new, prio)
      BY <1>1, <1>3, <2>3, <2>6, <3>1, <3>3, AddSiteAscending DEF new
    <3>. QED BY <1>7, <2>6, <3>1, <3>4
  <2>. QED BY <2>2, <2>4, <2>5, <2>6
<1>. QED
  BY <1>1, <1>2, <1>8, <1>9, <1>10, <1>11
     DEF IInv, HostsUnique, PrioritiesCurrent, Extended

\* update_start_dbs(DELETE_SITE).
LEMMA DeleteFromListStep ==
    ASSUME IInv, NEW s \in Starts, NEW i \in Indices, DeleteFromList(s, i)
    PROVE  IInv'
<1>. DEFINE new == DeleteSite(lists[s], i)
<1>1. /\ phase = "open" /\ phase' = phase
      /\ i \in DOMAIN table
      /\ lists' = [lists EXCEPT ![s] = new]
      /\ UNCHANGED <<order, tableFile, table, prio, sessOrder, effective, mixed, client>>
  BY DEF DeleteFromList, session, history
<1>2. Current = table /\ Current' = table
  BY <1>1 DEF Current
<1>3. lists[s] \in Seq(DOMAIN table) /\ lists[s] \in Seq(Indices) /\ Distinct(lists[s])
  BY <1>2, KnownList DEF IInv, TypeOK, NoDuplicates
<1>4. /\ new \in Seq(Indices)
      /\ Distinct(new)
      /\ \A p : Ascending(lists[s], p) => Ascending(new, p)
  BY <1>3, DeleteSiteProperties
<1>5. new \in Seq(DOMAIN table)
  BY <1>1, <1>3, DeleteSiteProperties
<1>6. lists \in [Starts -> Seq(Indices)]
  BY DEF IInv, TypeOK
<1>. HIDE DEF new
<1>7. /\ lists'[s] = new
      /\ \A t \in Starts : t # s => lists'[t] = lists[t]
  BY <1>1, <1>6
<1>8. TypeOK'
  <2>1. mixed' \in BOOLEAN
    BY <1>1, Zenon DEF IInv, TypeOK
  <2>2. lists' \in [Starts -> Seq(Indices)]
    BY <1>1, <1>4, <1>6
  <2>. QED BY <1>1, <2>1, <2>2 DEF IInv, TypeOK, TableOK
<1>9. NoDuplicates'
  BY <1>4, <1>7 DEF IInv, NoDuplicates
<1>10. IndicesKnown'
  BY <1>2, <1>5, <1>7 DEF IInv, IndicesKnown
<1>11. Sorted'
  <2>1. SUFFICES ASSUME ~ mixed, NEW t \in Starts
                 PROVE  Ascending(lists'[t], Priorities(table, effective))
    BY <1>1, <1>2 DEF Sorted
  <2>2. Ascending(lists[t], Priorities(table, effective))
    BY <1>2, <2>1 DEF IInv, Sorted
  <2>. QED BY <1>4, <1>7, <2>2
<1>. QED
  BY <1>1, <1>2, <1>8, <1>9, <1>10, <1>11
     DEF IInv, HostsUnique, PrioritiesCurrent, Extended

\* db_reorder.
LEMMA ReorderStep ==
    ASSUME IInv, Reorder
    PROVE  IInv'
<1>1. /\ phase = "closed" /\ phase' = phase
      /\ effective' = order /\ mixed' = FALSE
      /\ UNCHANGED <<order, tableFile, table, prio, sessOrder, client>>
  BY DEF Reorder, session
<1>2. Current = tableFile /\ Current' = tableFile
  BY <1>1 DEF Current
<1>3. PICK new \in [Starts -> UNION {Resorted(s) : s \in Starts}] :
         (\A s \in Starts : new[s] \in Resorted(s)) /\ lists' = new
  BY DEF Reorder
<1>4. ASSUME NEW s \in Starts
      PROVE  /\ lists'[s] \in Seq(Indices)
             /\ lists'[s] \in Seq(DOMAIN tableFile)
             /\ Distinct(lists'[s])
             /\ Ascending(lists'[s], Priorities(tableFile, order))
  <2>1. lists'[s] \in Sortings(lists[s], Priorities(tableFile, order))
    BY <1>3 DEF Resorted
  <2>2. lists[s] \in Seq(Indices) /\ lists[s] \in Seq(DOMAIN tableFile) /\ Distinct(lists[s])
    BY <1>2, KnownList DEF IInv, TypeOK, NoDuplicates
  <2>. QED BY <2>1, <2>2, SortingsProperties
<1>5. TypeOK'
  <2>1. lists' \in [Starts -> Seq(Indices)]
    BY <1>3, <1>4
  <2>2. mixed' \in BOOLEAN
    BY <1>1
  <2>. QED BY <1>1, <2>1, <2>2 DEF IInv, TypeOK, TableOK
<1>6. NoDuplicates' /\ IndicesKnown' /\ Sorted'
  BY <1>1, <1>2, <1>4 DEF NoDuplicates, IndicesKnown, Sorted
<1>. QED
  BY <1>1, <1>2, <1>5, <1>6 DEF IInv, HostsUnique, PrioritiesCurrent, Extended

\* open_start_dbs.
LEMMA OpenStep ==
    ASSUME IInv, OpenStartDbs
    PROVE  IInv'
<1>1. /\ phase = "closed" /\ phase' = "open"
      /\ table' = tableFile /\ sessOrder' = order
      /\ prio' = Priorities(tableFile, order)
      /\ UNCHANGED <<order, lists, tableFile, effective, mixed, client>>
  BY DEF OpenStartDbs, history
<1>2. Current = tableFile /\ Current' = tableFile
  BY <1>1 DEF Current
<1>3. TypeOK'
  <2>1. tableFile \in Seq(Hosts) /\ order \in Orders
    BY DEF IInv, TypeOK, TableOK
  <2>2. prio' \in Seq(Int)
    BY <1>1, <2>1, PrioritiesType
  <2>3. mixed' \in BOOLEAN
    BY <1>1, Zenon DEF IInv, TypeOK
  <2>. QED BY <1>1, <2>1, <2>2, <2>3 DEF IInv, TypeOK, TableOK
<1>4. Sorted'
  BY <1>1, <1>2 DEF IInv, Sorted
<1>. QED
  BY <1>1, <1>2, <1>3, <1>4
     DEF IInv, NoDuplicates, IndicesKnown, HostsUnique, PrioritiesCurrent, Extended

\* A step that only lets the table of the session grow, or moves a host to
\* another address, leaves every list as good as it was.
LEMMA TableStep ==
    ASSUME IInv, phase = "open", phase' = "open",
           table' \in Seq(Hosts), Len(table') <= MaxHosts,
           Extended(table, table'), Unique(table'),
           prio' = Priorities(table', sessOrder),
           UNCHANGED <<order, lists, tableFile, sessOrder, effective, mixed, client>>
    PROVE  IInv'
<1>1. Current = table /\ Current' = table'
  BY DEF Current
<1>2. TypeOK'
  <2>1. prio' \in Seq(Int)
    BY PrioritiesType DEF IInv, TypeOK
  <2>2. mixed' \in BOOLEAN
    BY Zenon DEF IInv, TypeOK
  <2>. QED BY <2>1, <2>2 DEF IInv, TypeOK, TableOK
<1>3. NoDuplicates' /\ IndicesKnown' /\ HostsUnique' /\ PrioritiesCurrent'
  BY <1>1 DEF IInv, NoDuplicates, IndicesKnown, HostsUnique, PrioritiesCurrent,
              Unique, Extended
<1>4. Sorted'
  <2>1. SUFFICES ASSUME ~ mixed, NEW s \in Starts, NEW j \in DOMAIN lists[s],
                        NEW k \in DOMAIN lists[s], j < k
                 PROVE  Priorities(table', effective)[lists[s][j]]
                           <= Priorities(table', effective)[lists[s][k]]
    BY <1>1 DEF Sorted, Ascending
  <2>2. Priorities(table, effective)[lists[s][j]] <= Priorities(table, effective)[lists[s][k]]
    BY <1>1, <2>1 DEF IInv, Sorted, Ascending
  <2>3. lists[s][j] \in DOMAIN table /\ lists[s][k] \in DOMAIN table
    BY <1>1 DEF IInv, IndicesKnown
  <2>4. \A i \in DOMAIN table :
           Priorities(table', effective)[i] = Priorities(table, effective)[i]
    BY DEF Extended, Priorities
  <2>. QED BY <2>2, <2>3, <2>4
<1>5. Extended(tableFile, Current)' /\ Extended(client, Current)'
  BY <1>1 DEF IInv, Extended
<1>. QED BY <1>2, <1>3, <1>4, <1>5 DEF IInv

\* host_table_add.
LEMMA AddHostStep ==
    ASSUME IInv, NEW a \in Addrs, NEW n \in Names, AddHost(a, n)
    PROVE  IInv'
<1>1. /\ phase = "open" /\ phase' = "open"
      /\ Len(table) < MaxHosts
      /\ table' = HostTableAdd(table, a, n)
      /\ UNCHANGED <<order, lists, tableFile, sessOrder, effective, mixed, client>>
  BY DEF AddHost, history
<1>2. table \in Seq(Hosts) /\ Unique(table) /\ prio = Priorities(table, sessOrder)
  BY <1>1 DEF IInv, TypeOK, TableOK, HostsUnique, Unique, Current, PrioritiesCurrent
<1>3. /\ table' \in Seq(Hosts)
      /\ Len(table') <= Len(table) + 1
      /\ HostTableFind(table, a, n) # NotFound => table' = table
      /\ Extended(table, table') /\ Unique(table')
  BY <1>1, <1>2, AddHostTable
<1>4. prio' = Priorities(table', sessOrder)
  BY <1>2, <1>3 DEF AddHost
<1>5. Len(table') <= MaxHosts
  BY <1>1, <1>2, <1>3, MaxHostsAssumption
<1>. QED BY <1>1, <1>3, <1>4, <1>5, TableStep

\* host_table_replace.
LEMMA ReplaceAddrStep ==
    ASSUME IInv, NEW old \in Addrs, NEW new \in Addrs, NEW n \in Names,
           ReplaceAddr(old, new, n)
    PROVE  IInv'
<1>1. /\ phase = "open" /\ phase' = "open"
      /\ CanReplace(table, old, n)
      /\ \A i \in DOMAIN table : table[i].addr # new
      /\ table' = HostTableReplace(table, old, new, n)
      /\ UNCHANGED <<order, lists, tableFile, prio, sessOrder, effective, mixed, client>>
  BY DEF ReplaceAddr, history
<1>2. /\ table \in Seq(Hosts) /\ Len(table) <= MaxHosts
      /\ Unique(table) /\ prio = Priorities(table, sessOrder)
  BY <1>1 DEF IInv, TypeOK, TableOK, HostsUnique, Unique, Current, PrioritiesCurrent
<1>3. /\ table' \in Seq(Hosts) /\ Len(table') = Len(table)
      /\ \A i \in DOMAIN table : table'[i].name = table[i].name
      /\ Unique(table')
  BY <1>1, <1>2, ReplaceHostTable
<1>4. Extended(table, table') /\ prio' = Priorities(table', sessOrder)
  <2>1. DOMAIN table' = DOMAIN table
    BY <1>2, <1>3
  <2>2. Priorities(table', sessOrder) = Priorities(table, sessOrder)
    BY <1>3, <2>1 DEF Priorities
  <2>. QED BY <1>1, <1>2, <1>3, <2>1, <2>2 DEF Extended
<1>. QED BY <1>1, <1>2, <1>3, <1>4, TableStep

\* The invariant is inductive.
LEMMA NextInvariant == IInv /\ [Next]_vars => IInv'
<1>. SUFFICES ASSUME IInv, [Next]_vars PROVE IInv'
  OBVIOUS
<1>1. ASSUME NEW o \in Orders, EditOrder(o) PROVE IInv'
  <2>1. mixed' \in BOOLEAN
    BY <1>1, Zenon DEF EditOrder, history, IInv, TypeOK
  <2>. QED
    BY <1>1, <2>1 DEF EditOrder, session, history, IInv, TypeOK, TableOK, NoDuplicates,
                IndicesKnown, HostsUnique, PrioritiesCurrent, Sorted, Extended, Current
<1>2. CASE TruncateTable
  <2>1. mixed' \in BOOLEAN
    BY <1>2, Zenon DEF TruncateTable, history, IInv, TypeOK
  <2>2. <<>> \in Seq(Hosts) /\ Len(<<>>) <= MaxHosts
    BY MaxHostsAssumption
  <2>. QED
    BY <1>2, <2>1, <2>2 DEF TruncateTable, session, history, IInv, TypeOK, TableOK, NoDuplicates,
                IndicesKnown, HostsUnique, PrioritiesCurrent, Sorted, Extended, Current
<1>3. CASE WriteTable
  <2>1. mixed' \in BOOLEAN
    BY <1>3, Zenon DEF WriteTable, history, IInv, TypeOK
  <2>. QED
    BY <1>3, <2>1 DEF WriteTable, session, history, IInv, TypeOK, TableOK, NoDuplicates,
                IndicesKnown, HostsUnique, PrioritiesCurrent, Sorted, Extended, Current
<1>4. CASE ClientOpen
  <2>1. mixed' \in BOOLEAN
    BY <1>4, Zenon DEF ClientOpen, history, IInv, TypeOK
  <2>. QED
    BY <1>4, <2>1 DEF ClientOpen, session, history, IInv, TypeOK, TableOK, NoDuplicates,
                IndicesKnown, HostsUnique, PrioritiesCurrent, Sorted, Extended, Current
<1>5. CASE UNCHANGED vars
  <2>1. mixed' \in BOOLEAN
    BY <1>5, Zenon DEF vars, IInv, TypeOK
  <2>. QED
    BY <1>5, <2>1 DEF vars, IInv, TypeOK, TableOK, NoDuplicates,
                IndicesKnown, HostsUnique, PrioritiesCurrent, Sorted, Extended, Current
<1>. QED
  BY <1>1, <1>2, <1>3, <1>4, <1>5, OpenStep, AddHostStep, ReplaceAddrStep,
     AddToListStep, DeleteFromListStep, ReorderStep DEF Next
\* Every step keeps the host behind each index.
LEMMA StepExtended ==
    ASSUME IInv, Next
    PROVE  Extended(Current, Current')
<1>1. ASSUME NEW a \in Addrs, NEW n \in Names, AddHost(a, n)
      PROVE  Extended(Current, Current')
  <2>1. phase = "open" /\ phase' = "open" /\ table' = HostTableAdd(table, a, n)
    BY <1>1 DEF AddHost
  <2>2. table \in Seq(Hosts) /\ Unique(table)
    BY <2>1 DEF IInv, TypeOK, TableOK, HostsUnique, Unique, Current
  <2>. QED BY <2>1, <2>2, AddHostTable DEF Current
<1>2. ASSUME NEW a \in Addrs, NEW b \in Addrs, NEW n \in Names, ReplaceAddr(a, b, n)
      PROVE  Extended(Current, Current')
  <2>1. /\ phase = "open" /\ phase' = "open"
        /\ CanReplace(table, a, n)
        /\ \A i \in DOMAIN table : table[i].addr # b
        /\ table' = HostTableReplace(table, a, b, n)
    BY <1>2 DEF ReplaceAddr
  <2>2. table \in Seq(Hosts) /\ Unique(table)
    BY <2>1 DEF IInv, TypeOK, TableOK, HostsUnique, Unique, Current
  <2>3. /\ table' \in Seq(Hosts) /\ Len(table') = Len(table)
        /\ \A i \in DOMAIN table : table'[i].name = table[i].name
    BY <2>1, <2>2, ReplaceHostTable
  <2>. QED BY <2>1, <2>2, <2>3 DEF Current, Extended
<1>3. CASE OpenStartDbs
  BY <1>3 DEF OpenStartDbs, Current, Extended
<1>4. CASE TruncateTable
  BY <1>4 DEF TruncateTable, session, Current, Extended
<1>5. CASE WriteTable
  BY <1>5 DEF WriteTable, session, Current, Extended
<1>6. CASE Reorder
  BY <1>6 DEF Reorder, session, Current, Extended
<1>7. CASE ClientOpen
  BY <1>7 DEF ClientOpen, session, Current, Extended
<1>8. ASSUME NEW o \in Orders, EditOrder(o) PROVE Extended(Current, Current')
  BY <1>8 DEF EditOrder, session, Current, Extended
<1>9. ASSUME NEW s \in Starts, NEW i \in Indices, AddToList(s, i)
      PROVE  Extended(Current, Current')
  BY <1>9 DEF AddToList, session, Current, Extended
<1>10. ASSUME NEW s \in Starts, NEW i \in Indices, DeleteFromList(s, i)
       PROVE  Extended(Current, Current')
  BY <1>10 DEF DeleteFromList, session, Current, Extended
<1>. QED
  BY <1>1, <1>2, <1>3, <1>4, <1>5, <1>6, <1>7, <1>8, <1>9, <1>10 DEF Next
-----------------------------------------------------------------------------
\* The start database is sound in every reachable state: lists without
\* duplicates, in the precomputed order, over known and unambiguous hosts.
THEOREM Invariance == Spec => []IInv
<1>1. Init => IInv
  BY InitInvariant
<1>2. IInv /\ [Next]_vars => IInv'
  BY NextInvariant
<1>. QED BY <1>1, <1>2, PTL DEF Spec

\* Type correctness.
THEOREM TypeCorrect == Spec => []TypeOK
<1>1. IInv => TypeOK
  BY DEF IInv
<1>. QED BY <1>1, Invariance, PTL

\* No list holds a host twice.
THEOREM ListsWithoutDuplicates == Spec => []NoDuplicates
<1>1. IInv => NoDuplicates
  BY DEF IInv
<1>. QED BY <1>1, Invariance, PTL

\* No list holds an index without a host.
THEOREM ListsOfKnownHosts == Spec => []IndicesKnown
<1>1. IInv => IndicesKnown
  BY DEF IInv
<1>. QED BY <1>1, Invariance, PTL

\* The host table is unambiguous.
THEOREM TableUnambiguous == Spec => []HostsUnique
<1>1. IInv => HostsUnique
  BY DEF IInv
<1>. QED BY <1>1, Invariance, PTL

\* host_table_add recomputes the priorities, and host_table_replace need not:
\* those in memory are those of the table and the order in memory.
THEOREM PrioritiesUpToDate == Spec => []PrioritiesCurrent
<1>1. IInv => PrioritiesCurrent
  BY DEF IInv
<1>. QED BY <1>1, Invariance, PTL

\* Insertion and deletion keep the order db_reorder established.
THEOREM ListsSorted == Spec => []Sorted
<1>1. IInv => Sorted
  BY DEF IInv
<1>. QED BY <1>1, Invariance, PTL

\* A client with an old host table may miss a host but never names a wrong one.
THEOREM ClientsSound == Spec => []ClientSound
<1>1. IInv => ClientSound
  BY DEF IInv, ClientSound, Resolve, Extended
<1>. QED BY <1>1, Invariance, PTL

\* An index stands for the same host for ever: only host_table_add changes
\* names, and only by a new last entry.
THEOREM IndicesStable == Spec => IndexStable
<1>1. IInv /\ [Next]_vars =>
        [\A i \in DOMAIN Current :
            i \in DOMAIN Current' /\ Current'[i].name = Current[i].name]_vars
  BY StepExtended DEF Extended
<1>. QED BY <1>1, Invariance, PTL DEF Spec, IndexStable
-----------------------------------------------------------------------------
(***************************************************************************)
(* The refinement: the lists and the table implement a relation between    *)
(* strings and hosts, to which ADD_SITE adds one pair and from which       *)
(* DELETE_SITE takes one.                                                  *)
(***************************************************************************)

\* The same hosts behind the same indices, in the same lists: the same relation.
LEMMA SameRel ==
    ASSUME IInv, IInv', Extended(Current, Current'),
           \A s \in Starts : \A x : InList(lists'[s], x) <=> InList(lists[s], x)
    PROVE  Rel' = Rel
<1>1. \A s \in Starts : \A x : InList(lists[s], x) => x \in DOMAIN Current
  BY DEF IInv, IndicesKnown, InList
<1>2. \A i \in DOMAIN Current : i \in DOMAIN Current' /\ Current'[i].name = Current[i].name
  BY DEF Extended
<1>3. Rel = {r \in Starts \X Names :
               \E i \in DOMAIN Current : InList(lists[r[1]], i) /\ Current[i].name = r[2]}
  BY DEF Rel, InList
<1>4. Rel' = {r \in Starts \X Names :
               \E i \in DOMAIN Current' : InList(lists'[r[1]], i) /\ Current'[i].name = r[2]}
  BY DEF Rel, InList
<1>. QED BY <1>1, <1>2, <1>3, <1>4

\* ADD_SITE adds the pair of the string and the index's host.
LEMMA AddRel ==
    ASSUME IInv, NEW s \in Starts, NEW i \in Indices, AddToList(s, i)
    PROVE  table[i].name \in Names /\ Rel' = Rel \cup {<<s, table[i].name>>}
<1>1. /\ i \in DOMAIN table /\ Current = table /\ Current' = table
      /\ lists' = [lists EXCEPT ![s] = AddSite(lists[s], i, prio)]
  BY DEF AddToList, session, Current
<1>2. lists \in [Starts -> Seq(Indices)] /\ table \in Seq(Hosts)
  BY DEF IInv, TypeOK, TableOK
<1>3. \A x : InList(lists'[s], x) <=> InList(lists[s], x) \/ x = i
  BY <1>1, <1>2, AddSiteProperties
<1>4. \A t \in Starts : t # s => lists'[t] = lists[t]
  BY <1>1, <1>2
<1>5. table[i].name \in Names
  <2>1. table[i] \in Hosts
    BY <1>1, <1>2
  <2>. QED BY <2>1 DEF Hosts
<1>6. Rel = {r \in Starts \X Names :
               \E x \in DOMAIN table : InList(lists[r[1]], x) /\ table[x].name = r[2]}
  BY <1>1 DEF Rel, InList
<1>7. Rel' = {r \in Starts \X Names :
               \E x \in DOMAIN table : InList(lists'[r[1]], x) /\ table[x].name = r[2]}
  BY <1>1 DEF Rel, InList
<1>. QED BY <1>1, <1>3, <1>4, <1>5, <1>6, <1>7

\* DELETE_SITE removes it, and no other host has the same name.
LEMMA DeleteRel ==
    ASSUME IInv, NEW s \in Starts, NEW i \in Indices, DeleteFromList(s, i)
    PROVE  table[i].name \in Names /\ Rel' = Rel \ {<<s, table[i].name>>}
<1>1. /\ i \in DOMAIN table /\ Current = table /\ Current' = table
      /\ lists' = [lists EXCEPT ![s] = DeleteSite(lists[s], i)]
  BY DEF DeleteFromList, session, Current
<1>2. /\ lists \in [Starts -> Seq(Indices)] /\ table \in Seq(Hosts)
      /\ Distinct(lists[s])
  BY DEF IInv, TypeOK, TableOK, NoDuplicates
<1>3. \A x : InList(lists'[s], x) <=> InList(lists[s], x) /\ x # i
  BY <1>1, <1>2, DeleteSiteProperties
<1>4. \A t \in Starts : t # s => lists'[t] = lists[t]
  BY <1>1, <1>2
<1>5. table[i].name \in Names
  <2>1. table[i] \in Hosts
    BY <1>1, <1>2
  <2>. QED BY <2>1 DEF Hosts
<1>6. \A x \in DOMAIN table : x # i => table[x].name # table[i].name
  BY <1>1 DEF IInv, HostsUnique
<1>7. Rel = {r \in Starts \X Names :
               \E x \in DOMAIN table : InList(lists[r[1]], x) /\ table[x].name = r[2]}
  BY <1>1 DEF Rel, InList
<1>8. Rel' = {r \in Starts \X Names :
               \E x \in DOMAIN table : InList(lists'[r[1]], x) /\ table[x].name = r[2]}
  BY <1>1 DEF Rel, InList
<1>. QED BY <1>1, <1>3, <1>4, <1>5, <1>6, <1>7, <1>8

\* update_start_dbs adds or removes the pair it is asked to, whatever the lists
\* and the table hold.
THEOREM UpdatesAreExact == Spec => UpdatesExact
<1>1. IInv /\ [Next]_vars =>
        [\A s \in Starts, i \in Indices :
            /\ AddToList(s, i) => Rel' = Rel \cup {<<s, table[i].name>>}
            /\ DeleteFromList(s, i) => Rel' = Rel \ {<<s, table[i].name>>}]_vars
  BY AddRel, DeleteRel
<1>. QED BY <1>1, Invariance, PTL DEF Spec, UpdatesExact

\* No other step changes the relation.
LEMMA OtherSteps ==
    ASSUME IInv, IInv', Next,
           \/ UNCHANGED lists
           \/ Reorder
    PROVE  Rel' = Rel
<1>1. \A s \in Starts : \A x : InList(lists'[s], x) <=> InList(lists[s], x)
  <2>1. CASE UNCHANGED lists
    BY <2>1
  <2>2. CASE Reorder
    <3>1. SUFFICES ASSUME NEW s \in Starts
                   PROVE  \A x : InList(lists'[s], x) <=> InList(lists[s], x)
      OBVIOUS
    <3>2. lists'[s] \in Sortings(lists[s], Priorities(tableFile, order))
      BY <2>2 DEF Reorder, Resorted
    <3>3. lists[s] \in Seq(Indices)
      BY DEF IInv, TypeOK
    <3>. QED BY <3>2, <3>3, SortingsProperties
  <2>. QED BY <2>1, <2>2
<1>. QED BY <1>1, StepExtended, SameRel

\* The start database implements the relation between strings and hosts.
THEOREM Refinement == Spec => IndexSpec
<1>1. Init => Index!Init
  <2>. SUFFICES ASSUME Init PROVE Rel = {}
    BY DEF Index!Init
  <2>1. \A s \in Starts : DOMAIN lists[s] = {}
    BY DEF Init
  <2>. QED BY <2>1 DEF Rel
<1>2. IInv /\ IInv' /\ [Next]_vars => [Index!Next]_Rel
  <2>. SUFFICES ASSUME IInv, IInv', [Next]_vars
                PROVE  Index!Next \/ Rel' = Rel
    OBVIOUS
  <2>1. ASSUME NEW s \in Starts, NEW i \in Indices, AddToList(s, i)
        PROVE  Index!Next
    BY <2>1, AddRel DEF Index!Next, Index!Add
  <2>2. ASSUME NEW s \in Starts, NEW i \in Indices, DeleteFromList(s, i)
        PROVE  Index!Next
    BY <2>2, DeleteRel DEF Index!Next, Index!Delete
  <2>3. CASE Next /\ (UNCHANGED lists \/ Reorder)
    BY <2>3, OtherSteps
  <2>4. CASE UNCHANGED vars
    BY <2>4 DEF vars, Rel, Current
  <2>5. CASE Next
    <3>1. \/ UNCHANGED lists \/ Reorder
          \/ \E s \in Starts, i \in Indices : AddToList(s, i)
          \/ \E s \in Starts, i \in Indices : DeleteFromList(s, i)
      BY <2>5 DEF Next, EditOrder, OpenStartDbs, AddHost, ReplaceAddr, TruncateTable,
                  WriteTable, ClientOpen
    <3>. QED BY <2>1, <2>2, <2>3, <2>5, <3>1
  <2>. QED BY <2>4, <2>5
<1>. QED BY <1>1, <1>2, Invariance, PTL DEF Spec, IndexSpec, Index!Spec
=============================================================================
