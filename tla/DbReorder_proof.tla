--------------------------- MODULE DbReorder_proof ---------------------------
(***************************************************************************)
(* db_reorder, for any number of hosts, strings, updates, kills and runs,   *)
(* and any edits of domain.order.                                          *)
(* The types hold for any list of databases; what the tool promises is      *)
(* proved for one database, since it is not true of several.               *)
(***************************************************************************)
EXTENDS DbReorder, StartLists_proof

ToolRec == [pc : {"idle", "check", "open", "sort", "write", "close", "rewrite", "rename"},
            k : DOMAIN Databases, old : Catalogs \cup {None}, order : Orders,
            table : Seq(Names), keys : SUBSET Starts, left : SUBSET Starts,
            done : SUBSET Catalogs]
UpdateRec == [catalog : Catalogs \cup {None}, table : Seq(Names), order : Orders]
AllLists == [Catalogs -> [Starts -> Seq(Nat)]]

\* No list names a host twice, neither the lists nor their copies.
NoRepeats ==
    \A c \in Catalogs, x \in Starts : Distinct(lists[c][x]) /\ Distinct(temp[c][x])

\* The tool has opened the databases of a catalog.
Copying == tool.pc \in {"sort", "write", "close", "rewrite", "rename"}

\* What the types need to be inductive.
TypeInv ==
    /\ TypeOK
    /\ NoRepeats
    /\ Copying => tool.old \in Catalogs
-----------------------------------------------------------------------------
\* The priority of a host-table index is that of its name.
LEMMA PrioValue ==
    ASSUME NEW names \in Seq(Names), NEW ord \in Orders
    PROVE  /\ Prio(names, ord) \in [DOMAIN names -> Int]
           /\ \A i \in DOMAIN names : Prio(names, ord)[i] = ord[names[i]]
<1>1. DOMAIN Entries(names) = DOMAIN names
  BY DEF Entries
<1>2. \A i \in DOMAIN names : Entries(names)[i].name = names[i]
  BY DEF Entries, Host
<1>3. \A i \in DOMAIN names : ord[names[i]] \in Int
  BY OrdersAssumption
<1>. QED BY <1>1, <1>2, <1>3 DEF Prio, Priorities

\* A host that was looked up, or entered, has an index.
LEMMA PositionType ==
    ASSUME NEW names \in Seq(Names), NEW n \in Names
    PROVE  /\ Position(names, n) # NotFound => Position(names, n) \in DOMAIN names
           /\ Position(Append(names, n), n) # NotFound
<1>1. \A seq \in Seq(Names) : Entries(seq) \in Seq([addr : Names, name : Names])
                             /\ DOMAIN Entries(seq) = DOMAIN seq
  <2>1. ASSUME NEW seq \in Seq(Names)
        PROVE  Entries(seq) \in Seq([addr : Names, name : Names]) /\ DOMAIN Entries(seq) = DOMAIN seq
    <3>1. DOMAIN seq = 1 .. Len(seq) /\ Len(seq) \in Nat
      OBVIOUS
    <3>2. \A i \in 1 .. Len(seq) : Host(seq[i], seq[i]) \in [addr : Names, name : Names]
      BY DEF Host
    <3>3. Entries(seq) = [i \in 1 .. Len(seq) |-> Host(seq[i], seq[i])]
      BY <3>1 DEF Entries
    <3>. QED BY <3>1, <3>2, <3>3
  <2>. QED BY <2>1
<1>2. Position(names, n) # NotFound => Position(names, n) \in DOMAIN names
  BY <1>1, FindProperties DEF Position
<1>3. Append(names, n) \in Seq(Names)
  OBVIOUS
<1>4. Len(names) + 1 \in Matches(Entries(Append(names, n)), n, n)
  BY DEF Matches, Entries, Host
<1>5. Position(Append(names, n), n) # NotFound
  BY <1>1, <1>3, <1>4, FindProperties DEF Position
<1>. QED BY <1>2, <1>5

\* Going on to the next catalog, or to the end.
LEMMA AdvanceType ==
    ASSUME NEW t \in ToolRec
    PROVE  Advance(t) \in ToolRec /\ Advance(t).pc \in {"idle", "check"}
<1>1. Databases \in Seq(Catalogs) /\ Len(Databases) \in Nat \ {0}
  BY DatabasesAssumption
<1>0. t.order \in Orders
  BY DEF ToolRec
<1>2. Stopped(t.order) \in ToolRec /\ Stopped(t.order).pc = "idle"
  BY <1>0, <1>1 DEF Stopped, ToolRec
<1>3. t.k \in 1 .. Len(Databases) /\ t.done \in SUBSET Catalogs
  BY <1>1 DEF ToolRec
<1>4. CASE t.k = Len(Databases)
  BY <1>0, <1>2, <1>3, <1>4 DEF Advance, ToolRec, Stopped
<1>5. CASE t.k # Len(Databases)
  <2>1. t.k + 1 \in DOMAIN Databases
    BY <1>1, <1>3, <1>5
  <2>. QED BY <1>5, <2>1 DEF Advance, ToolRec
<1>. QED BY <1>4, <1>5

\* At first there are lists without repetitions, and no copies.
LEMMA InitType == Init => TypeInv
<1>. SUFFICES ASSUME Init PROVE TypeInv
  OBVIOUS
<1>1. Databases \in Seq(Catalogs) /\ Len(Databases) \in Nat \ {0}
  BY DatabasesAssumption
<1>2. order \in Orders /\ tool \in ToolRec /\ tool.pc = "idle"
  BY <1>1 DEF Init, Stopped, ToolRec
<1>3. update \in UpdateRec
  BY <1>2 DEF Init, NoUpdate, UpdateRec
<1>4. temp \in AllLists /\ \A c \in Catalogs, x \in Starts : temp[c][x] = <<>>
  BY DEF Init, Empty, AllLists
<1>5. \A n \in Nat : \A l \in Arrangements(n) : l \in Seq(Nat) /\ Distinct(l)
  BY DEF Arrangements
<1>6. tableFile \in [Catalogs -> Seq(Names)] /\ \A c \in Catalogs : Len(tableFile[c]) \in Nat
  BY TablesAssumption DEF Init
<1>7. PICK all \in [Catalogs -> [Starts -> UNION {Arrangements(Len(tableFile[c])) : c \in Catalogs}]] :
         /\ \A c \in Catalogs, x \in Starts : all[c][x] \in Arrangements(Len(tableFile[c]))
         /\ lists = all
  BY DEF Init
<1>8. lists \in AllLists /\ \A c \in Catalogs, x \in Starts : Distinct(lists[c][x])
  BY <1>5, <1>6, <1>7 DEF AllLists
<1>9. NoRepeats
  BY <1>4, <1>8 DEF NoRepeats, Distinct
<1>. QED BY <1>2, <1>3, <1>4, <1>6, <1>8, <1>9
     DEF Init, TypeInv, TypeOK, ToolRec, UpdateRec, AllLists, Copying

\* TypeOK with names for the sets of records.
LEMMA TypeParts ==
    TypeOK <=> /\ lists \in AllLists
               /\ temp \in AllLists
               /\ tableFile \in [Catalogs -> Seq(Names)]
               /\ order \in Orders
               /\ lock \subseteq Catalogs
               /\ tool \in ToolRec
               /\ update \in UpdateRec
               /\ disturbed \in BOOLEAN /\ mixed \in BOOLEAN
               /\ lost \subseteq Catalogs
BY DEF TypeOK, AllLists, ToolRec, UpdateRec

\* The steps of db_reorder.
LEMMA ToolType ==
    ASSUME TypeInv,
           \/ Run \/ CheckLock \/ Open \/ Truncate \/ WriteTable \/ Rename \/ Crash
           \/ \E x \in Starts : SortKey(x) \/ KeyExists(x)
    PROVE  TypeInv'
<1>0. /\ lists \in AllLists /\ temp \in AllLists /\ tableFile \in [Catalogs -> Seq(Names)]
      /\ lock \subseteq Catalogs /\ tool \in ToolRec /\ update \in UpdateRec /\ order \in Orders
      /\ disturbed \in BOOLEAN /\ mixed \in BOOLEAN /\ lost \subseteq Catalogs
      /\ NoRepeats /\ (Copying => tool.old \in Catalogs)
  BY TypeParts DEF TypeInv
<1>1. /\ Cat \in Catalogs /\ tableFile[Cat] \in Seq(Names) /\ OldFile \in Catalogs
      /\ tool.old \in Catalogs \cup {None} /\ 1 \in DOMAIN Databases
      /\ tool.order \in Orders
  BY <1>0, DatabasesAssumption DEF Cat, OldFile, ToolRec
<1>2. ASSUME tool' \in ToolRec, Copying' => tool'.old \in Catalogs,
             lists' \in AllLists, temp' \in AllLists, tableFile' \in [Catalogs -> Seq(Names)],
             NoRepeats', UNCHANGED <<order, lock, update, disturbed>>, mixed' \in BOOLEAN,
             lost' \subseteq Catalogs
      PROVE  TypeInv'
  BY <1>0, <1>2 DEF TypeInv, TypeOK, ToolRec, UpdateRec, AllLists
<1>3. UNCHANGED <<lists, temp>> => NoRepeats'
  BY <1>0 DEF NoRepeats
<1>4. \A ord \in Orders : Stopped(ord) \in ToolRec /\ Stopped(ord).pc = "idle"
  BY <1>1 DEF Stopped, ToolRec
<1>. USE DEF Copying, history
<1>5. CASE Run
  <2>1. tool' \in ToolRec /\ tool'.pc = "check"
    BY <1>0, <1>4, <1>5 DEF Run, ToolRec
  <2>2. mixed' \in BOOLEAN
    BY <1>5 DEF Run
  <2>. QED BY <1>0, <1>2, <1>3, <1>5, <2>1, <2>2 DEF Run
<1>6. CASE CheckLock
  <2>1. tool' \in ToolRec /\ tool'.pc \in {"idle", "check", "open"}
    <3>1. CASE Cat \in lock
      BY <1>0, <1>6, <3>1, AdvanceType DEF CheckLock
    <3>2. CASE Cat \notin lock
      BY <1>0, <1>6, <3>2 DEF CheckLock, ToolRec
    <3>. QED BY <3>1, <3>2
  <2>. QED BY <1>0, <1>2, <1>3, <1>6, <2>1 DEF CheckLock
<1>7. CASE Open
  <2>. DEFINE ks == {x \in Starts : lists[OldFile][x] # <<>>}
              ls == {x \in Starts : temp[Cat][x] # <<>>}
  <2>1. tool' = [tool EXCEPT !.pc = "sort", !.old = OldFile, !.table = tableFile[Cat],
                             !.keys = ks, !.left = ls]
    BY <1>7 DEF Open
  <2>2. ks \in SUBSET Starts /\ ls \in SUBSET Starts
    OBVIOUS
  <2>. HIDE DEF ks, ls
  <2>3. tool' \in ToolRec /\ tool'.old \in Catalogs
    BY <1>0, <1>1, <2>1, <2>2 DEF ToolRec
  <2>. QED BY <1>0, <1>2, <1>3, <1>7, <2>3 DEF Open
<1>8. CASE Truncate \/ WriteTable
  <2>1. tool' \in ToolRec /\ tool'.old = tool.old /\ Copying /\ tool.table \in Seq(Names)
    BY <1>0, <1>8 DEF Truncate, WriteTable, ToolRec
  <2>2. tableFile' \in [Catalogs -> Seq(Names)]
    <3>1. <<>> \in Seq(Names)
      OBVIOUS
    <3>. QED BY <1>0, <1>8, <2>1, <3>1 DEF Truncate, WriteTable
  <2>. QED BY <1>0, <1>2, <1>3, <1>8, <2>1, <2>2 DEF Truncate, WriteTable
<1>9. CASE Rename
  <2>1. tool' \in ToolRec /\ tool'.pc \in {"idle", "check"}
    <3>. DEFINE t == [tool EXCEPT !.done = @ \cup {Cat}]
    <3>1. t \in ToolRec
      BY <1>0, <1>1 DEF ToolRec
    <3>2. tool' = Advance(t)
      BY <1>9 DEF Rename
    <3>. QED BY <3>1, <3>2, AdvanceType
  <2>2. tool.old \in Catalogs
    BY <1>0, <1>9 DEF Rename
  <2>3. /\ lists' = [lists EXCEPT ![tool.old] = temp[Cat]]
        /\ temp' = [temp EXCEPT ![Cat] = Empty]
    BY <1>9 DEF Rename
  <2>4. Empty \in [Starts -> Seq(Nat)] /\ \A x \in Starts : Empty[x] = <<>>
    BY DEF Empty
  <2>5. lists' \in AllLists /\ temp' \in AllLists
    BY <1>0, <1>1, <2>2, <2>3, <2>4 DEF AllLists
  <2>6. NoRepeats'
    <3>1. \A c \in Catalogs, x \in Starts : lists'[c][x] \in {lists[c][x], temp[Cat][x]}
      BY <1>0, <2>3 DEF AllLists
    <3>2. \A c \in Catalogs, x \in Starts : temp'[c][x] \in {temp[c][x], <<>>}
      BY <1>0, <2>3, <2>4 DEF AllLists
    <3>3. Distinct(<<>>)
      BY DEF Distinct
    <3>. QED BY <1>0, <1>1, <3>1, <3>2, <3>3, Zenon DEF NoRepeats
  <2>. QED BY <1>0, <1>2, <1>9, <2>1, <2>5, <2>6 DEF Rename
<1>10. CASE Crash
  <2>1. PICK kept \in SUBSET Starts :
           temp' = [temp EXCEPT ![Cat] = [x \in Starts |-> IF x \in kept THEN @[x] ELSE <<>>]]
    BY <1>10 DEF Crash
  <2>2. temp' \in AllLists
    BY <1>0, <1>1, <2>1 DEF AllLists
  <2>3. \A c \in Catalogs, x \in Starts : temp'[c][x] \in {temp[c][x], <<>>}
    BY <1>0, <1>1, <2>1 DEF AllLists
  <2>4. NoRepeats'
    <3>1. Distinct(<<>>) /\ UNCHANGED lists
      BY <1>10 DEF Distinct, Crash
    <3>. QED BY <1>0, <2>3, <3>1, Zenon DEF NoRepeats
  <2>5. tool' \in ToolRec /\ tool'.pc = "idle"
    BY <1>1, <1>4, <1>10 DEF Crash
  <2>6. lost' \subseteq Catalogs /\ UNCHANGED <<lists, tableFile, order, lock, update, disturbed, mixed>>
    BY <1>0, <1>1, <1>10 DEF Crash
  <2>. QED BY <1>0, <1>2, <2>2, <2>4, <2>5, <2>6
<1>11. ASSUME NEW x \in Starts, SortKey(x) PROVE TypeInv'
  <2>. DEFINE list == lists[tool.old][x]
  <2>1. PICK prio : \E new \in Sortings(list, prio) : temp' = [temp EXCEPT ![Cat][x] = new]
    BY <1>11 DEF SortKey
  <2>2. PICK new \in Sortings(list, prio) : temp' = [temp EXCEPT ![Cat][x] = new]
    BY <2>1
  <2>3. list \in Seq(Nat) /\ Distinct(list)
    BY <1>0, <1>11 DEF SortKey, AllLists, NoRepeats
  <2>. HIDE DEF list
  <2>4. new \in Seq(Nat) /\ Distinct(new)
    BY <2>2, <2>3, SortingsProperties
  <2>5. temp' \in AllLists
    BY <1>0, <1>1, <2>2, <2>4 DEF AllLists
  <2>6. \A c \in Catalogs, y \in Starts : temp'[c][y] \in {temp[c][y], new}
    BY <1>0, <1>1, <2>2 DEF AllLists
  <2>7. NoRepeats' /\ UNCHANGED lists
    <3>1. UNCHANGED lists
      BY <1>11 DEF SortKey
    <3>. QED BY <1>0, <2>4, <2>6, <3>1, Zenon DEF NoRepeats
  <2>8. tool' \in ToolRec /\ tool'.old = tool.old /\ tool.pc = "sort"
    BY <1>0, <1>11 DEF SortKey, ToolRec
  <2>. QED BY <1>0, <1>2, <1>11, <2>5, <2>7, <2>8 DEF SortKey
<1>12. ASSUME NEW x \in Starts, KeyExists(x) PROVE TypeInv'
  <2>1. tool' \in ToolRec /\ tool'.old = tool.old /\ tool.pc = "sort"
    BY <1>0, <1>12 DEF KeyExists, ToolRec
  <2>. QED BY <1>0, <1>2, <1>3, <1>12, <2>1 DEF KeyExists
<1>. QED BY <1>5, <1>6, <1>7, <1>8, <1>9, <1>10, <1>11, <1>12

\* The steps of an update.
LEMMA UpdateType ==
    ASSUME TypeInv,
           \/ \E c \in Catalogs : BeginUpdate(c)
           \/ \E n \in Names, x \in Starts : InsertHost(n, x) \/ DeleteHost(n, x)
           \/ EndUpdate
    PROVE  TypeInv'
<1>0. /\ lists \in AllLists /\ temp \in AllLists /\ tableFile \in [Catalogs -> Seq(Names)]
      /\ lock \subseteq Catalogs /\ tool \in ToolRec /\ update \in UpdateRec /\ order \in Orders
      /\ disturbed \in BOOLEAN /\ mixed \in BOOLEAN /\ lost \subseteq Catalogs
      /\ NoRepeats /\ (Copying => tool.old \in Catalogs)
  BY TypeParts DEF TypeInv
<1>2. ASSUME update' \in UpdateRec,
             lists' \in AllLists, tableFile' \in [Catalogs -> Seq(Names)], lock' \subseteq Catalogs,
             NoRepeats', UNCHANGED <<temp, tool, order, lost>>,
             disturbed' \in BOOLEAN, mixed' \in BOOLEAN
      PROVE  TypeInv'
  BY <1>0, <1>2 DEF TypeInv, TypeOK, ToolRec, UpdateRec, AllLists, Copying
<1>. USE DEF history, Updating
<1>3. ASSUME NEW c \in Catalogs, BeginUpdate(c) PROVE TypeInv'
  <2>1. update' \in UpdateRec
    BY <1>0, <1>3 DEF BeginUpdate, UpdateRec
  <2>2. NoRepeats'
    BY <1>0, <1>3 DEF BeginUpdate, NoRepeats
  <2>. QED BY <1>0, <1>2, <1>3, <2>1, <2>2 DEF BeginUpdate
<1>4. ASSUME NEW n \in Names, NEW x \in Starts, InsertHost(n, x) PROVE TypeInv'
  <2>. DEFINE table == IF Position(update.table, n) = NotFound
                         THEN Append(update.table, n) ELSE update.table
              i == Position(table, n)
              c == update.catalog
              list == lists[c][x]
  <2>1. c \in Catalogs /\ update.table \in Seq(Names)
    BY <1>0, <1>4 DEF InsertHost, UpdateRec
  <2>2. table \in Seq(Names)
    BY <2>1
  <2>3. i \in Nat
    <3>. HIDE DEF table
    <3>. QED BY <2>2, PositionType DEF NotFound
  <2>4. /\ update' = [update EXCEPT !.table = table]
        /\ \E prio : lists' = [lists EXCEPT ![c][x] = AddSite(list, i, prio)]
    BY <1>4 DEF InsertHost
  <2>9. PICK prio : lists' = [lists EXCEPT ![c][x] = AddSite(list, i, prio)]
    BY <2>4
  <2>. DEFINE new == AddSite(list, i, prio)
  <2>. HIDE DEF table, i
  <2>5. new \in Seq(Nat) /\ Distinct(new)
    <3>1. list \in Seq(Nat) /\ Distinct(list)
      BY <1>0, <2>1 DEF AllLists, NoRepeats
    <3>. HIDE DEF list
    <3>. QED BY <2>3, <3>1, AddSiteProperties
  <2>. HIDE DEF new
  <2>6. lists' \in AllLists /\ \A d \in Catalogs, y \in Starts : lists'[d][y] \in {lists[d][y], new}
    BY <1>0, <2>1, <2>5, <2>9 DEF AllLists, new
  <2>7. NoRepeats'
    <3>1. UNCHANGED temp
      BY <1>4 DEF InsertHost
    <3>. QED BY <1>0, <2>5, <2>6, <3>1, Zenon DEF NoRepeats
  <2>8. update' \in UpdateRec
    BY <1>0, <2>1, <2>2, <2>4 DEF UpdateRec
  <2>. QED BY <1>0, <1>2, <1>4, <2>6, <2>7, <2>8 DEF InsertHost
<1>5. ASSUME NEW n \in Names, NEW x \in Starts, DeleteHost(n, x) PROVE TypeInv'
  <2>. DEFINE i == Position(update.table, n)
              c == update.catalog
              new == DeleteSite(lists[c][x], i)
  <2>1. c \in Catalogs /\ update.table \in Seq(Names)
    BY <1>0, <1>5 DEF DeleteHost, UpdateRec
  <2>2. i \in Nat
    BY <2>1, PositionType DEF NotFound
  <2>3. lists' = [lists EXCEPT ![c][x] = new]
    BY <1>5 DEF DeleteHost
  <2>. HIDE DEF i
  <2>4. new \in Seq(Nat) /\ Distinct(new)
    BY <1>0, <2>1, <2>2, DeleteSiteProperties DEF AllLists, NoRepeats
  <2>. HIDE DEF new
  <2>5. lists' \in AllLists /\ \A d \in Catalogs, y \in Starts : lists'[d][y] \in {lists[d][y], new}
    BY <1>0, <2>1, <2>3, <2>4 DEF AllLists
  <2>6. NoRepeats'
    <3>1. UNCHANGED temp
      BY <1>5 DEF DeleteHost
    <3>. QED BY <1>0, <2>4, <2>5, <3>1, Zenon DEF NoRepeats
  <2>. QED BY <1>0, <1>2, <1>5, <2>5, <2>6 DEF DeleteHost
<1>6. CASE EndUpdate
  <2>1. update.table \in Seq(Names) /\ NoUpdate \in UpdateRec /\ update.order \in Orders
    BY <1>0 DEF UpdateRec, NoUpdate
  <2>2. tableFile' \in [Catalogs -> Seq(Names)]
    BY <1>0, <1>6, <2>1 DEF EndUpdate
  <2>3. NoRepeats'
    BY <1>0, <1>6 DEF EndUpdate, NoRepeats
  <2>. QED BY <1>0, <1>2, <1>6, <2>1, <2>2, <2>3 DEF EndUpdate
<1>. QED BY <1>3, <1>4, <1>5, <1>6

\* Every step keeps the types.
LEMMA NextType == TypeInv /\ [Next]_vars => TypeInv'
<1>1. CASE UNCHANGED vars
  BY <1>1 DEF vars, history, TypeInv, TypeOK, NoRepeats, Copying
<1>2. CASE EditOrder
  <2>1. order' \in Orders
    BY <1>2 DEF EditOrder
  <2>. QED BY <1>2, <2>1 DEF EditOrder, history, TypeInv, TypeOK, NoRepeats, Copying
<1>. QED BY <1>1, <1>2, ToolType, UpdateType DEF Next

\* The types, with what they rest on, hold always.
THEOREM TypeInvariance == Spec => []TypeInv
BY InitType, NextType, PTL DEF Spec

\* Whatever is killed, and however updates come between, lists stay lists of
\* host-table indices and the tool works on the catalogs it was given.
THEOREM ReorderTypeCorrect == Spec => []TypeOK
<1>1. TypeInv => TypeOK
  BY DEF TypeInv
<1>. QED BY <1>1, TypeInvariance, PTL
-----------------------------------------------------------------------------
(***************************************************************************)
(* One database.                                                           *)
(***************************************************************************)
\* The one catalog, and the host table that the lists of a catalog go with.
db == Databases[1]
Writing == tool.pc \in {"write", "rewrite"}
TableOf(c) == IF update.catalog = c THEN update.table
              ELSE IF c = db /\ Writing THEN tool.table ELSE tableFile[c]

Busy == tool.pc \notin {"idle", "check"}

\* An update keeps its catalog locked; the tool only ever works on the one.
OneCatalog ==
    /\ Updating => update.catalog \in lock
    /\ tool.old \in {None, db}
    /\ tool.done \subseteq {db}

\* Undisturbed, the tool and an update are never at the same catalog, and an update
\* finds no copies lying around.
Apart ==
    /\ Busy => update.catalog # db
    /\ update.catalog = db => temp[db] = Empty
    /\ tool.pc \in {"sort", "close"} => tool.table = tableFile[db]

\* A list only has indices of its table, a copy only those of its list.
InRange ==
    /\ \A c \in Catalogs \ lost, x \in Starts :
          \A k \in DOMAIN lists[c][x] : lists[c][x][k] \in DOMAIN TableOf(c)
    /\ \A x \in Starts : \A k \in DOMAIN temp[db][x] : InList(lists[db][x], temp[db][x][k])

\* The copies are sorted, and so are the lists they have replaced, and an
\* update goes on sorting them in the same order.
InOrder ==
    ~ mixed /\ db \notin lost =>
        /\ \A x \in Starts : Ascending(temp[db][x], Prio(TableOf(db), tool.order))
        /\ db \in tool.done =>
              /\ \A x \in Starts : Ascending(lists[db][x], Prio(TableOf(db), tool.order))
              /\ update.catalog = db => update.order = tool.order

\* How far a copying that found nothing has come.
Copied ==
    Copying /\ tool.left = {} =>
        \A x \in Starts :
            IF tool.pc = "sort" /\ x \in tool.keys THEN temp[db][x] = <<>>
            ELSE SameEntries(temp[db][x], lists[db][x])

OneInv ==
    /\ OneCatalog
    /\ ~ disturbed => Apart /\ InRange /\ InOrder /\ Copied

\* With one database the tool is always at it.
LEMMA OneDatabase ==
    ASSUME Len(Databases) = 1, TypeInv
    PROVE  /\ db \in Catalogs /\ Cat = db /\ DOMAIN Databases = {1}
           /\ \A t \in ToolRec : Advance(t) = [Stopped(t.order) EXCEPT !.done = t.done]
<1>1. Databases \in Seq(Catalogs) /\ DOMAIN Databases = {1}
  BY DatabasesAssumption
<1>2. tool.k = 1 /\ \A t \in ToolRec : t.k = 1
  BY <1>1 DEF TypeInv, TypeOK, ToolRec
<1>3. \A t \in ToolRec : Advance(t) = [Stopped(t.order) EXCEPT !.done = t.done]
  BY <1>2 DEF Advance
<1>4. Databases[1] \in Catalogs
  BY <1>1
<1>. QED BY <1>1, <1>2, <1>3, <1>4 DEF db, Cat

\* The parts of the types, for the catalog at hand.
LEMMA OneTypes ==
    ASSUME Len(Databases) = 1, TypeInv
    PROVE  /\ lists \in AllLists /\ temp \in AllLists /\ tableFile \in [Catalogs -> Seq(Names)]
           /\ tool \in ToolRec /\ update \in UpdateRec
           /\ \A c \in Catalogs : TableOf(c) \in Seq(Names)
           /\ \A c \in Catalogs, x \in Starts :
                 Distinct(lists[c][x]) /\ lists[c][x] \in Seq(Nat) /\ temp[c][x] \in Seq(Nat)
           /\ Updating <=> update.catalog \in Catalogs
           /\ tool.order \in Orders /\ update.order \in Orders
<1>1. /\ lists \in AllLists /\ temp \in AllLists /\ tableFile \in [Catalogs -> Seq(Names)]
      /\ tool \in ToolRec /\ update \in UpdateRec /\ NoRepeats
  BY TypeParts DEF TypeInv
<1>2. \A c \in Catalogs : TableOf(c) \in Seq(Names)
  BY <1>1 DEF TableOf, UpdateRec, ToolRec
<1>3. \A c \in Catalogs, x \in Starts :
         Distinct(lists[c][x]) /\ lists[c][x] \in Seq(Nat) /\ temp[c][x] \in Seq(Nat)
  BY <1>1 DEF NoRepeats, AllLists
<1>4. Updating <=> update.catalog \in Catalogs
  BY <1>1, NoneAssumption DEF Updating, UpdateRec
<1>. QED BY <1>1, <1>2, <1>3, <1>4 DEF ToolRec, UpdateRec

\* The table that the one catalog's lists go with stays as it is.
LEMMA FrameOne ==
    ASSUME OneInv, ~ disturbed,
           UNCHANGED <<lists, temp, update, lock, mixed, lost, tool.order>>,
           \A c \in Catalogs : TableOf(c)' = TableOf(c), db \in Catalogs,
           tool'.done \subseteq tool.done
    PROVE  InRange' /\ InOrder'
BY DEF OneInv, InRange, InOrder

\* db_reorder begins.
LEMMA RunOne ==
    ASSUME Len(Databases) = 1, TypeInv, OneInv, Run
    PROVE  OneInv'
<1>0. db \in Catalogs
  BY OneDatabase
<1>1. OneCatalog /\ (~ disturbed => Apart /\ InRange /\ InOrder /\ Copied)
  BY DEF OneInv
<1>2. /\ tool.pc = "idle" /\ tool' = [Stopped(order) EXCEPT !.pc = "check"]
      /\ UNCHANGED <<lists, temp, tableFile, lock, update, disturbed, lost>>
      /\ mixed' = (Leftovers /\ (mixed \/ order # tool.order))
  BY DEF Run
<1>3. tool'.pc = "check" /\ tool'.old = None /\ tool'.done = {} /\ tool'.order = order
  BY <1>2 DEF Stopped
<1>4. OneCatalog'
  BY <1>1, <1>2, <1>3 DEF OneCatalog, Updating
<1>5. \A c \in Catalogs : TableOf(c)' = TableOf(c)
  BY <1>2, <1>3 DEF TableOf, Writing
<1>6. ASSUME ~ disturbed PROVE Apart' /\ Copied'
  BY <1>1, <1>2, <1>3, <1>6 DEF Apart, Busy, Copied, Copying
<1>7. ASSUME ~ disturbed PROVE InRange'
  BY <1>0, <1>1, <1>2, <1>5, <1>7 DEF InRange
<1>8. ASSUME ~ disturbed, ~ mixed', db \notin lost, NEW x \in Starts
      PROVE  Ascending(temp[db][x], Prio(TableOf(db), order))
  <2>1. CASE Leftovers
    BY <1>1, <1>2, <1>8, <2>1 DEF InOrder
  <2>2. CASE ~ Leftovers
    <3>1. temp[db][x] = <<>>
      BY <1>0, <2>2 DEF Leftovers, Empty
    <3>. QED BY <3>1 DEF Ascending
  <2>. QED BY <2>1, <2>2
<1>9. ASSUME ~ disturbed PROVE InOrder'
  BY <1>0, <1>2, <1>3, <1>5, <1>8, <1>9 DEF InOrder
<1>. QED BY <1>2, <1>4, <1>6, <1>7, <1>9 DEF OneInv

\* db_reorder going from place to place.
LEMMA ToolOneMoves ==
    ASSUME Len(Databases) = 1, TypeInv, OneInv,
           CheckLock \/ Open \/ Truncate \/ WriteTable \/ \E x \in Starts : KeyExists(x)
    PROVE  OneInv'
<1>0. /\ db \in Catalogs /\ Cat = db /\ tool \in ToolRec
      /\ \A t \in ToolRec : Advance(t) = [Stopped(t.order) EXCEPT !.done = t.done]
  BY OneDatabase, OneTypes
<1>1. UNCHANGED <<lists, temp, update, lock, disturbed, mixed, lost>>
  BY DEF CheckLock, Open, Truncate, WriteTable, KeyExists, history
<1>2. OneCatalog /\ (~ disturbed => Apart /\ InRange /\ InOrder /\ Copied)
  BY DEF OneInv
<1>3. ASSUME ~ Writing, ~ Writing', UNCHANGED tableFile
      PROVE  \A c \in Catalogs : TableOf(c)' = TableOf(c)
  BY <1>1, <1>3 DEF TableOf
<1>4. CASE CheckLock
  <2>1. tool.pc = "check" /\ UNCHANGED tableFile
    BY <1>4 DEF CheckLock
  <2>2. CASE Cat \in lock
    <3>1. /\ tool'.pc = "idle" /\ tool'.old = None /\ tool'.done = tool.done
          /\ tool'.order = tool.order
      BY <1>0, <1>4, <2>2 DEF CheckLock, Stopped
    <3>2. OneCatalog'
      BY <1>1, <1>2, <3>1 DEF OneCatalog, Updating
    <3>3. ~ disturbed => Apart' /\ Copied'
      BY <1>1, <1>2, <2>1, <3>1 DEF Apart, Busy, Copied, Copying
    <3>. QED BY <1>0, <1>1, <1>3, <2>1, <3>1, <3>2, <3>3, FrameOne DEF OneInv, Writing
  <2>3. CASE Cat \notin lock
    <3>1. /\ tool'.pc = "open" /\ tool'.old = tool.old /\ tool'.done = tool.done
          /\ tool'.order = tool.order
      BY <1>0, <1>4, <2>3 DEF CheckLock, ToolRec
    <3>2. OneCatalog' /\ update.catalog # db
      BY <1>0, <1>1, <1>2, <2>3, <3>1, NoneAssumption DEF OneCatalog, Updating
    <3>3. ~ disturbed => Apart' /\ Copied'
      BY <1>1, <1>2, <2>1, <3>1, <3>2 DEF Apart, Busy, Copied, Copying
    <3>. QED BY <1>0, <1>1, <1>3, <2>1, <3>1, <3>2, <3>3, FrameOne DEF OneInv, Writing
  <2>. QED BY <2>2, <2>3
<1>5. CASE Open
  <2>. DEFINE ks == {x \in Starts : lists[OldFile][x] # <<>>}
              ls == {x \in Starts : temp[Cat][x] # <<>>}
  <2>1. /\ tool' = [tool EXCEPT !.pc = "sort", !.old = OldFile, !.table = tableFile[Cat],
                                !.keys = ks, !.left = ls]
        /\ tool.pc = "open" /\ UNCHANGED tableFile
    BY <1>5 DEF Open
  <2>2. OldFile = db
    BY <1>0, <1>2 DEF OldFile, OneCatalog
  <2>. HIDE DEF ks, ls
  <2>3. /\ tool'.pc = "sort" /\ tool'.old = db /\ tool'.table = tableFile[db]
        /\ tool'.keys = ks /\ tool'.left = ls /\ tool'.done = tool.done
        /\ tool'.order = tool.order
    BY <1>0, <2>1, <2>2 DEF ToolRec
  <2>4. OneCatalog'
    BY <1>1, <1>2, <2>3 DEF OneCatalog, Updating
  <2>5. ASSUME ~ disturbed PROVE Apart'
    BY <1>1, <1>2, <2>1, <2>3, <2>5 DEF Apart, Busy
  <2>6. Copied'
    <3>1. \A x \in Starts : x \notin ks => lists[db][x] = <<>>
      BY <2>2 DEF ks
    <3>2. ls = {} => \A x \in Starts : temp[db][x] = <<>>
      BY <1>0 DEF ls
    <3>3. SameEntries(<<>>, <<>>)
      BY DEF SameEntries
    <3>. QED BY <1>1, <2>3, <3>1, <3>2, <3>3 DEF Copied
  <2>. QED BY <1>0, <1>1, <1>3, <2>1, <2>3, <2>4, <2>5, <2>6, FrameOne DEF OneInv, Writing
<1>6. CASE Truncate
  <2>1. /\ tool.pc \in {"sort", "close"} /\ (tool.pc = "sort" => tool.keys = {})
        /\ tool'.pc \in {"write", "rewrite"}
        /\ tool'.old = tool.old /\ tool'.done = tool.done /\ tool'.order = tool.order
        /\ tool'.table = tool.table /\ tool'.left = tool.left
    BY <1>0, <1>6 DEF Truncate, ToolRec
  <2>2. tableFile' = [tableFile EXCEPT ![db] = <<>>] /\ tableFile \in [Catalogs -> Seq(Names)]
    BY <1>0, <1>6, OneTypes DEF Truncate
  <2>3. OneCatalog'
    BY <1>1, <1>2, <2>1 DEF OneCatalog, Updating
  <2>4. ASSUME ~ disturbed PROVE Apart' /\ \A c \in Catalogs : TableOf(c)' = TableOf(c)
    <3>1. tool.table = tableFile[db] /\ \A c \in Catalogs \ {db} : tableFile'[c] = tableFile[c]
      BY <1>0, <1>2, <2>1, <2>2, <2>4 DEF Apart
    <3>2. Apart'
      BY <1>1, <1>2, <2>1, <2>4 DEF Apart, Busy
    <3>. QED BY <1>1, <2>1, <3>1, <3>2 DEF TableOf, Writing
  <2>5. ASSUME ~ disturbed PROVE Copied'
    BY <1>1, <1>2, <2>1, <2>5 DEF Copied, Copying
  <2>. QED BY <1>0, <1>1, <2>1, <2>3, <2>4, <2>5, FrameOne DEF OneInv
<1>7. CASE WriteTable
  <2>1. /\ Writing /\ tool'.pc \in {"close", "rename"}
        /\ tool'.old = tool.old /\ tool'.done = tool.done /\ tool'.order = tool.order
        /\ tool'.table = tool.table /\ tool'.left = tool.left
    BY <1>0, <1>7 DEF WriteTable, ToolRec, Writing
  <2>2. tableFile' = [tableFile EXCEPT ![db] = tool.table] /\ tableFile \in [Catalogs -> Seq(Names)]
    BY <1>0, <1>7, OneTypes DEF WriteTable
  <2>3. OneCatalog'
    BY <1>1, <1>2, <2>1 DEF OneCatalog, Updating
  <2>4. tableFile'[db] = tool.table /\ \A c \in Catalogs \ {db} : tableFile'[c] = tableFile[c]
    BY <1>0, <2>2
  <2>5. \A c \in Catalogs : TableOf(c)' = TableOf(c)
    BY <1>1, <2>1, <2>4 DEF TableOf, Writing
  <2>6. ASSUME ~ disturbed PROVE Apart' /\ Copied'
    BY <1>1, <1>2, <2>1, <2>4, <2>6 DEF Apart, Busy, Copied, Copying, Writing
  <2>. QED BY <1>0, <1>1, <2>1, <2>3, <2>5, <2>6, FrameOne DEF OneInv
<1>8. ASSUME NEW x \in Starts, KeyExists(x) PROVE OneInv'
  <2>1. /\ tool.pc = "sort" /\ x \in tool.keys /\ temp[db][x] # <<>>
        /\ tool'.pc = "sort" /\ tool'.old = tool.old /\ tool'.done = tool.done
        /\ tool'.table = tool.table /\ tool'.left = tool.left /\ tool'.order = tool.order
        /\ UNCHANGED tableFile
    BY <1>0, <1>8 DEF KeyExists, ToolRec
  <2>2. OneCatalog'
    BY <1>1, <1>2, <2>1 DEF OneCatalog, Updating
  <2>3. ~ disturbed => Apart' /\ tool.left # {}
    BY <1>1, <1>2, <2>1 DEF Apart, Busy, Copied, Copying
  <2>4. ~ disturbed => Copied'
    BY <2>1, <2>3 DEF Copied
  <2>. QED BY <1>0, <1>1, <1>3, <2>1, <2>2, <2>3, <2>4, FrameOne DEF OneInv, Writing
<1>. QED BY <1>4, <1>5, <1>6, <1>7, <1>8

\* Two priority tables that agree on a list sort it alike.
LEMMA AscendingAlike ==
    ASSUME NEW list, NEW p, NEW q, Ascending(list, p), \A k \in DOMAIN list : p[list[k]] = q[list[k]]
    PROVE  Ascending(list, q)
BY DEF Ascending

\* What is compared for indices of the table is their priority.
LEMMA ComparedInside ==
    ASSUME NEW names \in Seq(Names), NEW ord \in Orders, NEW S, S \subseteq DOMAIN names,
           NEW prio \in Compared(S, names, ord)
    PROVE  prio \in [S -> Int] /\ \A i \in S : prio[i] = Prio(names, ord)[i]
<1>1. \A i \in S : Prio(names, ord)[i] = ord[names[i]] /\ Prio(names, ord)[i] \in Int
  BY PrioValue
<1>2. S \ DOMAIN names = {}
  OBVIOUS
<1>3. prio = [i \in S |-> ord[names[i]]]
  BY <1>2 DEF Compared
<1>. QED BY <1>1, <1>3

\* One list is sorted and copied.
LEMMA SortOne ==
    ASSUME Len(Databases) = 1, TypeInv, OneInv, NEW x \in Starts, SortKey(x)
    PROVE  OneInv'
<1>. DEFINE list == lists[db][x]
            table == tool.table
<1>0. /\ db \in Catalogs /\ Cat = db /\ tool \in ToolRec
  BY OneDatabase, OneTypes
<1>1. OneCatalog /\ (~ disturbed => Apart /\ InRange /\ InOrder /\ Copied)
  BY DEF OneInv
<1>2. tool.pc = "sort" /\ x \in tool.keys /\ tool.old = db /\ table \in Seq(Names)
  BY <1>0, <1>1, NoneAssumption DEF SortKey, TypeInv, Copying, OneCatalog, ToolRec
<1>3. PICK prio \in Compared(Indices(list), table, tool.order) :
         \E new \in Sortings(list, prio) : temp' = [temp EXCEPT ![db][x] = new]
  BY <1>0, <1>2 DEF SortKey
<1>4. PICK new \in Sortings(list, prio) : temp' = [temp EXCEPT ![db][x] = new]
  BY <1>3
<1>5. /\ temp'[db][x] = new /\ \A y \in Starts \ {x} : temp'[db][y] = temp[db][y]
      /\ UNCHANGED <<lists, tableFile, lock, update, disturbed, mixed, lost>>
      /\ tool'.pc = "sort" /\ tool'.old = tool.old /\ tool'.done = tool.done
      /\ tool'.table = table /\ tool'.keys = tool.keys \ {x} /\ tool'.left = tool.left
      /\ tool'.order = tool.order
  BY <1>0, <1>4, OneTypes DEF SortKey, AllLists, ToolRec, history
<1>6. list \in Seq(Nat)
  BY <1>0, OneTypes
<1>7. \A v : InList(new, v) <=> InList(list, v)
  <2>. HIDE DEF list
  <2>. QED BY <1>4, <1>6, SortingsProperties
<1>8. Ascending(new, prio) /\ SameEntries(new, list)
  <2>. HIDE DEF list
  <2>. QED BY <1>4 DEF Sortings
<1>9. OneCatalog'
  BY <1>1, <1>5 DEF OneCatalog, Updating
<1>10. ASSUME ~ disturbed PROVE Apart'
  BY <1>1, <1>2, <1>5, <1>10 DEF Apart, Busy
<1>11. \A c \in Catalogs : TableOf(c)' = TableOf(c)
  BY <1>2, <1>5 DEF TableOf, Writing
<1>12. ASSUME ~ disturbed PROVE InRange'
  <2>1. \A k \in DOMAIN new : InList(list, new[k])
    BY <1>7 DEF InList
  <2>2. \A y \in Starts : \A k \in DOMAIN temp'[db][y] : InList(lists[db][y], temp'[db][y][k])
    BY <1>1, <1>5, <1>12, <2>1 DEF InRange
  <2>. QED BY <1>1, <1>5, <1>11, <1>12, <2>2 DEF InRange
<1>13. ASSUME ~ disturbed, ~ mixed, db \notin lost
       PROVE  Ascending(new, Prio(TableOf(db), tool.order))
  <2>1. TableOf(db) = table
    BY <1>1, <1>2, <1>13 DEF Apart, Busy, TableOf, Writing
  <2>2. Indices(list) \subseteq DOMAIN table
    BY <1>0, <1>1, <1>13, <2>1 DEF InRange, Indices
  <2>3. \A i \in Indices(list) : prio[i] = Prio(table, tool.order)[i]
    <3>1. prio \in Compared(Indices(list), table, tool.order) /\ tool.order \in Orders
      BY <1>3, OneTypes
    <3>. HIDE DEF list, table
    <3>. QED BY <1>2, <2>2, <3>1, ComparedInside
  <2>4. \A k \in DOMAIN new : new[k] \in Indices(list)
    BY <1>7 DEF InList, Indices
  <2>. QED BY <1>8, <2>1, <2>3, <2>4, AscendingAlike
<1>14. ASSUME ~ disturbed PROVE InOrder'
  BY <1>0, <1>1, <1>5, <1>11, <1>13, <1>14 DEF InOrder
<1>15. ASSUME ~ disturbed PROVE Copied'
  BY <1>1, <1>2, <1>5, <1>8, <1>15 DEF Copied, Copying
<1>. QED BY <1>5, <1>9, <1>10, <1>12, <1>14, <1>15 DEF OneInv

\* The copies take the place of the lists.
LEMMA RenameOne ==
    ASSUME Len(Databases) = 1, TypeInv, OneInv, Rename
    PROVE  OneInv'
<1>0. /\ db \in Catalogs /\ Cat = db /\ tool \in ToolRec
      /\ \A t \in ToolRec : Advance(t) = [Stopped(t.order) EXCEPT !.done = t.done]
      /\ lists \in AllLists /\ temp \in AllLists
  BY OneDatabase, OneTypes
<1>1. OneCatalog /\ (~ disturbed => Apart /\ InRange /\ InOrder /\ Copied)
  BY DEF OneInv
<1>2. /\ tool.pc = "rename" /\ lists' = [lists EXCEPT ![tool.old] = temp[db]]
      /\ temp' = [temp EXCEPT ![db] = Empty]
      /\ tool' = Advance([tool EXCEPT !.done = @ \cup {db}])
      /\ UNCHANGED <<tableFile, lock, update, disturbed, mixed, lost>>
  BY <1>0 DEF Rename, history
<1>3. tool.old = db
  BY <1>1, <1>2, NoneAssumption DEF TypeInv, Copying, OneCatalog
<1>4. /\ lists'[db] = temp[db] /\ temp'[db] = Empty
      /\ \A c \in Catalogs \ {db} : lists'[c] = lists[c]
  BY <1>0, <1>2, <1>3 DEF AllLists
<1>5. /\ tool'.pc = "idle" /\ tool'.old = None /\ tool'.done = tool.done \cup {db}
      /\ tool'.order = tool.order
  <2>. DEFINE t == [tool EXCEPT !.done = @ \cup {db}]
  <2>1. t \in ToolRec /\ t.done = tool.done \cup {db} /\ t.order = tool.order
    BY <1>0 DEF ToolRec
  <2>2. tool' = Advance(t)
    BY <1>2
  <2>. HIDE DEF t
  <2>. QED BY <1>0, <2>1, <2>2 DEF Stopped
<1>6. OneCatalog'
  BY <1>1, <1>2, <1>5 DEF OneCatalog, Updating
<1>7. \A c \in Catalogs : TableOf(c)' = TableOf(c)
  BY <1>2, <1>5 DEF TableOf, Writing
<1>8. \A y \in Starts : Empty[y] = <<>>
  BY DEF Empty
<1>9. ASSUME ~ disturbed PROVE Apart' /\ InRange' /\ InOrder' /\ Copied'
  <2>1. Apart' /\ Copied'
    BY <1>4, <1>5 DEF Apart, Busy, Copied, Copying
  <2>2. InRange'
    <3>1. ASSUME db \notin lost, NEW y \in Starts, NEW k \in DOMAIN temp[db][y]
          PROVE  temp[db][y][k] \in DOMAIN TableOf(db)
      <4>1. InList(lists[db][y], temp[db][y][k])
        BY <1>1, <1>9, <3>1 DEF InRange
      <4>. QED BY <1>0, <1>1, <1>9, <3>1, <4>1 DEF InRange, InList
    <3>2. ASSUME NEW c \in Catalogs \ lost, NEW y \in Starts, NEW k \in DOMAIN lists'[c][y]
          PROVE  lists'[c][y][k] \in DOMAIN TableOf(c)
      <4>1. CASE c = db
        BY <1>4, <3>1, <3>2, <4>1
      <4>2. CASE c # db
        BY <1>1, <1>4, <1>9, <3>2, <4>2 DEF InRange
      <4>. QED BY <4>1, <4>2
    <3>. QED BY <1>2, <1>4, <1>7, <1>8, <3>2 DEF InRange
  <2>3. InOrder'
    <3>1. \A p : Ascending(<<>>, p)
      BY DEF Ascending
    <3>2. update.catalog # db
      BY <1>1, <1>2, <1>9 DEF Apart, Busy
    <3>. QED BY <1>0, <1>1, <1>2, <1>4, <1>5, <1>7, <1>8, <1>9, <3>1, <3>2 DEF InOrder
  <2>. QED BY <2>1, <2>2, <2>3
<1>. QED BY <1>2, <1>6, <1>9 DEF OneInv

\* The copies are left lying around.
LEMMA CrashOne ==
    ASSUME Len(Databases) = 1, TypeInv, OneInv, Crash
    PROVE  OneInv'
<1>0. /\ db \in Catalogs /\ Cat = db /\ tool \in ToolRec /\ temp \in AllLists
  BY OneDatabase, OneTypes
<1>1. OneCatalog /\ (~ disturbed => Apart /\ InRange /\ InOrder /\ Copied)
  BY DEF OneInv
<1>2. /\ Busy /\ tool' = Stopped(tool.order)
      /\ UNCHANGED <<lists, tableFile, lock, update, disturbed, mixed>>
      /\ lost' = IF Writing THEN lost \cup {db} ELSE lost
  BY <1>0 DEF Crash, Busy, Writing
<1>3. PICK kept \in SUBSET Starts :
         temp' = [temp EXCEPT ![db] = [y \in Starts |-> IF y \in kept THEN @[y] ELSE <<>>]]
  BY <1>0 DEF Crash
<1>4. \A y \in Starts : temp'[db][y] = temp[db][y] \/ temp'[db][y] = <<>>
  BY <1>0, <1>3 DEF AllLists
<1>5. tool'.pc = "idle" /\ tool'.old = None /\ tool'.done = {} /\ tool'.order = tool.order
  BY <1>2 DEF Stopped
<1>6. OneCatalog'
  BY <1>1, <1>2, <1>5 DEF OneCatalog, Updating
<1>7. \A c \in Catalogs \ lost' : TableOf(c)' = TableOf(c)
  BY <1>2, <1>5 DEF TableOf, Writing
<1>8. ASSUME ~ disturbed PROVE Apart' /\ InRange' /\ InOrder' /\ Copied'
  <2>1. Apart' /\ Copied'
    BY <1>1, <1>2, <1>5, <1>8 DEF Apart, Busy, Copied, Copying
  <2>2. InRange'
    <3>1. \A c \in Catalogs \ lost', y \in Starts :
             \A k \in DOMAIN lists'[c][y] : lists'[c][y][k] \in DOMAIN TableOf(c)'
      BY <1>1, <1>2, <1>7, <1>8 DEF InRange
    <3>2. \A y \in Starts : \A k \in DOMAIN temp'[db][y] : InList(lists[db][y], temp'[db][y][k])
      BY <1>1, <1>4, <1>8 DEF InRange
    <3>. QED BY <1>2, <3>1, <3>2 DEF InRange
  <2>3. InOrder'
    <3>1. \A p : Ascending(<<>>, p)
      BY DEF Ascending
    <3>2. db \notin lost' => db \notin lost
      BY <1>2
    <3>. QED BY <1>0, <1>1, <1>2, <1>4, <1>5, <1>7, <1>8, <3>1, <3>2 DEF InOrder
  <2>. QED BY <2>1, <2>2, <2>3
<1>. QED BY <1>2, <1>6, <1>8 DEF OneInv

\* An update begins and ends.
LEMMA UpdateOneBounds ==
    ASSUME Len(Databases) = 1, TypeInv, OneInv,
           (\E c \in Catalogs : BeginUpdate(c)) \/ EndUpdate
    PROVE  OneInv'
<1>0. /\ db \in Catalogs /\ tableFile \in [Catalogs -> Seq(Names)]
      /\ Updating <=> update.catalog \in Catalogs
  BY OneDatabase, OneTypes
<1>1. OneCatalog /\ (~ disturbed => Apart /\ InRange /\ InOrder /\ Copied)
  BY DEF OneInv
<1>2. UNCHANGED <<lists, temp, tool, lost>>
  BY DEF BeginUpdate, EndUpdate, history
<1>3. ASSUME \A c \in Catalogs : TableOf(c)' = TableOf(c), ~ disturbed, ~ mixed' => ~ mixed,
             ~ mixed' /\ update'.catalog = db /\ db \in tool.done => update'.order = tool.order
      PROVE  InRange' /\ InOrder' /\ Copied'
  BY <1>0, <1>1, <1>2, <1>3 DEF InRange, InOrder, Copied, Copying
<1>4. ASSUME NEW c \in Catalogs, BeginUpdate(c) PROVE OneInv'
  <2>1. /\ ~ Updating /\ update'.catalog = c /\ update'.table = tableFile[c]
        /\ update'.order = order
        /\ lock' = lock \cup {c} /\ UNCHANGED tableFile
        /\ mixed' = (mixed \/ order # tool.order)
        /\ ~ disturbed' => ~ disturbed /\ ~ Busy /\ \A d \in Catalogs : temp[d] = Empty
    BY <1>4 DEF BeginUpdate, Busy, Leftovers
  <2>2. ~ Busy => \A d \in Catalogs : TableOf(d)' = TableOf(d)
    BY <1>0, <1>2, <2>1, NoneAssumption DEF TableOf, Writing, Busy
  <2>3. OneCatalog'
    BY <1>1, <1>2, <2>1 DEF OneCatalog
  <2>4. ~ disturbed' => Apart'
    BY <1>0, <1>2, <2>1 DEF Apart, Busy
  <2>. QED BY <1>3, <2>1, <2>2, <2>3, <2>4 DEF OneInv
<1>5. CASE EndUpdate
  <2>. DEFINE c == update.catalog
  <2>1. /\ Updating /\ update' = NoUpdate /\ UNCHANGED <<disturbed, mixed>>
        /\ tableFile' = [tableFile EXCEPT ![c] = update.table]
    BY <1>5 DEF EndUpdate, history
  <2>2. c \in Catalogs /\ update'.catalog = None
    BY <1>0, <2>1 DEF NoUpdate
  <2>3. ASSUME ~ disturbed, NEW d \in Catalogs PROVE TableOf(d)' = TableOf(d)
    <3>1. tableFile'[d] = IF d = c THEN update.table ELSE tableFile[d]
      BY <1>0, <2>1, <2>2
    <3>2. c = db => ~ Busy
      BY <1>1, <2>3 DEF Apart
    <3>. QED BY <1>2, <2>2, <3>1, <3>2, NoneAssumption DEF TableOf, Writing, Busy
  <2>4. OneCatalog'
    BY <1>1, <1>2, <2>2, NoneAssumption DEF OneCatalog, Updating
  <2>5. ASSUME ~ disturbed PROVE Apart'
    <3>1. Busy => tableFile'[db] = tableFile[db]
      BY <1>0, <1>1, <2>1, <2>5 DEF Apart
    <3>. QED BY <1>0, <1>1, <1>2, <2>2, <2>5, <3>1, NoneAssumption DEF Apart, Busy
  <2>6. update'.catalog # db
    BY <1>0, <2>2, NoneAssumption
  <2>. QED BY <1>3, <2>1, <2>3, <2>4, <2>5, <2>6 DEF OneInv
<1>. QED BY <1>4, <1>5

\* One list of the catalog that is updated, and perhaps its host table.
LEMMA UpdateOneList ==
    ASSUME Len(Databases) = 1, TypeInv, OneInv, NEW c \in Catalogs, update.catalog = c,
           NEW x \in Starts, NEW new, lists' = [lists EXCEPT ![c][x] = new],
           NEW table \in Seq(Names), update' = [update EXCEPT !.table = table],
           DOMAIN update.table \subseteq DOMAIN table,
           \A i \in DOMAIN update.table : table[i] = update.table[i],
           InRange /\ c \notin lost => \A k \in DOMAIN new : new[k] \in DOMAIN table,
           InRange /\ c \notin lost /\ Ascending(lists[c][x], Prio(table, update.order))
              => Ascending(new, Prio(table, update.order)),
           UNCHANGED <<temp, tableFile, lock, tool, disturbed, mixed, lost>>
    PROVE  OneInv'
<1>0. /\ db \in Catalogs /\ update \in UpdateRec /\ lists \in AllLists
      /\ update.table \in Seq(Names) /\ update.order \in Orders
  BY OneDatabase, OneTypes DEF UpdateRec
<1>1. OneCatalog /\ (~ disturbed => Apart /\ InRange /\ InOrder /\ Copied)
  BY DEF OneInv
<1>2. update'.catalog = c /\ update'.table = table /\ update'.order = update.order
  BY <1>0 DEF UpdateRec
<1>3. /\ TableOf(c) = update.table /\ TableOf(c)' = table
      /\ \A d \in Catalogs \ {c} : TableOf(d)' = TableOf(d)
  BY <1>2 DEF TableOf, Writing
<1>4. /\ lists'[c][x] = new /\ \A y \in Starts \ {x} : lists'[c][y] = lists[c][y]
      /\ \A d \in Catalogs \ {c} : lists'[d] = lists[d]
  BY <1>0 DEF AllLists
<1>5. OneCatalog'
  BY <1>1, <1>2 DEF OneCatalog, Updating
<1>6. ASSUME ~ disturbed PROVE Apart'
  BY <1>1, <1>2, <1>6 DEF Apart, Busy
<1>7. ASSUME ~ disturbed, c = db
      PROVE  ~ Busy /\ \A y \in Starts : temp[db][y] = <<>>
  BY <1>1, <1>7 DEF Apart, Empty
<1>8. ASSUME ~ disturbed PROVE InRange'
  <2>1. c \notin lost => \A y \in Starts : \A k \in DOMAIN lists'[c][y] : lists'[c][y][k] \in DOMAIN table
    BY <1>1, <1>3, <1>4, <1>8 DEF InRange
  <2>2. \A d \in Catalogs \ (lost \cup {c}), y \in Starts :
           \A k \in DOMAIN lists'[d][y] : lists'[d][y][k] \in DOMAIN TableOf(d)'
    BY <1>1, <1>3, <1>4, <1>8 DEF InRange
  <2>3. \A y \in Starts : \A k \in DOMAIN temp[db][y] : InList(lists'[db][y], temp[db][y][k])
    BY <1>1, <1>4, <1>7, <1>8, <1>0 DEF InRange
  <2>. QED BY <1>3, <2>1, <2>2, <2>3 DEF InRange
<1>9. ASSUME ~ disturbed PROVE InOrder'
  <2>1. CASE c = db /\ ~ mixed /\ db \notin lost
    <3>1. \A p : \A y \in Starts : Ascending(temp[db][y], p)
      BY <1>7, <1>9, <2>1 DEF Ascending
    <3>2. ASSUME db \in tool.done PROVE update.order = tool.order
      BY <1>1, <1>9, <2>1, <3>2 DEF InOrder
    <3>3. ASSUME db \in tool.done, NEW y \in Starts
          PROVE  Ascending(lists'[db][y], Prio(table, update.order))
      <4>. DEFINE old == Prio(update.table, update.order)
                  grown == Prio(table, update.order)
      <4>1. Ascending(lists[db][y], old)
        BY <1>1, <1>3, <1>9, <2>1, <3>2, <3>3 DEF InOrder
      <4>2. \A k \in DOMAIN lists[db][y] : old[lists[db][y][k]] = grown[lists[db][y][k]]
        <5>1. \A k \in DOMAIN lists[db][y] : lists[db][y][k] \in DOMAIN update.table
          BY <1>0, <1>1, <1>3, <1>9, <2>1 DEF InRange
        <5>2. ASSUME NEW i \in DOMAIN update.table
              PROVE  old[i] = grown[i]
          <6>1. old[i] = update.order[update.table[i]]
            BY <1>0, PrioValue
          <6>2. grown[i] = update.order[table[i]]
            BY <1>0, PrioValue
          <6>. QED BY <6>1, <6>2
        <5>. QED BY <5>1, <5>2
      <4>. HIDE DEF old, grown
      <4>3. Ascending(lists[db][y], grown)
        BY <4>1, <4>2, AscendingAlike
      <4>. QED BY <1>1, <1>4, <1>9, <2>1, <4>3 DEF grown
    <3>. QED BY <1>2, <1>3, <2>1, <3>1, <3>2, <3>3 DEF InOrder
  <2>2. CASE c # db
    BY <1>0, <1>1, <1>2, <1>3, <1>4, <1>9, <2>2 DEF InOrder
  <2>3. CASE mixed \/ db \in lost
    BY <2>3 DEF InOrder
  <2>. QED BY <2>1, <2>2, <2>3
<1>10. ASSUME ~ disturbed PROVE Copied'
  <2>1. CASE c = db
    BY <1>7, <1>10, <2>1 DEF Copied, Copying, Busy
  <2>2. CASE c # db
    BY <1>0, <1>1, <1>4, <1>10, <2>2 DEF Copied, Copying
  <2>. QED BY <2>1, <2>2
<1>. QED BY <1>5, <1>6, <1>8, <1>9, <1>10 DEF OneInv

\* An update at its lists.
LEMMA UpdateOneSteps ==
    ASSUME Len(Databases) = 1, TypeInv, OneInv, NEW n \in Names, NEW x \in Starts,
           InsertHost(n, x) \/ DeleteHost(n, x)
    PROVE  OneInv'
<1>. DEFINE c == update.catalog
            list == lists[c][x]
            old == update.table
            ord == update.order
<1>0. /\ c \in Catalogs /\ update \in UpdateRec /\ old \in Seq(Names) /\ ord \in Orders
      /\ list \in Seq(Nat) /\ Distinct(list)
  BY OneTypes DEF UpdateRec, InsertHost, DeleteHost
<1>1. InRange /\ c \notin lost => list \in Seq(DOMAIN old)
  <2>. SUFFICES ASSUME InRange, c \notin lost PROVE list \in Seq(DOMAIN old)
    OBVIOUS
  <2>1. \A k \in DOMAIN list : list[k] \in DOMAIN old
    BY <1>0 DEF InRange, TableOf
  <2>. HIDE DEF list, old
  <2>. QED BY <1>0, <2>1
<1>2. UNCHANGED <<temp, tableFile, lock, tool, disturbed, mixed, lost>>
  BY DEF InsertHost, DeleteHost, history
<1>3. CASE InsertHost(n, x)
  <2>. DEFINE table == IF Position(old, n) = NotFound THEN Append(old, n) ELSE old
              i == Position(table, n)
  <2>1. /\ update' = [update EXCEPT !.table = table]
        /\ \E prio \in Compared(Indices(list) \cup {i}, table, ord) :
              lists' = [lists EXCEPT ![c][x] = AddSite(list, i, prio)]
    BY <1>3 DEF InsertHost
  <2>9. PICK prio \in Compared(Indices(list) \cup {i}, table, ord) :
           lists' = [lists EXCEPT ![c][x] = AddSite(list, i, prio)]
    BY <2>1
  <2>. DEFINE new == AddSite(list, i, prio)
  <2>2. /\ table \in Seq(Names) /\ DOMAIN old \subseteq DOMAIN table
        /\ \A j \in DOMAIN old : table[j] = old[j]
    <3>. HIDE DEF old
    <3>. QED BY <1>0
  <2>3. i \in DOMAIN table
    <3>1. CASE Position(old, n) = NotFound
      <4>. HIDE DEF old
      <4>1. table = Append(old, n) /\ Append(old, n) \in Seq(Names)
        BY <1>0, <3>1
      <4>. HIDE DEF table
      <4>. QED BY <1>0, <4>1, PositionType
    <3>2. CASE Position(old, n) # NotFound
      BY <1>0, <3>2, PositionType
    <3>. QED BY <3>1, <3>2
  <2>. HIDE DEF table, i, list, old, ord
  <2>. DEFINE S == Indices(list) \cup {i}
  <2>4. \A k \in DOMAIN list : list[k] \in S
    BY DEF Indices
  <2>. HIDE DEF S
  <2>5. list \in Seq(S) /\ i \in S
    <3>1. i \in S
      BY DEF S
    <3>2. list = [k \in 1 .. Len(list) |-> list[k]] /\ Len(list) \in Nat /\ DOMAIN list = 1 .. Len(list)
      BY <1>0
    <3>. QED BY <2>4, <3>1, <3>2
  <2>6. ASSUME InRange, c \notin lost PROVE S \subseteq DOMAIN table
    <3>1. list \in Seq(DOMAIN table)
      BY <1>1, <2>2, <2>6
    <3>2. \A k \in DOMAIN list : list[k] \in DOMAIN table
      BY <3>1
    <3>. QED BY <2>3, <3>2 DEF S, Indices
  <2>7. new \in Seq(S)
    BY <2>5, AddSiteProperties
  <2>8. ASSUME InRange, c \notin lost, Ascending(list, Prio(table, ord))
        PROVE  Ascending(new, Prio(table, ord))
    <3>1. prio \in [S -> Int] /\ \A j \in S : prio[j] = Prio(table, ord)[j]
      <4>1. prio \in Compared(S, table, ord) /\ S \subseteq DOMAIN table
        BY <2>6, <2>8, <2>9 DEF S
      <4>. QED BY <1>0, <2>2, <4>1, ComparedInside
    <3>2. Ascending(list, prio)
      BY <2>4, <2>8, <3>1, AscendingAlike
    <3>3. Ascending(new, prio)
      BY <2>5, <3>1, <3>2, AddSiteAscending
    <3>. HIDE DEF new
    <3>4. \A k \in DOMAIN new : new[k] \in S
      BY <2>7
    <3>. QED BY <3>1, <3>3, <3>4, AscendingAlike
  <2>. HIDE DEF new
  <2>10. InRange /\ c \notin lost => \A k \in DOMAIN new : new[k] \in DOMAIN table
    BY <2>6, <2>7
  <2>11. lists' = [lists EXCEPT ![c][x] = new]
    BY <2>9 DEF new
  <2>. QED BY <1>0, <1>2, <2>1, <2>2, <2>8, <2>10, <2>11, UpdateOneList DEF list, old, ord
<1>4. CASE DeleteHost(n, x)
  <2>. DEFINE i == Position(old, n)
              new == DeleteSite(list, i)
  <2>1. update' = update /\ lists' = [lists EXCEPT ![c][x] = new]
    BY <1>4 DEF DeleteHost
  <2>2. update' = [update EXCEPT !.table = old]
    BY <1>0, <2>1 DEF UpdateRec
  <2>3. i \in DOMAIN old
    BY <1>0, <1>4, PositionType DEF DeleteHost
  <2>. HIDE DEF i, list, old, ord
  <2>4. InRange /\ c \notin lost => new \in Seq(DOMAIN old)
    BY <1>0, <1>1, <2>3, DeleteSiteProperties
  <2>5. InRange /\ c \notin lost /\ Ascending(list, Prio(old, ord)) => Ascending(new, Prio(old, ord))
    BY <1>0, <1>1, <2>3, DeleteSiteProperties
  <2>. HIDE DEF new
  <2>6. InRange /\ c \notin lost => \A k \in DOMAIN new : new[k] \in DOMAIN old
    BY <2>4
  <2>. QED BY <1>0, <1>2, <2>1, <2>2, <2>5, <2>6, UpdateOneList DEF list, old, ord
<1>. QED BY <1>3, <1>4

\* Every step.
LEMMA NextOne ==
    ASSUME Len(Databases) = 1, TypeInv, OneInv, [Next]_vars
    PROVE  OneInv'
<1>1. ASSUME UNCHANGED <<lists, temp, tableFile, lock, tool, update, history>> PROVE OneInv'
  BY <1>1 DEF OneInv, OneCatalog, Apart, Busy, InRange, InOrder, Copied, Copying, TableOf,
              Writing, Updating, history
<1>2. CASE EditOrder \/ UNCHANGED vars
  BY <1>1, <1>2 DEF EditOrder, vars
<1>3. ASSUME NEW x \in Starts, SortKey(x) PROVE OneInv'
  BY <1>3, SortOne
<1>4. ASSUME NEW n \in Names, NEW x \in Starts, InsertHost(n, x) \/ DeleteHost(n, x)
      PROVE  OneInv'
  BY <1>4, UpdateOneSteps
<1>. QED BY <1>2, <1>3, <1>4, RunOne, ToolOneMoves, RenameOne, CrashOne, UpdateOneBounds DEF Next

\* At the start nothing is copied, and every list goes with its table.
LEMMA InitOne ==
    ASSUME Len(Databases) = 1, Init
    PROVE  OneInv
<1>0. db \in Catalogs
  BY InitType, OneDatabase
<1>1. /\ tool.pc = "idle" /\ tool.old = None /\ tool.done = {}
      /\ update.catalog = None /\ tableFile \in [Catalogs -> Seq(Names)]
      /\ \A c \in Catalogs : temp[c] = Empty
  BY TablesAssumption DEF Init, Stopped, NoUpdate
<1>2. OneCatalog
  BY <1>1 DEF OneCatalog, Updating
<1>3. Apart
  BY <1>0, <1>1, NoneAssumption DEF Apart, Busy
<1>4. \A x \in Starts : temp[db][x] = <<>>
  BY <1>0, <1>1 DEF Empty
<1>5. ASSUME NEW c \in Catalogs, NEW x \in Starts, NEW k \in DOMAIN lists[c][x]
      PROVE  lists[c][x][k] \in DOMAIN TableOf(c)
  <2>1. lists[c][x] \in Arrangements(Len(tableFile[c]))
    BY DEF Init
  <2>2. tableFile[c] \in Seq(Names) /\ TableOf(c) = tableFile[c]
    BY <1>1, NoneAssumption DEF TableOf, Writing
  <2>3. lists[c][x][k] \in 1 .. Len(tableFile[c])
    BY <2>1 DEF Arrangements
  <2>. QED BY <2>2, <2>3
<1>6. InRange
  BY <1>4, <1>5 DEF InRange
<1>7. InOrder
  BY <1>1, <1>4 DEF InOrder, Ascending
<1>8. Copied
  BY <1>1 DEF Copied, Copying
<1>. QED BY <1>2, <1>3, <1>6, <1>7, <1>8 DEF OneInv

\* What holds of the tool, its copies and the lists, with one database.
THEOREM OneInvariance ==
    ASSUME Len(Databases) = 1
    PROVE  Spec => [](TypeInv /\ OneInv)
<1>1. Init => TypeInv /\ OneInv
  BY InitType, InitOne
<1>2. TypeInv /\ OneInv /\ [Next]_vars => (TypeInv /\ OneInv)'
  BY NextType, NextOne
<1>. QED BY <1>1, <1>2, PTL DEF Spec

\* With one database, what db_reorder has gone through undisturbed is in the
\* order it has read, re-runs after kills included, and updates keep it there;
\* not where it kept copies made under another order, or the kill emptied the
\* host table.
THEOREM OneIsReordered ==
    ASSUME Len(Databases) = 1
    PROVE  Spec => []Reordered
<1>1. TypeInv /\ OneInv => Reordered
  <2>. SUFFICES ASSUME TypeInv, OneInv, tool.pc = "idle", ~ disturbed, ~ mixed,
                       NEW c \in tool.done \ lost, NEW x \in Starts
                PROVE  /\ \A k \in DOMAIN lists[c][x] : lists[c][x][k] \in DOMAIN TableOf(c)
                       /\ Ascending(lists[c][x], Prio(TableOf(c), tool.order))
    BY DEF Reordered, TableOf, Writing
  <2>1. c = db /\ db \in Catalogs
    BY OneDatabase DEF OneInv, OneCatalog
  <2>. QED BY <2>1 DEF OneInv, InRange, InOrder
<1>. QED BY <1>1, OneInvariance, PTL

\* The step that puts the copies in place, with one database.
LEMMA RenamingStep ==
    ASSUME Len(Databases) = 1, TypeInv, OneInv, [Next]_vars, ~ disturbed, Renaming, lists' # lists
    PROVE  tool.pc = "rename" /\ lists' = [lists EXCEPT ![db] = temp[db]]
<1>0. Cat = db /\ tool.old \in {None, db} /\ (tool.pc = "rename" => tool.old \in Catalogs)
  BY OneDatabase DEF OneInv, OneCatalog, TypeInv, Copying
<1>1. tool.pc = "rename" /\ tool' # tool
  BY DEF Renaming
<1>2. Next
  BY <1>1 DEF vars
<1>3. Rename
  BY <1>1, <1>2 DEF Next, EditOrder, Run, CheckLock, Open, SortKey, KeyExists, Truncate,
                    WriteTable, Crash, BeginUpdate, InsertHost, DeleteHost, EndUpdate
<1>. QED BY <1>0, <1>1, <1>3, NoneAssumption DEF Rename

\* With one database, an undisturbed db_reorder that finds no copies of a killed
\* run neither loses a host nor adds one.
THEOREM OneKeepsHosts ==
    ASSUME Len(Databases) = 1
    PROVE  Spec => SameHosts
<1>1. TypeInv /\ OneInv /\ [Next]_vars =>
         [~ disturbed /\ tool.left = {} /\ Renaming =>
             \A c \in Catalogs, x \in Starts : SameEntries(lists'[c][x], lists[c][x])]_lists
  <2>. SUFFICES ASSUME TypeInv, OneInv, [Next]_vars, lists' # lists,
                       ~ disturbed, tool.left = {}, Renaming,
                       NEW c \in Catalogs, NEW x \in Starts
                PROVE  SameEntries(lists'[c][x], lists[c][x])
    OBVIOUS
  <2>1. tool.pc = "rename" /\ lists' = [lists EXCEPT ![db] = temp[db]]
    BY RenamingStep
  <2>2. SameEntries(temp[db][x], lists[db][x])
    BY <2>1 DEF OneInv, Copied, Copying
  <2>3. lists \in AllLists /\ db \in Catalogs
    BY OneTypes, OneDatabase
  <2>4. SameEntries(lists[c][x], lists[c][x])
    BY DEF SameEntries, InList
  <2>. QED BY <2>1, <2>2, <2>3, <2>4 DEF AllLists
<1>. QED BY <1>1, OneInvariance, PTL DEF Spec, SameHosts

\* With one database, db_reorder lists no host under a string it was not
\* listed under, whatever a killed run has left.
THEOREM OneInventsNothing ==
    ASSUME Len(Databases) = 1
    PROVE  Spec => NothingInvented
<1>1. TypeInv /\ OneInv /\ [Next]_vars =>
         [~ disturbed /\ Renaming =>
             \A c \in Catalogs, x \in Starts :
                 \A k \in DOMAIN lists'[c][x] : InList(lists[c][x], lists'[c][x][k])]_lists
  <2>. SUFFICES ASSUME TypeInv, OneInv, [Next]_vars, lists' # lists, ~ disturbed, Renaming,
                       NEW c \in Catalogs, NEW x \in Starts, NEW k \in DOMAIN lists'[c][x]
                PROVE  InList(lists[c][x], lists'[c][x][k])
    OBVIOUS
  <2>1. lists' = [lists EXCEPT ![db] = temp[db]]
    BY RenamingStep
  <2>2. lists \in AllLists /\ db \in Catalogs
    BY OneTypes, OneDatabase
  <2>3. CASE c = db
    BY <2>1, <2>2, <2>3 DEF OneInv, InRange, AllLists
  <2>4. CASE c # db
    BY <2>1, <2>2, <2>4 DEF InList, AllLists
  <2>. QED BY <2>3, <2>4
<1>. QED BY <1>1, OneInvariance, PTL DEF Spec, NothingInvented
=============================================================================
