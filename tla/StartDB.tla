------------------------------ MODULE StartDB -------------------------------
(***************************************************************************)
(* One catalog's start database over its life: the dbm file of string ->   *)
(* host-index lists, the host-table file the indices point into, the       *)
(* sessions of the programs that change them (open_start_dbs ...           *)
(* close_start_dbs), the db_reorder tool, the domain.order file an         *)
(* administrator edits, and a client that reads while a session is open.   *)
(*                                                                         *)
(* A session is alone: the catalog's lock file is the business of          *)
(* AnonftpUpdate.  dbm is taken to write through, so a list changes on     *)
(* disk when update_start_dbs returns, while the host table lives in the   *)
(* process until close_start_dbs truncates and rewrites its file.          *)
(***************************************************************************)
EXTENDS StartLists, FiniteSets

CONSTANTS
    Addrs,      \* (ip, port) pairs
    Names,      \* (hostname, port) pairs
    Starts,     \* strings of the catalog
    Orders,     \* domain priorities, as functions from Names to integers
    MaxHosts    \* bound on the host table; the code's index is 16 bits wide

ASSUME OrdersAssumption == Orders \subseteq [Names -> Int] /\ Orders # {}

ASSUME MaxHostsAssumption == MaxHosts \in Nat /\ MaxHosts < 32768

VARIABLES
    order,      \* domain.order on disk
    lists,      \* the dbm file: Starts -> Seq(index)
    tableFile,  \* the host-table file
    phase,      \* of the writing session: closed, open, writing its table
    table,      \* host_table, in the session's memory
    prio,       \* priority_table, in the session's memory
    sessOrder,  \* the domain order the session read
    effective,  \* history: the order db_reorder last ran with
    mixed,      \* history: a list was extended under another order since
    client      \* host table in a client's memory (O_RDONLY, never closed)

vars == <<order, lists, tableFile, phase, table, prio, sessOrder, effective,
          mixed, client>>

Hosts == [addr : Addrs, name : Names]
Indices == 1 .. MaxHosts
session == <<table, prio, sessOrder>>
history == <<effective, mixed>>

\* The host table as it will be once the running session is over.
Current == IF phase = "closed" THEN tableFile ELSE table

Init ==
    /\ order \in Orders
    /\ lists = [s \in Starts |-> <<>>]
    /\ tableFile = <<>>
    /\ phase = "closed"
    /\ table = <<>>
    /\ prio = <<>>
    /\ sessOrder = order
    /\ effective = order
    /\ mixed = FALSE
    /\ client = <<>>

\* The administrator edits domain.order.
EditOrder(o) ==
    /\ o # order
    /\ order' = o
    /\ UNCHANGED <<lists, tableFile, phase, session, history, client>>

\* open_start_dbs(O_RDWR): the table, then the domain order, then priorities.
OpenStartDbs ==
    /\ phase = "closed"
    /\ phase' = "open"
    /\ table' = tableFile
    /\ sessOrder' = order
    /\ prio' = Priorities(tableFile, order)
    /\ UNCHANGED <<order, lists, tableFile, history, client>>

\* Mutant: the priorities are those of the table before.
AddHost_StalePriorities(a, n) ==
    /\ phase = "open"
    /\ Len(table) < MaxHosts
    /\ table' = HostTableAdd(table, a, n)
    /\ UNCHANGED <<order, lists, tableFile, phase, prio, sessOrder, history, client>>

\* host_table_add recomputes the priorities when it appends.
AddHost(a, n) ==
    /\ phase = "open"
    /\ Len(table) < MaxHosts
    /\ table' = HostTableAdd(table, a, n)
    /\ prio' = IF HostTableFind(table, a, n) # NotFound THEN prio
               ELSE Priorities(table', sessOrder)
    /\ UNCHANGED <<order, lists, tableFile, phase, sessOrder, history, client>>

\* handle_paddr_mismatch (its body stands under handle_cname_mismatch): a
\* host's address changed.  The new address has just been entered into the
\* host address cache without overwriting, so no other host has it.
ReplaceAddr(old, new, n) ==
    /\ phase = "open"
    /\ CanReplace(table, old, n)
    /\ \A i \in DOMAIN table : table[i].addr # new
    /\ table' = HostTableReplace(table, old, new, n)
    /\ UNCHANGED <<order, lists, tableFile, phase, prio, sessOrder, history,
                   client>>

\* Mutant: host_table_find's answer is used although it found nothing.
AddToList_Unfound(s, i) ==
    /\ phase = "open"
    /\ lists' = [lists EXCEPT ![s] =
                    AddSite(lists[s], IF i \in DOMAIN table THEN i ELSE NotFound, prio)]
    /\ mixed' = mixed
    /\ UNCHANGED <<order, tableFile, phase, session, effective, client>>

\* insert_anonftp and delete_anonftp look the site up, then change one list
\* per string.
AddToList(s, i) ==
    /\ phase = "open"
    /\ i \in DOMAIN table
    /\ lists' = [lists EXCEPT ![s] = AddSite(lists[s], i, prio)]
    /\ mixed' = (mixed \/ (~ InList(lists[s], i) /\ sessOrder # effective))
    /\ UNCHANGED <<order, tableFile, phase, session, effective, client>>

DeleteFromList(s, i) ==
    /\ phase = "open"
    /\ i \in DOMAIN table
    /\ lists' = [lists EXCEPT ![s] = DeleteSite(lists[s], i)]
    /\ UNCHANGED <<order, tableFile, phase, session, history, client>>

\* close_start_dbs, write_host_table: the file is opened for writing, which
\* empties it, and then written.
TruncateTable ==
    /\ phase = "open"
    /\ phase' = "writing"
    /\ tableFile' = <<>>
    /\ UNCHANGED <<order, lists, session, history, client>>

\* Mutant: one entry too few is written.
WriteTable_OffByOne ==
    /\ phase = "writing"
    /\ phase' = "closed"
    /\ tableFile' = SubSeq(table, 1, Len(table) - 1)
    /\ UNCHANGED <<order, lists, session, history, client>>

WriteTable ==
    /\ phase = "writing"
    /\ phase' = "closed"
    /\ tableFile' = table
    /\ UNCHANGED <<order, lists, session, history, client>>

Resorted(s) == Sortings(lists[s], Priorities(tableFile, order))

\* db_reorder on this catalog: sort every list under the current order.  It
\* reads the table and writes it back unchanged.
Reorder ==
    /\ phase = "closed"
    /\ \E new \in [Starts -> UNION {Resorted(s) : s \in Starts}] :
          /\ \A s \in Starts : new[s] \in Resorted(s)
          /\ lists' = new
    /\ effective' = order
    /\ mixed' = FALSE
    /\ UNCHANGED <<order, tableFile, phase, session, client>>

\* A client (or a network server) opens the databases read-only.
ClientOpen ==
    /\ client' = tableFile
    /\ UNCHANGED <<order, lists, tableFile, phase, session, history>>

Next ==
    \/ \E o \in Orders : EditOrder(o)
    \/ OpenStartDbs
    \/ \E a \in Addrs, n \in Names : AddHost(a, n)
    \/ \E a, b \in Addrs, n \in Names : ReplaceAddr(a, b, n)
    \/ \E s \in Starts, i \in Indices : AddToList(s, i)
    \/ \E s \in Starts, i \in Indices : DeleteFromList(s, i)
    \/ TruncateTable
    \/ WriteTable
    \/ Reorder
    \/ ClientOpen

Spec == Init /\ [][Next]_vars
-----------------------------------------------------------------------------
TableOK(tab) == tab \in Seq(Hosts) /\ Len(tab) <= MaxHosts

\* Every variable keeps its type; a list holds host-table indices.
TypeOK ==
    /\ order \in Orders
    /\ lists \in [Starts -> Seq(Indices)]
    /\ TableOK(tableFile) /\ TableOK(table) /\ TableOK(client)
    /\ phase \in {"closed", "open", "writing"}
    /\ prio \in Seq(Int)
    /\ sessOrder \in Orders
    /\ effective \in Orders
    /\ mixed \in BOOLEAN

\* A site is in a string's list at most once (find_in_list before every
\* insertion, one entry removed by a deletion), so a client shows it once.
NoDuplicates == \A s \in Starts : Distinct(lists[s])

\* Every index in a list belongs to a host of the current table: a client
\* never meets "start/host dbase corrupt" once the session is over.
IndicesKnown == \A s \in Starts : \A k \in DOMAIN lists[s] : lists[s][k] \in DOMAIN Current

\* Two entries of the table never share an address or a name, so
\* host_table_find has one answer whatever it is asked with.
HostsUnique ==
    \A i, j \in DOMAIN Current :
        i # j => /\ Current[i].addr # Current[j].addr
                 /\ Current[i].name # Current[j].name

\* The lists stay in the precomputed order (the order results are shown in)
\* as long as nothing was inserted under a domain.order db_reorder has not
\* been run with: insert_in_list keeps what qsort made.
Sorted ==
    ~ mixed => \A s \in Starts : Ascending(lists[s], Priorities(Current, effective))

\* The priorities in memory are those of the table in memory: host_table_add
\* recomputes them, host_table_replace may leave them alone.
PrioritiesCurrent == phase # "closed" => prio = Priorities(table, sessOrder)

\* A client resolves indices of lists written after it read the table.  What
\* it can resolve, it resolves to the right host.
ClientSound ==
    \A s \in Starts : Resolve(client, lists[s]) \subseteq Resolve(Current, lists[s])

\* The host behind an index never changes, whatever is added or moved.
IndexStable ==
    [][\A i \in DOMAIN Current :
          i \in DOMAIN Current' /\ Current'[i].name = Current[i].name]_vars

-----------------------------------------------------------------------------
(***************************************************************************)
(* What the start database promises: a relation between strings and hosts. *)
(***************************************************************************)
Rel == {r \in Starts \X Names :
           \E k \in DOMAIN lists[r[1]] :
               /\ lists[r[1]][k] \in DOMAIN Current
               /\ Current[lists[r[1]][k]].name = r[2]}

Index == INSTANCE SiteIndex WITH rel <- Rel

\* Shifts in a list, re-sorting, a growing table and an address change never
\* touch any pair but one, and no step touches two.
IndexSpec == Index!Spec

\* And it is the right one: update_start_dbs adds or removes the host the index
\* stands for under the string it was called with, and keeps all others.
UpdatesExact ==
    [][\A s \in Starts, i \in Indices :
          /\ AddToList(s, i) => Rel' = Rel \cup {<<s, table[i].name>>}
          /\ DeleteFromList(s, i) => Rel' = Rel \ {<<s, table[i].name>>}]_vars
=============================================================================
