------------------------------ MODULE DbReorder ------------------------------
(***************************************************************************)
(* The db_reorder tool at work on the start databases of several catalogs,  *)
(* with updates of the same catalogs at the same time.  For every catalog   *)
(* it copies the start database, list by list and sorted, into a temporary  *)
(* one and renames that over the original.                                 *)
(*                                                                         *)
(* A catalog's start database, its host table and its temporary database   *)
(* are named by the catalog.  A dbm file without a key has an empty list    *)
(* there.  A host is known by its name.  The administrator may edit         *)
(* domain.order at any time; the tool and an update read it when they start.*)
(***************************************************************************)
EXTENDS StartLists, FiniteSets

CONSTANTS
    Catalogs,
    Databases,      \* the catalogs db_reorder goes through, in this order
    Names,
    Starts,
    Orders,         \* what domain.order may hold: priorities of the hosts
    Tables,         \* the host tables there may be at first
    None,
    MaxEdits, MaxUpdates, MaxCrashes, MaxRuns     \* bounds

ASSUME DatabasesAssumption == Databases \in Seq(Catalogs) /\ Databases # <<>>
ASSUME NoneAssumption == None \notin Catalogs
ASSUME OrdersAssumption == Orders \subseteq [Names -> Int]
ASSUME TablesAssumption == Tables \subseteq [Catalogs -> Seq(Names)]

VARIABLES
    lists,      \* start databases: catalog -> string -> list
    temp,       \* start-db-temp of each catalog
    tableFile,  \* host tables: catalog -> sequence of names
    order,      \* domain.order
    lock,       \* the catalogs whose lock file exists
    tool,       \* the running db_reorder
    update,     \* the running update
    edits, updates, crashes, runs,
    disturbed,  \* history: an update began while db_reorder was at work, or
                \* while what it has copied was lying around
    mixed,      \* history: a run found copies made under another domain.order,
                \* or an update came with another one than the last run's
    lost        \* history: the catalogs whose host table a kill left empty

counters == <<edits, updates, crashes, runs>>
history == <<disturbed, mixed, lost>>
vars == <<lists, temp, tableFile, order, lock, tool, update, counters, history>>

Empty == [x \in Starts |-> <<>>]

\* k is the catalog's position in Databases; old the file that old_startdb
\* names; order what domain.order held; table the host table of the process;
\* keys the keys still to copy; left those a killed run had copied.
Stopped(ord) == [pc |-> "idle", k |-> 1, old |-> None, order |-> ord, table |-> <<>>,
                 keys |-> {}, left |-> {}, done |-> {}]
NoUpdate == [catalog |-> None, table |-> <<>>, order |-> CHOOSE o \in Orders : TRUE]
Updating == update.catalog # None

\* Lists as earlier runs under some other domain.order have left them.
Arrangements(n) ==
    {l \in UNION {[1 .. m -> 1 .. n] : m \in 0 .. n} : Distinct(l)}

Init ==
    /\ tableFile \in Tables
    /\ \E all \in [Catalogs -> [Starts -> UNION {Arrangements(Len(tableFile[c])) : c \in Catalogs}]] :
          /\ \A c \in Catalogs, x \in Starts : all[c][x] \in Arrangements(Len(tableFile[c]))
          /\ lists = all
    /\ temp = [c \in Catalogs |-> Empty]
    /\ order \in Orders
    /\ lock = {}
    /\ tool = Stopped(order)
    /\ update = NoUpdate
    /\ edits = 0 /\ updates = 0 /\ crashes = 0 /\ runs = 0
    /\ disturbed = FALSE /\ mixed = FALSE /\ lost = {}

\* The names in a host table are also its addresses here.
Entries(names) == [i \in DOMAIN names |-> Host(names[i], names[i])]
Prio(names, ord) == Priorities(Entries(names), ord)

\* What is compared for some indices: their priorities, and behind the end of
\* the priority table whatever the memory holds.
Compared(indices, names, ord) ==
    LET beyond == indices \ DOMAIN names
    IN  {[i \in indices |-> IF i \in beyond THEN junk[i] ELSE ord[names[i]]] :
            junk \in [beyond -> {ord[n] : n \in Names}]}

Indices(list) == {list[k] : k \in DOMAIN list}

Cat == Databases[tool.k]

\* Mutant: the end of the list of databases is passed by one.
Advance_OffByOne(t) ==
    IF t.k > Len(Databases) THEN [Stopped(t.order) EXCEPT !.done = t.done]
    ELSE [t EXCEPT !.pc = "check", !.k = @ + 1]

\* The next catalog, or the end.
Advance(t) ==
    IF t.k = Len(Databases) THEN [Stopped(t.order) EXCEPT !.done = t.done]
    ELSE [t EXCEPT !.pc = "check", !.k = @ + 1]
-----------------------------------------------------------------------------
\* The administrator edits domain.order.
EditOrder ==
    /\ edits < MaxEdits
    /\ order' \in Orders \ {order}
    /\ edits' = edits + 1
    /\ UNCHANGED <<lists, temp, tableFile, lock, tool, update, updates, crashes, runs, history>>
-----------------------------------------------------------------------------
(***************************************************************************)
(* db_reorder                                                              *)
(***************************************************************************)
Leftovers == \E c \in Catalogs : temp[c] # Empty

\* read_domain_table, before the first catalog.
Run ==
    /\ tool.pc = "idle" /\ runs < MaxRuns
    /\ tool' = [Stopped(order) EXCEPT !.pc = "check"]
    /\ runs' = runs + 1
    /\ mixed' = (Leftovers /\ (mixed \/ order # tool.order))
    /\ UNCHANGED <<lists, temp, tableFile, order, lock, update, edits, updates, crashes, disturbed, lost>>

\* "An update process is underway, db_reorder cannot run at the same time":
\* a locked catalog is skipped.  No lock file is created.
CheckLock ==
    /\ tool.pc = "check"
    /\ tool' = IF Cat \in lock THEN Advance(tool) ELSE [tool EXCEPT !.pc = "open"]
    /\ UNCHANGED <<lists, temp, tableFile, order, lock, update, counters, history>>

\* open_start_dbs gives old_startdb a file name only if it has none yet.
OldFile == IF tool.old = None THEN Cat ELSE tool.old

Open ==
    /\ tool.pc = "open"
    /\ tool' = [tool EXCEPT !.pc = "sort", !.old = OldFile, !.table = tableFile[Cat],
                            !.keys = {x \in Starts : lists[OldFile][x] # <<>>},
                            !.left = {x \in Starts : temp[Cat][x] # <<>>}]
    /\ UNCHANGED <<lists, temp, tableFile, order, lock, update, counters, history>>

\* Mutant: the key's buffer is clobbered by the fetch of the list.
SortKey_Clobbered(x) ==
    /\ tool.pc = "sort" /\ x \in tool.keys
    /\ temp[Cat][x] = <<>>
    /\ \E y \in Starts : temp' = [temp EXCEPT ![Cat][y] = lists[tool.old][x]]
    /\ tool' = [tool EXCEPT !.keys = @ \ {x}]
    /\ UNCHANGED <<lists, tableFile, order, lock, update, counters, history>>

\* Mutant: the list is copied as it is.
SortKey_Unsorted(x) ==
    /\ tool.pc = "sort" /\ x \in tool.keys
    /\ temp[Cat][x] = <<>>
    /\ temp' = [temp EXCEPT ![Cat][x] = lists[tool.old][x]]
    /\ tool' = [tool EXCEPT !.keys = @ \ {x}]
    /\ UNCHANGED <<lists, tableFile, order, lock, update, counters, history>>

\* reorder_start_dbs, one key.
SortKey(x) ==
    /\ tool.pc = "sort" /\ x \in tool.keys
    /\ temp[Cat][x] = <<>>
    /\ LET list == lists[tool.old][x]
       IN  \E prio \in Compared(Indices(list), tool.table, tool.order) :
              \E new \in Sortings(list, prio) : temp' = [temp EXCEPT ![Cat][x] = new]
    /\ tool' = [tool EXCEPT !.keys = @ \ {x}]
    /\ UNCHANGED <<lists, tableFile, order, lock, update, counters, history>>

\* put_dbm_entry does not replace: a key that is already in the temporary
\* database ends the copying with an error, and main goes on.
KeyExists(x) ==
    /\ tool.pc = "sort" /\ x \in tool.keys
    /\ temp[Cat][x] # <<>>
    /\ tool' = [tool EXCEPT !.keys = {}]
    /\ UNCHANGED <<lists, temp, tableFile, order, lock, update, counters, history>>

\* Mutant: the last key is not waited for.
Truncate_Early ==
    /\ \/ tool.pc = "sort" /\ Cardinality(tool.keys) <= 1
       \/ tool.pc = "close"
    /\ tableFile' = [tableFile EXCEPT ![Cat] = <<>>]
    /\ tool' = [tool EXCEPT !.pc = IF tool.pc = "sort" THEN "write" ELSE "rewrite"]
    /\ UNCHANGED <<lists, temp, order, lock, update, counters, history>>

\* close_start_dbs of the old and of the new database: each empties the host
\* table by opening it for writing ...
Truncate ==
    /\ \/ tool.pc = "sort" /\ tool.keys = {}
       \/ tool.pc = "close"
    /\ tableFile' = [tableFile EXCEPT ![Cat] = <<>>]
    /\ tool' = [tool EXCEPT !.pc = IF tool.pc = "sort" THEN "write" ELSE "rewrite"]
    /\ UNCHANGED <<lists, temp, order, lock, update, counters, history>>

\* ... and writes it back as it was read.
WriteTable ==
    /\ tool.pc \in {"write", "rewrite"}
    /\ tableFile' = [tableFile EXCEPT ![Cat] = tool.table]
    /\ tool' = [tool EXCEPT !.pc = IF tool.pc = "write" THEN "close" ELSE "rename"]
    /\ UNCHANGED <<lists, temp, order, lock, update, counters, history>>

\* rename over the file that old_startdb names.
Rename ==
    /\ tool.pc = "rename"
    /\ lists' = [lists EXCEPT ![tool.old] = temp[Cat]]
    /\ temp' = [temp EXCEPT ![Cat] = Empty]
    /\ tool' = Advance([tool EXCEPT !.done = @ \cup {Cat}])
    /\ UNCHANGED <<tableFile, order, lock, update, counters, history>>

\* The keys that are certainly in the file of the temporary database: until it
\* is closed, those of an earlier run.
Flushed == IF tool.pc \in {"sort", "write", "close"} THEN tool.left ELSE Starts

\* The tool is killed.
Crash ==
    /\ tool.pc \notin {"idle", "check"} /\ crashes < MaxCrashes
    /\ \E kept \in SUBSET Starts :
          /\ Flushed \subseteq kept
          /\ temp' = [temp EXCEPT ![Cat] = [x \in Starts |-> IF x \in kept THEN @[x] ELSE <<>>]]
    /\ tool' = Stopped(tool.order)
    /\ crashes' = crashes + 1
    /\ lost' = IF tool.pc \in {"write", "rewrite"} THEN lost \cup {Cat} ELSE lost
    /\ UNCHANGED <<lists, tableFile, order, lock, update, edits, updates, runs, disturbed, mixed>>
-----------------------------------------------------------------------------
(***************************************************************************)
(* An update of a catalog, as AnonftpUpdate and StartDB have it            *)
(***************************************************************************)
BeginUpdate(c) ==
    /\ ~ Updating /\ updates < MaxUpdates
    /\ lock' = lock \cup {c}
    /\ update' = [catalog |-> c, table |-> tableFile[c], order |-> order]
    /\ updates' = updates + 1
    /\ disturbed' = (disturbed \/ tool.pc \notin {"idle", "check"} \/ Leftovers)
    /\ mixed' = (mixed \/ order # tool.order)
    /\ UNCHANGED <<lists, temp, tableFile, order, tool, edits, crashes, runs, lost>>

Position(table, n) == HostTableFind(Entries(table), n, n)

InsertHost(n, x) ==
    /\ Updating
    /\ LET table == IF Position(update.table, n) = NotFound
                      THEN Append(update.table, n) ELSE update.table
           i == Position(table, n)
           list == lists[update.catalog][x]
       IN  /\ update' = [update EXCEPT !.table = table]
           /\ \E prio \in Compared(Indices(list) \cup {i}, table, update.order) :
                 lists' = [lists EXCEPT ![update.catalog][x] = AddSite(list, i, prio)]
    /\ UNCHANGED <<temp, tableFile, order, lock, tool, counters, history>>

DeleteHost(n, x) ==
    /\ Updating
    /\ Position(update.table, n) # NotFound
    /\ lists' = [lists EXCEPT ![update.catalog][x] =
                    DeleteSite(@, Position(update.table, n))]
    /\ UNCHANGED <<temp, tableFile, order, lock, tool, update, counters, history>>

EndUpdate ==
    /\ Updating
    /\ tableFile' = [tableFile EXCEPT ![update.catalog] = update.table]
    /\ lock' = lock \ {update.catalog}
    /\ update' = NoUpdate
    /\ UNCHANGED <<lists, temp, order, tool, counters, history>>
-----------------------------------------------------------------------------
Next ==
    \/ EditOrder
    \/ Run \/ CheckLock \/ Open
    \/ \E x \in Starts : SortKey(x) \/ KeyExists(x)
    \/ Truncate \/ WriteTable \/ Rename \/ Crash
    \/ \E c \in Catalogs : BeginUpdate(c)
    \/ \E n \in Names, x \in Starts : InsertHost(n, x) \/ DeleteHost(n, x)
    \/ EndUpdate

Spec == Init /\ [][Next]_vars
-----------------------------------------------------------------------------
\* Every variable keeps its type.
TypeOK ==
    /\ lists \in [Catalogs -> [Starts -> Seq(Nat)]]
    /\ temp \in [Catalogs -> [Starts -> Seq(Nat)]]
    /\ tableFile \in [Catalogs -> Seq(Names)]
    /\ order \in Orders
    /\ lock \subseteq Catalogs
    /\ tool \in [pc : {"idle", "check", "open", "sort", "write", "close", "rewrite", "rename"},
                 k : DOMAIN Databases, old : Catalogs \cup {None}, order : Orders,
                 table : Seq(Names), keys : SUBSET Starts, left : SUBSET Starts,
                 done : SUBSET Catalogs]
    /\ update \in [catalog : Catalogs \cup {None}, table : Seq(Names), order : Orders]
    /\ disturbed \in BOOLEAN /\ mixed \in BOOLEAN
    /\ lost \subseteq Catalogs

\* "db_reorder must be run in order for changes to domain.order to take
\* effect": once a run has gone through, undisturbed by updates, the lists of
\* every catalog it did not skip are in the order it has read, after kills of
\* earlier runs too, and those an update under the same order extends later
\* stay so.  Not so where it found copies made under another order (they are
\* kept), and where a kill has left an empty host table.
Reordered ==
    tool.pc = "idle" /\ ~ disturbed /\ ~ mixed =>
        \A c \in tool.done \ lost : \A x \in Starts :
            LET table == IF update.catalog = c THEN update.table ELSE tableFile[c]
            IN  \A k \in DOMAIN lists[c][x] : lists[c][x][k] \in DOMAIN table
                /\ Ascending(lists[c][x], Prio(table, tool.order))

\* The step that puts the temporary database in place.
Renaming == tool.pc = "rename" /\ tool'.pc # "rename"

\* "For each string in the start_db database, db_reorder sorts the list of
\* associated hosts": undisturbed by an update, a run that finds no copies of a
\* killed one (which it would report) neither loses a host nor adds one,
\* whatever a kill has done to the host table.
SameHosts ==
    [][~ disturbed /\ tool.left = {} /\ Renaming =>
          \A c \in Catalogs, x \in Starts : SameEntries(lists'[c][x], lists[c][x])]_lists

\* Whatever a killed run has left in the temporary database, db_reorder never
\* lists a host under a string it was not listed under, as long as no update
\* comes between: it can lose entries, but not make up any.
NothingInvented ==
    [][~ disturbed /\ Renaming =>
          \A c \in Catalogs, x \in Starts :
              \A k \in DOMAIN lists'[c][x] : InList(lists[c][x], lists'[c][x][k])]_lists
=============================================================================
