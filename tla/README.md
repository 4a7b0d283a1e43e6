# Archie 3.5: specifications of the catalog's core

TLA+ modules, TLC configurations and TLAPS proofs for the part of Archie that
keeps a catalog right: the start database (which host has which string), the
programs that update it, repair it and reorder it, the files they share, the
cycle of phases that brings listings to it, the exchange of listings with other
servers, and the strings themselves with the index over them. Paths below are relative to `src/archie` unless they start with `src/`.

## 1. The system

Archie collects directory listings (catalog *anonftp*) and web pages (catalog
*webindex*) from sites, indexes the strings in them and answers searches. One
`arcontrol` process per phase (retrieve, parse, update) goes through a spool
directory and runs one child program per file; other Archie servers exchange
what they have collected through `arexchange` and `arserver`. Clients only read.

| component | code | state it keeps | operations | what makes it correct |
|---|---|---|---|---|
| start database | `lib/startdb` | dbm file string -> list of host-table indices; host-table file; priorities computed from `domain.order` | open, find/add/replace host, add/delete site in a list, close, reorder | no duplicates, no dangling index, unambiguous table, lists in priority order, indices that never change meaning |
| anonftp update | `anonftp/update` | lock file, input file, auxiliary host record, start database, host table, site file | lock, compare, insert/delete, rename, unlock, consume | mutual exclusion; all files agree after an update; interruption is marked; old data never replaces new; every input is worked off |
| repair | `tools/fix_start_db.c`, the manual | lock file, lists, host table | add what is missing | can be used after a crash; excludes updates |
| reorder | `tools/db_reorder.c` | start database, temporary database | sort all lists under a new `domain.order` | keeps every host; excludes updates; does all catalogs |
| host databases | `lib/hostdb` | primary host db, host address cache, auxiliary db (status, times, counts per site and catalog) | update, inactivate, activate, delete | cache and primary db are inverse; status tells the truth |
| arcontrol | `control` | spool directory, file suffixes, child processes | pre-process, run children, record failures | each file in one phase at a time; failures counted; sites given up after a limit |
| exchange | `exchange` | configuration with time and failure count per server | list, tuples, header, site transfer | nothing newer is missed; a failure is retried |
| strings index | `lib/archstridx`, `lib/patrie` | text, index over its first part, split, lock | append, build, search | an offset keeps its string; a string has one offset; a search finds what is there |
| search | `lib/archsearch` | none (reads the files above) | search, site and domain restriction | answers only what the lists hold |
| webindex | `webindex` | as anonftp, plus excerpts and a robot's queue | as anonftp | as anonftp |
| clients, gateways, tools, vendored libraries | `clients`, `ppc`, `access`, `lib/libparchie`, `tools`, `src/archie-support` | per session | formatting and I/O | - |

Interaction: programs share *files*, not memory. `arcontrol` waits for each
child, so within one `arcontrol` updates are sequential; two can meet when a
second `arcontrol`, a command-line `update_anonftp`, `db_reorder` or
`fix_start_db` runs. What separates them is the lock file `db/locks/anonftp`.
Clients read without a lock.

Hard behaviours, listed one by one under `hazards` in `PROJECT.json`: the
check-then-create lock; children that exit successfully after a failure; kills
between the writes of five files; a host table that is truncated before it is
written; readers with an older host table; insertion into lists sorted under
another `domain.order`; temporary files left by killed runs; files of a spool
directory that are renamed, copied and unlinked by name while another phase
looks for free names in it; error headers that wander between the phases; dates
that decide which sites another server is asked for, with two connections of
which either can break; strings that are appended, indexed and searched at the
same time by programs of which two hold offsets into a text that the third extends.

## 2. Plan

| order | module | composes | state |
|---|---|---|---|
| 1 | `StartLists`, `StartDB`, `SiteIndex` (abstract) | StartDB refines SiteIndex | done, proved |
| 2 | `AnonftpUpdate`, `SiteCatalog` (abstract) | AnonftpUpdate refines SiteCatalog | done, model-checked; every safety property proved, `NeverOlder` for one process |
| 2a | `CatalogSearch` | AnonftpUpdate + a search | done, model-checked and proved |
| 3 | `CatalogRepair` | AnonftpUpdate + fix_start_db + administrator | done, model-checked; its lock protocol proved |
| 4 | `DbReorder` | StartLists + updates + db_reorder | done, model-checked; types proved, the tool's promises for one database |
| 5 | `UpdateCycle` | arcontrol's phases + their programs + the host record | done, model-checked; every safety property proved |
| 6 | `Exchange` | arexchange + arserver + net_anonftp on both sides | done, model-checked; every safety property proved |
| 7 | `StringsIndex` | insertion + db_build + client on the files of `lib/archstridx` | done, model-checked; every safety property proved |

Abstract specifications: `SiteIndex`, what a start database is to its users, and
`SiteCatalog`, what an update of the catalog is to them; both refinements are
checked and proved. That a string has one offset for ever is
stated directly, as `OffsetsHold` and `OneOffset` of `StringsIndex`.

## 3. Modules and how they correspond to the code

### StartLists, StartDB, SiteIndex

`StartLists` holds the operators on data: `HostTableFind/Add/Replace`
(`host_table.c`), `AddSite`, `DeleteSite`, `InsertPos` (`update_start_dbs`,
`insert_in_list`), `Sortings` (`reorder_list`; `qsort` is not stable, so the
result is any arrangement in order), `Resolve` (what `orSitesForStarts` shows).
Address and name stand for the pairs with the port; a missing dbm entry is the
empty list; priorities are functions of the names.

`StartDB` is a catalog over its life. `lists` and `tableFile` are on disk,
`table`, `prio` and `sessOrder` in the memory of the writing process between
`OpenStartDbs` and `TruncateTable; WriteTable` (`close_start_dbs`). `client` is
the host table a reader holds. `effective` and `mixed` are history variables.
`MaxHosts` bounds the table.

`SiteIndex` is the abstract specification: a relation between strings and
hosts, changed only by adding or removing one pair. `StartDB!IndexSpec` states
that StartDB implements it under the mapping `Rel`.

### AnonftpUpdate, SiteCatalog, CatalogSearch

One step is the code between two accesses to shared files. A parent
(`update_anonftp`) and its child (`insert_anonftp` or `delete_anonftp`) are one
actor since the parent only waits. `proc[p].pc` names the place:

    idle -Begin-> wait -FindUnlocked-> create -CreateLock-> start
    insertion: start -> inactivate -> hostdb -> activate -> compare
               -> index* -> idx -> truncate -> write -> unlock
               -> consume -> reread (-> rewrite) -> idle
    deletion:  start -> host -> index* -> write -> unlink -> mark -> unlock
               -> flush -> consume -> idle

`index` does one `update_start_dbs` per string of `todo`, in any order (the code
takes them sorted). Lists and files of records are sets here: the order in a
list is StartDB's business, and a string that stands twice in a file is found
in the list the second time. `InsertFails`, `InsertExits`, `IndexRenameFails`,
`DeleteFails` and `DeleteMapFails` are the error paths that let the child exit with `A_OK`;
`Crash` kills parent, child or machine, and `Unflushed` gives the states a dbm
file that was not closed may have. Every kind is bounded (`MaxFailures`,
`MaxCrashes`).

Past its unlock a program still has the host record in hand. A deletion closes the host
databases only then, so its mark may get to the disk late (`CloseHostDbs`); an insertion reads
the record again, sets `fail_count` to 0 and writes the whole of it back (`Reread`,
`Rewrite`), which undoes what another update of the site has made of it in between.
`overlap` and `crossed` are history variables: the lock was created over an existing one; an
update had a site's record to write back while another update of that site was at work.

`SiteCatalog` is the abstract specification of an update. It knows the strings of each
site's file, the strings a search finds the site under, and the update under way; a
step begins an update, moves one string of its site the way of the new file, or
ends it, which needs the index to have exactly the new strings. `Spoil` is what a
catalog may do once it is marked: a call has failed, two updates ran at once, or
the lock file stands for an update that was killed (`Broken`). `AnonftpUpdate!CatalogSpec` states
the refinement: `Shown` goes by the host table of the running session (`Table`),
and an update lasts from the comparison of the files to the rename or the unlink
(`Changing`). The rest of an update (lock, host databases, truncation and writing of the host
table) is stuttering, so it must not change what the lists say. `Table` is the host table in the memory of
the running session, not the file: `CatalogSpec` is about the lists and the site files.

What a search sees is `CatalogSearch`: `client` is the host table that a search has read
(`OpenSearch`, at any time, without the lock), through which it looks up the lists as they are
(`Found`). The file is empty between the truncation and the writing of the host table
(`lib/startdb/host_table.c:130`), and a search that opens then finds nothing.
`SearchableThroughout` says that this is the only way: a search that has a site in its table goes
on finding it under every string that its old and its new file share, at any place of an update,
and one that opens while no table is being written has every site.

Left out: the strings index and `.idx` files, building the new site file
(`setup_insert`), primary host database and address cache, and `fail_count` itself
(UpdateCycle has it): every insertion may or may not have one to reset. The host databases are modelled
by the record; that two programs which write records on one dbm page can lose each other's is left
out. A site stands for one host, port and address, so address changes
are in StartDB only.

### CatalogRepair

Adds `fix_start_db` (`check_database`, `check_entry`) and the administrator's
two manual steps of `doc/manual/configure.tex`: `RemoveLock` and `Requeue`
(renaming a `_t` file back). `RepairFirst` selects whether the administrator
keeps to the manual's order. `FixLists` goes through all site files in one step;
`ListsRepairedAlone` is what justifies that, since no update runs then unless
the lock file was created twice.

### DbReorder

The loop of `db_reorder` over the catalogs with its own host table, temporary
database and rename, killed or not, and updates that add hosts at the same time.
`order` is what `domain.order` holds; the administrator may edit it at any time, and the tool and an
update read it when they start. Closing a start database empties the host table and writes it back,
twice in a run (`Truncate`, `WriteTable`); a kill in between leaves an empty table and no mark of it, and the
next run sorts by whatever lies behind the end of its priority table (`Compared`).
`tool.old` is the file name `old_startdb` remembers; `tool.left` the keys that a run has found in the
temporary database, where `put_dbm_entry` leaves them as they are. `disturbed`, `mixed` and `lost` are history
variables: an update has met a running tool or its copies, copies or an update have met another order, and the catalogs
whose table a kill has emptied. The two renames (`.dir`,
`.pag`) are one step; with the bundled Berkeley DB the file is a single `.db`,
which these renames would not touch at all, so the model is that of a classic
ndbm.

### UpdateCycle

One site's files in the holding directory and its host record, through the
three phases of `arcontrol` (`control/main.c`). A file is a name (suffix, number,
`_t` or not) and what is in it: a request, a listing, a deletion or an error
header, with the attempt it stems from and its time. `ctl[ph]` is the run of a
phase; `ctl[ph].pc` names the place:

    idle -Start-> next                         get_file_list
    next -Read-> rename -Rename-> unlink -Unlink-> next      preprocess_file, each file
    next -Read-> choose -ChooseName-> rename ...             fail_handle, an error header
    next -Read-> record -RecordFailure-> forget -Forget-> next   write_hostdb_failure
    next -Run-> the phase's program -> next    cntl_function, each prepared file
        retrieve: fetch -Fetch-> consume
        parse:    filter -Filter-> write -WriteParsed-> publish -Publish-> consume
        update:   apply -Apply/ApplyDeletion-> consume (-> reset)
    next -Finish-> idle

Faults: `ProgramFails`, `ParseFails`, `Kill`, the administrator's `Stop` (the
file `process.stop`) and its removal, and `Requeue`, by which the manual
(`doc/manual/configure.tex:755-775`, `doc/man/arcontrol.n:320-332`) has files with
the suffix `_t` renamed back. `sameName` is what the name service says of the
site; it differs from the name in the header when a failed site is to be given
up. `fetched`, `failed`, `settled`, `overlapped` and `replaced` are history variables: the
attempts that brought a listing, those recorded as failures since the last
success, those that reached the host record or update_anonftp, whether the
parse phase has ever run at the same time as another one, and the attempts whose outcome an error
header has replaced. That happens because the test for a free name (`access`, `control/main.c:904`)
and the rename (927) are two steps, between which a retrieval may take the name.

Abstractions: one site and catalog, and one request at a time, so retrievals run
one after the other; `maxcount` and the partial mode are left out; uncompress and
cat succeed; the parser writes its output in one step; what `write_hostdb_failure`
does to the names of a primary host record is reduced to recording the failure;
the steps inside `update_anonftp` are AnonftpUpdate's.

### Exchange

`arexchange` (`cl`) and the `arserver` of the other host (`sv`), with the
`net_anonftp` each of them runs, for one catalog of one server. `conn` is the
command connection with the requests and answers under way; `sv.ports` are the
data ports opened in this session, one for each transfer, with what their two
ends have done. `remote` and `local` are the two host databases as far as status
and retrieval time go, `spool` the files that arexchange has put into its holding
directory, `update_time` and `maxno` the entry in `arupdate.cf`.

| action | code |
|---|---|
| `StartRun`, `ReadTuples`, `Quit`, `Save` | `do_client` |
| `Listed`, `Listings` | `compose_tuples` |
| `Wanted`, `Taken`, `Max_date` | `process_tuples` |
| `AskSite`, `ReadPort`, `ReadError`, `ReadEnd`, `Dial`, `DialFails`, `NextSite`, `GiveUpSite` | `get_sites`, `get_info` |
| `Receive*` | `net_anonftp -I` and how `get_info` takes its exit status |
| `ListSites`, `OpenPort`, `ServerEnds` | `do_server` |
| `Accept`, `HeaderFails`, `Timeout`, `Send`, `SendBreaks` | `sendinfo`, `net_anonftp -O` |
| `LinkLost`, `ClientDies`, `ReceiveDies` | broken connections and kills |
| `RemoteUpdate`, `RemoteDeletion`, `LocalDeletion`, `Enter`, `Tick` | the update programs of both hosts, the clock |

`passed` and `slipped` are history variables: which listings a run that ended
regularly gave up or was never to ask for, and whether an answer may now stand
in the command connection that belongs to an earlier request.

Abstractions: the local record's own retrievals and a second `arexchange` at the
same time are left out; an empty host database is an empty list (the code answers
with an error, which also leaves the date alone); SIGPIPE is the step `WriteDies`.

### StringsIndex

The strings of one catalog. `text` is `Stridx.Strings`, `split` the number in
`Stridx.Split` (0 while the file is empty), `idx` how much of the text `Stridx.Index`
covers and whether it is exact; `ap` is the insertion with its cache of unindexed strings and its buffer
of the text (`pend`), `bd` is `db_build`, `se` a client. A string has two units of text, so that
a write can stop inside it; offsets count units, from 1 instead of 0.

| action | code |
|---|---|
| `CreateStrings`, `CreateSplit`, `CreateType` | `archCreateStrIdx`, `open_create` |
| `ReadSplit`, `OpenIndex` | `archOpenStrIdx`, `open_append`, `init_hash_table` |
| `AppendCached`, `AppendIndexed`, `AppendNew` | `archAppendKey`: its cache, its search in the index, `append_key` |
| `Publish`, `Close` | `insert_anonftp` after its last string; `archCloseStrIdx` and `exit()` |
| `Killed`, `WriteFails`, `ExitFailed` | a kill or a full disk, and what of the buffer it leaves |
| `BuildOpen`, `Install`, `TruncateSplit`, `WriteSplit` | `db_build`, `open_build`, `archBuildStrIdx`, `write_split` |
| `BuildText`, `BuildFails`, `BuildIndex` | `csort`'s loop over the text, its errors, `cmerge` |
| `OpenSearch`, `MapText`, `CloseSearch` | `open_search`, `load_unindexed_text` |

`published` are the pairs of string and offset that the site files and the start database
hold; `lost`, `torn` and `blind` are history variables: pairs whose string a kill dropped
from a buffer, whether a write has stopped inside a string, and whether an insertion has
opened an index that is not exact.

`csort` (`lib/patrie/sort.c:473-580`) reads the text in runs until there is no more. If strings
are appended while it sorts, it goes on with a run that begins where the text ended before, gives it starts as if the
run before had been a full one (251), and compares it with runs whose text is read again and has grown
(532-546). `BuildText` is one round of that loop, or several up to the end of the text; from
the second on the index is not exact. Such an index may miss any string (`MayMiss`), but finds
no other one for it, because what a search for a whole string finds is compared with the
text (`MayFind`); and the build may end without an index (`BuildFails`).

Abstractions: an exact index finds exactly the whole strings in the text it covers, and
perhaps one whose beginning alone was there when it was built; how the PATRICIA
tree and its levels do so is left out, as are substring and regular-expression searches. One
insertion runs at a time (the lock file of `AnonftpUpdate`), and one `db_build`.

## 4. Runs

| run | question | bounds | result |
|---|---|---|---|
| `start_lists` | do lists, table, priorities and clients agree; is SiteIndex implemented | 3 addresses (symmetric), 3 names of 3 priorities, 1 string, 2 orders | holds |
| `update_serial` | one process and a search: do the files agree after each update, what does a kill or a failing call leave, what does a search find meanwhile; is SiteCatalog implemented | 1 kill, 1 failing call, 2 sites, 3 strings, 3 insertions, 1 deletion | holds |
| `update_pair` | does the lock exclude when it is not raced for, does it always stand for unfinished work, does the record tell whether there is a file | 2 processes, 1 kill, 1 failing call, an insertion and a deletion of one site | holds |
| `repair_recovery` | does every update end, is an interrupted update made good, is fix_start_db alone while it is at the lists | 1 kill, 1 failing call, 1 fix_start_db after the kill, 2 insertions (one without data) | holds |
| `reorder_runs` | is one catalog reordered, nothing lost, nothing invented | 2 runs, 1 kill, 1 edit of domain.order, 1 update of any additions and deletions, all arrangements of the lists of up to two hosts | holds |
| `cycle_phases` | do listings and error headers survive the phases, does fail_count count, does every attempt come to an end | 2 numbers per kind of name, 2 events (requests, kills, failing programs, stop files), name still good or not | holds |
| `exchange_sites` | is a site skipped, do requests and answers stay in step, does the date go back, do runs end, is everything fetched | 3 sites, maxno 0 and 2, 2 readings of the clock, 1 event | holds |
| `strings_offsets` | does an offset keep its string, has a string one offset, does a search find it, does every string come to be indexed | 2 strings, offsets up to 6, 2 insertions, 1 kill or short write | holds |
| `update_race` | mutual exclusion by the lock file | 2 processes | violated |
| `update_older` | old data does not replace new, with two processes | 2 processes | violated |
| `repair_unlock` | no update while fix_start_db works | 1 update, 1 fix_start_db | violated |
| `reorder_default` | db_reorder with its default list of catalogs | 2 catalogs, 1 run | violated |

Why the bounds are enough. The list operations depend on comparisons between
one index and its neighbours; three hosts with priorities before, at and after
the default give every relative position, including equal ones through the two
orders. Lists under different strings do not interact in StartDB, so one string
is enough there (the proofs cover any number). In AnonftpUpdate two strings
make files that overlap, contain one another and are disjoint; two sites show
whether one update disturbs another's indices. The third process that could wait
for a lock adds nothing the second does not.
In UpdateCycle two numbers stand for the hundred: a free name may or may not be
the first one tried, and all names of a kind may be taken. Two events are what a
loss needs (one file that is left behind, and one that meets it);
with three (6.0 million states) the invariants hold as well. In Exchange
three sites with maxno 2 give lists shorter than, as long as and longer than the
limit, with equal times at the cut; with two events (2.1 million states), and with
two sites, three readings of the clock and two further faults (9 million), the
invariants hold as well. In StringsIndex the offsets 2, 4 and 6 leave room for both strings and for one that
is entered again; a string may be new, cached or indexed, and a new index may come at
each place of an insertion, and strings come while the index is built; a write that stops leaves half a string that the next
insertion meets. With three insertions (12.1 million states) the invariants hold as well.
`CHECK_DEADLOCK FALSE` stands where the system may rest: after a kill the lock
file remains and nothing is left to do without an administrator, and `db_reorder`
is run a bounded number of times, the events of UpdateCycle and Exchange run out.

## 5. Fairness

`WF(Step(p))`: a running program goes on (in CatalogRepair, where `UpdatesEnd` and `AllWorkedOff` are checked). There also, `SF` of taking an input file:
`arcontrol` goes through every file of its directory each time it runs, so a file
that is ready again and again is taken; and `SF` of `RemoveLock`
and `Requeue` says that the administrator does what the manual asks for. No
fairness is assumed of arrivals, failures, kills, or of readers.

In UpdateCycle `WF(PhaseStep(ph))`: cron starts every phase again and again and
its programs go on; `WF(Resume)`, `SF(RequeueAny)`: the administrator removes
`process.stop` in the end, and gives files left with `_t` their names back when
nothing runs. In Exchange `WF(StartRun)`: cron; `WF(Client)`, `WF(Server)`: the
two programs go on. That says nothing of a program that waits for what nobody
will write: `RunsEnd` and `Fetched` exempt the two ways to hang (`Hung`). In StringsIndex
`WF(Build)`: cron starts `db_build -f` again and again, and it comes to its end;
nothing is assumed of insertions and clients. An exact index needs a build during which nothing is appended;
that there is one in the end is not assumed as fairness, but comes from the bound on insertions. With insertions
without end, each of which appends during a build, no index need ever be exact.

`AllWorkedOff` holds only with those administrator's steps: nothing in the code
removes a stale lock file.

## 6. Proofs

`StartLists_proof` proves what the list and table operators do, for lists and
tables of any length: `FindProperties`, `InsertProperties`, `AddSiteProperties`
(contents, distinctness), `AddSiteAscending` (order), `DeleteSiteProperties`,
`SortingsProperties`.

`StartDB_proof` proves, for any sets of addresses, names, strings and orders
and any bound below 2^15, that `Spec` implies always `TypeOK`, `NoDuplicates`,
`IndicesKnown`, `HostsUnique`, `PrioritiesCurrent`, `Sorted`, `ClientSound`, that `IndexStable` and `UpdatesExact` hold of every
step, and that StartDB implements SiteIndex (`Refinement`). All rest on one
inductive invariant `IInv`: none of these properties is inductive alone. A list
stays sorted only if the priorities in memory are those of the table
(`PrioritiesCurrent`), indices stay known only if the table in memory extends
the one on disk, a client is right only if its table agrees in names with the
current one on the indices they share, and an address change keeps entries
apart only because its new address is nobody's.

Assumptions: `OrdersAssumption` (priorities are integers), `MaxHostsAssumption`.

`AnonftpUpdate_proof` proves, for any numbers of processes, sites, strings, input
files, kills and failing calls:

- `UpdateTypeCorrect` (`TypeOK`), by the invariant `TypeInv`: an index entered
  into a list is one of the session's host table, because `Compare` and
  `DeleteHost` let a process into `index` only if its site is there (`IndexFound`);
  what an unclosed database leaves is well formed again.
- `LockExcludesUpdates` (`LockExcludes`): without a second `fopen` of an existing
  lock file, no two processes update at once. The invariant `Excluded` adds that
  whoever updates has the lock file behind it, so that a process which finds none
  finds nobody.
- `LockMarksInput` (`LockHasInput`): a lock file never outlives the work it stands
  for, even if it was raced for. The invariant says more (`LockOwned`): there is an
  input file that no waiting process, and none past its unlock, could unlink.
  It rests on `JobsTaken`, each process having an input file of its own.
- `InterruptionsAreMarked` (`InterruptedIsMarked`), by `CatalogInv`. A catalog that agrees is not enough: the invariant says how far the
  update under way has come (`CatalogOf`), for its own site and for all others. While
  lists are changed, each string is still to be added and new, or still to be removed and old, or as it will
  be (`HalfDone`); in other places the lists go with the old file, or with the new
  one, or are emptied. Which host table the lists go with also depends on the place (`TableOf`), since an
  update writes its table back last. `Sound` says that no site has two entries in it: with two,
  a removal would miss one.
- `SearchesGoOn` (`SearchableThroughout`), of `SearchSpec`. `ClientInv` says that what a search has
  read is the beginning of the table that the lists go with (`Begins`), an empty one included: tables only
  grow at the end. So a site the search knows has the same index in both (`FoundAsListed`), and
  `CatalogInv` says what the lists have.
- `UpdatesImplementCatalog` (`CatalogSpec`): the updates implement `SiteCatalog`, step by step.
  `ViewInv`, which `CatalogInv` implies, gives `SiteCatalog`'s variables in terms of the one process that updates;
  with it a step of any other process, or one away from the lists, is a stutter
  (`OutsideStep`, `AwayStep`, `BusyStep`), `Compare` and `DeleteHost` begin an update, each `UpdateList`
  changes one string, and the rename or unlink ends it (`ChildRefines`). `BrokenStays` says that a
  catalog once marked stays so: a killed update's lock file is not taken over by
  another update without creating it a second time.
- `ActiveHasItsFile` (`ActiveHasFile`) by `RecordInv`: the record of a site that is updated is as far as the
  place of the update says (`RecordOf`), and the record that is still in the hands of a process past its unlock is
  what stands on the disk, or what should (`HeldOf`). The latter stays true because, as long as nothing has
  crossed, nobody updates that site.
- `NeverOlderAlone` (`NeverOlder`) for one process. The age of an input file
  is compared when it is taken, before the lock, and its times are stored
  later; `NotStale` says that nothing comes between. With two processes
  another update does come between (`update_older` shows it; the runs' `NeverOlder` is checked where
  the updates are serial), so that the theorem has the hypothesis that there is one.
- `RepairsLeaveExclusion` (`LockExcludes`) and `RepairAlone` (`ListsRepairedAlone`), for `RepairSpec`: the
  lock protocol with `fix_start_db` and the administrator in it. `Guarded` puts `fix_start_db` beside the updates, from its
  `open_start_dbs` to its unlock, as one more holder of the lock file. `LockHasInput` does not carry over, since
  the lock file of `fix_start_db` stands for no input file.

`WorkingLock` carries all of the lock part over the steps of the children and
their failures at once (`ChildWorks`); the steps that touch the lock, the input
files or the idle state are treated one by one (`ParentLock`). Assumptions:
`NoJobAssumption`, `BoundsAssumption`, `InputsAssumption`. `LeastNumber` holds the
least-number principle that both proof modules use for the search loops.

`UpdateCycle_proof` proves, for any number of names, events and answers of the
name service:

- `CycleTypeCorrect` (`TypeOK`), from `StepType`.
- `CycleLosesNothing` (`NothingLost`). Neither a directory that holds the listing nor
  a run that has it in memory is enough by itself: a listing is in a file that
  the run under way will not unlink or overwrite before it is in another one. So the invariant says
  which names a run works on (`RunInv`) and, as long as the parse phase has not
  coincided with another (`KeptInv`), that every listing fetched is covered by a
  file that is *safe* from the runs under way, or settled, or replaced by an error header after its name was chosen; that files of later
  stages are not newer than what they may replace (`StageOrder`); and for each
  place of each phase what the file in hand and its copy are (`RetrOK`, `ParseOK`,
  `UpdateOK`). One lemma for each kind of change of the directory carries `FilesOK`,
  one for each phase carries the rest.

- `CycleCountsOnce` (`FailsSuccessive`). A failure is counted when its error header is read, but a
  header exists in several files, and in the memory of a run, while it is passed on. `Unique` says that an
  attempt has one copy that is still to be worked on (a file that nobody is about to unlink, or the
  header a run has read), and none once it is recorded. A listing whose
  parser fails becomes an error header as well: there is no other of that attempt, because until then no attempt
  has both (`Versions`), and because the parse phase is given no error headers (`Inputs`). Here
  it does not matter how the phases overlap.

Assumptions: `AnswersAssumption`, `BoundsAssumption`.

`Exchange_proof` proves, for any sites, limits, frequencies and bounds:

- `ExchangeTypeCorrect` and `ExchangeDateForward`, by `TypeInv`. A date that is set
  comes from a list, so the invariant follows it back to the request: while the
  list is awaited there is at most one message under way, it is for the date that
  is stored now, and a list has only later times (`Listing`); from then on the coming
  date is not before the stored one (`Fetching`).
- `ExchangeSkipsNothing` (`NothingSkipped`), by `Accounted`: what the stored date has passed is here or
  recorded (`Stored`); a list contains every listing that it would let the date
  pass, though the other server's database changes after it was made (`Offered`); what the
  coming date passes is here, still to be asked for, or given up (`Planned`); and
  what was sent over a port is at least what is offered (`Sent`).
- `ExchangeInStep` (`InStep`), by `InSync`: one request is under way at a time. When the
  client asks, dials or receives, nothing is; while it waits for the answer, either nothing is left (the
  connection broke), or the request for its present site is with the server, or the answer is with the
  client and names a port that was opened for that site.

Assumptions: `SitesAssumption`, `NumbersAssumption`, `FirstsAssumption`. The
invariants were checked by TLC before they were proved.

`StringsIndex_proof` proves, for any strings and bounds, any number of insertions,
builds, searches, kills and short writes:

- `StringsTypeCorrect` (`TypeOK`).
- `StringsOffsetsHold` (`OffsetsHold`). The text alone is not enough, since an offset is given out while its
  string is still in memory. What stays is the text with the buffer behind it
  (`Flushed`): the steps of an insertion move strings from the one to the other and append to the
  end. `InsertionInv` says that every offset of the cache or in use is read
  there, that the next offset is the one behind it, and that the
  buffer never holds more than one string (`Buffered`), which bounds what a kill can take.
- `StringsSearchFinds` (`SearchFinds`). `CoverInv`: no split reaches beyond the index
  that goes with it, neither on disk, nor in a build once it has read, nor in a client, because the build takes the split
  before it reads the text. What the index finds below its end is all there is only if it is exact, which the
  property asks of the client's. `BoundaryInv`: as long as no write was torn, every split
  lies behind a separator; otherwise a string could lie across it and be found
  on neither side.

- `StringsOneOffset` (`OneOffset`), by `OnceInv`: as long as no write was torn and no insertion was blind, a string is
  read at one place of `Flushed` at most, and an insertion that is open finds every string either below its
  index's end or in its cache. That is so with an old split and a new index as well, because
  the split lies behind a separator and within any index that comes after it (`LoadInv`).

No assumption is needed. The invariant `IInv` was checked by TLC on the instance of
the run.

`DbReorder_proof` proves, for any hosts, strings, orders, updates, kills and runs of the tool:

- `ReorderTypeCorrect` (`TypeOK`), for any list of databases.
- `OneIsReordered` (`Reordered`), `OneKeepsHosts` (`SameHosts`) and `OneInventsNothing`
  (`NothingInvented`), for one database (`Len(Databases) = 1`). `OneInv` says that, undisturbed, the tool and
  an update are never at the same catalog, and no update finds copies (`Apart`); that copies only have what their
  lists have, and lists only indices of the table they go with (`InRange`), which is the tool's while the file is being written (`TableOf`);
  that copies are sorted by the order of the last run, be it killed, as long as no other order has come into it (`InOrder`);
  and, if the run has found nothing, how far the copying has come (`Copied`).

That there is one database is no convenience: with several, the tool reads the first
one's lists for all of them and renames every copy over the first one (`old_startdb`), and the three
properties are false; `reorder_default` shows it for `Reordered`. Assumptions: `DatabasesAssumption`,
`NoneAssumption`, `OrdersAssumption`, `TablesAssumption`.

Only model-checked: liveness
(`UpdatesEnd`, `AllWorkedOff`, `AttemptsSettle`, `RunsEnd`, `Fetched`, `IndexedInTheEnd`) is beyond the
prover and stays with TLC.

## 7. What the runs show about the code

Entries of `findings`, with the line and the quoted statement:

1. The lock file can be taken twice (`update_race`).
2. The age of an input file is tested before the lock, not after it (`update_older`).
3. `fix_start_db` drops its lock before its last write (`repair_unlock`).
4. `db_reorder` without `-d` reorders only the first catalog, by another catalog's hosts (`reorder_default`).

Some properties are stated for less than the documentation promises, because
the code keeps them only that far. Changing one constant or dropping one guard
shows what lies beyond:

- `Sorted` has the guard `~ mixed`: between an edit of `domain.order` and the
  next `db_reorder`, `insert_in_list` inserts by the new order into lists of the
  old one and a list ends up in neither (`doc/man/db_reorder.n:43`,
  `doc/manual/db.tex:129`).
- `InterruptedIsMarked` (the files agree unless there is a lock file that no running update has made) has the guards
  `~ overlap` (no lock file was created over another one) and `failures = 0`, as have
  `SearchableThroughout`, `CatalogSpec`, and, with
  `crashes = 0`, `ActiveHasFile` and `NeverOlder`. `NeverOlder` is checked with one process; with two, `update_older` violates it. After a failing call it is violated: `insert_anonftp` changes the lists
  before it renames the site file, and after a failing `open_start_dbs` it
  writes an empty host table (against `doc/man/insert_anonftp.n:61`, "Error
  conditions ... are also detected before the anonftp database is modified").
- `SearchableThroughout` is about searches that have the site in their host table: one that opens while the file is
  truncated and not yet written (`lib/startdb/host_table.c:130`) finds nothing.
- `ActiveHasFile` has the guard `~ crossed`: an insertion writes the whole record of its site back after
  it has given the lock away (`anonftp/update/update_anonftp.c:743-783`), and a deletion closes the host databases after it has (610-612), so that
  the status a next update has set meanwhile is undone.
- `CatalogSpec` is stated without repairs. After a kill and one (under `RepairSpec`) re-inserting a site does not repair its lists: strings of both the old and the new
  file are left alone (against `doc/manual/faq.tex:327`).
- `AllWorkedOff` needs `RepairFirst = FALSE`: with the manual's order (repair,
  then remove the lock file, `doc/manual/configure.tex:764`) nothing ever
  happens, because `fix_start_db` does not run while the lock file exists
  (`tools/fix_start_db.c:446`).
- `SameHosts` is about runs that find no copies of a killed one: those end the next run's copying early
  (`lib/startdb/reorder.c:81`), and what was not copied yet is lost. `Reordered` has the guard `~ mixed`: copies made under an older
  `domain.order` are kept as they are; and it leaves out the catalogs whose host table a kill has emptied (`lost`). All three have the guard `~ disturbed`: since `db_reorder` does not hold the lock it
  looks for (`tools/db_reorder.c:268`), an update that begins later is undone.
- `NothingLost` has the guard `~ overlapped`. When a parse phase runs at the same
  time as another, listings are lost: the original is unlinked by its name
  (`control/main.c:935`), under which the other phase may have put a newer file, and a
  retrieval always takes the name `host-db_0.parse`, over a listing that nobody has parsed yet.
  `arcontrol -r` run in "any number of copies" (`doc/manual/configure.tex:705`) can
  also take one file twice.
  It exempts `replaced` as well: the name of an error header is tested (`control/main.c:904`) before the header is
  renamed to it (927), and a listing that a retrieval has put there in between is replaced, though no parse phase runs.
- `AttemptsSettle` exempts the same two, and the error header of a site whose name is still good: it goes from
  `.update` to `.parse` and back for ever (`control/main.c:902`).
- `FailsSuccessive` is for runs without kills and with one failing program:
  a kill between the record and the unlink counts a failure twice, and so does a
  listing that fails to parse again. The state DEL_BY_ARCHIE is set on the header after the record was
  made from it (`control/main.c:1530`) and so never stored: sites are not given up
  after MAX_FAIL failures. A failure recorded late, after a newer success, makes an
  active site inactive with the failure's time; and since that time is used in the exchange,
  other servers take the old data as new.
- `NothingSkipped` exempts `passed`: a site whose transfer failed is not asked for
  again, because the date moves on (`exchange/client.c:943`; nobody looks at
  `get_info`'s result and the failure counter changes nothing, against
  `doc/manual/configure.tex:601`), nor is one beyond `<max no>` with the very time of
  the last one taken, or one that is entered with an older time after a run
  (against `doc/manual/configure.tex:659-671`).
- `InStep` has the guard `~ slipped`: an error that is written between two answers
  is taken for the answer to the next request, and from then on each site is
  received as the answer for its successor.
- `RunsEnd` exempts `Hung`: the client's child waits without a timeout for a header
  when the server has failed after accepting, or has stopped waiting without closing
  its socket.
- Deletions hardly travel: once delete_anonftp has been here the site's file is gone, and the header sent
  for it says FAIL; only in between, with the status DEL_BY_ADMIN, a deletion is sent.
- `OffsetsHold` exempts `lost`: the lists and the site file get a string's offset before the
  string is written (`anonftp/update/insert_anonftp.c:741-785`), so that a kill in between, or a full disk at the close, whose result
  nobody looks at, leaves offsets of nothing; the next new string takes them.
- `SearchFinds` is about clients with an exact index, `OneOffset` has the guard `~ blind`: strings that are appended while
  `csort` is at work get wrong starts and disturb those of the runs before (`lib/patrie/sort.c:473-580`, 251), so that the index can
  miss strings, which the next insertion appends once more. It is `db_build`'s next run that makes up for it, if nothing is appended then.
- `SearchFinds` does not ask for a string that was glued to the piece a torn write has left.
- `OneOffset` has the guard `~ torn`: a write that stopped inside a string leaves a line of
  another string, and the string is appended again. Insertions fail altogether at a last line without a separator
  (`get_key`) until `db_build` has put the split behind it.
- `IndexedInTheEnd` exempts an empty split file, and files that are not all there or complete (a kill while
  `open_create` makes them, an empty `Stridx.Type` included). `db_build` opens it for writing, which
  empties it, before it writes; killed there, it leaves files that nobody can open
  again, `db_build` included. Even without a kill an insertion that reads the
  split at that moment ends with an error, because it reads before it takes the lock
  (`lib/archstridx/api.c`, `open_append`).
- The index does not have exactly the first n characters, n being the number in
  `Stridx.Split`, as the comments have it (`lib/archstridx/api.c:9-12`): strings appended during a build are
  indexed and lie behind the split, where a search finds them a second time.

## 8. Not modelled

See the components of status `not_modelled` in `PROJECT.json`, and the notes of
the partly modelled ones. In short: text processing (parsers, formatters,
clients), protocol gateways around a vendored library, the PATRICIA builder and
vendored code, which make up most of the lines; the primary host database with
its address cache; webindex, whose update is the program modelled in AnonftpUpdate
and whose robot is not; `arretrieve`, forced hosts (`FORCE_UPDATE`) and several
servers in one exchange. Of the strings index, the structure of the tree, what exactly an index built over a growing text has wrong, its
searches, and two `db_build` at once, which would share the name of the new index.
Also left out are the primary host record that is written before the address cache, `uncompress`
and its temporary files, and the 16 bits of a host-table index (the proofs
assume fewer hosts).

`lib/hostdb/host_inter.c` at this commit calls `handle_paddr_mismatch`, whose head is
missing: its body stands under the name `handle_cname_mismatch` (585-678).
StartDB models that body.
