---------------------------- MODULE AnonftpUpdate ----------------------------
(***************************************************************************)
(* Updating the anonftp catalog: update_anonftp takes an input file, checks *)
(* that it is not stale, takes the catalog's lock file and runs             *)
(* insert_anonftp or delete_anonftp as a child, which change the auxiliary  *)
(* host database, the start database, its host table and the site file.     *)
(*                                                                         *)
(* One step is the code between two accesses to shared files.  A process   *)
(* and its child are one actor: the parent only waits.  The order inside a *)
(* string's list is the business of StartDB, so a list is a set here, and   *)
(* so is a file of records; a site stands for one host, port and address.  *)
(*                                                                         *)
(* Left out: the strings index, the .idx file, the primary host database   *)
(* and the failure count of the auxiliary one.                             *)
(***************************************************************************)
EXTENDS Naturals, Sequences

CONSTANTS
    Procs,          \* processes that may run update_anonftp
    Sites,
    Starts,         \* strings, as offsets in the strings file
    Inputs,         \* input files: records [site, time, del, recs]
    NoJob,          \* the job of an idle process
    MaxCrashes,     \* bound: kills of an update or of the machine
    MaxFailures     \* bound: calls that fail and let the child exit A_OK

MAX_UTRIES == 2
NoRec == [status |-> "none", time |-> 0]
NoFile == {}
Idle == [pc |-> "idle", job |-> NoJob, tries |-> 0, table |-> <<>>, todo |-> {},
         opened |-> [lists |-> [x \in Starts |-> {}], rec |-> NoRec]]

Statuses == {"active", "inactive", "deleted"}
Ops == [op : {"add", "del"}, start : Starts]

ASSUME NoJobAssumption == NoJob \notin Inputs

ASSUME BoundsAssumption == MaxCrashes \in Nat /\ MaxFailures \in Nat

\* recs are the strings of the file's records, del its DEL_BY_... status.
ASSUME InputsAssumption ==
    \A in \in Inputs : /\ in.site \in Sites
                       /\ in.time \in Nat
                       /\ in.del \in BOOLEAN
                       /\ in.recs \subseteq Starts

VARIABLES
    inputs,     \* input files: gone, ready, or taken (suffix _t)
    lock,       \* db/locks/anonftp exists
    aux,        \* the site's record in the auxiliary host database
    lists,      \* start database: string -> set of host-table indices
    tableFile,  \* host-table file: sequence of sites
    siteFile,   \* the site's data file: set of strings
    proc,       \* the processes
    crashes, failures,
    overlap,    \* history: the lock file was created although it existed
    crossed     \* history: an update ran while another one, past its unlock, had
                \* the same record of its site to write back

vars == <<inputs, lock, aux, lists, tableFile, siteFile, proc, crashes, failures,
          overlap, crossed>>
catalog == <<lists, tableFile, siteFile>>
faults == <<crashes, failures, overlap, crossed>>

\* host_table_find and host_table_add for sites of fixed name and address.
Find(tab, s) == {i \in DOMAIN tab : tab[i] = s}
Index(tab, s) == CHOOSE i \in Find(tab, s) : \A j \in Find(tab, s) : i <= j
WithSite(tab, s) == IF Find(tab, s) = {} THEN Append(tab, s) ELSE tab

Init ==
    /\ inputs = [in \in Inputs |-> "gone"]
    /\ lock = FALSE
    /\ aux = [s \in Sites |-> NoRec]
    /\ lists = [x \in Starts |-> {}]
    /\ tableFile = <<>>
    /\ siteFile = [s \in Sites |-> NoFile]
    /\ proc = [p \in Procs |-> Idle]
    /\ crashes = 0
    /\ failures = 0
    /\ overlap = FALSE
    /\ crossed = FALSE

At(p, pc) == proc[p].pc = pc
Job(p) == proc[p].job
Site(p) == proc[p].job.site
Goto(p, pc) == proc' = [proc EXCEPT ![p].pc = pc]

\* The part of an update the lock file is there for: from its creation to
\* its removal.
Updating(p) ==
    proc[p].pc \notin {"idle", "wait", "create", "flush", "consume", "reread", "rewrite"}

\* The site's record on disk may not be what the update makes of it yet.
Unsettled(p) == Updating(p) \/ At(p, "flush")

\* The lock file is gone; the site's record has been read, and will be written.
WritesBack(p) == At(p, "flush") \/ At(p, "rewrite")
-----------------------------------------------------------------------------
(***************************************************************************)
(* update_anonftp                                                          *)
(***************************************************************************)
\* An earlier phase of the cycle leaves an input file in the incoming
\* directory.
Arrive(in) ==
    /\ inputs[in] = "gone"
    /\ inputs' = [inputs EXCEPT ![in] = "ready"]
    /\ UNCHANGED <<lock, aux, catalog, proc, faults>>

Stale(in) == ~ in.del /\ in.time < aux[in.site].time

\* Mutant: the header's time is not compared.
Begin_Unchecked(p, in) ==
    /\ At(p, "idle")
    /\ inputs[in] = "ready"
    /\ inputs' = [inputs EXCEPT ![in] = "taken"]
    /\ proc' = [proc EXCEPT ![p] = [Idle EXCEPT !.pc = "wait", !.job = in]]
    /\ UNCHANGED <<lock, aux, catalog, faults>>

\* Mutant: a stale file is left where it is.
Begin_StaleKept(p, in) ==
    /\ At(p, "idle")
    /\ inputs[in] = "ready" /\ ~ Stale(in)
    /\ inputs' = [inputs EXCEPT ![in] = "taken"]
    /\ proc' = [proc EXCEPT ![p] = [Idle EXCEPT !.pc = "wait", !.job = in]]
    /\ UNCHANGED <<lock, aux, catalog, faults>>

\* Read the header and the host's record; a stale file is unlinked, which
\* happens before the lock is asked for.
Begin(p, in) ==
    /\ At(p, "idle")
    /\ inputs[in] = "ready"
    /\ IF Stale(in)
         THEN /\ inputs' = [inputs EXCEPT ![in] = "gone"]
              /\ UNCHANGED proc
         ELSE /\ inputs' = [inputs EXCEPT ![in] = "taken"]
              /\ proc' = [proc EXCEPT ![p] = [Idle EXCEPT !.pc = "wait", !.job = in]]
    /\ UNCHANGED <<lock, aux, catalog, faults>>

\* Mutant: one try too many.
FindLocked_OffByOne(p) ==
    /\ At(p, "wait") /\ lock /\ proc[p].tries <= MAX_UTRIES
    /\ proc' = [proc EXCEPT ![p].tries = @ + 1]
    /\ UNCHANGED <<inputs, lock, aux, catalog, faults>>

\* Mutant: the tries are not counted.
FindLocked_Uncounted(p) ==
    /\ At(p, "wait") /\ lock /\ proc[p].tries < MAX_UTRIES
    /\ UNCHANGED vars

\* access() finds the lock file: mail, sleep a minute, try again.
FindLocked(p) ==
    /\ At(p, "wait") /\ lock /\ proc[p].tries < MAX_UTRIES
    /\ proc' = [proc EXCEPT ![p].tries = @ + 1]
    /\ UNCHANGED <<inputs, lock, aux, catalog, faults>>

\* exit(ERROR) after MAX_UTRIES: the input file stays behind.
GiveUp(p) ==
    /\ At(p, "wait") /\ proc[p].tries = MAX_UTRIES
    /\ proc' = [proc EXCEPT ![p] = Idle]
    /\ UNCHANGED <<inputs, lock, aux, catalog, faults>>

\* access() finds no lock file; the count of the tries is not used any more.
FindUnlocked(p) ==
    /\ At(p, "wait") /\ ~ lock /\ proc[p].tries < MAX_UTRIES
    /\ proc' = [proc EXCEPT ![p].pc = "create", ![p].tries = 0]
    /\ UNCHANGED <<inputs, lock, aux, catalog, faults>>

\* fopen(lock_file, "w") succeeds whether the file exists or not; then the
\* child is started.
CreateLock(p) ==
    /\ At(p, "create")
    /\ lock' = TRUE
    /\ overlap' = (overlap \/ lock)
    /\ crossed' = (crossed \/ \E q \in Procs : WritesBack(q) /\ Site(q) = Site(p))
    /\ Goto(p, "start")
    /\ UNCHANGED <<inputs, aux, catalog, crashes, failures>>

Deleted(rec) == [rec EXCEPT !.status = "deleted"]

\* After delete_anonftp: the record, if there is one, becomes DELETED.  It gets
\* to the disk now or, buffered by the dbm library, when the host databases
\* are closed, which is after the unlock.
MarkDeleted(p) ==
    /\ At(p, "mark")
    /\ \E buffered \in {aux[Site(p)], NoRec} :
          /\ aux' = IF buffered # NoRec \/ aux[Site(p)] = NoRec THEN aux
                    ELSE [aux EXCEPT ![Site(p)] = Deleted(@)]
          /\ proc' = [proc EXCEPT ![p].pc = "unlock", ![p].opened.rec = buffered]
    /\ UNCHANGED <<inputs, lock, catalog, faults>>

\* Mutant: the lock file is not removed.
Unlock_Forgotten(p) ==
    /\ At(p, "unlock")
    /\ Goto(p, IF Job(p).del THEN "flush" ELSE "consume")
    /\ UNCHANGED <<inputs, lock, aux, catalog, faults>>

Unlock(p) ==
    /\ At(p, "unlock")
    /\ lock' = FALSE
    /\ Goto(p, IF Job(p).del THEN "flush" ELSE "consume")
    /\ UNCHANGED <<inputs, aux, catalog, faults>>

\* A deletion closes the host databases.
CloseHostDbs(p) ==
    /\ At(p, "flush")
    /\ aux' = IF proc[p].opened.rec = NoRec THEN aux
              ELSE [aux EXCEPT ![Site(p)] = Deleted(proc[p].opened.rec)]
    /\ Goto(p, "consume")
    /\ UNCHANGED <<inputs, lock, catalog, faults>>

\* unlink(input_file); a deletion is over then.
Consume(p) ==
    /\ At(p, "consume")
    /\ inputs' = [inputs EXCEPT ![Job(p)] = "gone"]
    /\ proc' = [proc EXCEPT ![p] = IF Job(p).del THEN Idle ELSE [@ EXCEPT !.pc = "reread"]]
    /\ UNCHANGED <<lock, aux, catalog, faults>>

\* An insertion resets the failure count of its site: it reads the record again ...
Reread(p) ==
    /\ At(p, "reread")
    /\ aux[Site(p)] # NoRec
    /\ proc' = [proc EXCEPT ![p].pc = "rewrite", ![p].opened.rec = aux[Site(p)]]
    /\ crossed' = (crossed \/ \E q \in Procs : Unsettled(q) /\ Site(q) = Site(p))
    /\ UNCHANGED <<inputs, lock, aux, catalog, crashes, failures, overlap>>

\* ... and writes the whole of it back.
Rewrite(p) ==
    /\ At(p, "rewrite")
    /\ aux' = [aux EXCEPT ![Site(p)] = proc[p].opened.rec]
    /\ proc' = [proc EXCEPT ![p] = Idle]
    /\ UNCHANGED <<inputs, lock, catalog, faults>>

\* There is no record, or no failure was counted.
LeaveRecord(p) ==
    /\ At(p, "reread")
    /\ proc' = [proc EXCEPT ![p] = Idle]
    /\ UNCHANGED <<inputs, lock, aux, catalog, faults>>
-----------------------------------------------------------------------------
(***************************************************************************)
(* Both children                                                           *)
(***************************************************************************)
\* insert_anonftp exits at once if there is no data after the header;
\* otherwise open_start_dbs reads the host table.
OpenStartDbs(p) ==
    /\ At(p, "start")
    /\ IF ~ Job(p).del /\ Job(p).recs = {}
         THEN Goto(p, "unlock")
         ELSE proc' = [proc EXCEPT
                          ![p].pc = IF Job(p).del THEN "host" ELSE "inactivate",
                          ![p].table = tableFile,
                          ![p].opened = [lists |-> lists, rec |-> aux[Site(p)]]]
    /\ UNCHANGED <<inputs, lock, aux, catalog, faults>>

\* One update_start_dbs with ADD_SITE or DELETE_SITE.  The code takes the
\* strings in the order of its files; here any order will do.
UpdateList(p, op) ==
    /\ At(p, "index") /\ op \in proc[p].todo
    /\ LET i == Index(proc[p].table, Site(p))
       IN  lists' = [lists EXCEPT ![op.start] =
                        IF op.op = "add" THEN @ \cup {i} ELSE @ \ {i}]
    /\ proc' = [proc EXCEPT ![p].todo = @ \ {op}]
    /\ UNCHANGED <<inputs, lock, aux, tableFile, siteFile, faults>>

\* Mutant: the lock file goes before the host table is written, as in
\* fix_start_db.
TruncateTable_Unlocks(p) ==
    /\ \/ At(p, "truncate")
       \/ At(p, "index") /\ proc[p].todo = {} /\ Job(p).del
    /\ lock' = FALSE
    /\ tableFile' = <<>>
    /\ Goto(p, "write")
    /\ UNCHANGED <<inputs, aux, lists, siteFile, faults>>

\* close_start_dbs (after setup_delete's last list, or at the end of an
\* insertion): opening the host-table file for writing empties it.
TruncateTable(p) ==
    /\ \/ At(p, "truncate")
       \/ At(p, "index") /\ proc[p].todo = {} /\ Job(p).del
    /\ tableFile' = <<>>
    /\ Goto(p, "write")
    /\ UNCHANGED <<inputs, lock, aux, lists, siteFile, faults>>

WriteTable(p) ==
    /\ At(p, "write")
    /\ tableFile' = proc[p].table
    /\ Goto(p, IF Job(p).del THEN "unlink" ELSE "unlock")
    /\ UNCHANGED <<inputs, lock, aux, lists, siteFile, faults>>
-----------------------------------------------------------------------------
(***************************************************************************)
(* insert_anonftp                                                          *)
(***************************************************************************)
\* inactivate_if_found
Inactivate(p) ==
    /\ At(p, "inactivate")
    /\ aux' = IF aux[Site(p)] = NoRec THEN aux
              ELSE [aux EXCEPT ![Site(p)].status = "inactive"]
    /\ Goto(p, "hostdb")
    /\ UNCHANGED <<inputs, lock, catalog, faults>>

\* do_hostdb_update: the record is rewritten from the header.  Its status is
\* the one read before, which nobody has set if there was no record.
HostDbUpdate(p) ==
    /\ At(p, "hostdb")
    /\ aux[Site(p)].status # "active"
    /\ \E status \in IF aux[Site(p)] = NoRec THEN Statuses ELSE {aux[Site(p)].status} :
          aux' = [aux EXCEPT ![Site(p)] = [status |-> status, time |-> Job(p).time]]
    /\ Goto(p, "activate")
    /\ UNCHANGED <<inputs, lock, catalog, faults>>

\* HOST_ACTIVE: another update activated the record; goto unlink_output.
HostActive(p) ==
    /\ At(p, "hostdb")
    /\ aux[Site(p)].status = "active"
    /\ Goto(p, "truncate")
    /\ UNCHANGED <<inputs, lock, aux, catalog, faults>>

\* Mutant: the record keeps its status.
Activate_Forgotten(p) ==
    /\ At(p, "activate")
    /\ aux' = aux
    /\ Goto(p, "compare")
    /\ UNCHANGED <<inputs, lock, catalog, faults>>

\* setup_insert builds the new file; then activate_site.
Activate(p) ==
    /\ At(p, "activate")
    /\ aux' = [aux EXCEPT ![Site(p)].status = "active"]
    /\ Goto(p, "compare")
    /\ UNCHANGED <<inputs, lock, catalog, faults>>

AddAll(recs) == [op : {"add"}, start : recs]
DelAll(recs) == [op : {"del"}, start : recs]

\* Mutant: every old string is removed before the new ones are added.
Merge_Replace(old, new) == DelAll(old) \cup AddAll(new)

\* Mutant: the rest of the old file is not removed.
Merge_AddOnly(old, new) == AddAll(new \ old)

\* insert_compare_hstart_db: both files sorted and without repetitions, then
\* merged; a string of both is left alone.
Merge(old, new) == AddAll(new \ old) \cup DelAll(old \ new)

\* Without an old site file: insert_hstart_db enters the site into the host
\* table if need be and adds every string.  With one: the site has to be in
\* the host table ("Corruption" otherwise: goto unlink_output).
Compare(p) ==
    /\ At(p, "compare")
    /\ LET tab == proc[p].table
           old == siteFile[Site(p)]
       IN  IF old = NoFile
             THEN proc' = [proc EXCEPT ![p].pc = "index",
                                       ![p].table = WithSite(tab, Site(p)),
                                       ![p].todo = AddAll(Job(p).recs)]
           ELSE IF Find(tab, Site(p)) # {}
             THEN proc' = [proc EXCEPT ![p].pc = "index",
                                       ![p].todo = Merge(old, Job(p).recs)]
           ELSE Goto(p, "truncate")
    /\ UNCHANGED <<inputs, lock, aux, catalog, faults>>

\* rename(output, site file)
RenameSiteFile(p) ==
    /\ At(p, "index") /\ proc[p].todo = {} /\ ~ Job(p).del
    /\ siteFile' = [siteFile EXCEPT ![Site(p)] = Job(p).recs]
    /\ Goto(p, "idx")
    /\ UNCHANGED <<inputs, lock, aux, lists, tableFile, faults>>

\* rename or unlink of the .idx file, which is not modelled.
RenameIdxFile(p) ==
    /\ At(p, "idx")
    /\ Goto(p, "truncate")
    /\ UNCHANGED <<inputs, lock, aux, catalog, faults>>
-----------------------------------------------------------------------------
(***************************************************************************)
(* delete_anonftp                                                          *)
(***************************************************************************)
\* get_input_file needs the host's record (else exit(A_OK)); then
\* delete_from_hostdb.  The program never closes the host databases, so it
\* is up to the dbm library whether this write gets to the disk.  Without a
\* site file, or without the site in the host table (setup_delete:
\* "Corruption"), it exits A_OK and leaves the start database open.
DeleteHost(p) ==
    /\ At(p, "host")
    /\ IF aux[Site(p)] = NoRec THEN aux' = aux
       ELSE aux' \in {aux, [aux EXCEPT ![Site(p)].status = "inactive"]}
    /\ IF \/ aux[Site(p)] = NoRec
          \/ siteFile[Site(p)] = NoFile
          \/ Find(proc[p].table, Site(p)) = {}
         THEN Goto(p, "mark")
         ELSE proc' = [proc EXCEPT ![p].pc = "index",
                                   ![p].todo = DelAll(siteFile[Site(p)])]
    /\ UNCHANGED <<inputs, lock, catalog, faults>>

\* Mutant: the site file stays.
UnlinkSiteFile_Forgotten(p) ==
    /\ At(p, "unlink")
    /\ siteFile' = siteFile
    /\ Goto(p, "mark")
    /\ UNCHANGED <<inputs, lock, aux, lists, tableFile, faults>>

UnlinkSiteFile(p) ==
    /\ At(p, "unlink")
    /\ siteFile' = [siteFile EXCEPT ![Site(p)] = NoFile]
    /\ Goto(p, "mark")
    /\ UNCHANGED <<inputs, lock, aux, lists, tableFile, faults>>
-----------------------------------------------------------------------------
(***************************************************************************)
(* Failures.  insert_anonftp and delete_anonftp answer most of them with    *)
(* exit(A_OK), so the parent goes on as if they had done their work.       *)
(***************************************************************************)
\* The lists as the disk has them if the start database is not closed: dbm
\* buffers pages, and any of them may or may not have been written.
Unflushed(p) ==
    {[x \in Starts |-> IF x \in written THEN lists[x] ELSE proc[p].opened.lists[x]] :
        written \in SUBSET Starts}

StartDbOpen(p) == proc[p].pc \in {"inactivate", "hostdb", "activate", "compare", "host",
                                  "index", "idx", "truncate"}
HostDbsOpen(p) == proc[p].pc \in {"hostdb", "activate"}

\* What a program leaves that ends without closing the dbm files.
ListsUnflushed(p) == IF StartDbOpen(p) THEN lists' \in Unflushed(p) ELSE UNCHANGED lists
AuxUnflushed(p) ==
    IF HostDbsOpen(p)
      THEN aux' \in {aux, [aux EXCEPT ![Site(p)] = proc[p].opened.rec]}
      ELSE UNCHANGED aux

CanFail == failures < MaxFailures
CountFailure == failures' = failures + 1 /\ UNCHANGED <<crashes, overlap, crossed>>

\* goto unlink_output: close_start_dbs, then exit(A_OK) with the host databases
\* open.  If it is open_start_dbs that failed, the host table written back is
\* the empty one.
InsertFails(p) ==
    /\ CanFail /\ Job(p) # NoJob /\ ~ Job(p).del
    /\ proc[p].pc \in {"start", "inactivate", "hostdb", "activate", "compare", "index"}
    /\ proc' = [proc EXCEPT ![p].pc = "truncate",
                            ![p].opened.lists = IF At(p, "start") THEN lists ELSE @]
    /\ AuxUnflushed(p)
    /\ CountFailure
    /\ UNCHANGED <<inputs, lock, catalog>>

\* exit(A_OK) at once: before the start database is opened, on a header whose
\* update_status is FAIL, or if activate_site or get_port fails.
InsertExits(p) ==
    /\ CanFail /\ Job(p) # NoJob /\ ~ Job(p).del
    /\ proc[p].pc \in {"start", "activate", "compare"}
    /\ ListsUnflushed(p)
    /\ AuxUnflushed(p)
    /\ Goto(p, "unlock")
    /\ CountFailure
    /\ UNCHANGED <<inputs, lock, tableFile, siteFile>>

\* The new file is in place but its .idx file cannot be renamed: there is no
\* output file left to unlink, and the exit comes before close_start_dbs.
IndexRenameFails(p) ==
    /\ CanFail /\ At(p, "idx")
    /\ lists' \in Unflushed(p)
    /\ Goto(p, "unlock")
    /\ CountFailure
    /\ UNCHANGED <<inputs, lock, aux, tableFile, siteFile>>

\* Before setup_delete, in it, or at unlink: exit(A_OK) with the start
\* database open, or after it is closed.
DeleteFails(p) ==
    /\ CanFail /\ Job(p) # NoJob /\ Job(p).del
    /\ proc[p].pc \in {"start", "host", "index", "unlink"}
    /\ IF At(p, "index") THEN lists' \in Unflushed(p) ELSE UNCHANGED lists
    /\ Goto(p, "mark")
    /\ CountFailure
    /\ UNCHANGED <<inputs, lock, aux, tableFile, siteFile>>

\* Mutant: the parent unlocks however the child has ended.
Crash_Unlocks(p) ==
    /\ crashes < MaxCrashes /\ ~ At(p, "idle")
    /\ lock' = FALSE
    /\ proc' = [proc EXCEPT ![p] = Idle]
    /\ crashes' = crashes + 1
    /\ UNCHANGED <<inputs, aux, catalog, failures, overlap, crossed>>

\* setup_delete cannot map the site file and says A_OK: no list is changed, and
\* the file is unlinked all the same.
DeleteMapFails(p) ==
    /\ CanFail /\ At(p, "index") /\ Job(p).del
    /\ proc[p].todo # {} /\ proc[p].todo = DelAll(siteFile[Site(p)])
    /\ proc' = [proc EXCEPT ![p].todo = {}]
    /\ CountFailure
    /\ UNCHANGED <<inputs, lock, aux, catalog>>

\* The child is killed (the parent then exits and keeps the lock), or both
\* are, or the machine stops.  The lock file and the input file stay.
Crash(p) ==
    /\ crashes < MaxCrashes /\ ~ At(p, "idle")
    /\ ListsUnflushed(p)
    /\ AuxUnflushed(p)
    /\ proc' = [proc EXCEPT ![p] = Idle]
    /\ crashes' = crashes + 1
    /\ UNCHANGED <<inputs, lock, tableFile, siteFile, failures, overlap, crossed>>
-----------------------------------------------------------------------------
Step(p) ==
    \/ FindLocked(p) \/ GiveUp(p) \/ FindUnlocked(p) \/ CreateLock(p)
    \/ MarkDeleted(p) \/ Unlock(p) \/ CloseHostDbs(p) \/ Consume(p)
    \/ Reread(p) \/ Rewrite(p) \/ LeaveRecord(p)
    \/ OpenStartDbs(p) \/ (\E op \in Ops : UpdateList(p, op)) \/ TruncateTable(p) \/ WriteTable(p)
    \/ Inactivate(p) \/ HostDbUpdate(p) \/ HostActive(p) \/ Activate(p)
    \/ Compare(p) \/ RenameSiteFile(p) \/ RenameIdxFile(p)
    \/ DeleteHost(p) \/ UnlinkSiteFile(p)

Fault(p) == InsertFails(p) \/ InsertExits(p) \/ IndexRenameFails(p) \/ DeleteFails(p)
            \/ DeleteMapFails(p) \/ Crash(p)

Next ==
    \/ \E in \in Inputs : Arrive(in)
    \/ \E p \in Procs, in \in Inputs : Begin(p, in)
    \/ \E p \in Procs : Step(p) \/ Fault(p)

Spec == Init /\ [][Next]_vars
-----------------------------------------------------------------------------
PCs == {"idle", "wait", "create", "start", "inactivate", "hostdb", "activate", "compare",
        "host", "index", "idx", "truncate", "write", "unlink", "mark", "unlock", "flush",
        "consume", "reread", "rewrite"}
Recs == [status : Statuses \cup {"none"}, time : Nat]
Lists == [Starts -> SUBSET (Nat \ {0})]

\* Every variable keeps its type; a process has a job unless it is idle.
TypeOK ==
    /\ inputs \in [Inputs -> {"gone", "ready", "taken"}]
    /\ lock \in BOOLEAN
    /\ aux \in [Sites -> Recs]
    /\ lists \in Lists
    /\ tableFile \in Seq(Sites)
    /\ siteFile \in [Sites -> SUBSET Starts]
    /\ proc \in [Procs -> [pc : PCs, job : Inputs \cup {NoJob}, tries : 0 .. MAX_UTRIES,
                           table : Seq(Sites), todo : SUBSET Ops,
                           opened : [lists : Lists, rec : Recs]]]
    /\ \A p \in Procs : At(p, "idle") <=> Job(p) = NoJob
    /\ crashes \in 0 .. MaxCrashes
    /\ failures \in 0 .. MaxFailures
    /\ overlap \in BOOLEAN
    /\ crossed \in BOOLEAN

\* The host table as it will be once the running session is closed.
Sessions == {p \in Procs : StartDbOpen(p) \/ At(p, "write")}
Table == IF Sessions = {} THEN tableFile ELSE proc[CHOOSE p \in Sessions : TRUE].table

Indexed(tab, s) == {x \in Starts : \E i \in lists[x] : i \in DOMAIN tab /\ tab[i] = s}

\* update_anonftp(n) says it is "responsible for the file locking required to
\* prevent two or more programs from concurrently updating the catalog".
MutualExclusion == \A p, q \in Procs : Updating(p) /\ Updating(q) => p = q

\* As long as no lock file was created over another one, it does what the
\* manual says: the update that found none is alone from there to its unlock.
LockExcludes == ~ overlap => MutualExclusion

\* Whoever finds a lock file finds work to do with it: some input file is
\* taken and not unlinked yet, whatever races, kills and failures there were.
LockHasInput == lock => \E in \in Inputs : inputs[in] = "taken"

\* Outside of its own updates, a site is listed under exactly the strings of
\* its site file, and no list has an index the host table does not know: the
\* five files an update writes agree again when it is over.
Consistent ==
    /\ \A s \in Sites :
          (\A p \in Procs : Updating(p) => Site(p) # s)
             => Indexed(Table, s) = siteFile[s]
    /\ (\A p \in Procs : ~ Updating(p))
          => \A x \in Starts : lists[x] \subseteq DOMAIN tableFile

\* Outside of its own updates, a site's record is ACTIVE if and only if there
\* is a site file for it to describe, as long as nothing was killed, no call has
\* failed (the program that ends then leaves the host databases open), no two
\* updates have run at once, and none has written back a record that another one
\* may have changed since it was read.
ActiveHasFile ==
    crashes = 0 /\ failures = 0 /\ ~ overlap /\ ~ crossed =>
        \A s \in Sites :
            (\A p \in Procs : Unsettled(p) => Site(p) # s)
               => (aux[s].status = "active" <=> siteFile[s] # NoFile)

\* "Check to see if it is older data than currently in database": what the
\* host database knows of a site never gets older, as long as no two updates
\* have run at once (MutualExclusion is about them) and none has ended with the
\* host databases open.
NeverOlder ==
    [][~ overlap' /\ crashes' = 0 /\ failures' = 0
         => \A s \in Sites : aux'[s].time >= aux[s].time]_vars

\* What an update that was killed leaves behind.
Interrupted == lock /\ \A p \in Procs : ~ Updating(p)

\* An update that was interrupted leaves the lock file "to mark this fact": as
\* long as no call has failed, a catalog is consistent unless there is a lock file
\* that no running update has made; also from the point of view of the sites that
\* an update does not touch.
InterruptedIsMarked ==
    failures = 0 /\ ~ overlap /\ ~ Interrupted => Consistent

\* An update as SiteCatalog has it: from the comparison of the files until the
\* new one is in place, or the old one gone.
Changing ==
    {p \in Procs : proc[p].pc \in {"index", "unlink"} \/ (At(p, "write") /\ Job(p).del)}

\* What an update makes of its site's strings.
Target(r) == IF r.job.del THEN {} ELSE r.job.recs

UpdatesNow == {[site |-> Site(p), strings |-> Target(proc[p])] : p \in Changing}

Shown == [s \in Sites |-> Indexed(Table, s)]

Broken == failures > 0 \/ overlap \/ Interrupted

Catalog == INSTANCE SiteCatalog
           WITH file <- siteFile, shown <- Shown, updates <- UpdatesNow, marked <- Broken

\* An update is what SiteCatalog promises, until a call fails, two updates run
\* at once or one is killed: a site goes from its old strings to its new ones by
\* single changes that no step takes back, no step changes two sites, and the
\* new file is put in place only when the index has exactly its strings, those
\* of earlier updates gone: "If a single site is corrupt, by re-inserting it,
\* the problem should go away."
CatalogSpec == Catalog!Spec

\* Every update ends, also when another program holds the lock or has died with
\* it: GiveUp is the only way out then, nobody removes the file meanwhile.
UpdatesEnd == \A p \in Procs : ~ At(p, "idle") ~> At(p, "idle")
=============================================================================
