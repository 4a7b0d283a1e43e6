---------------------------- MODULE CatalogRepair ----------------------------
(***************************************************************************)
(* What happens after an update of the anonftp catalog was interrupted: the *)
(* administrator removes the lock file, gives the input files that were     *)
(* left behind (suffix _t) their names back, and runs fix_start_db, which   *)
(* goes through the site files and enters what is missing into the lists.   *)
(***************************************************************************)
EXTENDS AnonftpUpdate

CONSTANTS
    MaxFixes,       \* bound: runs of fix_start_db
    FixAfter,       \* bound: it is run only after so many crashes
    RepairFirst     \* the manual's order: the lock file goes when the catalog is sound

ASSUME RepairFirstAssumption == RepairFirst \in BOOLEAN

VARIABLE fix        \* the running fix_start_db

allVars == <<vars, fix>>

NoFix == [pc |-> "idle", table |-> <<>>, runs |-> 0]

RepairInit == Init /\ fix = NoFix

FixGoto(pc) == fix' = [fix EXCEPT !.pc = pc]
Quiet == (\A p \in Procs : At(p, "idle")) /\ fix.pc = "idle"
-----------------------------------------------------------------------------
(***************************************************************************)
(* fix_start_db, check_database                                            *)
(***************************************************************************)
\* access() finds no lock file.  If there is one the program sleeps and exits:
\* the test for giving up stands inside the loop.
FixStart ==
    /\ fix.pc = "idle" /\ fix.runs < MaxFixes /\ crashes >= FixAfter /\ ~ lock
    /\ fix' = [fix EXCEPT !.pc = "create", !.runs = @ + 1]
    /\ UNCHANGED vars

FixCreateLock ==
    /\ fix.pc = "create"
    /\ lock' = TRUE
    /\ overlap' = (overlap \/ lock)
    /\ FixGoto("open")
    /\ UNCHANGED <<inputs, aux, catalog, proc, crashes, failures, crossed>>

\* Mutant: the lock file goes as soon as the start database is open.
FixOpen_Unlocks ==
    /\ fix.pc = "open"
    /\ lock' = FALSE
    /\ fix' = [fix EXCEPT !.pc = "check", !.table = tableFile]
    /\ UNCHANGED <<inputs, aux, catalog, proc, faults>>

FixOpen ==
    /\ fix.pc = "open"
    /\ fix' = [fix EXCEPT !.pc = "check", !.table = tableFile]
    /\ UNCHANGED vars

\* Every site file whose host is in the host table: check_entry adds the site
\* to the lists that lack it.  Nothing is ever removed from a list.
FixLists ==
    /\ fix.pc = "check"
    /\ lists' = [x \in Starts |->
                   lists[x] \cup {Index(fix.table, s) : s \in
                       {t \in Sites : Find(fix.table, t) # {} /\ x \in siteFile[t]}}]
    /\ FixGoto("unlock")
    /\ UNCHANGED <<inputs, lock, aux, tableFile, siteFile, proc, faults>>

\* The lock file goes before close_start_dbs writes the host table.
FixUnlock ==
    /\ fix.pc = "unlock"
    /\ lock' = FALSE
    /\ FixGoto("truncate")
    /\ UNCHANGED <<inputs, aux, catalog, proc, faults>>

FixTruncate ==
    /\ fix.pc = "truncate"
    /\ tableFile' = <<>>
    /\ FixGoto("write")
    /\ UNCHANGED <<inputs, lock, aux, lists, siteFile, proc, faults>>

FixWrite ==
    /\ fix.pc = "write"
    /\ tableFile' = fix.table
    /\ fix' = [fix EXCEPT !.pc = "idle", !.table = <<>>]
    /\ UNCHANGED <<inputs, lock, aux, lists, siteFile, proc, faults>>

FixStep ==
    FixCreateLock \/ FixOpen \/ FixLists \/ FixUnlock \/ FixTruncate \/ FixWrite
-----------------------------------------------------------------------------
(***************************************************************************)
(* The administrator                                                       *)
(***************************************************************************)
RemoveLock ==
    /\ Quiet /\ lock
    /\ RepairFirst => Consistent
    /\ lock' = FALSE
    /\ UNCHANGED <<inputs, aux, catalog, proc, faults, fix>>

Requeue(in) ==
    /\ inputs[in] = "taken"
    /\ \A p \in Procs : Job(p) # in
    /\ inputs' = [inputs EXCEPT ![in] = "ready"]
    /\ UNCHANGED <<lock, aux, catalog, proc, faults, fix>>

RepairNext ==
    \/ Next /\ UNCHANGED fix
    \/ FixStart
    \/ FixStep
    \/ RemoveLock
    \/ \E in \in Inputs : Requeue(in)

RepairSpec == RepairInit /\ [][RepairNext]_allVars

\* Programs go on; arcontrol goes through every file of the incoming directory
\* each time it runs, so none is passed over for ever; and the administrator does
\* what the manual says.
FairRepairSpec ==
    /\ RepairSpec
    /\ \A p \in Procs : WF_allVars(Step(p) /\ UNCHANGED fix)
    /\ \A in \in Inputs : SF_allVars(\E p \in Procs : Begin(p, in) /\ UNCHANGED fix)
    /\ WF_allVars(FixStart)
    /\ WF_allVars(FixStep)
    /\ SF_allVars(RemoveLock)
    /\ \A in \in Inputs : SF_allVars(Requeue(in))
-----------------------------------------------------------------------------
\* Every input file is worked off in the end, those an interrupted or
\* abandoned update left behind included.
AllWorkedOff == \A in \in Inputs : inputs[in] # "gone" ~> inputs[in] = "gone"

\* fix_start_db holds the same lock so that no update changes the catalog
\* while it does, the race for the lock file (overlap) set aside.
FixExcludesUpdates ==
    fix.pc \notin {"idle", "create"} /\ ~ overlap => \A p \in Procs : ~ Updating(p)

\* While fix_start_db has the start database open and its lock file stands, it
\* is alone: no update changes the lists it goes through or the host table it
\* goes by, whatever was killed, requeued and unlocked before.  (After its own
\* unlock that is no longer so: FixExcludesUpdates.)
ListsRepairedAlone ==
    fix.pc \in {"open", "check", "unlock"} /\ ~ overlap => \A p \in Procs : ~ Updating(p)
=============================================================================
