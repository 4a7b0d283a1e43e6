------------------------ MODULE AnonftpUpdate_proof -------------------------
(***************************************************************************)
(* An update, for any number of processes, sites, strings and input files,  *)
(* and with any number of kills and failing calls: its types, the two      *)
(* halves of its lock protocol, the agreement of the lists, the host table  *)
(* and the site files, the refinement of SiteCatalog, the records of the    *)
(* sites, and the age of their data; in the end, the lock protocol with     *)
(* the repairs of CatalogRepair.                                           *)
(***************************************************************************)
EXTENDS CatalogRepair, CatalogSearch, LeastNumber

ProcRec == [pc : PCs, job : Inputs \cup {NoJob}, tries : 0 .. MAX_UTRIES,
            table : Seq(Sites), todo : SUBSET Ops,
            opened : [lists : Lists, rec : Recs]]

ProcOK ==
    /\ proc \in [Procs -> ProcRec]
    /\ \A p \in Procs : At(p, "idle") <=> Job(p) = NoJob

DataOK ==
    /\ inputs \in [Inputs -> {"gone", "ready", "taken"}]
    /\ lock \in BOOLEAN
    /\ aux \in [Sites -> Recs]
    /\ lists \in Lists
    /\ tableFile \in Seq(Sites)
    /\ siteFile \in [Sites -> SUBSET Starts]
    /\ crashes \in 0 .. MaxCrashes
    /\ failures \in 0 .. MaxFailures
    /\ overlap \in BOOLEAN
    /\ crossed \in BOOLEAN

\* update_start_dbs is only called for a site of the session's host table.
IndexFound == \A p \in Procs : At(p, "index") => Find(proc[p].table, Site(p)) # {}

\* What the types need to be inductive.
TypeInv == DataOK /\ ProcOK /\ IndexFound

USE DEF At, Job, Site
-----------------------------------------------------------------------------
\* TypeOK in its two parts.
LEMMA TypeParts == TypeOK <=> DataOK /\ ProcOK
BY Zenon DEF TypeOK, DataOK, ProcOK, ProcRec

\* A site that was found, or entered, has an index, and it counts from 1.
LEMMA FindType ==
    ASSUME NEW tab \in Seq(Sites), NEW s \in Sites
    PROVE  /\ Find(tab, s) \in SUBSET (Nat \ {0})
           /\ Find(tab, s) # {} => Index(tab, s) \in Nat \ {0}
           /\ WithSite(tab, s) \in Seq(Sites)
           /\ Find(WithSite(tab, s), s) # {}
<1>1. Find(tab, s) \in SUBSET (Nat \ {0})
  BY DEF Find
<1>2. ASSUME Find(tab, s) # {} PROVE Index(tab, s) \in Nat \ {0}
  <2>1. \E i \in Find(tab, s) : \A j \in Find(tab, s) : i <= j
    BY <1>1, <1>2, LeastExists
  <2>2. Index(tab, s) \in Find(tab, s)
    BY <2>1 DEF Index
  <2>. QED BY <1>1, <2>2
<1>3. WithSite(tab, s) \in Seq(Sites)
  BY DEF WithSite
<1>4. Find(WithSite(tab, s), s) # {}
  <2>1. CASE Find(tab, s) # {}
    BY <2>1 DEF WithSite
  <2>2. CASE Find(tab, s) = {}
    <3>1. Len(tab) + 1 \in Find(Append(tab, s), s)
      BY DEF Find
    <3>. QED BY <2>2, <3>1 DEF WithSite
  <2>. QED BY <2>1, <2>2
<1>. QED BY <1>1, <1>2, <1>3, <1>4

\* What is to be done to the lists is always well formed.
LEMMA TodoType ==
    ASSUME NEW old \in SUBSET Starts, NEW new \in SUBSET Starts
    PROVE  /\ AddAll(new) \in SUBSET Ops
           /\ DelAll(old) \in SUBSET Ops
           /\ Merge(old, new) \in SUBSET Ops
BY DEF AddAll, DelAll, Merge, Ops

\* A running process has an input file.
LEMMA JobType ==
    ASSUME ProcOK, NEW p \in Procs, ~ At(p, "idle")
    PROVE  /\ Job(p) \in Inputs
           /\ Job(p).site \in Sites
           /\ Job(p).time \in Nat
           /\ Job(p).del \in BOOLEAN
           /\ Job(p).recs \in SUBSET Starts
           /\ Job(p) # NoJob
BY InputsAssumption, NoJobAssumption DEF ProcOK, ProcRec

\* A process record in place of another one.
LEMMA ReplaceProc ==
    ASSUME ProcOK, IndexFound, NEW p \in Procs, NEW r \in ProcRec,
           r.pc = "idle" <=> r.job = NoJob,
           r.pc = "index" => Find(r.table, r.job.site) # {},
           proc' = [proc EXCEPT ![p] = r]
    PROVE  ProcOK' /\ IndexFound'
<1>1. proc' \in [Procs -> ProcRec]
  BY DEF ProcOK
<1>2. \A q \in Procs : proc'[q] = IF q = p THEN r ELSE proc[q]
  BY DEF ProcOK
<1>. QED BY <1>1, <1>2 DEF ProcOK, IndexFound

\* Going on to another place of the program.
LEMMA GotoType ==
    ASSUME ProcOK, IndexFound, NEW p \in Procs, NEW pc \in PCs, ~ At(p, "idle"),
           pc \notin {"idle", "index"}, Goto(p, pc)
    PROVE  ProcOK' /\ IndexFound'
<1>. DEFINE r == [proc[p] EXCEPT !.pc = pc]
<1>1. r \in ProcRec /\ r.pc = pc /\ r.job = Job(p)
  BY DEF ProcOK, ProcRec
<1>2. proc' = [proc EXCEPT ![p] = r]
  BY DEF Goto
<1>3. Job(p) # NoJob
  BY JobType
<1>. HIDE DEF r
<1>. QED BY <1>1, <1>2, <1>3, ReplaceProc

\* Before the first update everything is empty, and of its type.
LEMMA InitType == Init => TypeInv
<1>. SUFFICES ASSUME Init PROVE TypeInv
  OBVIOUS
<1>1. Idle \in ProcRec /\ Idle.pc = "idle" /\ Idle.job = NoJob
  BY DEF Idle, ProcRec, PCs, NoRec, Recs, Lists, MAX_UTRIES
<1>2. ProcOK /\ IndexFound
  BY <1>1 DEF Init, ProcOK, IndexFound
<1>3. aux \in [Sites -> Recs] /\ lists \in Lists /\ siteFile \in [Sites -> SUBSET Starts]
  BY DEF Init, Recs, NoRec, Lists, NoFile
<1>4. crashes \in 0 .. MaxCrashes /\ failures \in 0 .. MaxFailures
  BY BoundsAssumption DEF Init
<1>5. inputs \in [Inputs -> {"gone", "ready", "taken"}] /\ tableFile \in Seq(Sites)
  BY DEF Init
<1>. QED BY <1>2, <1>3, <1>4, <1>5 DEF TypeInv, DataOK, Init

\* The list updates an unclosed database may leave.
LEMMA UnflushedType ==
    ASSUME DataOK, ProcOK, NEW p \in Procs
    PROVE  /\ Unflushed(p) \subseteq Lists
           /\ ListsUnflushed(p) => lists' \in Lists
           /\ ~ At(p, "idle") /\ AuxUnflushed(p) => aux' \in [Sites -> Recs]
<1>1. lists \in Lists /\ proc[p].opened.lists \in Lists /\ proc[p].opened.rec \in Recs
  BY DEF DataOK, ProcOK, ProcRec
<1>2. Unflushed(p) \subseteq Lists
  BY <1>1 DEF Unflushed, Lists
<1>3. ASSUME ~ At(p, "idle"), AuxUnflushed(p) PROVE aux' \in [Sites -> Recs]
  <2>1. Site(p) \in Sites
    BY <1>3, JobType
  <2>. QED BY <1>1, <1>3, <2>1 DEF AuxUnflushed, DataOK
<1>. QED BY <1>1, <1>2, <1>3 DEF ListsUnflushed
-----------------------------------------------------------------------------
\* update_anonftp: waiting for the lock and releasing it.
LEMMA ParentType ==
    ASSUME TypeInv, NEW p \in Procs, NEW in \in Inputs,
           \/ Begin(p, in) \/ FindLocked(p) \/ GiveUp(p) \/ FindUnlocked(p)
           \/ CreateLock(p) \/ MarkDeleted(p) \/ Unlock(p) \/ CloseHostDbs(p)
           \/ Consume(p) \/ Reread(p) \/ Rewrite(p) \/ LeaveRecord(p)
    PROVE  TypeInv'
<1>. USE DEF TypeInv
<1>0. /\ Idle \in ProcRec
      /\ Idle.pc = "idle" /\ Idle.job = NoJob
      /\ proc[p] \in ProcRec
  BY DEF Idle, ProcRec, PCs, NoRec, Recs, Lists, MAX_UTRIES, ProcOK
<1>1. CASE Begin(p, in)
  <2>1. CASE Stale(in)
    <3>1. DataOK'
      BY <1>1, <2>1 DEF Begin, catalog, faults, DataOK
    <3>2. UNCHANGED proc
      BY <1>1, <2>1 DEF Begin
    <3>. QED BY <3>1, <3>2 DEF ProcOK, IndexFound
  <2>2. CASE ~ Stale(in)
    <3>. DEFINE r == [Idle EXCEPT !.pc = "wait", !.job = in]
    <3>1. r \in ProcRec /\ r.pc = "wait" /\ r.job = in
      BY <1>0 DEF ProcRec, PCs
    <3>2. proc' = [proc EXCEPT ![p] = r]
      BY <1>1, <2>2 DEF Begin
    <3>. HIDE DEF r
    <3>3. ProcOK' /\ IndexFound'
      BY <3>1, <3>2, ReplaceProc, NoJobAssumption
    <3>4. DataOK'
      BY <1>1, <2>2 DEF Begin, catalog, faults, DataOK
    <3>. QED BY <3>3, <3>4
  <2>. QED BY <2>1, <2>2
<1>2. CASE FindLocked(p)
  <2>. DEFINE r == [proc[p] EXCEPT !.tries = @ + 1]
  <2>1. r \in ProcRec /\ r.pc = "wait" /\ r.job = Job(p)
    BY <1>0, <1>2 DEF ProcRec, FindLocked, MAX_UTRIES
  <2>2. proc' = [proc EXCEPT ![p] = r] /\ Job(p) # NoJob
    BY <1>2, JobType DEF FindLocked
  <2>. HIDE DEF r
  <2>3. ProcOK' /\ IndexFound'
    BY <2>1, <2>2, ReplaceProc
  <2>. QED BY <1>2, <2>3 DEF FindLocked, catalog, faults, DataOK
<1>3. CASE GiveUp(p)
  <2>1. ProcOK' /\ IndexFound'
    BY <1>0, <1>3, ReplaceProc DEF GiveUp
  <2>. QED BY <1>3, <2>1 DEF GiveUp, catalog, faults, DataOK
<1>4. CASE FindUnlocked(p)
  <2>. DEFINE r == [proc[p] EXCEPT !.pc = "create", !.tries = 0]
  <2>0. r \in ProcRec /\ r.pc = "create" /\ r.job = Job(p)
    BY <1>0, 0 \in 0..MAX_UTRIES DEF PCs, ProcRec, MAX_UTRIES
  <2>2. proc' = [proc EXCEPT ![p] = r]
    BY <1>0, <1>4 DEF FindUnlocked
  <2>3. Job(p) # NoJob
    BY <1>4, JobType DEF FindUnlocked
  <2>. HIDE DEF r
  <2>1. ProcOK' /\ IndexFound'
    BY <1>0, <2>0, <2>2, <2>3, ReplaceProc
  <2>. QED BY <1>4, <2>1 DEF FindUnlocked, catalog, faults, DataOK
<1>5. CASE CreateLock(p)
  <2>1. ProcOK' /\ IndexFound'
    BY <1>5, GotoType DEF CreateLock, PCs
  <2>. QED BY <1>5, <2>1 DEF CreateLock, catalog, DataOK
<1>6. CASE MarkDeleted(p)
  <2>0. Site(p) \in Sites /\ aux[Site(p)] \in Recs /\ NoRec \in Recs /\ Job(p) # NoJob
    BY <1>6, JobType DEF MarkDeleted, DataOK, Recs, NoRec
  <2>1. PICK buffered \in {aux[Site(p)], NoRec} :
           /\ aux' = IF buffered # NoRec \/ aux[Site(p)] = NoRec THEN aux
                     ELSE [aux EXCEPT ![Site(p)] = Deleted(@)]
           /\ proc' = [proc EXCEPT ![p].pc = "unlock", ![p].opened.rec = buffered]
    BY <1>6 DEF MarkDeleted
  <2>. DEFINE o == [proc[p].opened EXCEPT !.rec = buffered]
              r == [proc[p] EXCEPT !.pc = "unlock", !.opened = o]
  <2>2. o \in [lists : Lists, rec : Recs]
    BY <1>0, <2>0, <2>1 DEF ProcRec
  <2>3. r \in ProcRec /\ r.pc = "unlock" /\ r.job = Job(p)
    BY <1>0, <2>2 DEF ProcRec, PCs
  <2>4. proc' = [proc EXCEPT ![p] = r]
    BY <2>1
  <2>. HIDE DEF r
  <2>5. ProcOK' /\ IndexFound'
    BY <2>0, <2>3, <2>4, ReplaceProc
  <2>6. aux' \in [Sites -> Recs]
    BY <2>0, <2>1 DEF DataOK, Recs, Statuses, Deleted
  <2>. QED BY <1>6, <2>5, <2>6 DEF MarkDeleted, catalog, faults, DataOK
<1>7. CASE Unlock(p)
  <2>1. ProcOK' /\ IndexFound'
    BY <1>7, GotoType DEF Unlock, PCs
  <2>. QED BY <1>7, <2>1 DEF Unlock, catalog, faults, DataOK
<1>8. CASE Consume(p)
  <2>1. CASE Job(p).del
    <3>1. ProcOK' /\ IndexFound'
      BY <1>0, <1>8, <2>1, ReplaceProc DEF Consume
    <3>. QED BY <1>8, <3>1 DEF Consume, catalog, faults, DataOK
  <2>2. CASE ~ Job(p).del
    <3>1. Goto(p, "reread")
      BY <1>8, <2>2 DEF Consume, Goto
    <3>2. ProcOK' /\ IndexFound'
      BY <1>8, <3>1, GotoType DEF Consume, PCs
    <3>. QED BY <1>8, <3>2 DEF Consume, catalog, faults, DataOK
  <2>. QED BY <2>1, <2>2
<1>9. CASE CloseHostDbs(p)
  <2>1. ProcOK' /\ IndexFound'
    BY <1>9, GotoType DEF CloseHostDbs, PCs
  <2>2. aux' \in [Sites -> Recs]
    <3>1. Site(p) \in Sites /\ proc[p].opened.rec \in Recs
      BY <1>0, <1>9, JobType DEF CloseHostDbs, ProcRec
    <3>. QED BY <1>9, <3>1 DEF CloseHostDbs, DataOK, Recs, Statuses, Deleted
  <2>. QED BY <1>9, <2>1, <2>2 DEF CloseHostDbs, catalog, faults, DataOK
<1>10. CASE Reread(p)
  <2>. DEFINE o == [proc[p].opened EXCEPT !.rec = aux[Site(p)]]
              r == [proc[p] EXCEPT !.pc = "rewrite", !.opened = o]
  <2>1. aux[Site(p)] \in Recs /\ Job(p) # NoJob
    BY <1>10, JobType DEF Reread, DataOK
  <2>2. o \in [lists : Lists, rec : Recs]
    BY <1>0, <2>1 DEF ProcRec
  <2>3. r \in ProcRec /\ r.pc = "rewrite" /\ r.job = Job(p)
    BY <1>0, <2>2 DEF ProcRec, PCs
  <2>4. proc' = [proc EXCEPT ![p] = r]
    BY <1>10 DEF Reread
  <2>. HIDE DEF r
  <2>5. ProcOK' /\ IndexFound'
    BY <2>1, <2>3, <2>4, ReplaceProc
  <2>. QED BY <1>10, <2>5 DEF Reread, catalog, DataOK
<1>11. CASE Rewrite(p)
  <2>1. ProcOK' /\ IndexFound'
    BY <1>0, <1>11, ReplaceProc DEF Rewrite
  <2>2. aux' \in [Sites -> Recs]
    BY <1>0, <1>11 DEF Rewrite, DataOK, ProcRec
  <2>. QED BY <1>11, <2>1, <2>2 DEF Rewrite, catalog, faults, DataOK
<1>12. CASE LeaveRecord(p)
  <2>1. ProcOK' /\ IndexFound'
    BY <1>0, <1>12, ReplaceProc DEF LeaveRecord
  <2>. QED BY <1>12, <2>1 DEF LeaveRecord, catalog, faults, DataOK
<1>. QED BY <1>1, <1>2, <1>3, <1>4, <1>5, <1>6, <1>7, <1>8, <1>9, <1>10, <1>11, <1>12

\* Both children: the start database is opened, changed and closed.
LEMMA SessionType ==
    ASSUME TypeInv, NEW p \in Procs,
           \/ OpenStartDbs(p) \/ (\E op \in Ops : UpdateList(p, op))
           \/ TruncateTable(p) \/ WriteTable(p)
    PROVE  TypeInv'
<1>. USE DEF TypeInv
<1>0. proc[p] \in ProcRec /\ proc[p].table \in Seq(Sites)
  BY DEF ProcRec, ProcOK
<1>1. CASE OpenStartDbs(p)
  <2>1. Job(p) # NoJob /\ Site(p) \in Sites /\ Job(p).del \in BOOLEAN
    BY <1>1, JobType DEF OpenStartDbs
  <2>2. ProcOK' /\ IndexFound'
    <3>1. CASE ~ Job(p).del /\ Job(p).recs = {}
      BY <1>1, <3>1, GotoType DEF OpenStartDbs, PCs
    <3>2. CASE ~ (~ Job(p).del /\ Job(p).recs = {})
      <4>. DEFINE pc == IF Job(p).del THEN "host" ELSE "inactivate"
                  r  == [proc[p] EXCEPT !.pc = pc, !.table = tableFile,
                            !.opened = [lists |-> lists, rec |-> aux[Site(p)]]]
      <4>1. /\ r \in ProcRec
            /\ r.job = Job(p) /\ r.pc \in {"host", "inactivate"}
        BY <1>0, <2>1 DEF ProcRec, PCs, DataOK
      <4>2. proc' = [proc EXCEPT ![p] = r]
        BY <1>1, <3>2 DEF OpenStartDbs
      <4>. HIDE DEF r
      <4>. QED BY <2>1, <4>1, <4>2, ReplaceProc
    <3>. QED BY <3>1, <3>2
  <2>. QED BY <1>1, <2>2 DEF OpenStartDbs, catalog, faults, DataOK
<1>2. ASSUME NEW op \in Ops, UpdateList(p, op) PROVE TypeInv'
  <2>. DEFINE r == [proc[p] EXCEPT !.todo = @ \ {op}]
              i == Index(proc[p].table, Site(p))
  <2>1. r \in ProcRec /\ r.job = Job(p) /\ r.pc = "index" /\ r.table = proc[p].table
    BY <1>0, <1>2 DEF ProcRec, UpdateList
  <2>2. proc' = [proc EXCEPT ![p] = r]
    BY <1>2 DEF UpdateList
  <2>. HIDE DEF r
  <2>3. Job(p) # NoJob /\ Site(p) \in Sites /\ Find(proc[p].table, Site(p)) # {}
    BY <1>2, JobType DEF UpdateList, IndexFound
  <2>4. ProcOK' /\ IndexFound'
    BY <2>1, <2>2, <2>3, ReplaceProc
  <2>5. i \in Nat \ {0}
    BY <1>0, <2>3, FindType
  <2>6. lists' \in Lists
    <3>. HIDE DEF i
    <3>1. lists' = [lists EXCEPT ![op.start] =
                        IF op.op = "add" THEN @ \cup {i} ELSE @ \ {i}]
      BY <1>2 DEF UpdateList, i
    <3>. QED BY <2>5, <3>1 DEF Lists, DataOK
  <2>. QED BY <1>2, <2>4, <2>6 DEF UpdateList, faults, DataOK
<1>3. CASE TruncateTable(p)
  <2>1. ProcOK' /\ IndexFound'
    BY <1>3, GotoType DEF TruncateTable, PCs
  <2>. QED BY <1>3, <2>1 DEF TruncateTable, faults, DataOK
<1>4. CASE WriteTable(p)
  <2>1. ProcOK' /\ IndexFound'
    BY <1>4, GotoType DEF WriteTable, PCs
  <2>. QED BY <1>0, <1>4, <2>1 DEF WriteTable, faults, DataOK
<1>. QED BY <1>1, <1>2, <1>3, <1>4

\* insert_anonftp
LEMMA InsertType ==
    ASSUME TypeInv, NEW p \in Procs,
           \/ Inactivate(p) \/ HostDbUpdate(p) \/ HostActive(p) \/ Activate(p)
           \/ Compare(p) \/ RenameSiteFile(p) \/ RenameIdxFile(p)
    PROVE  TypeInv'
<1>. USE DEF TypeInv
<1>1. CASE Inactivate(p)
  <2>1. ProcOK' /\ IndexFound'
    BY <1>1, GotoType DEF Inactivate, PCs
  <2>2. aux' \in [Sites -> Recs]
    BY <1>1, JobType DEF Inactivate, DataOK, Recs, Statuses
  <2>. QED BY <1>1, <2>1, <2>2 DEF Inactivate, catalog, faults, DataOK
<1>2. CASE HostDbUpdate(p)
  <2>1. ProcOK' /\ IndexFound'
    BY <1>2, GotoType DEF HostDbUpdate, PCs
  <2>2. aux' \in [Sites -> Recs]
    <3>1. Site(p) \in Sites /\ Job(p).time \in Nat /\ aux[Site(p)] \in Recs
      BY <1>2, JobType DEF HostDbUpdate, DataOK
    <3>2. PICK status \in Statuses \cup {aux[Site(p)].status} :
             aux' = [aux EXCEPT ![Site(p)] = [status |-> status, time |-> Job(p).time]]
      BY <1>2 DEF HostDbUpdate
    <3>3. [status |-> status, time |-> Job(p).time] \in Recs
      BY <3>1, <3>2 DEF Recs
    <3>. QED BY <3>2, <3>3 DEF DataOK
  <2>. QED BY <1>2, <2>1, <2>2 DEF HostDbUpdate, catalog, faults, DataOK
<1>3. CASE HostActive(p)
  <2>1. ProcOK' /\ IndexFound'
    BY <1>3, GotoType DEF HostActive, PCs
  <2>. QED BY <1>3, <2>1 DEF HostActive, catalog, faults, DataOK
<1>4. CASE Activate(p)
  <2>1. ProcOK' /\ IndexFound'
    BY <1>4, GotoType DEF Activate, PCs
  <2>2. aux' \in [Sites -> Recs]
    BY <1>4, JobType DEF Activate, DataOK, Recs, Statuses
  <2>. QED BY <1>4, <2>1, <2>2 DEF Activate, catalog, faults, DataOK
<1>5. CASE Compare(p)
  <2>1. /\ Job(p) # NoJob /\ Site(p) \in Sites /\ Job(p).recs \in SUBSET Starts
        /\ proc[p] \in ProcRec /\ proc[p].table \in Seq(Sites)
        /\ siteFile[Site(p)] \in SUBSET Starts
    BY <1>5, JobType DEF Compare, ProcRec, ProcOK, DataOK
  <2>2. ProcOK' /\ IndexFound'
    <3>1. CASE siteFile[Site(p)] = NoFile
      <4>. DEFINE r == [proc[p] EXCEPT !.pc = "index",
                            !.table = WithSite(proc[p].table, Site(p)),
                            !.todo = AddAll(Job(p).recs)]
      <4>1. r \in ProcRec
        BY <2>1, FindType, TodoType DEF ProcRec, PCs
      <4>2. /\ r.pc = "index" /\ r.job = Job(p)
            /\ r.table = WithSite(proc[p].table, Site(p))
        BY <2>1 DEF ProcRec
      <4>3. proc' = [proc EXCEPT ![p] = r]
        BY <1>5, <3>1 DEF Compare
      <4>4. Find(r.table, Site(p)) # {}
        BY <2>1, <4>2, FindType
      <4>. HIDE DEF r
      <4>. QED BY <2>1, <4>1, <4>2, <4>3, <4>4, ReplaceProc
    <3>2. CASE siteFile[Site(p)] # NoFile /\ Find(proc[p].table, Site(p)) # {}
      <4>. DEFINE r == [proc[p] EXCEPT !.pc = "index",
                            !.todo = Merge(siteFile[Site(p)], Job(p).recs)]
      <4>1. r \in ProcRec
        BY <2>1, TodoType DEF ProcRec, PCs
      <4>2. r.pc = "index" /\ r.job = Job(p) /\ r.table = proc[p].table
        BY <2>1 DEF ProcRec
      <4>3. proc' = [proc EXCEPT ![p] = r]
        BY <1>5, <3>2 DEF Compare
      <4>. HIDE DEF r
      <4>. QED BY <2>1, <3>2, <4>1, <4>2, <4>3, ReplaceProc
    <3>3. CASE siteFile[Site(p)] # NoFile /\ Find(proc[p].table, Site(p)) = {}
      BY <1>5, <3>3, GotoType DEF Compare, PCs
    <3>. QED BY <3>1, <3>2, <3>3
  <2>. QED BY <1>5, <2>2 DEF Compare, catalog, faults, DataOK
<1>6. CASE RenameSiteFile(p)
  <2>1. ProcOK' /\ IndexFound'
    BY <1>6, GotoType DEF RenameSiteFile, PCs
  <2>2. siteFile' \in [Sites -> SUBSET Starts]
    BY <1>6, JobType DEF RenameSiteFile, DataOK
  <2>. QED BY <1>6, <2>1, <2>2 DEF RenameSiteFile, faults, DataOK
<1>7. CASE RenameIdxFile(p)
  <2>1. ProcOK' /\ IndexFound'
    BY <1>7, GotoType DEF RenameIdxFile, PCs
  <2>. QED BY <1>7, <2>1 DEF RenameIdxFile, catalog, faults, DataOK
<1>. QED BY <1>1, <1>2, <1>3, <1>4, <1>5, <1>6, <1>7

\* delete_anonftp
LEMMA DeleteType ==
    ASSUME TypeInv, NEW p \in Procs, DeleteHost(p) \/ UnlinkSiteFile(p)
    PROVE  TypeInv'
<1>. USE DEF TypeInv
<1>1. CASE DeleteHost(p)
  <2>1. /\ Job(p) # NoJob /\ Site(p) \in Sites
        /\ proc[p] \in ProcRec /\ siteFile[Site(p)] \in SUBSET Starts
    BY <1>1, JobType DEF DeleteHost, ProcOK, DataOK
  <2>. DEFINE stop == \/ aux[Site(p)] = NoRec
                      \/ siteFile[Site(p)] = NoFile
                      \/ Find(proc[p].table, Site(p)) = {}
  <2>2. ProcOK' /\ IndexFound'
    <3>1. CASE stop
      BY <1>1, <3>1, GotoType DEF DeleteHost, PCs
    <3>2. CASE ~ stop
      <4>. DEFINE r == [proc[p] EXCEPT !.pc = "index",
                                       !.todo = DelAll(siteFile[Site(p)])]
      <4>1. r \in ProcRec
        BY <2>1, TodoType DEF ProcRec, PCs
      <4>2. r.pc = "index" /\ r.job = Job(p) /\ r.table = proc[p].table
        BY <2>1 DEF ProcRec
      <4>3. proc' = [proc EXCEPT ![p] = r]
        BY <1>1, <3>2 DEF DeleteHost
      <4>. HIDE DEF r
      <4>. QED BY <2>1, <3>2, <4>1, <4>2, <4>3, ReplaceProc
    <3>. QED BY <3>1, <3>2
  <2>3. aux' \in [Sites -> Recs]
    <3>. DEFINE r == [aux[Site(p)] EXCEPT !.status = "inactive"]
    <3>1. aux' = aux \/ aux' = [aux EXCEPT ![Site(p)] = r]
      BY <1>1 DEF DeleteHost
    <3>2. aux \in [Sites -> Recs] /\ aux[Site(p)] \in Recs
      BY <2>1 DEF DataOK
    <3>3. r \in Recs
      BY <3>2 DEF Recs, Statuses
    <3>. HIDE DEF r
    <3>. QED BY <2>1, <3>1, <3>2, <3>3
  <2>. QED BY <1>1, <2>2, <2>3 DEF DeleteHost, catalog, faults, DataOK
<1>2. CASE UnlinkSiteFile(p)
  <2>1. ProcOK' /\ IndexFound'
    BY <1>2, GotoType DEF UnlinkSiteFile, PCs
  <2>. QED BY <1>2, <2>1 DEF UnlinkSiteFile, faults, DataOK, NoFile
<1>. QED BY <1>1, <1>2

\* Failing calls and kills.
LEMMA FaultType ==
    ASSUME TypeInv, NEW p \in Procs, Fault(p)
    PROVE  TypeInv'
<1>. USE DEF TypeInv
<1>0. /\ proc[p] \in ProcRec
      /\ Idle \in ProcRec /\ Idle.pc = "idle" /\ Idle.job = NoJob
  BY DEF Idle, ProcRec, PCs, NoRec, Recs, Lists, MAX_UTRIES, ProcOK
<1>1. CanFail /\ CountFailure =>
         /\ failures' \in 0 .. MaxFailures
         /\ crashes' \in 0 .. MaxCrashes
         /\ overlap' \in BOOLEAN /\ crossed' \in BOOLEAN
  BY BoundsAssumption DEF CanFail, CountFailure, DataOK
<1>2. CASE InsertFails(p)
  <2>. DEFINE l == IF At(p, "start") THEN lists ELSE proc[p].opened.lists
              o == [lists |-> l, rec |-> proc[p].opened.rec]
              r == [proc[p] EXCEPT !.pc = "truncate", !.opened = o]
  <2>1. l \in Lists /\ proc[p].opened \in [lists : Lists, rec : Recs]
    BY <1>0 DEF DataOK, ProcRec
  <2>2. r \in ProcRec /\ r.pc = "truncate" /\ r.job = Job(p)
    <3>1. o \in [lists : Lists, rec : Recs] /\ "truncate" \in PCs
      BY <2>1 DEF PCs
    <3>. HIDE DEF o
    <3>. QED BY <1>0, <3>1 DEF ProcRec
  <2>3. proc' = [proc EXCEPT ![p] = r]
    <3>1. proc' = [proc EXCEPT ![p].pc = "truncate", ![p].opened.lists =
                                  IF At(p, "start") THEN lists ELSE @]
      BY <1>2 DEF InsertFails
    <3>2. [proc[p].opened EXCEPT !.lists = l] = o
      BY <2>1
    <3>. QED BY <1>0, <2>1, <3>1, <3>2 DEF ProcOK, ProcRec
  <2>4. ~ At(p, "idle") /\ Job(p) # NoJob
    BY <1>2 DEF InsertFails
  <2>. HIDE DEF r
  <2>5. ProcOK' /\ IndexFound'
    BY <2>2, <2>3, <2>4, ReplaceProc
  <2>6. aux' \in [Sites -> Recs]
    BY <1>2, <2>4, UnflushedType DEF InsertFails
  <2>. QED BY <1>1, <1>2, <2>5, <2>6 DEF InsertFails, catalog, DataOK
<1>3. CASE InsertExits(p)
  <2>1. ~ At(p, "idle")
    BY <1>3 DEF InsertExits
  <2>2. ProcOK' /\ IndexFound'
    BY <1>3, <2>1, GotoType DEF InsertExits, PCs
  <2>3. aux' \in [Sites -> Recs] /\ lists' \in Lists
    BY <1>3, <2>1, UnflushedType DEF InsertExits
  <2>. QED BY <1>1, <1>3, <2>2, <2>3 DEF InsertExits, DataOK
<1>4. CASE IndexRenameFails(p)
  <2>1. ProcOK' /\ IndexFound'
    BY <1>4, GotoType DEF IndexRenameFails, PCs
  <2>2. lists' \in Lists
    BY <1>4, UnflushedType DEF IndexRenameFails
  <2>. QED BY <1>1, <1>4, <2>1, <2>2 DEF IndexRenameFails, DataOK
<1>5. CASE DeleteFails(p)
  <2>1. ProcOK' /\ IndexFound'
    BY <1>5, GotoType DEF DeleteFails, PCs
  <2>2. lists' \in Lists
    BY <1>5, UnflushedType DEF DeleteFails, DataOK
  <2>. QED BY <1>1, <1>5, <2>1, <2>2 DEF DeleteFails, DataOK
<1>6. CASE DeleteMapFails(p)
  <2>. DEFINE r == [proc[p] EXCEPT !.todo = {}]
  <2>1. r \in ProcRec /\ r.pc = "index" /\ r.job = Job(p) /\ r.table = proc[p].table
    BY <1>0, <1>6 DEF DeleteMapFails, ProcRec
  <2>2. proc' = [proc EXCEPT ![p] = r] /\ Find(proc[p].table, Site(p)) # {}
    BY <1>6 DEF DeleteMapFails, IndexFound
  <2>3. Job(p) # NoJob
    BY <1>6, JobType DEF DeleteMapFails
  <2>. HIDE DEF r
  <2>4. ProcOK' /\ IndexFound'
    BY <2>1, <2>2, <2>3, ReplaceProc
  <2>. QED BY <1>1, <1>6, <2>4 DEF DeleteMapFails, catalog, DataOK
<1>7. CASE Crash(p)
  <2>1. ProcOK' /\ IndexFound'
    BY <1>0, <1>7, ReplaceProc DEF Crash
  <2>2. aux' \in [Sites -> Recs] /\ lists' \in Lists
    BY <1>7, UnflushedType DEF Crash
  <2>3. crashes' \in 0 .. MaxCrashes
    BY <1>7, BoundsAssumption DEF Crash, DataOK
  <2>. QED BY <1>7, <2>1, <2>2, <2>3 DEF Crash, DataOK
<1>. QED BY <1>2, <1>3, <1>4, <1>5, <1>6, <1>7 DEF Fault

\* Every step of a program, every fault and every new input file keeps the types.
LEMMA NextType == TypeInv /\ [Next]_vars => TypeInv'
<1>. SUFFICES ASSUME TypeInv, [Next]_vars PROVE TypeInv'
  OBVIOUS
<1>1. ASSUME NEW in \in Inputs, Arrive(in) PROVE TypeInv'
  <2>1. DataOK' /\ UNCHANGED proc
    BY <1>1 DEF Arrive, catalog, faults, TypeInv, DataOK
  <2>. QED BY <2>1 DEF TypeInv, ProcOK, IndexFound
<1>2. ASSUME NEW p \in Procs, NEW in \in Inputs, Begin(p, in) PROVE TypeInv'
  BY <1>2, ParentType
<1>3. ASSUME NEW p \in Procs, Step(p) PROVE TypeInv'
  <2>1. Job(p) \in Inputs
    <3>1. ~ At(p, "idle")
      BY <1>3 DEF Step, FindLocked, GiveUp, FindUnlocked, CreateLock, MarkDeleted, Unlock,
                  Consume, OpenStartDbs, UpdateList, TruncateTable, WriteTable, Inactivate,
                  HostDbUpdate, HostActive, Activate, Compare, RenameSiteFile,
                  RenameIdxFile, DeleteHost, UnlinkSiteFile, CloseHostDbs, Reread, Rewrite,
                  LeaveRecord
    <3>. QED BY <3>1, JobType DEF TypeInv
  <2>. QED BY <1>3, <2>1, ParentType, SessionType, InsertType, DeleteType DEF Step
<1>4. ASSUME NEW p \in Procs, Fault(p) PROVE TypeInv'
  BY <1>4, FaultType
<1>5. CASE UNCHANGED vars
  <2>1. DataOK' /\ UNCHANGED proc
    BY <1>5 DEF vars, catalog, faults, TypeInv, DataOK
  <2>. QED BY <2>1 DEF TypeInv, ProcOK, IndexFound
<1>. QED BY <1>1, <1>2, <1>3, <1>4, <1>5 DEF Next

\* The types, with what they rest on, hold always.
THEOREM TypeInvariance == Spec => []TypeInv
BY InitType, NextType, PTL DEF Spec

\* Whatever fails, the shared files and the processes keep their types: in
\* particular no list gets an index of 0, which is what a site would have
\* that is missing in the host table.
THEOREM UpdateTypeCorrect == Spec => []TypeOK
<1>1. TypeInv => TypeOK
  BY TypeParts DEF TypeInv
<1>. QED BY <1>1, TypeInvariance, PTL
-----------------------------------------------------------------------------
\* The lock protocol.  As long as no lock file was created over another one,
\* the process that updates holds the lock, and is alone.
Excluded ==
    ~ overlap => /\ \A p \in Procs : Updating(p) => lock
                 /\ MutualExclusion

\* The process has not unlinked its input file yet.
HasInput(p) == proc[p].pc \notin {"idle", "reread", "rewrite"}

\* Each process has an input file of its own, renamed, ...
JobsTaken ==
    /\ \A p \in Procs : HasInput(p) => inputs[Job(p)] = "taken"
    /\ \A p, q \in Procs : HasInput(p) /\ HasInput(q) /\ Job(p) = Job(q) => p = q

\* ... and the lock file belongs to one: either the update that is working on
\* it, or an update that has died.  No process that waits or is past its
\* unlock can unlink it.
LockOwned ==
    lock => \E in \in Inputs : /\ inputs[in] = "taken"
                              /\ \A p \in Procs : HasInput(p) /\ Job(p) = in => Updating(p)

LockInv == ProcOK /\ Excluded /\ JobsTaken /\ LockOwned

\* A step of process p inside the part the lock file protects.
Working(p) ==
    /\ Updating(p) /\ Updating(p)'
    /\ Job(p)' = Job(p)
    /\ \A q \in Procs \ {p} : proc'[q] = proc[q]
    /\ UNCHANGED <<inputs, lock, overlap>>

\* At first there is no lock file, and nobody updates.
LEMMA InitLock == Init => LockInv
<1>. SUFFICES ASSUME Init PROVE LockInv
  OBVIOUS
<1>1. \A p \in Procs : ~ HasInput(p) /\ ~ Updating(p)
  BY DEF Init, Idle, Updating, HasInput
<1>2. ProcOK
  BY InitType DEF TypeInv
<1>. QED BY <1>1, <1>2 DEF Init, LockInv, Excluded, MutualExclusion, JobsTaken, LockOwned

\* The children work behind the lock, and leave it and the jobs alone.
LEMMA WorkingLock ==
    ASSUME LockInv, NEW p \in Procs, Working(p), ProcOK'
    PROVE  LockInv'
<1>1. /\ \A q \in Procs : Updating(q)' <=> Updating(q)
      /\ \A q \in Procs : HasInput(q)' <=> HasInput(q)
      /\ \A q \in Procs : Job(q)' = Job(q)
  BY DEF Working, Updating, HasInput
<1>2. UNCHANGED <<inputs, lock, overlap>>
  BY DEF Working
<1>3. Excluded'
  BY <1>1, <1>2 DEF LockInv, Excluded, MutualExclusion
<1>4. JobsTaken'
  BY <1>1, <1>2 DEF LockInv, JobsTaken
<1>5. LockOwned'
  BY <1>1, <1>2 DEF LockInv, LockOwned
<1>. QED BY <1>3, <1>4, <1>5 DEF LockInv

\* Every step of a child, and every failing call, is one of these.
LEMMA ChildWorks ==
    ASSUME ProcOK, NEW p \in Procs,
           \/ MarkDeleted(p) \/ OpenStartDbs(p) \/ (\E op \in Ops : UpdateList(p, op))
           \/ TruncateTable(p) \/ WriteTable(p) \/ Inactivate(p) \/ HostDbUpdate(p)
           \/ HostActive(p) \/ Activate(p) \/ Compare(p) \/ RenameSiteFile(p)
           \/ RenameIdxFile(p) \/ DeleteHost(p) \/ UnlinkSiteFile(p)
           \/ InsertFails(p) \/ InsertExits(p) \/ IndexRenameFails(p)
           \/ DeleteFails(p) \/ DeleteMapFails(p)
    PROVE  Working(p)
<1>0. proc \in [Procs -> ProcRec]
  BY DEF ProcOK
<1>. USE <1>0 DEF Working, Updating, Goto, ProcRec, catalog, faults
<1>1. CASE MarkDeleted(p) \/ TruncateTable(p) \/ WriteTable(p)
  <2>1. CASE MarkDeleted(p)
    <3>1. PICK rec : proc' = [proc EXCEPT ![p].pc = "unlock", ![p].opened.rec = rec]
      BY <2>1 DEF MarkDeleted
    <3>. QED BY <2>1, <3>1 DEF MarkDeleted
  <2>. QED BY <1>1, <2>1 DEF TruncateTable, WriteTable
<1>2. CASE Inactivate(p) \/ HostDbUpdate(p) \/ HostActive(p) \/ Activate(p)
  <2>1. CASE Inactivate(p)
    BY <2>1 DEF Inactivate
  <2>2. CASE HostDbUpdate(p)
    BY <2>2 DEF HostDbUpdate
  <2>3. CASE HostActive(p)
    BY <2>3 DEF HostActive
  <2>4. CASE Activate(p)
    BY <2>4 DEF Activate
  <2>. QED BY <1>2, <2>1, <2>2, <2>3, <2>4
<1>3. CASE Compare(p) \/ RenameSiteFile(p) \/ RenameIdxFile(p)
  <2>1. CASE Compare(p)
    BY <2>1 DEF Compare
  <2>2. CASE RenameSiteFile(p) \/ RenameIdxFile(p)
    BY <2>2 DEF RenameSiteFile, RenameIdxFile
  <2>. QED BY <1>3, <2>1, <2>2
<1>4. CASE DeleteHost(p) \/ UnlinkSiteFile(p)
  BY <1>4 DEF DeleteHost, UnlinkSiteFile
<1>5. CASE InsertFails(p) \/ InsertExits(p) \/ IndexRenameFails(p)
  <2>1. CASE InsertFails(p)
    BY <2>1 DEF InsertFails, CountFailure
  <2>2. CASE InsertExits(p)
    BY <2>2 DEF InsertExits, CountFailure
  <2>3. CASE IndexRenameFails(p)
    BY <2>3 DEF IndexRenameFails, CountFailure
  <2>. QED BY <1>5, <2>1, <2>2, <2>3
<1>6. CASE DeleteFails(p) \/ DeleteMapFails(p)
  <2>1. CASE DeleteFails(p)
    BY <2>1 DEF DeleteFails, CountFailure
  <2>2. CASE DeleteMapFails(p)
    BY <2>2 DEF DeleteMapFails, CountFailure
  <2>. QED BY <1>6, <2>1, <2>2
<1>7. CASE OpenStartDbs(p)
  <2>1. CASE ~ Job(p).del /\ Job(p).recs = {}
    BY <1>7, <2>1 DEF OpenStartDbs
  <2>2. CASE ~ (~ Job(p).del /\ Job(p).recs = {})
    <3>1. /\ proc'[p].pc \in {"host", "inactivate"} /\ proc'[p].job = proc[p].job
          /\ At(p, "start")
          /\ \A q \in Procs \ {p} : proc'[q] = proc[q]
      BY <1>7, <2>2 DEF OpenStartDbs
    <3>. QED BY <1>7, <3>1 DEF OpenStartDbs
  <2>. QED BY <2>1, <2>2
<1>8. CASE \E op \in Ops : UpdateList(p, op)
  <2>1. PICK op \in Ops : UpdateList(p, op)
    BY <1>8
  <2>2. /\ proc' = [proc EXCEPT ![p].todo = @ \ {op}] /\ At(p, "index")
        /\ UNCHANGED <<inputs, lock, overlap>>
    BY <2>1 DEF UpdateList
  <2>. QED BY <2>2
<1>. QED BY <1>1, <1>2, <1>3, <1>4, <1>5, <1>6, <1>7, <1>8

\* A step of process p outside of that part.
Apart(p) ==
    /\ ~ Updating(p) /\ ~ Updating(p)'
    /\ \A q \in Procs \ {p} : proc'[q] = proc[q]
    /\ UNCHANGED <<lists, tableFile, siteFile, lock, crashes, failures, overlap>>

\* The parent before it creates the lock file, and after it has removed it.
LEMMA ParentApart ==
    ASSUME ProcOK, NEW p \in Procs,
           \/ FindLocked(p) \/ GiveUp(p) \/ FindUnlocked(p) \/ CloseHostDbs(p)
           \/ Consume(p) \/ Reread(p) \/ Rewrite(p) \/ LeaveRecord(p)
    PROVE  Apart(p)
<1>0. proc \in [Procs -> ProcRec] /\ Idle.pc = "idle"
  BY DEF ProcOK, Idle
<1>. USE <1>0 DEF Apart, Updating, Goto, ProcRec, catalog, faults
<1>1. CASE FindLocked(p) \/ GiveUp(p) \/ FindUnlocked(p)
  BY <1>1 DEF FindLocked, GiveUp, FindUnlocked
<1>2. CASE CloseHostDbs(p)
  BY <1>2 DEF CloseHostDbs
<1>3. CASE Consume(p)
  <2>1. CASE Job(p).del
    BY <1>3, <2>1 DEF Consume
  <2>2. CASE ~ Job(p).del
    BY <1>3, <2>2 DEF Consume
  <2>. QED BY <2>1, <2>2
<1>4. CASE Reread(p)
  <2>1. PICK rec : proc' = [proc EXCEPT ![p].pc = "rewrite", ![p].opened.rec = rec]
    BY <1>4 DEF Reread
  <2>. QED BY <1>4, <2>1 DEF Reread
<1>5. CASE Rewrite(p) \/ LeaveRecord(p)
  BY <1>5 DEF Rewrite, LeaveRecord
<1>. QED BY <1>1, <1>2, <1>3, <1>4, <1>5

\* The steps outside of that part, and those that enter and leave it.
LEMMA ParentLock ==
    ASSUME LockInv, DataOK, ProcOK', NEW p \in Procs,
           \/ \E in \in Inputs : Begin(p, in)
           \/ FindLocked(p) \/ GiveUp(p) \/ FindUnlocked(p) \/ CreateLock(p)
           \/ Unlock(p) \/ CloseHostDbs(p) \/ Consume(p) \/ Reread(p) \/ Rewrite(p)
           \/ LeaveRecord(p) \/ Crash(p)
    PROVE  LockInv'
<1>0. /\ proc \in [Procs -> ProcRec]
      /\ \A q \in Procs : At(q, "idle") <=> Job(q) = NoJob
      /\ Idle.pc = "idle" /\ Idle.job = NoJob
  BY DEF LockInv, ProcOK, Idle
<1>. USE <1>0, NoJobAssumption
<1>1. ASSUME NEW in \in Inputs, Begin(p, in) PROVE LockInv'
  <2>1. CASE Stale(in)
    <3>1. /\ inputs[in] = "ready" /\ inputs' = [inputs EXCEPT ![in] = "gone"]
          /\ UNCHANGED <<lock, proc, overlap>>
      BY <1>1, <2>1 DEF Begin, faults
    <3>2. JobsTaken' /\ LockOwned'
      BY <3>1 DEF LockInv, JobsTaken, LockOwned, Updating, HasInput
    <3>. QED BY <3>1, <3>2 DEF LockInv, Excluded, MutualExclusion, Updating
  <2>2. CASE ~ Stale(in)
    <3>1. /\ inputs[in] = "ready" /\ inputs' = [inputs EXCEPT ![in] = "taken"]
          /\ At(p, "idle")
          /\ UNCHANGED <<lock, overlap>>
      BY <1>1, <2>2 DEF Begin, faults
    <3>2. /\ proc'[p].pc = "wait" /\ proc'[p].job = in
          /\ \A q \in Procs \ {p} : proc'[q] = proc[q]
      <4>. DEFINE r == [Idle EXCEPT !.pc = "wait", !.job = in]
      <4>1. Idle \in ProcRec
        BY DEF Idle, ProcRec, PCs, NoRec, Recs, Lists, MAX_UTRIES
      <4>2. r.pc = "wait" /\ r.job = in
        BY <4>1 DEF ProcRec
      <4>3. proc' = [proc EXCEPT ![p] = r]
        BY <1>1, <2>2 DEF Begin
      <4>. HIDE DEF r
      <4>. QED BY <4>2, <4>3
    <3>3. \A q \in Procs : Updating(q)' <=> Updating(q)
      BY <3>1, <3>2 DEF Updating
    <3>4. Excluded'
      BY <3>1, <3>3 DEF LockInv, Excluded, MutualExclusion
    <3>5. JobsTaken'
      BY <3>1, <3>2 DEF LockInv, DataOK, JobsTaken, HasInput
    <3>6. LockOwned'
      BY <3>1, <3>2, <3>3 DEF LockInv, LockOwned, HasInput
    <3>. QED BY <3>4, <3>5, <3>6 DEF LockInv
  <2>. QED BY <2>1, <2>2
<1>2. CASE FindLocked(p) \/ FindUnlocked(p) \/ CloseHostDbs(p)
  <2>1. /\ HasInput(p) /\ HasInput(p)' /\ Job(p)' = Job(p) /\ UNCHANGED inputs
        /\ Apart(p)
    <3>1. HasInput(p) /\ HasInput(p)' /\ Job(p)' = Job(p) /\ UNCHANGED inputs
      BY <1>2 DEF FindLocked, FindUnlocked, CloseHostDbs, Goto, ProcRec, faults, HasInput
    <3>. QED BY <1>2, <3>1, ParentApart DEF LockInv
  <2>2. \A q \in Procs : /\ Updating(q)' <=> Updating(q)
                         /\ HasInput(q)' <=> HasInput(q)
                         /\ Job(q)' = Job(q)
    BY <2>1 DEF Updating, HasInput, Apart
  <2>3. Excluded'
    BY <2>1, <2>2 DEF LockInv, Excluded, MutualExclusion, Apart
  <2>4. JobsTaken'
    BY <2>1, <2>2 DEF LockInv, JobsTaken
  <2>5. LockOwned'
    BY <2>1, <2>2 DEF LockInv, LockOwned, Apart
  <2>. QED BY <2>3, <2>4, <2>5 DEF LockInv
<1>3. CASE GiveUp(p) \/ Reread(p) \/ Rewrite(p) \/ LeaveRecord(p) \/ Crash(p)
  <2>1. /\ proc'[p].pc \in {"idle", "rewrite"}
        /\ \A q \in Procs \ {p} : proc'[q] = proc[q]
        /\ UNCHANGED <<inputs, lock, overlap>>
    <3>1. CASE Reread(p)
      <4>1. PICK rec : proc' = [proc EXCEPT ![p].pc = "rewrite", ![p].opened.rec = rec]
        BY <3>1 DEF Reread
      <4>. QED BY <3>1, <4>1 DEF Reread, ProcRec
    <3>. QED BY <1>3, <3>1 DEF GiveUp, Rewrite, LeaveRecord, Crash, faults
  <2>2. /\ ~ Updating(p)' /\ \A q \in Procs : Updating(q)' => Updating(q)
        /\ \A q \in Procs \ {p} : Updating(q)' <=> Updating(q)
    BY <2>1 DEF Updating
  <2>3. Excluded'
    BY <2>1, <2>2 DEF LockInv, Excluded, MutualExclusion
  <2>4. JobsTaken'
    BY <2>1 DEF LockInv, JobsTaken, HasInput
  <2>5. LockOwned'
    BY <2>1, <2>2 DEF LockInv, LockOwned, HasInput
  <2>. QED BY <2>3, <2>4, <2>5 DEF LockInv
<1>4. CASE CreateLock(p)
  <2>1. /\ At(p, "create") /\ proc'[p].pc = "start" /\ proc'[p].job = Job(p)
        /\ \A q \in Procs \ {p} : proc'[q] = proc[q]
        /\ lock' = TRUE /\ overlap' = (overlap \/ lock) /\ UNCHANGED inputs
    BY <1>4 DEF CreateLock, Goto, ProcRec
  <2>2. /\ Updating(p)'
        /\ \A q \in Procs \ {p} : Updating(q)' <=> Updating(q)
    BY <2>1 DEF Updating
  <2>3. Excluded'
    BY <2>1, <2>2 DEF LockInv, Excluded, MutualExclusion
  <2>4. JobsTaken'
    BY <2>1 DEF LockInv, JobsTaken, HasInput
  <2>5. LockOwned'
    <3>1. Job(p) \in Inputs /\ inputs[Job(p)] = "taken"
      BY <2>1, JobType DEF LockInv, JobsTaken, HasInput
    <3>2. \A q \in Procs : HasInput(q)' /\ Job(q)' = Job(p) => q = p
      BY <2>1 DEF LockInv, JobsTaken, HasInput
    <3>. QED BY <2>1, <2>2, <3>1, <3>2 DEF LockOwned
  <2>. QED BY <2>3, <2>4, <2>5 DEF LockInv
<1>5. CASE Unlock(p)
  <2>1. /\ At(p, "unlock") /\ proc'[p].pc \in {"flush", "consume"} /\ proc'[p].job = Job(p)
        /\ \A q \in Procs \ {p} : proc'[q] = proc[q]
        /\ lock' = FALSE /\ UNCHANGED <<inputs, overlap>>
    BY <1>5 DEF Unlock, Goto, ProcRec, faults
  <2>2. /\ Updating(p) /\ ~ Updating(p)'
        /\ \A q \in Procs \ {p} : Updating(q)' <=> Updating(q)
    BY <2>1 DEF Updating
  <2>3. Excluded'
    BY <2>1, <2>2 DEF LockInv, Excluded, MutualExclusion
  <2>4. JobsTaken'
    BY <2>1 DEF LockInv, JobsTaken, HasInput
  <2>. QED BY <2>1, <2>3, <2>4 DEF LockInv, LockOwned
<1>6. CASE Consume(p)
  <2>1. /\ At(p, "consume") /\ inputs' = [inputs EXCEPT ![Job(p)] = "gone"]
        /\ proc'[p].pc \in {"idle", "reread"}
        /\ \A q \in Procs \ {p} : proc'[q] = proc[q]
        /\ UNCHANGED <<lock, overlap>>
    <3>1. CASE Job(p).del
      BY <1>6, <3>1 DEF Consume, faults
    <3>2. CASE ~ Job(p).del
      BY <1>6, <3>2 DEF Consume, faults, ProcRec
    <3>. QED BY <3>1, <3>2
  <2>2. \A q \in Procs : Updating(q)' <=> Updating(q)
    BY <2>1 DEF Updating
  <2>3. Excluded'
    BY <2>1, <2>2 DEF LockInv, Excluded, MutualExclusion
  <2>4. JobsTaken'
    BY <2>1 DEF LockInv, JobsTaken, HasInput
  <2>5. LockOwned'
    <3>1. ASSUME NEW in \in Inputs, inputs[in] = "taken",
                 \A q \in Procs : HasInput(q) /\ Job(q) = in => Updating(q)
          PROVE  /\ inputs'[in] = "taken"
                 /\ \A q \in Procs : HasInput(q)' /\ Job(q)' = in => Updating(q)'
      <4>1. Job(p) # in
        BY <2>1, <3>1 DEF Updating, HasInput
      <4>2. ~ HasInput(p)'
        BY <2>1 DEF HasInput
      <4>3. inputs'[in] = "taken"
        BY <2>1, <3>1, <4>1
      <4>4. \A q \in Procs \ {p} : HasInput(q)' /\ Job(q)' = in => Updating(q)'
        BY <2>1, <2>2, <3>1 DEF HasInput
      <4>. QED BY <4>2, <4>3, <4>4
    <3>. QED BY <2>1, <3>1 DEF LockInv, LockOwned
  <2>. QED BY <2>3, <2>4, <2>5 DEF LockInv
<1>. QED BY <1>1, <1>2, <1>3, <1>4, <1>5, <1>6

\* Every step keeps the lock protocol.
LEMMA NextLock == TypeInv /\ LockInv /\ [Next]_vars => LockInv'
<1>. SUFFICES ASSUME TypeInv, LockInv, [Next]_vars PROVE LockInv'
  OBVIOUS
<1>0. ProcOK'
  BY NextType DEF TypeInv
<1>1. ASSUME NEW in \in Inputs, Arrive(in) PROVE LockInv'
  <2>1. /\ inputs[in] = "gone" /\ inputs' = [inputs EXCEPT ![in] = "ready"]
        /\ UNCHANGED <<lock, proc, overlap>>
    BY <1>1 DEF Arrive, faults
  <2>2. JobsTaken' /\ LockOwned'
    BY <2>1 DEF LockInv, JobsTaken, LockOwned, Updating, HasInput
  <2>. QED BY <1>0, <2>1, <2>2 DEF LockInv, Excluded, MutualExclusion, Updating
<1>2. ASSUME NEW p \in Procs, NEW in \in Inputs, Begin(p, in) PROVE LockInv'
  BY <1>0, <1>2, ParentLock DEF TypeInv
<1>3. ASSUME NEW p \in Procs, Step(p) PROVE LockInv'
  BY <1>0, <1>3, ParentLock, ChildWorks, WorkingLock DEF TypeInv, Step, LockInv
<1>4. ASSUME NEW p \in Procs, Fault(p) PROVE LockInv'
  BY <1>0, <1>4, ParentLock, ChildWorks, WorkingLock DEF TypeInv, Fault, LockInv
<1>5. CASE UNCHANGED vars
  BY <1>0, <1>5 DEF vars, faults, LockInv, Excluded, MutualExclusion, JobsTaken, LockOwned,
                     Updating, HasInput
<1>. QED BY <1>1, <1>2, <1>3, <1>4, <1>5 DEF Next

\* The lock protocol of update_anonftp holds always.
THEOREM LockInvariance == Spec => []LockInv
BY InitLock, NextLock, TypeInvariance, PTL DEF Spec

\* update_anonftp's lock file keeps updates apart for any number of processes,
\* whatever dies, as long as fopen has not been won twice.
THEOREM LockExcludesUpdates == Spec => []LockExcludes
<1>1. LockInv => LockExcludes
  BY DEF LockInv, Excluded, LockExcludes
<1>. QED BY <1>1, LockInvariance, PTL

\* A lock file always stands for an input file that is not worked off, races
\* for the lock included.
THEOREM LockMarksInput == Spec => []LockHasInput
<1>1. LockInv => LockHasInput
  BY DEF LockInv, LockOwned, LockHasInput
<1>. QED BY <1>1, LockInvariance, PTL
-----------------------------------------------------------------------------
(***************************************************************************)
(* The catalog.  As long as no call has failed and no lock file was created *)
(* over another one, the lists, the table and the site files agree whenever *)
(* nobody updates and no lock file is left; during an update they agree for *)
(* all other sites, and for its own one as far as it has come.             *)
(***************************************************************************)
InsertPlaces == {"inactivate", "hostdb", "activate", "compare", "idx", "truncate"}
DeletePlaces == {"host", "unlink", "mark"}

\* The host table that goes with the lists l while a process r updates, if the
\* table file holds tf.
TableOf(r, tf) == IF r.pc \in {"start", "unlink", "mark", "unlock"} THEN tf ELSE r.table

\* No site has two entries, and no list has an index of none.
Sound(l, tab) ==
    /\ \A i, j \in DOMAIN tab : tab[i] = tab[j] => i = j
    /\ \A x \in Starts : l[x] \subseteq DOMAIN tab

\* Indexed, for any lists.
ListedIn(l, tab, s) == {x \in Starts : \E i \in l[x] : i \in DOMAIN tab /\ tab[i] = s}

Adds(r) == {x \in Starts : [op |-> "add", start |-> x] \in r.todo}
Dels(r) == {x \in Starts : [op |-> "del", start |-> x] \in r.todo}

\* While the lists are changed, a string is new and still to be added, or old and
\* still to be removed, or what it will be.
HalfDone(r, l, old) ==
    /\ Adds(r) \subseteq Target(r) \ old
    /\ Dels(r) \subseteq old \ Target(r)
    /\ \A x \in Starts \ (Adds(r) \cup Dels(r)) :
          x \in ListedIn(l, r.table, r.job.site) <=> x \in Target(r)

\* The site is in no list any more, and its file is still there.
Emptied(r) == r.pc = "unlink" \/ (r.pc = "write" /\ r.job.del)

\* A catalog that process r is updating.
CatalogOf(r, l, tf, sf) ==
    /\ r.pc \in InsertPlaces => ~ r.job.del
    /\ r.pc \in DeletePlaces => r.job.del
    /\ r.pc = "host" => r.table = tf
    /\ Sound(l, TableOf(r, tf))
    /\ \A s \in Sites \ {r.job.site} : ListedIn(l, TableOf(r, tf), s) = sf[s]
    /\ r.pc = "index" => HalfDone(r, l, sf[r.job.site])
    /\ Emptied(r) => ListedIn(l, TableOf(r, tf), r.job.site) = {}
    /\ r.pc # "index" /\ ~ Emptied(r)
          => ListedIn(l, TableOf(r, tf), r.job.site) = sf[r.job.site]

\* A catalog that nobody is updating.
CatalogWhole(l, tf, sf) ==
    /\ Sound(l, tf)
    /\ \A s \in Sites : ListedIn(l, tf, s) = sf[s]

\* Every catalog that is updated is as far as its update has come.
CatalogInv ==
    failures = 0 /\ ~ overlap =>
        /\ \A p \in Procs : Updating(p) => CatalogOf(proc[p], lists, tableFile, siteFile)
        /\ ~ lock => CatalogWhole(lists, tableFile, siteFile)
-----------------------------------------------------------------------------
\* Indexed is ListedIn, of the lists on disk.
LEMMA ListedForm ==
    ASSUME NEW tab, NEW s
    PROVE  Indexed(tab, s) = ListedIn(lists, tab, s)
BY DEF Indexed, ListedIn

\* The one entry of a site in a sound table.
LEMMA EntryUnique ==
    ASSUME NEW tab \in Seq(Sites), NEW l, Sound(l, tab), NEW s, Find(tab, s) # {}
    PROVE  /\ Index(tab, s) \in DOMAIN tab
           /\ tab[Index(tab, s)] = s
           /\ \A j \in DOMAIN tab : tab[j] = s => j = Index(tab, s)
<1>1. Find(tab, s) \in SUBSET Nat
  BY DEF Find
<1>2. \E i \in Find(tab, s) : \A j \in Find(tab, s) : i <= j
  BY <1>1, LeastExists
<1>3. Index(tab, s) \in Find(tab, s)
  BY <1>2 DEF Index
<1>. QED BY <1>3 DEF Find, Sound

\* One list with another index, or without one of its.
WithIndex(l, y, i) == [l EXCEPT ![y] = @ \cup {i}]
WithoutIndex(l, y, i) == [l EXCEPT ![y] = @ \ {i}]

\* update_start_dbs with ADD_SITE changes one site's strings by one.
LEMMA ListAdd ==
    ASSUME NEW tab \in Seq(Sites), NEW l \in Lists, Sound(l, tab), NEW s, Find(tab, s) # {},
           NEW y \in Starts, NEW m, m = WithIndex(l, y, Index(tab, s))
    PROVE  /\ Sound(m, tab)
           /\ ListedIn(m, tab, s) = ListedIn(l, tab, s) \cup {y}
           /\ \A t : t # s => ListedIn(m, tab, t) = ListedIn(l, tab, t)
<1>. DEFINE i == Index(tab, s)
<1>1. i \in DOMAIN tab /\ tab[i] = s
  BY EntryUnique
<1>. HIDE DEF i
<1>2. \A x \in Starts : \A k : k \in m[x] <=> k \in l[x] \/ (x = y /\ k = i)
  BY DEF Lists, WithIndex, i
<1>3. Sound(m, tab)
  <2>1. \A x \in Starts : \A k : k \in m[x] => k \in DOMAIN tab
    BY <1>1, <1>2, Zenon DEF Sound
  <2>. QED BY <2>1, Zenon DEF Sound
<1>4. ListedIn(m, tab, s) = ListedIn(l, tab, s) \cup {y}
  BY <1>1, <1>2, Zenon DEF ListedIn
<1>5. ASSUME NEW t, t # s PROVE ListedIn(m, tab, t) = ListedIn(l, tab, t)
  BY <1>1, <1>2, <1>5, Zenon DEF ListedIn
<1>. QED BY <1>3, <1>4, <1>5

\* And with DELETE_SITE.
LEMMA ListDelete ==
    ASSUME NEW tab \in Seq(Sites), NEW l \in Lists, Sound(l, tab), NEW s, Find(tab, s) # {},
           NEW y \in Starts, NEW m, m = WithoutIndex(l, y, Index(tab, s))
    PROVE  /\ Sound(m, tab)
           /\ ListedIn(m, tab, s) = ListedIn(l, tab, s) \ {y}
           /\ \A t : t # s => ListedIn(m, tab, t) = ListedIn(l, tab, t)
<1>. DEFINE i == Index(tab, s)
<1>1. i \in DOMAIN tab /\ tab[i] = s /\ \A j \in DOMAIN tab : tab[j] = s => j = i
  BY EntryUnique
<1>. HIDE DEF i
<1>2. \A x \in Starts : \A k : k \in m[x] <=> k \in l[x] /\ ~ (x = y /\ k = i)
  BY DEF Lists, WithoutIndex, i
<1>3. Sound(m, tab)
  BY <1>2, Zenon DEF Sound
<1>4. ListedIn(m, tab, s) = ListedIn(l, tab, s) \ {y}
  BY <1>1, <1>2, Zenon DEF ListedIn
<1>5. ASSUME NEW t, t # s PROVE ListedIn(m, tab, t) = ListedIn(l, tab, t)
  BY <1>1, <1>2, <1>5, Zenon DEF ListedIn
<1>. QED BY <1>3, <1>4, <1>5

\* host_table_add changes nobody's strings: the new index is in no list.
LEMMA TableAdd ==
    ASSUME NEW tab \in Seq(Sites), NEW l \in Lists, Sound(l, tab), NEW s \in Sites
    PROVE  /\ Sound(l, WithSite(tab, s))
           /\ \A t : ListedIn(l, WithSite(tab, s), t) = ListedIn(l, tab, t)
<1>1. CASE Find(tab, s) # {}
  BY <1>1 DEF WithSite
<1>2. CASE Find(tab, s) = {}
  <2>. DEFINE new == Append(tab, s)
  <2>1. /\ DOMAIN new = DOMAIN tab \cup {Len(tab) + 1}
        /\ \A i \in DOMAIN tab : new[i] = tab[i]
        /\ new[Len(tab) + 1] = s /\ Len(tab) + 1 \notin DOMAIN tab
    OBVIOUS
  <2>2. \A i \in DOMAIN tab : tab[i] # s
    BY <1>2 DEF Find
  <2>. HIDE DEF new
  <2>3. Sound(l, new)
    BY <2>1, <2>2 DEF Sound
  <2>4. ASSUME NEW t PROVE ListedIn(l, new, t) = ListedIn(l, tab, t)
    BY <2>1 DEF ListedIn, Sound
  <2>5. WithSite(tab, s) = new
    BY <1>2 DEF WithSite, new
  <2>. QED BY <2>3, <2>4, <2>5
<1>. QED BY <1>1, <1>2

\* A process at another place of the program, the rest as it was.
LEMMA GotoFields ==
    ASSUME ProcOK, NEW p \in Procs, NEW pc, Goto(p, pc)
    PROVE  /\ proc'[p].pc = pc /\ proc'[p].job = proc[p].job
           /\ proc'[p].table = proc[p].table /\ proc'[p].todo = proc[p].todo
           /\ \A q \in Procs \ {p} : proc'[q] = proc[q]
BY DEF ProcOK, ProcRec, Goto

\* The parent after a deletion.
LEMMA MarkFields ==
    ASSUME ProcOK, NEW p \in Procs, MarkDeleted(p)
    PROVE  \E buffered \in {aux[Site(p)], NoRec} :
             /\ aux' = IF buffered # NoRec \/ aux[Site(p)] = NoRec THEN aux
                       ELSE [aux EXCEPT ![Site(p)] = Deleted(@)]
             /\ proc[p].pc = "mark" /\ proc'[p].pc = "unlock"
             /\ proc'[p].job = proc[p].job /\ proc'[p].opened.rec = buffered
             /\ \A q \in Procs \ {p} : proc'[q] = proc[q]
             /\ UNCHANGED <<lists, tableFile, siteFile>>
<1>1. PICK buffered \in {aux[Site(p)], NoRec} :
         /\ aux' = IF buffered # NoRec \/ aux[Site(p)] = NoRec THEN aux
                   ELSE [aux EXCEPT ![Site(p)] = Deleted(@)]
         /\ proc' = [proc EXCEPT ![p].pc = "unlock", ![p].opened.rec = buffered]
  BY DEF MarkDeleted
<1>2. /\ proc'[p].pc = "unlock" /\ proc'[p].job = proc[p].job
      /\ proc'[p].opened.rec = buffered /\ \A q \in Procs \ {p} : proc'[q] = proc[q]
  BY <1>1 DEF ProcOK, ProcRec
<1>3. proc[p].pc = "mark" /\ UNCHANGED <<lists, tableFile, siteFile>>
  BY DEF MarkDeleted, catalog
<1>. QED BY <1>1, <1>2, <1>3

\* Going on without touching the lists, the table or the site file.
LEMMA CatalogKept ==
    ASSUME NEW r, NEW q, NEW l, NEW tf, NEW tg, NEW sf, CatalogOf(r, l, tf, sf),
           TableOf(q, tg) = TableOf(r, tf), q.job = r.job,
           r.pc # "index", ~ Emptied(r), q.pc # "index", ~ Emptied(q),
           q.pc \in InsertPlaces => ~ r.job.del,
           q.pc \in DeletePlaces => r.job.del,
           q.pc = "host" => q.table = tg
    PROVE  CatalogOf(q, l, tg, sf)
BY DEF CatalogOf

\* insert_anonftp and delete_anonftp between their changes to the catalog.
LEMMA UpdateOnward ==
    ASSUME TypeInv, NEW p \in Procs, CatalogOf(proc[p], lists, tableFile, siteFile),
           \/ MarkDeleted(p) \/ Inactivate(p) \/ HostDbUpdate(p) \/ HostActive(p) \/ Activate(p)
           \/ RenameIdxFile(p) \/ OpenStartDbs(p) \/ (WriteTable(p) /\ ~ Job(p).del)
    PROVE  CatalogOf(proc'[p], lists', tableFile', siteFile')
<1>0. ProcOK /\ proc \in [Procs -> ProcRec]
  BY DEF TypeInv, ProcOK
<1>. USE DEF InsertPlaces, DeletePlaces, Emptied, TableOf, catalog
<1>1. CASE MarkDeleted(p)
  <2>1. /\ UNCHANGED <<lists, siteFile, tableFile>>
        /\ proc[p].pc = "mark" /\ proc'[p].pc = "unlock" /\ proc'[p].job = proc[p].job
    BY <1>0, <1>1, MarkFields
  <2>. QED BY <2>1, CatalogKept
<1>2. CASE Inactivate(p) \/ HostDbUpdate(p) \/ HostActive(p) \/ Activate(p) \/ RenameIdxFile(p)
  <2>1. /\ UNCHANGED <<lists, siteFile, tableFile>>
        /\ proc[p].pc \in InsertPlaces /\ proc'[p].pc \in InsertPlaces
        /\ proc'[p].table = proc[p].table /\ proc'[p].job = proc[p].job
    BY <1>0, <1>2, GotoFields DEF Inactivate, HostDbUpdate, HostActive, Activate, RenameIdxFile
  <2>2. ~ proc[p].job.del
    BY <2>1 DEF CatalogOf
  <2>. QED BY <2>1, <2>2, CatalogKept
<1>3. CASE OpenStartDbs(p)
  <2>1. At(p, "start") /\ UNCHANGED <<lists, siteFile, tableFile>>
    BY <1>3 DEF OpenStartDbs
  <2>2. CASE ~ Job(p).del /\ Job(p).recs = {}
    <3>1. Goto(p, "unlock")
      BY <1>3, <2>2 DEF OpenStartDbs
    <3>2. proc'[p].pc = "unlock" /\ proc'[p].job = proc[p].job
      BY <1>0, <3>1, GotoFields
    <3>. QED BY <2>1, <3>2, CatalogKept
  <2>3. CASE ~ (~ Job(p).del /\ Job(p).recs = {})
    <3>1. /\ proc'[p].pc = IF Job(p).del THEN "host" ELSE "inactivate"
          /\ proc'[p].table = tableFile /\ proc'[p].job = proc[p].job
      BY <1>0, <1>3, <2>3 DEF OpenStartDbs, ProcRec
    <3>. QED BY <2>1, <3>1, CatalogKept
  <2>. QED BY <2>2, <2>3
<1>4. CASE WriteTable(p) /\ ~ Job(p).del
  <2>1. /\ At(p, "write") /\ UNCHANGED <<lists, siteFile>> /\ tableFile' = proc[p].table
        /\ proc'[p].pc = "unlock" /\ proc'[p].job = proc[p].job
    BY <1>0, <1>4, GotoFields DEF WriteTable
  <2>. QED BY <1>4, <2>1, CatalogKept
<1>. QED BY <1>1, <1>2, <1>3, <1>4

\* The lists of the site when there is nothing left to do.
LEMMA NothingLeft ==
    ASSUME NEW r, NEW l, NEW old, HalfDone(r, l, old), r.todo = {}, Target(r) \subseteq Starts
    PROVE  ListedIn(l, r.table, r.job.site) = Target(r)
<1>1. Adds(r) = {} /\ Dels(r) = {}
  BY DEF Adds, Dels
<1>2. ListedIn(l, r.table, r.job.site) \subseteq Starts
  BY DEF ListedIn
<1>. QED BY <1>1, <1>2 DEF HalfDone

\* The changes to the catalog at the end of the lists.
LEMMA UpdateCloses ==
    ASSUME TypeInv, NEW p \in Procs, CatalogOf(proc[p], lists, tableFile, siteFile),
           \/ TruncateTable(p) \/ RenameSiteFile(p) \/ UnlinkSiteFile(p)
           \/ (WriteTable(p) /\ Job(p).del)
    PROVE  CatalogOf(proc'[p], lists', tableFile', siteFile')
<1>0. ProcOK /\ proc \in [Procs -> ProcRec]
  BY DEF TypeInv, ProcOK
<1>. DEFINE s == proc[p].job.site
<1>. USE DEF InsertPlaces, DeletePlaces, Emptied, TableOf
<1>1. CASE TruncateTable(p)
  <2>1. /\ UNCHANGED <<lists, siteFile>> /\ proc'[p].pc = "write"
        /\ proc'[p].job = proc[p].job /\ proc'[p].table = proc[p].table
    BY <1>0, <1>1, GotoFields DEF TruncateTable
  <2>2. CASE At(p, "truncate")
    <3>1. ~ proc[p].job.del
      BY <2>2 DEF CatalogOf
    <3>. QED BY <2>1, <2>2, <3>1, CatalogKept
  <2>3. CASE At(p, "index") /\ proc[p].todo = {} /\ Job(p).del
    <3>1. ListedIn(lists, proc[p].table, s) = {}
      BY <2>3, NothingLeft DEF CatalogOf, Target
    <3>. QED BY <2>1, <2>3, <3>1 DEF CatalogOf
  <2>. QED BY <1>1, <2>2, <2>3 DEF TruncateTable
<1>2. CASE RenameSiteFile(p)
  <2>1. /\ At(p, "index") /\ proc[p].todo = {} /\ ~ Job(p).del /\ UNCHANGED <<lists, tableFile>>
        /\ siteFile' = [siteFile EXCEPT ![s] = Job(p).recs]
        /\ proc'[p].pc = "idx" /\ proc'[p].job = proc[p].job /\ proc'[p].table = proc[p].table
    BY <1>0, <1>2, GotoFields DEF RenameSiteFile
  <2>2. s \in Sites /\ siteFile \in [Sites -> SUBSET Starts] /\ Job(p).recs \in SUBSET Starts
    BY <1>0, <2>1, JobType DEF TypeInv, DataOK
  <2>3. ListedIn(lists, proc[p].table, s) = Job(p).recs
    BY <2>1, <2>2, NothingLeft DEF CatalogOf, Target
  <2>. QED BY <2>1, <2>2, <2>3 DEF CatalogOf
<1>3. CASE UnlinkSiteFile(p)
  <2>1. /\ At(p, "unlink") /\ UNCHANGED <<lists, tableFile>>
        /\ siteFile' = [siteFile EXCEPT ![s] = {}]
        /\ proc'[p].pc = "mark" /\ proc'[p].job = proc[p].job
    BY <1>0, <1>3, GotoFields DEF UnlinkSiteFile, NoFile
  <2>2. s \in Sites /\ siteFile \in [Sites -> SUBSET Starts]
    BY <1>0, <2>1, JobType DEF TypeInv, DataOK
  <2>3. ListedIn(lists, tableFile, s) = {} /\ Job(p).del
    BY <2>1 DEF CatalogOf
  <2>. QED BY <2>1, <2>2, <2>3 DEF CatalogOf
<1>4. CASE WriteTable(p) /\ Job(p).del
  <2>1. /\ At(p, "write") /\ UNCHANGED <<lists, siteFile>> /\ tableFile' = proc[p].table
        /\ proc'[p].pc = "unlink" /\ proc'[p].job = proc[p].job
    BY <1>0, <1>4, GotoFields DEF WriteTable
  <2>. QED BY <1>4, <2>1 DEF CatalogOf
<1>. QED BY <1>1, <1>2, <1>3, <1>4

\* The strings that a list of changes adds and removes.
LEMMA TodoSets ==
    ASSUME NEW old \in SUBSET Starts, NEW new \in SUBSET Starts, NEW r,
           r.todo = AddAll(new) \cup DelAll(old)
    PROVE  Adds(r) = new /\ Dels(r) = old
<1>1. \A x : /\ [op |-> "add", start |-> x] \in AddAll(new) <=> x \in new
             /\ [op |-> "add", start |-> x] \notin DelAll(old)
  BY DEF AddAll, DelAll
<1>2. \A x : /\ [op |-> "del", start |-> x] \in DelAll(old) <=> x \in old
             /\ [op |-> "del", start |-> x] \notin AddAll(new)
  BY DEF AddAll, DelAll
<1>3. \A x : [op |-> "add", start |-> x] \in r.todo <=> x \in new
  BY <1>1, Zenon
<1>4. \A x : [op |-> "del", start |-> x] \in r.todo <=> x \in old
  BY <1>2, Zenon
<1>. QED BY <1>3, <1>4, Zenon DEF Adds, Dels

\* Both children decide what is to be done to the lists.
LEMMA UpdateStarts ==
    ASSUME TypeInv, NEW p \in Procs, CatalogOf(proc[p], lists, tableFile, siteFile),
           Compare(p) \/ DeleteHost(p)
    PROVE  CatalogOf(proc'[p], lists', tableFile', siteFile')
<1>. DEFINE s == proc[p].job.site
            tab == proc[p].table
            old == siteFile[s]
            new == proc[p].job.recs
<1>0. /\ ProcOK /\ proc[p] \in ProcRec /\ proc \in [Procs -> ProcRec]
      /\ s \in Sites /\ tab \in Seq(Sites) /\ lists \in Lists
      /\ old \in SUBSET Starts /\ new \in SUBSET Starts
      /\ UNCHANGED <<lists, siteFile, tableFile>>
  BY JobType DEF TypeInv, ProcOK, ProcRec, DataOK, Compare, DeleteHost, catalog
<1>. USE DEF InsertPlaces, DeletePlaces, Emptied, TableOf
<1>1. CASE Compare(p)
  <2>1. proc[p].pc = "compare" /\ ~ proc[p].job.del
    BY <1>1 DEF Compare, CatalogOf
  <2>2. ListedIn(lists, tab, s) = old /\ Sound(lists, tab)
    BY <2>1 DEF CatalogOf
  <2>3. CASE old = NoFile
    <3>1. /\ proc'[p].pc = "index" /\ proc'[p].job = proc[p].job
          /\ proc'[p].table = WithSite(tab, s) /\ proc'[p].todo = AddAll(new)
      BY <1>0, <1>1, <2>3 DEF Compare, ProcRec
    <3>2. /\ Sound(lists, WithSite(tab, s))
          /\ \A t : ListedIn(lists, WithSite(tab, s), t) = ListedIn(lists, tab, t)
      BY <1>0, <2>2, TableAdd
    <3>3. Adds(proc'[p]) = new /\ Dels(proc'[p]) = {}
      <4>1. proc'[p].todo = AddAll(new) \cup DelAll({})
        BY <3>1 DEF DelAll
      <4>. QED BY <1>0, <4>1, TodoSets
    <3>4. HalfDone(proc'[p], lists, old)
      BY <2>1, <2>2, <2>3, <3>1, <3>2, <3>3 DEF HalfDone, Target, NoFile
    <3>. QED BY <1>0, <2>1, <3>1, <3>2, <3>4 DEF CatalogOf
  <2>4. CASE old # NoFile /\ Find(tab, s) # {}
    <3>1. /\ proc'[p].pc = "index" /\ proc'[p].job = proc[p].job
          /\ proc'[p].table = tab /\ proc'[p].todo = Merge(old, new)
      BY <1>0, <1>1, <2>4 DEF Compare, ProcRec
    <3>2. Adds(proc'[p]) = new \ old /\ Dels(proc'[p]) = old \ new
      BY <1>0, <3>1, TodoSets DEF Merge
    <3>3. HalfDone(proc'[p], lists, old)
      BY <2>1, <2>2, <3>1, <3>2 DEF HalfDone, Target
    <3>. QED BY <1>0, <2>1, <3>1, <3>3 DEF CatalogOf
  <2>5. CASE old # NoFile /\ Find(tab, s) = {}
    <3>1. Goto(p, "truncate")
      BY <1>1, <2>5 DEF Compare
    <3>2. /\ proc'[p].pc = "truncate" /\ proc'[p].job = proc[p].job
          /\ proc'[p].table = proc[p].table
      BY <1>0, <3>1, GotoFields
    <3>. QED BY <1>0, <2>1, <3>2, CatalogKept
  <2>. QED BY <2>3, <2>4, <2>5
<1>2. CASE DeleteHost(p)
  <2>. DEFINE stop == aux[s] = NoRec \/ old = NoFile \/ Find(tab, s) = {}
  <2>1. /\ proc[p].pc = "host" /\ proc[p].job.del /\ tab = tableFile
        /\ ListedIn(lists, tab, s) = old
    BY <1>2 DEF DeleteHost, CatalogOf
  <2>2. CASE stop
    <3>1. Goto(p, "mark")
      BY <1>2, <2>2 DEF DeleteHost
    <3>2. proc'[p].pc = "mark" /\ proc'[p].job = proc[p].job
      BY <1>0, <3>1, GotoFields
    <3>. QED BY <1>0, <2>1, <3>2, CatalogKept
  <2>3. CASE ~ stop
    <3>1. /\ proc'[p].pc = "index" /\ proc'[p].job = proc[p].job
          /\ proc'[p].table = tab /\ proc'[p].todo = DelAll(old)
      BY <1>0, <1>2, <2>3 DEF DeleteHost, ProcRec
    <3>2. Adds(proc'[p]) = {} /\ Dels(proc'[p]) = old
      <4>1. proc'[p].todo = AddAll({}) \cup DelAll(old)
        BY <3>1 DEF AddAll
      <4>. QED BY <1>0, <4>1, TodoSets
    <3>3. HalfDone(proc'[p], lists, old)
      BY <2>1, <3>1, <3>2 DEF HalfDone, Target
    <3>. QED BY <1>0, <2>1, <3>1, <3>3 DEF CatalogOf
  <2>. QED BY <2>2, <2>3
<1>. QED BY <1>1, <1>2

\* One string's list.
LEMMA UpdateChanges ==
    ASSUME TypeInv, NEW p \in Procs, CatalogOf(proc[p], lists, tableFile, siteFile),
           NEW op \in Ops, UpdateList(p, op)
    PROVE  CatalogOf(proc'[p], lists', tableFile', siteFile')
<1>. DEFINE s == proc[p].job.site
            tab == proc[p].table
            old == siteFile[s]
            y == op.start
<1>0. /\ proc[p] \in ProcRec /\ proc \in [Procs -> ProcRec] /\ tab \in Seq(Sites)
      /\ lists \in Lists /\ proc[p].todo \in SUBSET Ops
      /\ y \in Starts /\ op \in proc[p].todo /\ proc[p].pc = "index"
      /\ Find(tab, s) # {} /\ UNCHANGED <<siteFile, tableFile>>
  BY DEF TypeInv, ProcOK, ProcRec, DataOK, IndexFound, UpdateList, Ops
<1>1. /\ proc'[p].pc = "index" /\ proc'[p].job = proc[p].job
      /\ proc'[p].table = tab /\ proc'[p].todo = proc[p].todo \ {op}
  BY <1>0 DEF UpdateList, ProcRec
<1>2. Sound(lists, tab) /\ HalfDone(proc[p], lists, old)
  BY <1>0 DEF CatalogOf, TableOf
<1>3. \A x, k : [op |-> k, start |-> x] = op <=> k = op.op /\ x = y
  BY DEF Ops
<1>4. op.op \in {"add", "del"} /\ op = [op |-> op.op, start |-> y]
  BY DEF Ops
<1>5. CASE op.op = "add"
  <2>1. lists' = WithIndex(lists, y, Index(tab, s))
    BY <1>0, <1>5 DEF UpdateList, WithIndex
  <2>2. /\ Sound(lists', tab)
        /\ ListedIn(lists', tab, s) = ListedIn(lists, tab, s) \cup {y}
        /\ \A t : t # s => ListedIn(lists', tab, t) = ListedIn(lists, tab, t)
    <3>. HIDE DEF s, tab, y
    <3>. QED BY <1>0, <1>2, <2>1, ListAdd
  <2>3. Adds(proc'[p]) = Adds(proc[p]) \ {y} /\ Dels(proc'[p]) = Dels(proc[p])
    BY <1>0, <1>1, <1>3, <1>5 DEF Adds, Dels
  <2>4. y \in Adds(proc[p]) /\ Target(proc'[p]) = Target(proc[p])
    BY <1>0, <1>1, <1>4, <1>5 DEF Adds, Target
  <2>5. HalfDone(proc'[p], lists', old)
    BY <1>1, <1>2, <2>2, <2>3, <2>4 DEF HalfDone
  <2>. QED BY <1>0, <1>1, <2>2, <2>5 DEF CatalogOf, TableOf, Emptied, InsertPlaces, DeletePlaces
<1>6. CASE op.op = "del"
  <2>1. lists' = WithoutIndex(lists, y, Index(tab, s))
    BY <1>0, <1>6 DEF UpdateList, WithoutIndex
  <2>2. /\ Sound(lists', tab)
        /\ ListedIn(lists', tab, s) = ListedIn(lists, tab, s) \ {y}
        /\ \A t : t # s => ListedIn(lists', tab, t) = ListedIn(lists, tab, t)
    <3>. HIDE DEF s, tab, y
    <3>. QED BY <1>0, <1>2, <2>1, ListDelete
  <2>3. Adds(proc'[p]) = Adds(proc[p]) /\ Dels(proc'[p]) = Dels(proc[p]) \ {y}
    BY <1>0, <1>1, <1>3, <1>6 DEF Adds, Dels
  <2>4. y \in Dels(proc[p]) /\ Target(proc'[p]) = Target(proc[p])
    BY <1>0, <1>1, <1>4, <1>6 DEF Dels, Target
  <2>5. HalfDone(proc'[p], lists', old)
    BY <1>1, <1>2, <2>2, <2>3, <2>4 DEF HalfDone
  <2>. QED BY <1>0, <1>1, <2>2, <2>5 DEF CatalogOf, TableOf, Emptied, InsertPlaces, DeletePlaces
<1>. QED BY <1>4, <1>5, <1>6

\* Steps of processes that do not update.
LEMMA CatalogAlone ==
    ASSUME CatalogInv, UNCHANGED <<lists, tableFile, siteFile, lock, failures, overlap>>,
           \A q \in Procs : Updating(q)' => Updating(q) /\ proc'[q] = proc[q]
    PROVE  CatalogInv'
BY Zenon DEF CatalogInv

\* Steps of the one that does.
LEMMA CatalogStep ==
    ASSUME TypeInv, LockInv, CatalogInv, NEW p \in Procs, Working(p),
           CatalogOf(proc[p], lists, tableFile, siteFile)
              => CatalogOf(proc'[p], lists', tableFile', siteFile'),
           failures' = failures
    PROVE  CatalogInv'
<1>. SUFFICES ASSUME failures' = 0, ~ overlap' PROVE CatalogInv'
  BY DEF CatalogInv
<1>1. failures = 0 /\ ~ overlap /\ lock' = lock
  BY DEF Working
<1>2. Updating(p) /\ lock /\ \A q \in Procs \ {p} : ~ Updating(q)
  BY <1>1 DEF LockInv, Excluded, MutualExclusion, Working
<1>3. \A q \in Procs \ {p} : ~ Updating(q)'
  BY <1>2 DEF Working, Updating
<1>4. CatalogOf(proc'[p], lists', tableFile', siteFile')
  BY <1>1, <1>2 DEF CatalogInv
<1>. QED BY <1>1, <1>2, <1>3, <1>4 DEF CatalogInv

\* Every step keeps the agreement of lists, table and site files.
LEMMA NextCatalog == TypeInv /\ LockInv /\ CatalogInv /\ [Next]_vars => CatalogInv'
<1>. SUFFICES ASSUME TypeInv, LockInv, CatalogInv, [Next]_vars PROVE CatalogInv'
  OBVIOUS
<1>0. ProcOK /\ proc \in [Procs -> ProcRec] /\ failures \in Nat
  BY BoundsAssumption DEF TypeInv, ProcOK, DataOK
<1>1. ASSUME NEW in \in Inputs, Arrive(in) PROVE CatalogInv'
  BY <1>1, CatalogAlone DEF Arrive, catalog, faults, Updating
<1>2. ASSUME NEW p \in Procs, NEW in \in Inputs, Begin(p, in) PROVE CatalogInv'
  <2>1. /\ UNCHANGED <<lists, tableFile, siteFile, lock, failures, overlap>>
        /\ \A q \in Procs \ {p} : proc'[q] = proc[q]
    BY <1>0, <1>2 DEF Begin, catalog, faults
  <2>2. ~ Updating(p)'
    BY <1>0, <1>2 DEF Begin, Updating, Idle
  <2>. QED BY <2>1, <2>2, CatalogAlone DEF Updating
<1>3. ASSUME NEW p \in Procs, Step(p) PROVE CatalogInv'
  <2>1. CASE \/ FindLocked(p) \/ GiveUp(p) \/ FindUnlocked(p) \/ CloseHostDbs(p)
             \/ Consume(p) \/ Reread(p) \/ Rewrite(p) \/ LeaveRecord(p)
    <3>1. Apart(p)
      BY <1>0, <2>1, ParentApart
    <3>. QED BY <3>1, CatalogAlone DEF Apart, Updating
  <2>2. CASE CreateLock(p)
    <3>. SUFFICES ASSUME failures' = 0, ~ overlap' PROVE CatalogInv'
      BY DEF CatalogInv
    <3>1. /\ proc'[p].pc = "start" /\ proc'[p].job = proc[p].job /\ proc[p].pc = "create"
          /\ \A q \in Procs \ {p} : proc'[q] = proc[q]
          /\ UNCHANGED <<lists, tableFile, siteFile, failures>>
          /\ lock' = TRUE /\ ~ overlap /\ ~ lock
      BY <1>0, <2>2, GotoFields DEF CreateLock, catalog
    <3>2. \A q \in Procs \ {p} : ~ Updating(q)'
      BY <3>1 DEF LockInv, Excluded, Updating
    <3>3. CatalogWhole(lists, tableFile, siteFile)
      BY <3>1 DEF CatalogInv
    <3>4. Site(p) \in Sites
      BY <1>0, <3>1, JobType
    <3>5. CatalogOf(proc'[p], lists', tableFile', siteFile')
      BY <3>1, <3>3, <3>4
         DEF CatalogWhole, CatalogOf, TableOf, Emptied, InsertPlaces, DeletePlaces
    <3>. QED BY <3>1, <3>2, <3>5 DEF CatalogInv
  <2>3. CASE Unlock(p)
    <3>. SUFFICES ASSUME failures' = 0, ~ overlap' PROVE CatalogInv'
      BY DEF CatalogInv
    <3>1. /\ proc'[p].pc \in {"flush", "consume"} /\ proc[p].pc = "unlock"
          /\ \A q \in Procs \ {p} : proc'[q] = proc[q]
          /\ UNCHANGED <<lists, tableFile, siteFile, failures, overlap>>
      BY <1>0, <2>3, GotoFields DEF Unlock, catalog, faults
    <3>2. Updating(p)
      BY <3>1 DEF Updating
    <3>3. \A q \in Procs : ~ Updating(q)'
      BY <3>1, <3>2 DEF LockInv, Excluded, MutualExclusion, Updating
    <3>4. CatalogOf(proc[p], lists, tableFile, siteFile)
      BY <3>1, <3>2 DEF CatalogInv
    <3>5. CatalogWhole(lists, tableFile, siteFile)
      BY <3>1, <3>4 DEF CatalogWhole, CatalogOf, TableOf, Emptied
    <3>. QED BY <3>1, <3>3, <3>5 DEF CatalogInv
  <2>4. CASE \/ MarkDeleted(p) \/ Inactivate(p) \/ HostDbUpdate(p) \/ HostActive(p)
             \/ Activate(p) \/ RenameIdxFile(p) \/ OpenStartDbs(p) \/ WriteTable(p)
    <3>1. Working(p) /\ failures' = failures
      BY <1>0, <2>4, ChildWorks DEF MarkDeleted, Inactivate, HostDbUpdate, HostActive, Activate,
                            RenameIdxFile, OpenStartDbs, WriteTable, faults
    <3>2. CatalogOf(proc[p], lists, tableFile, siteFile)
             => CatalogOf(proc'[p], lists', tableFile', siteFile')
      BY <2>4, UpdateOnward, UpdateCloses
    <3>. QED BY <3>1, <3>2, CatalogStep
  <2>5. CASE \/ TruncateTable(p) \/ RenameSiteFile(p) \/ UnlinkSiteFile(p)
             \/ Compare(p) \/ DeleteHost(p) \/ (\E op \in Ops : UpdateList(p, op))
    <3>1. Working(p) /\ failures' = failures
      BY <1>0, <2>5, ChildWorks DEF TruncateTable, RenameSiteFile, UnlinkSiteFile, Compare,
                            DeleteHost, UpdateList, faults
    <3>2. CatalogOf(proc[p], lists, tableFile, siteFile)
             => CatalogOf(proc'[p], lists', tableFile', siteFile')
      BY <2>5, UpdateCloses, UpdateStarts, UpdateChanges
    <3>. QED BY <3>1, <3>2, CatalogStep
  <2>. QED BY <1>3, <2>1, <2>2, <2>3, <2>4, <2>5 DEF Step
<1>4. ASSUME NEW p \in Procs, Fault(p) PROVE CatalogInv'
  <2>1. CASE Crash(p)
    <3>1. /\ proc'[p].pc = "idle" /\ proc[p].pc # "idle"
          /\ \A q \in Procs \ {p} : proc'[q] = proc[q]
          /\ UNCHANGED <<tableFile, siteFile, lock, failures, overlap>>
      BY <1>0, <2>1 DEF Crash, Idle
    <3>2. CASE ~ Updating(p)
      <4>1. UNCHANGED lists
        BY <2>1, <3>2 DEF Crash, ListsUnflushed, StartDbOpen, Updating
      <4>. QED BY <3>1, <4>1, CatalogAlone DEF Updating
    <3>3. CASE Updating(p)
      <4>1. ~ overlap => lock /\ \A q \in Procs : ~ Updating(q)'
        BY <3>1, <3>3 DEF LockInv, Excluded, MutualExclusion, Updating
      <4>. QED BY <3>1, <4>1 DEF CatalogInv
    <3>. QED BY <3>2, <3>3
  <2>2. CASE ~ Crash(p)
    <3>1. failures' = failures + 1
      BY <1>4, <2>2 DEF Fault, InsertFails, InsertExits, IndexRenameFails, DeleteFails,
                        DeleteMapFails, CountFailure
    <3>. QED BY <1>0, <3>1 DEF CatalogInv
  <2>. QED BY <2>1, <2>2
<1>5. CASE UNCHANGED vars
  BY <1>5, CatalogAlone DEF vars, catalog, faults, Updating
<1>. QED BY <1>1, <1>2, <1>3, <1>4, <1>5 DEF Next

\* The empty catalog agrees.
LEMMA InitCatalog == Init => CatalogInv
<1>. SUFFICES ASSUME Init PROVE CatalogInv
  OBVIOUS
<1>1. \A p \in Procs : ~ Updating(p)
  BY DEF Init, Updating, Idle
<1>2. CatalogWhole(lists, tableFile, siteFile)
  BY DEF Init, CatalogWhole, Sound, ListedIn, NoFile
<1>. QED BY <1>1, <1>2 DEF CatalogInv

\* Whenever no lock file stands, lists, host table and site files agree.
THEOREM CatalogInvariance == Spec => []CatalogInv
BY InitCatalog, NextCatalog, TypeInvariance, LockInvariance, PTL DEF Spec

\* The host table of the catalog, and the update SiteCatalog sees, while a process
\* updates alone ...
LEMMA AloneView ==
    ASSUME TypeInv, LockInv, ~ overlap, NEW p \in Procs, Updating(p)
    PROVE  /\ Table = TableOf(proc[p], tableFile)
           /\ UpdatesNow = IF proc[p].pc = "index" \/ Emptied(proc[p])
                             THEN {[site |-> Site(p), strings |-> Target(proc[p])]}
                             ELSE {}
<1>1. \A q \in Procs : Updating(q) => q = p
  BY DEF LockInv, Excluded, MutualExclusion
<1>2. proc[p].pc \in PCs
  BY DEF TypeInv, ProcOK, ProcRec
<1>3. Table = TableOf(proc[p], tableFile)
  <2>1. \A q \in Sessions : Updating(q)
    BY DEF Sessions, StartDbOpen, Updating
  <2>2. CASE proc[p].pc \in {"start", "unlink", "mark", "unlock"}
    <3>1. Sessions = {}
      BY <1>1, <2>1, <2>2 DEF Sessions, StartDbOpen
    <3>. QED BY <2>2, <3>1 DEF Table, TableOf
  <2>3. CASE proc[p].pc \notin {"start", "unlink", "mark", "unlock"}
    <3>1. Sessions = {p}
      BY <1>1, <1>2, <2>1, <2>3 DEF Sessions, StartDbOpen, Updating, PCs
    <3>. QED BY <2>3, <3>1 DEF Table, TableOf
  <2>. QED BY <2>2, <2>3
<1>4. \A q \in Changing : q = p
  BY <1>1 DEF Changing, Updating
<1>5. p \in Changing <=> proc[p].pc = "index" \/ Emptied(proc[p])
  BY DEF Changing, Emptied
<1>6. CASE p \in Changing
  BY <1>3, <1>4, <1>5, <1>6 DEF UpdatesNow
<1>7. CASE p \notin Changing
  BY <1>3, <1>4, <1>5, <1>7 DEF UpdatesNow
<1>. QED BY <1>6, <1>7

\* ... and while nobody updates.
LEMMA IdleView ==
    ASSUME \A p \in Procs : ~ Updating(p)
    PROVE  Table = tableFile /\ UpdatesNow = {}
<1>1. Sessions = {} /\ Changing = {}
  BY DEF Sessions, StartDbOpen, Changing, Updating
<1>. QED BY <1>1 DEF Table, UpdatesNow

\* An update that ends the way it should leaves the catalog consistent, and one
\* that is killed leaves its lock file: for any number of processes, as long as
\* no two have updated at once.
THEOREM InterruptionsAreMarked == Spec => []InterruptedIsMarked
<1>1. ASSUME TypeInv, LockInv, CatalogInv PROVE InterruptedIsMarked
  <2>. SUFFICES ASSUME failures = 0, ~ overlap, ~ Interrupted PROVE Consistent
    BY DEF InterruptedIsMarked
  <2>1. CASE \A p \in Procs : ~ Updating(p)
    <3>1. Table = tableFile
      BY <2>1, IdleView
    <3>2. CatalogWhole(lists, tableFile, siteFile)
      BY <1>1, <2>1 DEF CatalogInv, Interrupted
    <3>. QED BY <3>1, <3>2, ListedForm DEF CatalogWhole, Sound, Consistent
  <2>2. ASSUME NEW p \in Procs, Updating(p) PROVE Consistent
    <3>1. Table = TableOf(proc[p], tableFile)
      BY <1>1, <2>2, AloneView
    <3>2. CatalogOf(proc[p], lists, tableFile, siteFile)
      BY <1>1, <2>2 DEF CatalogInv
    <3>3. \A s \in Sites \ {Site(p)} : Indexed(Table, s) = siteFile[s]
      BY <3>1, <3>2, ListedForm DEF CatalogOf
    <3>. QED BY <2>2, <3>3 DEF Consistent
  <2>. QED BY <2>1, <2>2
<1>. QED BY <1>1, TypeInvariance, LockInvariance, CatalogInvariance, PTL

-----------------------------------------------------------------------------
(***************************************************************************)
(* The updates implement SiteCatalog.                                       *)
(***************************************************************************)
\* What the refinement rests on.
UpdateInv == TypeInv /\ LockInv /\ CatalogInv

\* SiteCatalog's variables, from the update that is running.
ViewInv ==
    ~ Broken =>
        /\ UpdatesNow = {} => Shown = siteFile
        /\ (\A p \in Procs : ~ Updating(p)) => UpdatesNow = {}
        /\ \A p \in Procs : Updating(p) =>
              /\ Shown = [s \in Sites |-> ListedIn(lists, TableOf(proc[p], tableFile), s)]
              /\ UpdatesNow = IF proc[p].pc = "index" \/ Emptied(proc[p])
                                THEN {[site |-> Site(p), strings |-> Target(proc[p])]}
                                ELSE {}

\* What a search finds in the catalog of an update.
LEMMA ShownForm == Shown = [s \in Sites |-> ListedIn(lists, Table, s)]
BY DEF Shown, Indexed, ListedIn

\* Between two updates of its lists, a catalog shows the site files.
LEMMA QuietView ==
    ASSUME UpdateInv, ~ Broken, UpdatesNow = {}
    PROVE  Shown = siteFile
<1>1. /\ failures = 0 /\ ~ overlap /\ ~ Interrupted
      /\ siteFile \in [Sites -> SUBSET Starts]
  BY BoundsAssumption DEF Broken, UpdateInv, TypeInv, DataOK
<1>2. CASE \A p \in Procs : ~ Updating(p)
  <2>1. CatalogWhole(lists, tableFile, siteFile) /\ Table = tableFile
    BY <1>1, <1>2, IdleView DEF UpdateInv, CatalogInv, Interrupted
  <2>. QED BY <1>1, <2>1, ShownForm DEF CatalogWhole
<1>3. ASSUME NEW p \in Procs, Updating(p) PROVE Shown = siteFile
  <2>1. /\ Table = TableOf(proc[p], tableFile)
        /\ proc[p].pc # "index" /\ ~ Emptied(proc[p])
    BY <1>1, <1>3, AloneView DEF UpdateInv
  <2>2. CatalogOf(proc[p], lists, tableFile, siteFile)
    BY <1>1, <1>3 DEF UpdateInv, CatalogInv
  <2>3. \A s \in Sites : ListedIn(lists, Table, s) = siteFile[s]
    BY <2>1, <2>2 DEF CatalogOf
  <2>. QED BY <1>1, <2>3, ShownForm
<1>. QED BY <1>2, <1>3


LEMMA ViewFollows == UpdateInv => ViewInv
<1>. SUFFICES ASSUME UpdateInv, ~ Broken PROVE ViewInv
  BY DEF ViewInv
<1>1. TypeInv /\ LockInv /\ ~ overlap
  BY DEF UpdateInv, Broken
<1>2. ASSUME NEW p \in Procs, Updating(p)
      PROVE  /\ Shown = [s \in Sites |-> ListedIn(lists, TableOf(proc[p], tableFile), s)]
             /\ UpdatesNow = IF proc[p].pc = "index" \/ Emptied(proc[p])
                               THEN {[site |-> Site(p), strings |-> Target(proc[p])]}
                               ELSE {}
  BY <1>1, <1>2, AloneView, ShownForm
<1>. QED BY <1>2, QuietView, IdleView DEF ViewInv

\* A step that is no update of SiteCatalog: nobody is at the lists, before or after.
LEMMA QuietStep ==
    ASSUME ViewInv, ViewInv', ~ Broken, ~ Broken', UpdatesNow = {}, UpdatesNow' = {},
           UNCHANGED siteFile
    PROVE  UNCHANGED <<siteFile, Shown, UpdatesNow>>
BY DEF ViewInv

\* A step of another process, or one that does not change the lists.
LEMMA BusyStep ==
    ASSUME ViewInv, ViewInv', ~ Broken, ~ Broken', NEW p \in Procs, Updating(p), Updating(p)',
           proc[p].pc = "index" \/ Emptied(proc[p]), (proc[p].pc = "index" \/ Emptied(proc[p]))',
           TableOf(proc[p], tableFile)' = TableOf(proc[p], tableFile),
           proc'[p].job = proc[p].job, UNCHANGED <<lists, siteFile>>
    PROVE  UNCHANGED <<siteFile, Shown, UpdatesNow>>
<1>1. UNCHANGED Shown
  BY DEF ViewInv
<1>2. UNCHANGED UpdatesNow
  BY DEF ViewInv, Target
<1>. QED BY <1>1, <1>2

\* Once something has failed or was killed, SiteCatalog stays marked.
LEMMA BrokenStays ==
    ASSUME UpdateInv, TypeInv', Broken, Next
    PROVE  Broken'
<1>. USE DEF Broken
<1>0. /\ ProcOK /\ proc \in [Procs -> ProcRec] /\ failures \in Nat /\ failures' \in Nat
      /\ NoJob \notin Inputs
  BY BoundsAssumption, NoJobAssumption DEF UpdateInv, TypeInv, ProcOK, DataOK
<1>1. ASSUME NEW in \in Inputs, Arrive(in) PROVE Broken'
  BY <1>1 DEF Arrive, faults, Interrupted, Updating
<1>2. ASSUME NEW p \in Procs, NEW in \in Inputs, Begin(p, in) PROVE Broken'
  <2>1. /\ UNCHANGED <<lock, failures, overlap>> /\ proc'[p].pc \in {"idle", "wait"}
        /\ \A q \in Procs \ {p} : proc'[q] = proc[q]
    BY <1>0, <1>2 DEF Begin, faults, Idle
  <2>. QED BY <2>1 DEF Interrupted, Updating
<1>3. ASSUME NEW p \in Procs, Step(p) PROVE Broken'
  <2>1. CASE \/ FindLocked(p) \/ GiveUp(p) \/ FindUnlocked(p) \/ CloseHostDbs(p)
             \/ Consume(p) \/ Reread(p) \/ Rewrite(p) \/ LeaveRecord(p)
    <3>1. Apart(p)
      BY <1>0, <2>1, ParentApart
    <3>. QED BY <3>1 DEF Apart, Interrupted, Updating
  <2>2. CASE CreateLock(p)
    BY <2>2 DEF CreateLock, Interrupted
  <2>3. CASE Unlock(p)
    BY <2>3 DEF Unlock, Interrupted, Updating, faults
  <2>4. CASE \/ MarkDeleted(p) \/ Inactivate(p) \/ HostDbUpdate(p) \/ HostActive(p)
             \/ Activate(p) \/ RenameIdxFile(p) \/ OpenStartDbs(p) \/ WriteTable(p)
    <3>1. Working(p)
      BY <1>0, <2>4, ChildWorks
    <3>2. failures' = failures
      BY <2>4 DEF MarkDeleted, Inactivate, HostDbUpdate, HostActive, Activate, RenameIdxFile,
                  OpenStartDbs, WriteTable, faults
    <3>. QED BY <3>1, <3>2 DEF Working, Interrupted
  <2>5. CASE \/ TruncateTable(p) \/ RenameSiteFile(p) \/ UnlinkSiteFile(p)
             \/ Compare(p) \/ DeleteHost(p) \/ (\E op \in Ops : UpdateList(p, op))
    <3>1. Working(p)
      BY <1>0, <2>5, ChildWorks
    <3>2. failures' = failures
      BY <2>5 DEF TruncateTable, RenameSiteFile, UnlinkSiteFile, Compare, DeleteHost,
                  UpdateList, faults
    <3>. QED BY <3>1, <3>2 DEF Working, Interrupted
  <2>. QED BY <1>3, <2>1, <2>2, <2>3, <2>4, <2>5 DEF Step
<1>4. ASSUME NEW p \in Procs, Fault(p) PROVE Broken'
  <2>1. CASE Crash(p)
    <3>1. /\ proc'[p].pc = "idle" /\ UNCHANGED <<lock, failures, overlap>>
          /\ \A q \in Procs \ {p} : proc'[q] = proc[q]
      BY <1>0, <2>1 DEF Crash, Idle
    <3>. QED BY <3>1 DEF Interrupted, Updating
  <2>2. CASE ~ Crash(p)
    <3>1. failures' = failures + 1
      BY <1>4, <2>2 DEF Fault, InsertFails, InsertExits, IndexRenameFails, DeleteFails,
                        DeleteMapFails, CountFailure
    <3>. QED BY <1>0, <3>1
  <2>. QED BY <2>1, <2>2
<1>. QED BY <1>1, <1>2, <1>3, <1>4 DEF Next

\* A step of a process that does not update, before or after.
LEMMA OutsideStep ==
    ASSUME ViewInv, ViewInv', ~ Broken, ~ Broken', NEW p \in Procs,
           ~ Updating(p), ~ Updating(p)', \A q \in Procs \ {p} : proc'[q] = proc[q],
           UNCHANGED <<lists, tableFile, siteFile>>
    PROVE  UNCHANGED <<siteFile, Shown, UpdatesNow>>
<1>1. CASE \A q \in Procs : ~ Updating(q)
  <2>1. \A q \in Procs : ~ Updating(q)'
    BY <1>1 DEF Updating
  <2>2. UpdatesNow = {} /\ UpdatesNow' = {}
    BY <1>1, <2>1 DEF ViewInv
  <2>. QED BY <2>2, QuietStep
<1>2. ASSUME NEW q \in Procs, Updating(q) PROVE UNCHANGED <<siteFile, Shown, UpdatesNow>>
  <2>1. proc'[q] = proc[q] /\ Updating(q)'
    BY <1>2 DEF Updating
  <2>2. CASE proc[q].pc = "index" \/ Emptied(proc[q])
    BY <1>2, <2>1, <2>2, BusyStep DEF Emptied, TableOf
  <2>3. CASE ~ (proc[q].pc = "index" \/ Emptied(proc[q]))
    <3>1. UpdatesNow = {} /\ UpdatesNow' = {}
      BY <1>2, <2>1, <2>3 DEF ViewInv, Emptied
    <3>. QED BY <3>1, QuietStep
  <2>. QED BY <2>2, <2>3
<1>. QED BY <1>1, <1>2

\* A step of the one that does, away from the lists.
LEMMA AwayStep ==
    ASSUME ViewInv, ViewInv', ~ Broken, ~ Broken', NEW p \in Procs, Updating(p), Updating(p)',
           proc[p].pc # "index", ~ Emptied(proc[p]),
           proc'[p].pc # "index", ~ Emptied(proc'[p]), UNCHANGED siteFile
    PROVE  UNCHANGED <<siteFile, Shown, UpdatesNow>>
<1>1. UpdatesNow = {} /\ UpdatesNow' = {}
  BY DEF ViewInv
<1>. QED BY <1>1, QuietStep

\* The comparison of the files, or the look at the old one, begins an update.
LEMMA BeginsUpdate ==
    ASSUME UpdateInv, ViewInv, ViewInv', ~ Broken, ~ Broken', NEW p \in Procs,
           Updating(p), Updating(p)', proc[p].pc # "index", ~ Emptied(proc[p]),
           proc'[p].pc = "index", proc'[p].job = proc[p].job,
           \A s \in Sites : ListedIn(lists, proc'[p].table, s)
                               = ListedIn(lists, proc[p].table, s),
           proc[p].pc \notin {"start", "unlink", "mark", "unlock"},
           UNCHANGED <<lists, siteFile>>
    PROVE  \E s \in Sites, new \in SUBSET Starts : Catalog!Begin(s, new)
<1>1. Site(p) \in Sites /\ Target(proc[p]) \in SUBSET Starts
  BY JobType DEF UpdateInv, TypeInv, Updating, Target
<1>2. UpdatesNow = {} /\ UpdatesNow' = {[site |-> Site(p), strings |-> Target(proc[p])]}
  BY DEF ViewInv, Target
<1>3. Shown' = Shown
  <2>1. /\ Shown = [s \in Sites |-> ListedIn(lists, proc[p].table, s)]
        /\ Shown' = [s \in Sites |-> ListedIn(lists, proc'[p].table, s)]
    BY DEF ViewInv, TableOf
  <2>. QED BY <2>1
<1>4. Catalog!Begin(Site(p), Target(proc[p]))
  BY <1>2, <1>3 DEF Catalog!Begin, Broken
<1>. QED BY <1>1, <1>4

\* update_start_dbs changes one string, the way the new file says.
LEMMA ChangesString ==
    ASSUME UpdateInv, ViewInv, ViewInv', ~ Broken, ~ Broken', NEW p \in Procs,
           Updating(p), Updating(p)', NEW op \in Ops, UpdateList(p, op)
    PROVE  \E u \in UpdatesNow : \E x \in Starts : Catalog!Change(u, x)
<1>. DEFINE s == proc[p].job.site
            tab == proc[p].table
            old == siteFile[s]
            y == op.start
            u == [site |-> s, strings |-> Target(proc[p])]
<1>0. /\ proc[p] \in ProcRec /\ proc \in [Procs -> ProcRec] /\ tab \in Seq(Sites)
      /\ lists \in Lists /\ op \in proc[p].todo /\ proc[p].pc = "index"
      /\ y \in Starts /\ Find(tab, s) # {} /\ UNCHANGED siteFile
      /\ op.op \in {"add", "del"} /\ op = [op |-> op.op, start |-> y]
  BY DEF UpdateInv, TypeInv, ProcOK, ProcRec, DataOK, IndexFound, UpdateList, Ops
<1>1. /\ proc'[p].pc = "index" /\ proc'[p].job = proc[p].job /\ proc'[p].table = tab
  BY <1>0 DEF UpdateList, ProcRec
<1>2. Sound(lists, tab) /\ HalfDone(proc[p], lists, old)
  BY <1>0 DEF UpdateInv, CatalogInv, CatalogOf, TableOf, Broken, TypeInv, DataOK
<1>3. UpdatesNow = {u} /\ UpdatesNow' = {u}
  BY <1>0, <1>1 DEF ViewInv, Target
<1>4. /\ Shown = [t \in Sites |-> ListedIn(lists, tab, t)]
      /\ Shown' = [t \in Sites |-> ListedIn(lists', tab, t)]
  BY <1>0, <1>1 DEF ViewInv, TableOf
<1>5. /\ \A t : t # s => ListedIn(lists', tab, t) = ListedIn(lists, tab, t)
      /\ ListedIn(lists', tab, s) = IF y \in Target(proc[p])
                                       THEN ListedIn(lists, tab, s) \cup {y}
                                       ELSE ListedIn(lists, tab, s) \ {y}
  <2>1. CASE op.op = "add"
    <3>1. lists' = WithIndex(lists, y, Index(tab, s))
      BY <1>0, <2>1 DEF UpdateList, WithIndex
    <3>2. y \in Target(proc[p])
      BY <1>0, <1>2, <2>1 DEF HalfDone, Adds
    <3>. HIDE DEF s, tab, y
    <3>. QED BY <1>0, <1>2, <3>1, <3>2, ListAdd
  <2>2. CASE op.op = "del"
    <3>1. lists' = WithoutIndex(lists, y, Index(tab, s))
      BY <1>0, <2>2 DEF UpdateList, WithoutIndex
    <3>2. y \notin Target(proc[p])
      BY <1>0, <1>2, <2>2 DEF HalfDone, Dels
    <3>. HIDE DEF s, tab, y
    <3>. QED BY <1>0, <1>2, <3>1, <3>2, ListDelete
  <2>. QED BY <1>0, <2>1, <2>2
<1>6. Shown' = [Shown EXCEPT ![s] = IF y \in Target(proc[p]) THEN @ \cup {y} ELSE @ \ {y}]
  <2>. HIDE DEF s, tab, y
  <2>. QED BY <1>4, <1>5
<1>7. Catalog!Change(u, y)
  BY <1>0, <1>3, <1>6 DEF Catalog!Change, Broken
<1>. QED BY <1>0, <1>3, <1>7

\* The new file takes its place, or the old one goes, when the lists are done.
LEMMA EndsUpdate ==
    ASSUME UpdateInv, ViewInv, ViewInv', ~ Broken, ~ Broken', NEW p \in Procs,
           Updating(p), Updating(p)', RenameSiteFile(p) \/ UnlinkSiteFile(p)
    PROVE  \E u \in UpdatesNow : Catalog!End(u)
<1>. DEFINE s == proc[p].job.site
            u == [site |-> s, strings |-> Target(proc[p])]
<1>0. /\ ProcOK /\ proc \in [Procs -> ProcRec] /\ s \in Sites
      /\ siteFile \in [Sites -> SUBSET Starts] /\ Target(proc[p]) \in SUBSET Starts
  BY JobType DEF UpdateInv, TypeInv, ProcOK, DataOK, Updating, Target
<1>1. CatalogOf(proc[p], lists, tableFile, siteFile)
  BY DEF UpdateInv, CatalogInv, Broken, TypeInv, DataOK
<1>2. /\ proc[p].pc = "index" \/ Emptied(proc[p])
      /\ proc'[p].pc # "index" /\ ~ Emptied(proc'[p])
      /\ UNCHANGED <<lists, tableFile>>
      /\ TableOf(proc'[p], tableFile') = TableOf(proc[p], tableFile)
      /\ siteFile' = [siteFile EXCEPT ![s] = Target(proc[p])]
      /\ ListedIn(lists, TableOf(proc[p], tableFile), s) = Target(proc[p])
  <2>1. CASE RenameSiteFile(p)
    <3>1. /\ proc[p].pc = "index" /\ proc[p].todo = {} /\ ~ proc[p].job.del
          /\ siteFile' = [siteFile EXCEPT ![s] = proc[p].job.recs]
          /\ UNCHANGED <<lists, tableFile>> /\ Goto(p, "idx")
      BY <2>1 DEF RenameSiteFile
    <3>2. proc'[p].pc = "idx" /\ proc'[p].table = proc[p].table
      BY <1>0, <3>1, GotoFields
    <3>3. ListedIn(lists, proc[p].table, s) = Target(proc[p])
      BY <1>0, <1>1, <3>1, NothingLeft DEF CatalogOf
    <3>. QED BY <3>1, <3>2, <3>3 DEF Target, TableOf, Emptied
  <2>2. CASE UnlinkSiteFile(p)
    <3>1. /\ proc[p].pc = "unlink" /\ siteFile' = [siteFile EXCEPT ![s] = NoFile]
          /\ UNCHANGED <<lists, tableFile>> /\ Goto(p, "mark")
      BY <2>2 DEF UnlinkSiteFile
    <3>2. proc'[p].pc = "mark"
      BY <1>0, <3>1, GotoFields
    <3>3. proc[p].job.del /\ ListedIn(lists, tableFile, s) = {}
      BY <1>1, <3>1 DEF CatalogOf, DeletePlaces, Emptied, TableOf
    <3>. QED BY <3>1, <3>2, <3>3 DEF Target, TableOf, Emptied, NoFile
  <2>. QED BY <2>1, <2>2
<1>3. UpdatesNow = {u} /\ UpdatesNow' = {}
  BY <1>2 DEF ViewInv
<1>4. Shown' = Shown /\ Shown[s] = Target(proc[p])
  BY <1>0, <1>2 DEF ViewInv
<1>5. Catalog!End(u)
  BY <1>2, <1>3, <1>4 DEF Catalog!End, Broken
<1>. QED BY <1>3, <1>5

\* Every step of a child is a step of SiteCatalog, or none.
LEMMA ChildRefines ==
    ASSUME UpdateInv, ViewInv, ViewInv', ~ Broken, ~ Broken', NEW p \in Procs,
           \/ MarkDeleted(p) \/ OpenStartDbs(p) \/ (\E op \in Ops : UpdateList(p, op))
           \/ TruncateTable(p) \/ WriteTable(p) \/ Inactivate(p) \/ HostDbUpdate(p)
           \/ HostActive(p) \/ Activate(p) \/ Compare(p) \/ RenameSiteFile(p)
           \/ RenameIdxFile(p) \/ DeleteHost(p) \/ UnlinkSiteFile(p)
    PROVE  [Catalog!Next]_(Catalog!vars)
<1>. DEFINE s == proc[p].job.site
            Same == UNCHANGED <<siteFile, Shown, UpdatesNow>>
<1>0. ProcOK /\ proc \in [Procs -> ProcRec]
  BY DEF UpdateInv, TypeInv, ProcOK
<1>1. /\ Updating(p) /\ Updating(p)' /\ proc'[p].job = proc[p].job
  BY <1>0, ChildWorks DEF Working
<1>2. CatalogOf(proc[p], lists, tableFile, siteFile)
  BY <1>1 DEF UpdateInv, CatalogInv, Broken, TypeInv, DataOK
<1>3. Same => [Catalog!Next]_(Catalog!vars)
  BY DEF Catalog!vars, Broken
<1>4. CASE \/ MarkDeleted(p) \/ Inactivate(p) \/ HostDbUpdate(p) \/ HostActive(p) \/ Activate(p)
           \/ RenameIdxFile(p)
  <2>1. /\ proc[p].pc \notin {"index", "unlink", "write"}
        /\ proc'[p].pc \notin {"index", "unlink", "write"} /\ UNCHANGED siteFile
    <3>0. CASE MarkDeleted(p)
      BY <1>0, <3>0, MarkFields
    <3>1. CASE Inactivate(p) \/ RenameIdxFile(p)
      BY <1>0, <3>1, GotoFields DEF Inactivate, RenameIdxFile, catalog
    <3>2. CASE HostDbUpdate(p)
      BY <1>0, <3>2, GotoFields DEF HostDbUpdate, catalog
    <3>3. CASE HostActive(p) \/ Activate(p)
      BY <1>0, <3>3, GotoFields DEF HostActive, Activate, catalog
    <3>. QED BY <1>4, <3>0, <3>1, <3>2, <3>3
  <2>. QED BY <1>1, <1>3, <2>1, AwayStep DEF Emptied
<1>5. CASE OpenStartDbs(p)
  <2>1. proc[p].pc = "start" /\ UNCHANGED siteFile
    BY <1>5 DEF OpenStartDbs, catalog
  <2>2. CASE ~ Job(p).del /\ Job(p).recs = {}
    <3>1. Goto(p, "unlock")
      BY <1>5, <2>2 DEF OpenStartDbs
    <3>2. proc'[p].pc = "unlock"
      BY <1>0, <3>1, GotoFields
    <3>. QED BY <1>1, <1>3, <2>1, <3>2, AwayStep DEF Emptied
  <2>3. CASE ~ (~ Job(p).del /\ Job(p).recs = {})
    <3>1. proc'[p].pc \in {"host", "inactivate"}
      BY <1>0, <1>5, <2>3 DEF OpenStartDbs, ProcRec
    <3>. QED BY <1>1, <1>3, <2>1, <3>1, AwayStep DEF Emptied
  <2>. QED BY <2>2, <2>3
<1>6. CASE TruncateTable(p)
  <2>1. /\ UNCHANGED <<lists, siteFile>> /\ Goto(p, "write")
        /\ proc[p].pc = "truncate" \/ (proc[p].pc = "index" /\ proc[p].job.del)
    BY <1>6 DEF TruncateTable
  <2>2. proc'[p].pc = "write" /\ proc'[p].table = proc[p].table
    BY <1>0, <2>1, GotoFields
  <2>3. CASE proc[p].pc = "truncate"
    <3>1. ~ proc[p].job.del
      BY <1>2, <2>3 DEF CatalogOf, InsertPlaces
    <3>. QED BY <1>1, <1>3, <2>1, <2>2, <2>3, <3>1, AwayStep DEF Emptied
  <2>4. CASE proc[p].pc = "index" /\ proc[p].job.del
    <3>1. Emptied(proc'[p]) /\ TableOf(proc[p], tableFile)' = TableOf(proc[p], tableFile)
      BY <1>1, <2>2, <2>4 DEF Emptied, TableOf
    <3>. QED BY <1>1, <1>3, <2>1, <2>4, <3>1, BusyStep
  <2>. QED BY <2>1, <2>3, <2>4
<1>7. CASE WriteTable(p)
  <2>1. /\ proc[p].pc = "write" /\ UNCHANGED <<lists, siteFile>> /\ tableFile' = proc[p].table
        /\ Goto(p, IF Job(p).del THEN "unlink" ELSE "unlock")
    BY <1>7 DEF WriteTable
  <2>2. proc'[p].pc = IF proc[p].job.del THEN "unlink" ELSE "unlock"
    BY <1>0, <2>1, GotoFields
  <2>3. CASE proc[p].job.del
    <3>1. /\ Emptied(proc[p]) /\ Emptied(proc'[p])
          /\ TableOf(proc[p], tableFile)' = TableOf(proc[p], tableFile)
      BY <2>1, <2>2, <2>3 DEF Emptied, TableOf
    <3>. QED BY <1>1, <1>3, <2>1, <3>1, BusyStep
  <2>4. CASE ~ proc[p].job.del
    BY <1>1, <1>3, <2>1, <2>2, <2>4, AwayStep DEF Emptied
  <2>. QED BY <2>3, <2>4
<1>8. CASE RenameSiteFile(p) \/ UnlinkSiteFile(p)
  <2>1. \E u \in UpdatesNow : Catalog!End(u)
    BY <1>1, <1>8, EndsUpdate
  <2>. QED BY <2>1 DEF Catalog!Next
<1>9. ASSUME NEW op \in Ops, UpdateList(p, op) PROVE [Catalog!Next]_(Catalog!vars)
  <2>1. \E u \in UpdatesNow : \E x \in Starts : Catalog!Change(u, x)
    BY <1>1, <1>9, ChangesString
  <2>. QED BY <2>1 DEF Catalog!Next
<1>10. ASSUME \E t \in Sites, new \in SUBSET Starts : Catalog!Begin(t, new)
       PROVE  [Catalog!Next]_(Catalog!vars)
  BY <1>10 DEF Catalog!Next
<1>11. CASE Compare(p)
  <2>1. proc[p].pc = "compare" /\ UNCHANGED <<lists, siteFile, tableFile>>
    BY <1>11 DEF Compare, catalog
  <2>2. /\ s \in Sites /\ proc[p].table \in Seq(Sites) /\ lists \in Lists
        /\ Sound(lists, proc[p].table)
    BY <1>0, <1>2, <2>1, JobType DEF ProcRec, CatalogOf, TableOf, UpdateInv, TypeInv, DataOK
  <2>3. CASE siteFile[s] = NoFile
    <3>1. proc'[p].pc = "index" /\ proc'[p].table = WithSite(proc[p].table, s)
      BY <1>0, <1>11, <2>3 DEF Compare, ProcRec
    <3>2. \A t : ListedIn(lists, proc'[p].table, t) = ListedIn(lists, proc[p].table, t)
      BY <2>2, <3>1, TableAdd
    <3>. QED BY <1>1, <1>10, <2>1, <3>1, <3>2, BeginsUpdate DEF Emptied
  <2>4. CASE siteFile[s] # NoFile /\ Find(proc[p].table, s) # {}
    <3>1. proc'[p].pc = "index" /\ proc'[p].table = proc[p].table
      BY <1>0, <1>11, <2>4 DEF Compare, ProcRec
    <3>. QED BY <1>1, <1>10, <2>1, <3>1, BeginsUpdate DEF Emptied
  <2>5. CASE siteFile[s] # NoFile /\ Find(proc[p].table, s) = {}
    <3>1. Goto(p, "truncate")
      BY <1>11, <2>5 DEF Compare
    <3>2. proc'[p].pc = "truncate"
      BY <1>0, <3>1, GotoFields
    <3>. QED BY <1>1, <1>3, <2>1, <3>2, AwayStep DEF Emptied
  <2>. QED BY <2>3, <2>4, <2>5
<1>12. CASE DeleteHost(p)
  <2>. DEFINE stop == aux[s] = NoRec \/ siteFile[s] = NoFile \/ Find(proc[p].table, s) = {}
  <2>1. proc[p].pc = "host" /\ UNCHANGED <<lists, siteFile>>
    BY <1>12 DEF DeleteHost, catalog
  <2>2. CASE stop
    <3>1. Goto(p, "mark")
      BY <1>12, <2>2 DEF DeleteHost
    <3>2. proc'[p].pc = "mark"
      BY <1>0, <3>1, GotoFields
    <3>. QED BY <1>1, <1>3, <2>1, <3>2, AwayStep DEF Emptied
  <2>3. CASE ~ stop
    <3>1. proc'[p].pc = "index" /\ proc'[p].table = proc[p].table
      BY <1>0, <1>12, <2>3 DEF DeleteHost, ProcRec
    <3>. QED BY <1>1, <1>10, <2>1, <3>1, BeginsUpdate DEF Emptied
  <2>. QED BY <2>2, <2>3
<1>. QED BY <1>4, <1>5, <1>6, <1>7, <1>8, <1>9, <1>11, <1>12

\* Every step of the updates is a step of SiteCatalog, or none.
LEMMA StepRefines ==
    ASSUME UpdateInv, UpdateInv', ViewInv, ViewInv', [Next]_vars
    PROVE  [Catalog!Next]_(Catalog!vars)
<1>. DEFINE Same == UNCHANGED <<siteFile, Shown, UpdatesNow>>
<1>1. CASE UNCHANGED vars
  <2>1. UNCHANGED <<lists, tableFile, siteFile, proc, failures, overlap, lock>>
    BY <1>1 DEF vars, catalog, faults
  <2>2. UNCHANGED <<Table, Changing>>
    BY <2>1 DEF Table, Sessions, StartDbOpen, Changing
  <2>3. UNCHANGED <<siteFile, Shown, UpdatesNow, Broken>>
    BY <2>1, <2>2 DEF Shown, Indexed, UpdatesNow, Target, Broken, Interrupted, Updating
  <2>. QED BY <2>3 DEF Catalog!vars
<1>2. CASE Next /\ Broken'
  BY <1>2 DEF Catalog!Next, Catalog!Spoil
<1>3. CASE Next /\ ~ Broken'
  <2>1. ~ Broken
    BY <1>3, BrokenStays DEF UpdateInv
  <2>2. Same => [Catalog!Next]_(Catalog!vars)
    BY <1>3, <2>1 DEF Catalog!vars, Broken
  <2>3. /\ ProcOK /\ proc \in [Procs -> ProcRec]
        /\ failures = 0 /\ failures' = 0 /\ ~ overlap /\ ~ overlap'
        /\ NoJob \notin Inputs
    BY <1>3, <2>1, NoJobAssumption, BoundsAssumption DEF Broken, UpdateInv, TypeInv, ProcOK, DataOK
  <2>4. ASSUME NEW p \in Procs, ~ Updating(p), ~ Updating(p)',
               \A q \in Procs \ {p} : proc'[q] = proc[q],
               UNCHANGED <<lists, tableFile, siteFile>>
        PROVE  Same
    BY <1>3, <2>1, <2>4, OutsideStep
  <2>5. ASSUME NEW in \in Inputs, Arrive(in) PROVE Same
    <3>1. UNCHANGED <<lists, tableFile, siteFile, proc>>
      BY <2>5 DEF Arrive, catalog
    <3>2. UNCHANGED <<Table, Changing>>
      BY <3>1 DEF Table, Sessions, StartDbOpen, Changing
    <3>. QED BY <3>1, <3>2 DEF Shown, Indexed, UpdatesNow, Target
  <2>6. ASSUME NEW p \in Procs, NEW in \in Inputs, Begin(p, in) PROVE Same
    <3>1. /\ proc[p].pc = "idle" /\ proc'[p].pc \in {"idle", "wait"}
          /\ \A q \in Procs \ {p} : proc'[q] = proc[q]
          /\ UNCHANGED <<lists, tableFile, siteFile>>
      BY <2>3, <2>6 DEF Begin, catalog, Idle
    <3>. QED BY <2>4, <3>1 DEF Updating
  <2>7. ASSUME NEW p \in Procs,
               \/ FindLocked(p) \/ GiveUp(p) \/ FindUnlocked(p) \/ CloseHostDbs(p)
               \/ Consume(p) \/ Reread(p) \/ Rewrite(p) \/ LeaveRecord(p)
        PROVE  Same
    <3>1. Apart(p)
      BY <2>3, <2>7, ParentApart
    <3>. QED BY <2>4, <3>1 DEF Apart
  <2>8. ASSUME NEW p \in Procs, CreateLock(p) PROVE Same
    <3>1. /\ proc[p].pc = "create" /\ proc'[p].pc = "start" /\ ~ lock
          /\ \A q \in Procs \ {p} : proc'[q] = proc[q]
          /\ UNCHANGED siteFile
      BY <2>3, <2>8, GotoFields DEF CreateLock, catalog
    <3>2. \A q \in Procs : ~ Updating(q)
      BY <2>3, <3>1 DEF UpdateInv, LockInv, Excluded
    <3>3. UpdatesNow = {}
      BY <2>1, <3>2 DEF ViewInv
    <3>4. UpdatesNow' = {}
      BY <1>3, <3>1 DEF ViewInv, Updating, Emptied
    <3>. QED BY <1>3, <2>1, <3>1, <3>3, <3>4, QuietStep
  <2>9. ASSUME NEW p \in Procs, Unlock(p) PROVE Same
    <3>1. /\ proc[p].pc = "unlock" /\ proc'[p].pc \in {"flush", "consume"}
          /\ \A q \in Procs \ {p} : proc'[q] = proc[q]
          /\ UNCHANGED siteFile
      BY <2>3, <2>9, GotoFields DEF Unlock, catalog
    <3>2. Updating(p) /\ \A q \in Procs : ~ Updating(q)'
      BY <2>3, <3>1 DEF UpdateInv, LockInv, Excluded, MutualExclusion, Updating
    <3>3. UpdatesNow = {}
      BY <2>1, <3>1, <3>2 DEF ViewInv, Emptied
    <3>4. UpdatesNow' = {}
      BY <1>3, <3>2 DEF ViewInv
    <3>. QED BY <1>3, <2>1, <3>1, <3>3, <3>4, QuietStep
  <2>10. ASSUME NEW p \in Procs, Step(p) PROVE [Catalog!Next]_(Catalog!vars)
    BY <1>3, <2>1, <2>2, <2>7, <2>8, <2>9, <2>10, ChildRefines DEF Step
  <2>11. ASSUME NEW p \in Procs, Fault(p) PROVE Same
    <3>1. Crash(p)
      <4>1. CASE ~ Crash(p)
        <5>1. failures' = failures + 1
          BY <2>11, <4>1 DEF Fault, InsertFails, InsertExits, IndexRenameFails, DeleteFails,
                            DeleteMapFails, CountFailure
        <5>. QED BY <2>3, <5>1
      <4>. QED BY <4>1
    <3>2. /\ proc'[p].pc = "idle" /\ \A q \in Procs \ {p} : proc'[q] = proc[q]
          /\ UNCHANGED <<tableFile, siteFile, lock>>
      BY <2>3, <3>1 DEF Crash, Idle
    <3>3. ~ Updating(p)
      <4>1. ASSUME Updating(p) PROVE FALSE
        <5>1. lock /\ \A q \in Procs : ~ Updating(q)'
          BY <2>3, <3>2, <4>1 DEF UpdateInv, LockInv, Excluded, MutualExclusion, Updating
        <5>. QED BY <1>3, <3>2, <5>1 DEF Broken, Interrupted
      <4>. QED BY <4>1
    <3>4. UNCHANGED lists
      BY <3>1, <3>3 DEF Crash, ListsUnflushed, StartDbOpen, Updating
    <3>5. ~ Updating(p)'
      BY <3>2 DEF Updating
    <3>. QED BY <1>3, <2>1, <3>2, <3>3, <3>4, <3>5, OutsideStep
  <2>. QED BY <1>3, <2>2, <2>5, <2>6, <2>10, <2>11 DEF Next
<1>. QED BY <1>1, <1>2, <1>3

\* The empty catalog is SiteCatalog's.
LEMMA InitRefines == Init => Catalog!Init
<1>. SUFFICES ASSUME Init PROVE Catalog!Init
  OBVIOUS
<1>1. \A p \in Procs : ~ Updating(p)
  BY DEF Init, Updating, Idle
<1>2. UpdatesNow = {}
  BY <1>1, IdleView
<1>3. Shown = [s \in Sites |-> {}]
  BY DEF Init, Shown, Indexed
<1>. QED BY <1>2, <1>3 DEF Init, Catalog!Init, Broken, Interrupted, NoFile

\* The updates of the catalog, for any number of processes, sites, strings and
\* input files, implement SiteCatalog: as long as nothing is marked, each site
\* goes from the strings of its old file to those of its new one by changes that
\* no step takes back and no other update meets.
THEOREM UpdatesImplementCatalog == Spec => CatalogSpec
<1>1. UpdateInv => ViewInv
  BY ViewFollows
<1>2. UpdateInv /\ UpdateInv' /\ ViewInv /\ ViewInv' /\ [Next]_vars
         => [Catalog!Next]_(Catalog!vars)
  BY StepRefines
<1>3. Spec => []UpdateInv
  <2>1. TypeInv /\ LockInv /\ CatalogInv => UpdateInv
    BY DEF UpdateInv
  <2>. QED BY <2>1, TypeInvariance, LockInvariance, CatalogInvariance, PTL
<1>. QED BY <1>1, <1>2, <1>3, InitRefines, PTL DEF Spec, CatalogSpec, Catalog!Spec
-----------------------------------------------------------------------------
(***************************************************************************)
(* A search meanwhile.  Its host table is the beginning of the one that    *)
(* goes with the lists, so it knows a site by the same index, or not at    *)
(* all.                                                                    *)
(***************************************************************************)
Begins(a, b) == \A i \in DOMAIN a : i \in DOMAIN b /\ b[i] = a[i]

\* The table file, the searches' table c and the table of process r, which has at
\* most one site more than the file, its own.
SeenBy(r, c, tf) ==
    /\ Begins(c, TableOf(r, tf))
    /\ Begins(tf, TableOf(r, tf))
    /\ r.pc # "write" => \A i \in DOMAIN TableOf(r, tf) \ DOMAIN tf :
                            TableOf(r, tf)[i] = r.job.site

ClientInv ==
    ~ Broken => /\ \A p \in Procs : Updating(p) => SeenBy(proc[p], client, tableFile)
                /\ (\A p \in Procs : ~ Updating(p)) => Begins(client, tableFile)

\* A site that the search has in its table it finds as the lists have it.
LEMMA FoundAsListed ==
    ASSUME NEW l, NEW c, NEW tab, Begins(c, tab), Sound(l, tab), NEW s, Find(c, s) # {}
    PROVE  ListedIn(l, c, s) = ListedIn(l, tab, s)
<1>1. PICK k \in DOMAIN c : c[k] = s
  BY DEF Find
<1>2. k \in DOMAIN tab /\ tab[k] = s
  BY <1>1 DEF Begins
<1>3. \A i \in DOMAIN tab : tab[i] = s => i = k
  BY <1>2 DEF Sound
<1>4. \A x : (\E i \in l[x] : i \in DOMAIN c /\ c[i] = s)
              <=> (\E i \in l[x] : i \in DOMAIN tab /\ tab[i] = s)
  BY <1>1, <1>2, <1>3 DEF Begins
<1>. QED BY <1>4 DEF ListedIn

\* Entering a site adds it behind all others.
LEMMA TableGrows ==
    ASSUME NEW tab \in Seq(Sites), NEW s \in Sites
    PROVE  /\ Begins(tab, WithSite(tab, s))
           /\ \A i \in DOMAIN WithSite(tab, s) \ DOMAIN tab : WithSite(tab, s)[i] = s
<1>1. CASE Find(tab, s) = {}
  <2>1. /\ DOMAIN Append(tab, s) = DOMAIN tab \cup {Len(tab) + 1}
        /\ \A i \in DOMAIN tab : Append(tab, s)[i] = tab[i]
        /\ Append(tab, s)[Len(tab) + 1] = s
    OBVIOUS
  <2>. QED BY <1>1, <2>1 DEF WithSite, Begins
<1>2. CASE Find(tab, s) # {}
  BY <1>2 DEF WithSite, Begins
<1>. QED BY <1>1, <1>2

\* The steps of a child that leave its table and the table file alone.
LEMMA SeenKept ==
    ASSUME NEW r, NEW q, NEW c, NEW tf, SeenBy(r, c, tf), r.pc # "write", q.pc # "write",
           TableOf(q, tf) = TableOf(r, tf), q.job = r.job
    PROVE  SeenBy(q, c, tf)
BY DEF SeenBy

\* What a child does to the host table.
LEMMA SeenFollows ==
    ASSUME UpdateInv, NEW p \in Procs, NEW c, SeenBy(proc[p], c, tableFile),
           CatalogOf(proc[p], lists, tableFile, siteFile),
           \/ MarkDeleted(p) \/ OpenStartDbs(p) \/ (\E op \in Ops : UpdateList(p, op))
           \/ TruncateTable(p) \/ WriteTable(p) \/ Inactivate(p) \/ HostDbUpdate(p)
           \/ HostActive(p) \/ Activate(p) \/ Compare(p) \/ RenameSiteFile(p)
           \/ RenameIdxFile(p) \/ DeleteHost(p) \/ UnlinkSiteFile(p)
    PROVE  SeenBy(proc'[p], c, tableFile')
<1>0. ProcOK /\ proc \in [Procs -> ProcRec]
  BY DEF UpdateInv, TypeInv, ProcOK
<1>. USE DEF TableOf
<1>1. CASE MarkDeleted(p)
  BY <1>0, <1>1, MarkFields, SeenKept
<1>2. CASE Inactivate(p) \/ HostDbUpdate(p) \/ HostActive(p) \/ Activate(p) \/ RenameIdxFile(p)
  <2>1. /\ proc[p].pc \in InsertPlaces /\ proc'[p].pc \in InsertPlaces
        /\ proc'[p].table = proc[p].table /\ proc'[p].job = proc[p].job
        /\ UNCHANGED tableFile
    BY <1>0, <1>2, GotoFields
       DEF Inactivate, HostDbUpdate, HostActive, Activate, RenameIdxFile, InsertPlaces, catalog
  <2>. QED BY <2>1, SeenKept DEF InsertPlaces
<1>3. CASE OpenStartDbs(p)
  <2>1. At(p, "start") /\ UNCHANGED tableFile
    BY <1>3 DEF OpenStartDbs, catalog
  <2>2. CASE ~ Job(p).del /\ Job(p).recs = {}
    <3>1. Goto(p, "unlock")
      BY <1>3, <2>2 DEF OpenStartDbs
    <3>2. proc'[p].pc = "unlock" /\ proc'[p].job = proc[p].job
      BY <1>0, <3>1, GotoFields
    <3>. QED BY <2>1, <3>2, SeenKept
  <2>3. CASE ~ (~ Job(p).del /\ Job(p).recs = {})
    <3>1. /\ proc'[p].pc \in {"host", "inactivate"}
          /\ proc'[p].table = tableFile /\ proc'[p].job = proc[p].job
      BY <1>0, <1>3, <2>3 DEF OpenStartDbs, ProcRec
    <3>. QED BY <2>1, <3>1, SeenKept
  <2>. QED BY <2>2, <2>3
<1>4. CASE \E op \in Ops : UpdateList(p, op)
  <2>1. PICK op \in Ops : UpdateList(p, op)
    BY <1>4
  <2>2. /\ proc[p].pc = "index" /\ proc'[p].pc = "index" /\ proc'[p].table = proc[p].table
        /\ proc'[p].job = proc[p].job /\ UNCHANGED tableFile
    BY <1>0, <2>1 DEF UpdateList, ProcRec
  <2>. QED BY <2>2, SeenKept
<1>5. CASE TruncateTable(p)
  <2>1. /\ proc[p].pc \in {"truncate", "index"} /\ proc'[p].pc = "write"
        /\ proc'[p].table = proc[p].table /\ tableFile' = <<>>
    BY <1>0, <1>5, GotoFields DEF TruncateTable
  <2>. QED BY <2>1 DEF SeenBy, Begins
<1>6. CASE WriteTable(p)
  <2>1. /\ proc[p].pc = "write" /\ proc'[p].pc \in {"unlink", "unlock"}
        /\ tableFile' = proc[p].table
    BY <1>0, <1>6, GotoFields DEF WriteTable
  <2>. QED BY <2>1 DEF SeenBy, Begins
<1>7. CASE Compare(p)
  <2>1. /\ At(p, "compare") /\ UNCHANGED tableFile /\ Site(p) \in Sites
        /\ proc[p].table \in Seq(Sites)
    BY <1>0, <1>7, JobType DEF Compare, catalog, ProcRec
  <2>2. CASE siteFile[Site(p)] = NoFile
    <3>1. /\ proc'[p].pc = "index" /\ proc'[p].job = proc[p].job
          /\ proc'[p].table = WithSite(proc[p].table, Site(p))
      BY <1>0, <1>7, <2>2 DEF Compare, ProcRec
    <3>2. /\ Begins(proc[p].table, proc'[p].table)
          /\ \A i \in DOMAIN proc'[p].table \ DOMAIN proc[p].table :
                proc'[p].table[i] = Site(p)
      BY <2>1, <3>1, TableGrows
    <3>3. /\ Begins(c, proc[p].table) /\ Begins(tableFile, proc[p].table)
          /\ \A i \in DOMAIN proc[p].table \ DOMAIN tableFile : proc[p].table[i] = Site(p)
      BY <2>1 DEF SeenBy
    <3>4. Begins(c, proc'[p].table) /\ Begins(tableFile, proc'[p].table)
      BY <3>2, <3>3 DEF Begins
    <3>5. \A i \in DOMAIN proc'[p].table \ DOMAIN tableFile : proc'[p].table[i] = Site(p)
      BY <3>2, <3>3 DEF Begins
    <3>. QED BY <2>1, <3>1, <3>4, <3>5 DEF SeenBy
  <2>3. CASE siteFile[Site(p)] # NoFile
    <3>1. /\ proc'[p].pc \in {"index", "truncate"} /\ proc'[p].job = proc[p].job
          /\ proc'[p].table = proc[p].table
      BY <1>0, <1>7, <2>3 DEF Compare, ProcRec, Goto
    <3>. QED BY <2>1, <3>1, SeenKept
  <2>. QED BY <2>2, <2>3
<1>8. CASE RenameSiteFile(p)
  <2>1. /\ proc[p].pc = "index" /\ proc'[p].pc = "idx" /\ proc'[p].table = proc[p].table
        /\ proc'[p].job = proc[p].job /\ UNCHANGED tableFile
    BY <1>0, <1>8, GotoFields DEF RenameSiteFile
  <2>. QED BY <2>1, SeenKept
<1>9. CASE DeleteHost(p)
  <2>1. proc[p].pc = "host" /\ proc[p].table = tableFile /\ UNCHANGED tableFile
    BY <1>9 DEF DeleteHost, CatalogOf, catalog
  <2>2. /\ proc'[p].pc \in {"mark", "index"} /\ proc'[p].job = proc[p].job
        /\ proc'[p].table = proc[p].table
    BY <1>0, <1>9 DEF DeleteHost, ProcRec, Goto
  <2>. QED BY <2>1, <2>2, SeenKept
<1>10. CASE UnlinkSiteFile(p)
  <2>1. /\ proc[p].pc = "unlink" /\ proc'[p].pc = "mark" /\ proc'[p].job = proc[p].job
        /\ UNCHANGED tableFile
    BY <1>0, <1>10, GotoFields DEF UnlinkSiteFile
  <2>. QED BY <2>1, SeenKept
<1>. QED BY <1>1, <1>2, <1>3, <1>4, <1>5, <1>6, <1>7, <1>8, <1>9, <1>10

\* Opening the start database takes the table file as it is.
LEMMA ClientOpens == ClientInv /\ OpenSearch => ClientInv'
<1>. SUFFICES ASSUME ClientInv, OpenSearch PROVE ClientInv'
  OBVIOUS
<1>1. UNCHANGED <<proc, tableFile, Broken>> /\ client' = tableFile
  BY DEF OpenSearch, vars, faults, catalog, Broken, Interrupted, Updating
<1>2. Begins(tableFile, tableFile)
  BY DEF Begins
<1>. QED BY <1>1, <1>2 DEF ClientInv, SeenBy, Updating, TableOf

\* The updates leave a running search the table it has read.
LEMMA ClientWaits ==
    ASSUME UpdateInv, TypeInv', ClientInv, Next, UNCHANGED client
    PROVE  ClientInv'
<1>. SUFFICES ASSUME ~ Broken' PROVE ClientInv'
  BY DEF ClientInv
<1>0. /\ ProcOK /\ proc \in [Procs -> ProcRec] /\ ~ Broken
      /\ failures = 0 /\ failures' = 0 /\ ~ overlap /\ ~ overlap'
      /\ LockInv /\ CatalogInv /\ TypeInv
  BY BrokenStays, BoundsAssumption DEF Broken, UpdateInv, TypeInv, ProcOK, DataOK
<1>1. ASSUME NEW p \in Procs, ~ Updating(p), ~ Updating(p)', UNCHANGED tableFile,
             \A q \in Procs \ {p} : proc'[q] = proc[q]
      PROVE  ClientInv'
  <2>1. \A q \in Procs : Updating(q)' <=> Updating(q)
    BY <1>1 DEF Updating
  <2>. QED BY <1>0, <1>1, <2>1 DEF ClientInv
<1>2. ASSUME NEW in \in Inputs, Arrive(in) PROVE ClientInv'
  BY <1>0, <1>2 DEF Arrive, catalog, ClientInv, Updating
<1>3. ASSUME NEW p \in Procs, NEW in \in Inputs, Begin(p, in) PROVE ClientInv'
  <2>1. /\ UNCHANGED tableFile /\ \A q \in Procs \ {p} : proc'[q] = proc[q]
        /\ proc[p].pc = "idle" /\ proc'[p].pc \in {"idle", "wait"}
    BY <1>0, <1>3 DEF Begin, catalog, Idle
  <2>. QED BY <1>1, <2>1 DEF Updating
<1>4. ASSUME NEW p \in Procs, Step(p) PROVE ClientInv'
  <2>1. CASE \/ FindLocked(p) \/ GiveUp(p) \/ FindUnlocked(p) \/ CloseHostDbs(p)
             \/ Consume(p) \/ Reread(p) \/ Rewrite(p) \/ LeaveRecord(p)
    <3>1. Apart(p)
      BY <1>0, <2>1, ParentApart
    <3>. QED BY <1>1, <3>1 DEF Apart
  <2>2. CASE CreateLock(p)
    <3>1. /\ proc'[p].pc = "start" /\ \A q \in Procs \ {p} : proc'[q] = proc[q]
          /\ UNCHANGED tableFile /\ ~ lock
      BY <1>0, <2>2, GotoFields DEF CreateLock, catalog
    <3>2. /\ \A q \in Procs : ~ Updating(q)
          /\ \A q \in Procs \ {p} : ~ Updating(q)'
      BY <1>0, <3>1 DEF LockInv, Excluded, Updating
    <3>3. Begins(client, tableFile) /\ Begins(tableFile, tableFile)
      BY <1>0, <3>2 DEF ClientInv, Begins
    <3>4. SeenBy(proc'[p], client', tableFile') /\ Updating(p)'
      BY <3>1, <3>3 DEF SeenBy, TableOf, Updating
    <3>. QED BY <3>2, <3>4 DEF ClientInv
  <2>3. CASE Unlock(p)
    <3>1. /\ proc[p].pc = "unlock" /\ proc'[p].pc \in {"flush", "consume"}
          /\ \A q \in Procs \ {p} : proc'[q] = proc[q] /\ UNCHANGED tableFile
      BY <1>0, <2>3, GotoFields DEF Unlock, catalog
    <3>2. Updating(p) /\ \A q \in Procs : ~ Updating(q)'
      BY <1>0, <3>1 DEF LockInv, Excluded, MutualExclusion, Updating
    <3>3. Begins(client, tableFile)
      BY <1>0, <3>1, <3>2 DEF ClientInv, SeenBy, TableOf
    <3>4. UNCHANGED tableFile
      BY <2>3 DEF Unlock, catalog
    <3>. QED BY <3>2, <3>3, <3>4 DEF ClientInv
  <2>4. CASE \/ MarkDeleted(p) \/ OpenStartDbs(p) \/ (\E op \in Ops : UpdateList(p, op))
             \/ TruncateTable(p) \/ WriteTable(p) \/ Inactivate(p) \/ HostDbUpdate(p)
             \/ HostActive(p) \/ Activate(p) \/ Compare(p) \/ RenameSiteFile(p)
             \/ RenameIdxFile(p) \/ DeleteHost(p) \/ UnlinkSiteFile(p)
    <3>1. Working(p)
      BY <1>0, <2>4, ChildWorks
    <3>2. Updating(p) /\ \A q \in Procs \ {p} : ~ Updating(q) /\ ~ Updating(q)'
      BY <1>0, <3>1 DEF LockInv, Excluded, MutualExclusion, Updating, Working
    <3>3. CatalogOf(proc[p], lists, tableFile, siteFile) /\ SeenBy(proc[p], client, tableFile)
      BY <1>0, <3>2 DEF CatalogInv, ClientInv
    <3>4. SeenBy(proc'[p], client', tableFile')
      BY <2>4, <3>3, SeenFollows
    <3>. QED BY <3>1, <3>2, <3>4 DEF ClientInv, Working
  <2>. QED BY <1>4, <2>1, <2>2, <2>3, <2>4 DEF Step
<1>5. ASSUME NEW p \in Procs, Fault(p) PROVE ClientInv'
  <2>1. Crash(p)
    <3>1. CASE ~ Crash(p)
      <4>1. failures' = failures + 1
        BY <1>5, <3>1 DEF Fault, InsertFails, InsertExits, IndexRenameFails, DeleteFails,
                          DeleteMapFails, CountFailure
      <4>. QED BY <1>0, <4>1
    <3>. QED BY <3>1
  <2>2. /\ proc'[p].pc = "idle" /\ \A q \in Procs \ {p} : proc'[q] = proc[q]
        /\ UNCHANGED <<tableFile, lock>>
    BY <1>0, <2>1 DEF Crash, Idle
  <2>3. ~ Updating(p)
    <3>1. ASSUME Updating(p) PROVE FALSE
      <4>1. lock /\ \A q \in Procs : ~ Updating(q)'
        BY <1>0, <2>2, <3>1 DEF LockInv, Excluded, MutualExclusion, Updating
      <4>. QED BY <2>2, <4>1 DEF Broken, Interrupted
    <3>. QED BY <3>1
  <2>. QED BY <1>1, <2>2, <2>3 DEF Updating
<1>. QED BY <1>2, <1>3, <1>4, <1>5 DEF Next

\* What a search finds, from how far the update has come.
LEMMA SearchHolds == UpdateInv /\ ClientInv => SearchableThroughout
<1>. SUFFICES ASSUME UpdateInv, ClientInv, failures = 0, ~ overlap, ~ Interrupted, NEW s \in Sites
              PROVE  LET old == siteFile[s]
                         now == Found(s)
                         own == {p \in Procs : Updating(p) /\ Site(p) = s}
                     IN  /\ Find(client, s) # {} =>
                               /\ own = {} => now = old
                               /\ \A p \in own : LET new == Target(proc[p])
                                                 IN  old \cap new \subseteq now /\ now \subseteq old \cup new
                         /\ own = {} /\ old # NoFile /\ (\A p \in Procs : ~ At(p, "write"))
                               => Find(tableFile, s) # {}
  BY DEF SearchableThroughout
<1>. DEFINE old == siteFile[s]
            own == {p \in Procs : Updating(p) /\ Site(p) = s}
<1>0. ~ Broken /\ Found(s) = ListedIn(lists, client, s) /\ siteFile[s] \in SUBSET Starts
  BY ListedForm DEF Broken, Found, UpdateInv, TypeInv, DataOK
<1>1. CASE \A p \in Procs : ~ Updating(p)
  <2>1. CatalogWhole(lists, tableFile, siteFile) /\ Begins(client, tableFile) /\ own = {}
    BY <1>0, <1>1 DEF UpdateInv, CatalogInv, ClientInv, Interrupted
  <2>2. ListedIn(lists, tableFile, s) = old
    BY <2>1 DEF CatalogWhole
  <2>3. Find(client, s) # {} => Found(s) = old
    BY <1>0, <2>1, <2>2, FoundAsListed DEF CatalogWhole
  <2>4. old # NoFile => Find(tableFile, s) # {}
    BY <2>2 DEF ListedIn, Find, NoFile
  <2>. QED BY <2>1, <2>3, <2>4
<1>2. ASSUME NEW p \in Procs, Updating(p)
      PROVE  /\ Find(client, s) # {} =>
                   /\ own = {} => Found(s) = old
                   /\ \A q \in own : LET new == Target(proc[q])
                                     IN  old \cap new \subseteq Found(s) /\ Found(s) \subseteq old \cup new
             /\ own = {} /\ old # NoFile /\ (\A q \in Procs : ~ At(q, "write"))
                   => Find(tableFile, s) # {}
  <2>. DEFINE tab == TableOf(proc[p], tableFile)
  <2>1. CatalogOf(proc[p], lists, tableFile, siteFile) /\ SeenBy(proc[p], client, tableFile)
    BY <1>0, <1>2 DEF UpdateInv, CatalogInv, ClientInv
  <2>2. \A q \in Procs : Updating(q) => q = p
    BY <1>2 DEF UpdateInv, LockInv, Excluded, MutualExclusion
  <2>3. Find(client, s) # {} => Found(s) = ListedIn(lists, tab, s)
    BY <1>0, <2>1, FoundAsListed DEF CatalogOf, SeenBy
  <2>4. CASE Site(p) # s
    <3>1. own = {} /\ ListedIn(lists, tab, s) = old
      BY <2>1, <2>2, <2>4 DEF CatalogOf
    <3>2. ASSUME old # NoFile, ~ At(p, "write") PROVE Find(tableFile, s) # {}
      <4>1. PICK i \in DOMAIN tab : tab[i] = s
        BY <3>1, <3>2 DEF ListedIn, NoFile
      <4>2. i \in DOMAIN tableFile
        BY <2>1, <2>4, <3>2, <4>1 DEF SeenBy
      <4>3. tableFile[i] = s
        BY <2>1, <4>1, <4>2 DEF SeenBy, Begins
      <4>. QED BY <4>2, <4>3 DEF Find
    <3>. QED BY <2>3, <3>1, <3>2
  <2>5. CASE Site(p) = s
    <3>. DEFINE new == Target(proc[p])
                now == ListedIn(lists, tab, s)
    <3>1. own = {p}
      BY <1>2, <2>2, <2>5
    <3>2. new \in SUBSET Starts /\ now \in SUBSET Starts
      BY <1>2, JobType DEF UpdateInv, TypeInv, Target, ListedIn, Updating
    <3>3. old \cap new \subseteq now /\ now \subseteq old \cup new
      <4>1. CASE At(p, "index")
        <5>1. /\ Adds(proc[p]) \subseteq new \ old /\ Dels(proc[p]) \subseteq old \ new
              /\ \A x \in Starts \ (Adds(proc[p]) \cup Dels(proc[p])) : x \in now <=> x \in new
          BY <2>1, <2>5, <4>1 DEF CatalogOf, HalfDone, TableOf
        <5>. HIDE DEF old, new, now
        <5>. QED BY <1>0, <3>2, <5>1 DEF old
      <4>2. CASE Emptied(proc[p])
        <5>1. now = {} /\ new = {}
          BY <2>1, <2>5, <4>2 DEF CatalogOf, Emptied, DeletePlaces, Target
        <5>. QED BY <5>1
      <4>3. CASE ~ At(p, "index") /\ ~ Emptied(proc[p])
        <5>1. now = old
          BY <2>1, <2>5, <4>3 DEF CatalogOf
        <5>. QED BY <5>1
      <4>. QED BY <4>1, <4>2, <4>3
    <3>. QED BY <2>3, <3>1, <3>3
  <2>. QED BY <2>4, <2>5
<1>. QED BY <1>1, <1>2

\* A search goes on finding a site through all of its update, under what its old
\* and its new file have in common, and finds it under nothing else than they have,
\* the time of the host table's rewriting included: for any number of processes and
\* of searches, one after another.
THEOREM SearchesGoOn == SearchSpec => []SearchableThroughout
<1>1. SearchInit => UpdateInv /\ ClientInv
  <2>. SUFFICES ASSUME SearchInit PROVE UpdateInv /\ ClientInv
    OBVIOUS
  <2>1. UpdateInv
    BY InitType, InitLock, InitCatalog DEF SearchInit, UpdateInv
  <2>2. (\A p \in Procs : ~ Updating(p)) /\ Begins(client, tableFile)
    BY DEF SearchInit, Init, Idle, Updating, Begins
  <2>. QED BY <2>1, <2>2 DEF ClientInv
<1>2. UpdateInv /\ [SearchNext]_searchVars => UpdateInv'
  <2>1. [SearchNext]_searchVars => [Next]_vars
    BY DEF SearchNext, OpenSearch, searchVars
  <2>. QED BY <2>1, NextType, NextLock, NextCatalog DEF UpdateInv
<1>3. UpdateInv /\ UpdateInv' /\ ClientInv /\ [SearchNext]_searchVars => ClientInv'
  <2>1. CASE UNCHANGED searchVars
    BY <2>1 DEF searchVars, vars, catalog, faults, ClientInv, Broken, Interrupted, Updating
  <2>. QED BY <2>1, ClientOpens, ClientWaits DEF SearchNext, UpdateInv
<1>. QED BY <1>1, <1>2, <1>3, SearchHolds, PTL DEF SearchSpec
-----------------------------------------------------------------------------
(***************************************************************************)
(* The site's record.  As long as nothing was killed either, a record is    *)
(* ACTIVE if and only if there is a site file, for every site that is not   *)
(* being updated; the update of the others is as far as its place says, and *)
(* what is still to be written back is what the record should be.          *)
(***************************************************************************)
RecordMatches(s, a, sf) == a[s].status = "active" <=> sf[s] # NoFile

\* After a deletion: the site has no file, and its record is not ACTIVE on disk
\* unless it is still to be flushed.
GoneWith(r, a, sf) ==
    /\ sf[r.job.site] = NoFile
    /\ r.opened.rec = NoRec => a[r.job.site].status # "active"

\* The record of the site that process r is updating.
RecordOf(r, a, sf) ==
    LET s == r.job.site
    IN  /\ r.pc \in {"start", "host"} => RecordMatches(s, a, sf)
        /\ r.pc = "unlock" /\ ~ r.job.del => RecordMatches(s, a, sf)
        /\ r.pc = "unlock" /\ r.job.del => GoneWith(r, a, sf)
        /\ r.pc = "hostdb" => a[s].status # "active"
        /\ r.pc \in {"compare", "index", "idx", "truncate", "write"} /\ ~ r.job.del
              => a[s].status = "active"
        /\ r.pc \in {"idx", "truncate", "write"} /\ ~ r.job.del => sf[s] # NoFile
        /\ r.pc \in InsertPlaces \cup {"index"} /\ ~ r.job.del => r.job.recs # {}
        /\ r.pc = "mark" => sf[s] = NoFile

\* The record that process r will write after its unlock.
HeldOf(r, a, sf) ==
    /\ r.pc = "flush" => GoneWith(r, a, sf)
    /\ r.pc = "rewrite" => r.opened.rec = a[r.job.site]

\* The records of all sites, those that are updated as far as their updates have
\* come.  Nobody updates a site whose record another process will write back.
RecordInv ==
    crashes = 0 /\ failures = 0 /\ ~ overlap /\ ~ crossed =>
        /\ \A p \in Procs : Updating(p) => RecordOf(proc[p], aux, siteFile)
        /\ \A p \in Procs : HeldOf(proc[p], aux, siteFile)
        /\ \A p, q \in Procs :
              WritesBack(p) /\ Unsettled(q) /\ Site(q) = Site(p) => q = p
        /\ \A s \in Sites :
              (\A p \in Procs : Unsettled(p) => Site(p) # s) => RecordMatches(s, aux, siteFile)

\* Only the site of the update is touched.
OthersKept(p) ==
    \A s \in Sites \ {Site(p)} : aux'[s] = aux[s] /\ siteFile'[s] = siteFile[s]

\* The parent, and the places where a child only goes on.
LEMMA RecordGoesOn ==
    ASSUME TypeInv, NEW p \in Procs, RecordOf(proc[p], aux, siteFile),
           CatalogOf(proc[p], lists, tableFile, siteFile),
           \/ OpenStartDbs(p) \/ (\E op \in Ops : UpdateList(p, op)) \/ TruncateTable(p)
           \/ WriteTable(p) \/ Compare(p) \/ RenameIdxFile(p) \/ HostActive(p)
    PROVE  RecordOf(proc'[p], aux', siteFile') /\ OthersKept(p)
<1>0. ProcOK /\ proc \in [Procs -> ProcRec]
  BY DEF TypeInv, ProcOK
<1>1. UNCHANGED <<aux, siteFile>>
  BY DEF OpenStartDbs, UpdateList, TruncateTable, WriteTable, Compare, RenameIdxFile,
         HostActive, catalog
<1>. USE <1>1 DEF RecordOf, RecordMatches, InsertPlaces
<1>2. OthersKept(p)
  BY DEF OthersKept
<1>3. CASE OpenStartDbs(p)
  <2>1. CASE ~ Job(p).del /\ Job(p).recs = {}
    <3>1. At(p, "start") /\ proc'[p].pc = "unlock" /\ proc'[p].job = proc[p].job
      BY <1>0, <1>3, <2>1, GotoFields DEF OpenStartDbs
    <3>. QED BY <1>2, <2>1, <3>1
  <2>2. CASE ~ (~ Job(p).del /\ Job(p).recs = {})
    <3>1. /\ proc'[p].pc = IF Job(p).del THEN "host" ELSE "inactivate"
          /\ At(p, "start") /\ proc'[p].job = proc[p].job
      BY <1>0, <1>3, <2>2 DEF OpenStartDbs, ProcRec
    <3>. QED BY <1>2, <2>2, <3>1
  <2>. QED BY <2>1, <2>2
<1>4. CASE \E op \in Ops : UpdateList(p, op)
  <2>1. PICK op \in Ops : UpdateList(p, op)
    BY <1>4
  <2>2. proc[p].pc = "index" /\ proc'[p].pc = "index" /\ proc'[p].job = proc[p].job
    BY <1>0, <2>1 DEF UpdateList, ProcRec
  <2>. QED BY <1>2, <2>2
<1>5. CASE TruncateTable(p)
  <2>1. /\ At(p, "truncate") \/ (At(p, "index") /\ Job(p).del)
        /\ proc'[p].pc = "write" /\ proc'[p].job = proc[p].job
    BY <1>0, <1>5, GotoFields DEF TruncateTable
  <2>. QED BY <1>2, <2>1
<1>6. CASE WriteTable(p)
  <2>1. /\ At(p, "write") /\ proc'[p].job = proc[p].job
        /\ proc'[p].pc = IF Job(p).del THEN "unlink" ELSE "unlock"
    BY <1>0, <1>6, GotoFields DEF WriteTable
  <2>. QED BY <1>2, <2>1
<1>7. CASE Compare(p)
  <2>. DEFINE old == siteFile[Site(p)]
  <2>1. At(p, "compare") /\ ~ Job(p).del
    BY <1>7 DEF Compare, CatalogOf
  <2>2. CASE old # NoFile /\ Find(proc[p].table, Site(p)) = {}
    <3>1. Goto(p, "truncate")
      BY <1>7, <2>2 DEF Compare
    <3>2. proc'[p].pc = "truncate" /\ proc'[p].job = proc[p].job
      BY <1>0, <3>1, GotoFields
    <3>. QED BY <1>2, <2>1, <2>2, <3>2
  <2>3. CASE old = NoFile \/ Find(proc[p].table, Site(p)) # {}
    <3>1. proc'[p].pc = "index" /\ proc'[p].job = proc[p].job
      BY <1>0, <1>7, <2>3 DEF Compare, ProcRec
    <3>. QED BY <1>2, <2>1, <3>1
  <2>. QED BY <2>2, <2>3
<1>8. CASE RenameIdxFile(p)
  <2>1. At(p, "idx") /\ proc'[p].pc = "truncate" /\ proc'[p].job = proc[p].job
    BY <1>0, <1>8, GotoFields DEF RenameIdxFile
  <2>. QED BY <1>2, <2>1
<1>9. CASE HostActive(p)
  BY <1>9 DEF HostActive
<1>. QED BY <1>3, <1>4, <1>5, <1>6, <1>7, <1>8, <1>9

\* The steps that change the record or the site file.
LEMMA RecordChanges ==
    ASSUME TypeInv, NEW p \in Procs, RecordOf(proc[p], aux, siteFile),
           CatalogOf(proc[p], lists, tableFile, siteFile),
           \/ MarkDeleted(p) \/ Inactivate(p) \/ HostDbUpdate(p) \/ Activate(p)
           \/ RenameSiteFile(p) \/ DeleteHost(p) \/ UnlinkSiteFile(p)
    PROVE  RecordOf(proc'[p], aux', siteFile') /\ OthersKept(p)
<1>. DEFINE s == proc[p].job.site
<1>0. /\ ProcOK /\ proc \in [Procs -> ProcRec]
      /\ s \in Sites /\ aux \in [Sites -> Recs] /\ siteFile \in [Sites -> SUBSET Starts]
  BY JobType DEF TypeInv, ProcOK, DataOK, MarkDeleted, Inactivate, HostDbUpdate, Activate,
                 RenameSiteFile, DeleteHost, UnlinkSiteFile
<1>. USE DEF RecordOf, RecordMatches, OthersKept, catalog
<1>1. CASE MarkDeleted(p)
  <2>1. PICK buffered \in {aux[s], NoRec} :
           /\ aux' = IF buffered # NoRec \/ aux[s] = NoRec THEN aux
                     ELSE [aux EXCEPT ![s] = Deleted(@)]
           /\ proc[p].pc = "mark" /\ proc'[p].pc = "unlock"
           /\ proc'[p].job = proc[p].job /\ proc'[p].opened.rec = buffered
           /\ UNCHANGED siteFile
    BY <1>0, <1>1, MarkFields
  <2>2. \A t \in Sites \ {s} : aux'[t] = aux[t]
    BY <1>0, <2>1
  <2>3. buffered = NoRec => aux'[s].status # "active"
    BY <1>0, <2>1 DEF NoRec, Recs, Deleted
  <2>4. siteFile[s] = NoFile /\ proc[p].job.del
    BY <2>1 DEF CatalogOf, DeletePlaces
  <2>. QED BY <2>1, <2>2, <2>3, <2>4 DEF InsertPlaces, GoneWith
<1>2. CASE Inactivate(p)
  <2>1. /\ At(p, "inactivate") /\ proc'[p].pc = "hostdb" /\ proc'[p].job = proc[p].job
        /\ UNCHANGED siteFile
    BY <1>0, <1>2, GotoFields DEF Inactivate
  <2>2. aux'[s].status # "active" /\ \A t \in Sites \ {s} : aux'[t] = aux[t]
    BY <1>0, <1>2 DEF Inactivate, NoRec, Recs
  <2>. QED BY <2>1, <2>2 DEF InsertPlaces
<1>3. CASE HostDbUpdate(p)
  <2>1. /\ At(p, "hostdb") /\ proc'[p].pc = "activate" /\ proc'[p].job = proc[p].job
        /\ UNCHANGED siteFile
    BY <1>0, <1>3, GotoFields DEF HostDbUpdate
  <2>2. \A t \in Sites \ {s} : aux'[t] = aux[t]
    BY <1>0, <1>3 DEF HostDbUpdate
  <2>. QED BY <2>1, <2>2 DEF InsertPlaces
<1>4. CASE Activate(p)
  <2>1. /\ At(p, "activate") /\ proc'[p].pc = "compare" /\ proc'[p].job = proc[p].job
        /\ UNCHANGED siteFile
    BY <1>0, <1>4, GotoFields DEF Activate
  <2>2. aux'[s].status = "active" /\ \A t \in Sites \ {s} : aux'[t] = aux[t]
    BY <1>0, <1>4 DEF Activate, Recs
  <2>. QED BY <2>1, <2>2 DEF InsertPlaces
<1>5. CASE RenameSiteFile(p)
  <2>1. /\ At(p, "index") /\ proc'[p].pc = "idx" /\ proc'[p].job = proc[p].job
        /\ UNCHANGED aux /\ ~ Job(p).del
        /\ siteFile' = [siteFile EXCEPT ![s] = Job(p).recs]
    BY <1>0, <1>5, GotoFields DEF RenameSiteFile
  <2>2. siteFile'[s] = Job(p).recs /\ \A t \in Sites \ {s} : siteFile'[t] = siteFile[t]
    BY <1>0, <2>1
  <2>. QED BY <2>1, <2>2 DEF InsertPlaces, NoFile
<1>6. CASE DeleteHost(p)
  <2>1. /\ At(p, "host") /\ UNCHANGED siteFile /\ Job(p).del
        /\ \A t \in Sites \ {s} : aux'[t] = aux[t]
    BY <1>0, <1>6 DEF DeleteHost, CatalogOf, DeletePlaces
  <2>. DEFINE stop == \/ aux[s] = NoRec \/ siteFile[s] = NoFile
                      \/ Find(proc[p].table, s) = {}
  <2>2. CASE stop
    <3>1. Goto(p, "mark")
      BY <1>6, <2>2 DEF DeleteHost
    <3>2. proc'[p].pc = "mark" /\ proc'[p].job = proc[p].job
      BY <1>0, <3>1, GotoFields
    <3>3. siteFile[s] = NoFile
      <4>1. CASE aux[s] = NoRec
        BY <2>1, <4>1 DEF NoRec
      <4>2. CASE Find(proc[p].table, s) = {}
        <5>1. ListedIn(lists, proc[p].table, s) = siteFile[s]
          BY <2>1 DEF CatalogOf, TableOf, Emptied
        <5>2. ListedIn(lists, proc[p].table, s) = {}
          BY <4>2 DEF ListedIn, Find
        <5>. QED BY <5>1, <5>2 DEF NoFile
      <4>. QED BY <2>2, <4>1, <4>2
    <3>. QED BY <2>1, <3>2, <3>3 DEF InsertPlaces
  <2>3. CASE ~ stop
    <3>1. proc'[p].pc = "index" /\ proc'[p].job = proc[p].job
      BY <1>0, <1>6, <2>3 DEF DeleteHost, ProcRec
    <3>. QED BY <2>1, <3>1 DEF InsertPlaces
  <2>. QED BY <2>2, <2>3
<1>7. CASE UnlinkSiteFile(p)
  <2>1. /\ At(p, "unlink") /\ proc'[p].pc = "mark" /\ proc'[p].job = proc[p].job
        /\ UNCHANGED aux
        /\ siteFile' = [siteFile EXCEPT ![s] = NoFile]
    BY <1>0, <1>7, GotoFields DEF UnlinkSiteFile
  <2>2. siteFile'[s] = NoFile /\ \A t \in Sites \ {s} : siteFile'[t] = siteFile[t]
    BY <1>0, <2>1
  <2>. QED BY <2>1, <2>2 DEF InsertPlaces
<1>. QED BY <1>1, <1>2, <1>3, <1>4, <1>5, <1>6, <1>7

\* Steps that neither change a record or a site file nor bring an update to
\* another place at which they count.
LEMMA RecordAlone ==
    ASSUME RecordInv, UNCHANGED <<aux, siteFile, crashes, failures, overlap, crossed>>,
           \A q \in Procs : /\ Unsettled(q)' <=> Unsettled(q)
                            /\ WritesBack(q)' <=> WritesBack(q)
                            /\ Unsettled(q) \/ WritesBack(q) => proc'[q] = proc[q]
    PROVE  RecordInv'
<1>. SUFFICES ASSUME crashes = 0, failures = 0, ~ overlap, ~ crossed PROVE RecordInv'
  BY DEF RecordInv
<1>1. \A q \in Procs : Updating(q)' => Updating(q) /\ proc'[q] = proc[q]
  BY DEF Unsettled, Updating
<1>2. \A q \in Procs : Updating(q)' => RecordOf(proc'[q], aux', siteFile')
  BY <1>1 DEF RecordInv
<1>3. ASSUME NEW q \in Procs PROVE HeldOf(proc'[q], aux', siteFile')
  <2>1. CASE WritesBack(q)
    BY <2>1 DEF RecordInv
  <2>2. CASE ~ WritesBack(q)
    <3>1. ~ WritesBack(q)'
      BY <2>2
    <3>. QED BY <3>1 DEF HeldOf, WritesBack
  <2>. QED BY <2>1, <2>2
<1>4. ASSUME NEW p \in Procs, NEW q \in Procs, WritesBack(p)', Unsettled(q)',
             Site(q)' = Site(p)'
      PROVE  q = p
  <2>1. WritesBack(p) /\ Unsettled(q) /\ proc'[p] = proc[p] /\ proc'[q] = proc[q]
    BY <1>4
  <2>. QED BY <1>4, <2>1 DEF RecordInv
<1>5. ASSUME NEW s \in Sites, \A q \in Procs : Unsettled(q)' => Site(q)' # s
      PROVE  RecordMatches(s, aux', siteFile')
  <2>1. \A q \in Procs : Unsettled(q) => Site(q) # s
    BY <1>5
  <2>2. RecordMatches(s, aux, siteFile)
    BY <2>1 DEF RecordInv
  <2>. QED BY <2>2
<1>. QED BY <1>2, <1>3, <1>4, <1>5 DEF RecordInv

\* A child's step: the record and the file it changes are those of its own site.
LEMMA RecordWorks ==
    ASSUME TypeInv, LockInv, CatalogInv, RecordInv, NEW p \in Procs, Working(p),
           UNCHANGED <<crashes, failures, overlap, crossed>>,
           crashes = 0, failures = 0, ~ overlap, ~ crossed,
           RecordOf(proc[p], aux, siteFile) /\ CatalogOf(proc[p], lists, tableFile, siteFile)
              => RecordOf(proc'[p], aux', siteFile') /\ OthersKept(p)
    PROVE  RecordInv'
<1>1. Updating(p) /\ Updating(p)' /\ \A q \in Procs \ {p} : ~ Updating(q) /\ ~ Updating(q)'
  BY DEF LockInv, Excluded, MutualExclusion, Updating, Working
<1>2. RecordOf(proc'[p], aux', siteFile') /\ OthersKept(p)
  BY <1>1 DEF RecordInv, CatalogInv
<1>3. \A q \in Procs : /\ Unsettled(q)' <=> Unsettled(q)
                       /\ WritesBack(q)' <=> WritesBack(q)
                       /\ Site(q)' = Site(q)
  BY <1>1 DEF Working, Unsettled, WritesBack, Updating
<1>4. ASSUME NEW q \in Procs PROVE HeldOf(proc'[q], aux', siteFile')
  <2>1. CASE ~ WritesBack(q)
    <3>1. ~ WritesBack(q)'
      BY <1>3, <2>1
    <3>. QED BY <3>1 DEF HeldOf, WritesBack
  <2>2. CASE WritesBack(q)
    <3>1. q # p /\ ~ At(q, "idle")
      BY <1>1, <2>2 DEF WritesBack, Updating
    <3>2. Site(q) # Site(p) /\ Site(q) \in Sites
      BY <1>1, <2>2, <3>1, JobType DEF RecordInv, Unsettled, TypeInv
    <3>3. /\ proc'[q] = proc[q]
          /\ aux'[Site(q)] = aux[Site(q)] /\ siteFile'[Site(q)] = siteFile[Site(q)]
      BY <1>2, <3>1, <3>2 DEF OthersKept, Working
    <3>4. HeldOf(proc[q], aux, siteFile)
      BY DEF RecordInv
    <3>. QED BY <3>3, <3>4 DEF HeldOf, GoneWith
  <2>. QED BY <2>1, <2>2
<1>5. \A q, r \in Procs : WritesBack(q)' /\ Unsettled(r)' /\ Site(r)' = Site(q)' => r = q
  BY <1>3 DEF RecordInv
<1>6. ASSUME NEW s \in Sites, \A q \in Procs : Unsettled(q)' => Site(q)' # s
      PROVE  RecordMatches(s, aux', siteFile')
  <2>1. \A q \in Procs : Unsettled(q) => Site(q) # s
    BY <1>3, <1>6
  <2>2. s # Site(p) /\ RecordMatches(s, aux, siteFile)
    BY <1>1, <2>1 DEF RecordInv, Unsettled
  <2>. QED BY <1>2, <2>2 DEF OthersKept, RecordMatches
<1>7. \A q \in Procs : Updating(q)' => RecordOf(proc'[q], aux', siteFile')
  BY <1>1, <1>2
<1>. QED BY <1>4, <1>5, <1>6, <1>7 DEF RecordInv

\* Taking the lock: no other process has the site's record to write back.
LEMMA RecordLocked ==
    ASSUME TypeInv, LockInv, RecordInv, NEW p \in Procs, CreateLock(p),
           crashes' = 0, failures' = 0, ~ overlap', ~ crossed'
    PROVE  RecordInv'
<1>1. /\ proc'[p].pc = "start" /\ proc'[p].job = proc[p].job /\ proc[p].pc = "create"
      /\ \A q \in Procs \ {p} : proc'[q] = proc[q]
      /\ UNCHANGED <<aux, siteFile>>
      /\ crashes = 0 /\ failures = 0 /\ ~ overlap /\ ~ lock /\ ~ crossed
  BY GotoFields DEF CreateLock, catalog, TypeInv
<1>2. \A q \in Procs : WritesBack(q) => Site(q) # Site(p)
  BY <1>1 DEF CreateLock
<1>3. \A q \in Procs : ~ Updating(q)
  BY <1>1 DEF LockInv, Excluded
<1>4. \A q \in Procs : Unsettled(q) => WritesBack(q)
  BY <1>3 DEF Unsettled, WritesBack
<1>5. Site(p) \in Sites /\ RecordMatches(Site(p), aux, siteFile)
  <2>1. Site(p) \in Sites
    BY <1>1, JobType DEF TypeInv
  <2>. QED BY <1>1, <1>2, <1>4, <2>1 DEF RecordInv
<1>6. RecordOf(proc'[p], aux', siteFile')
  BY <1>1, <1>5 DEF RecordOf, RecordMatches, InsertPlaces
<1>7. /\ ~ WritesBack(p) /\ ~ WritesBack(p)'
      /\ \A q \in Procs \ {p} : ~ Updating(q)'
      /\ \A q \in Procs \ {p} : Unsettled(q)' <=> Unsettled(q)
      /\ \A q \in Procs : WritesBack(q)' <=> WritesBack(q)
  BY <1>1, <1>3 DEF WritesBack, Unsettled, Updating
<1>8. ASSUME NEW q \in Procs PROVE HeldOf(proc'[q], aux', siteFile')
  <2>1. CASE q = p
    BY <1>1, <2>1 DEF HeldOf
  <2>2. CASE q # p
    BY <1>1, <2>2 DEF RecordInv
  <2>. QED BY <2>1, <2>2
<1>9. ASSUME NEW q \in Procs, NEW r \in Procs, WritesBack(q)', Unsettled(r)',
             Site(r)' = Site(q)'
      PROVE  r = q
  <2>1. q # p /\ WritesBack(q)
    BY <1>7, <1>9
  <2>2. r # p
    BY <1>1, <1>2, <1>9, <2>1
  <2>. QED BY <1>1, <1>7, <1>9, <2>1, <2>2 DEF RecordInv
<1>10. ASSUME NEW s \in Sites, \A q \in Procs : Unsettled(q)' => Site(q)' # s
       PROVE  RecordMatches(s, aux', siteFile')
  <2>1. \A q \in Procs : Unsettled(q) => Site(q) # s
    <3>1. ~ Unsettled(p)
      BY <1>1, <1>3 DEF Unsettled
    <3>. QED BY <1>1, <1>7, <1>10, <3>1
  <2>. QED BY <1>1, <2>1 DEF RecordInv
<1>11. \A q \in Procs : Updating(q)' => RecordOf(proc'[q], aux', siteFile')
  BY <1>6, <1>7
<1>. QED BY <1>8, <1>9, <1>10, <1>11 DEF RecordInv

\* Releasing it: an insertion's record is what it should be, a deletion's may still
\* have to be flushed.
LEMMA RecordUnlocked ==
    ASSUME TypeInv, LockInv, RecordInv, NEW p \in Procs, Unlock(p),
           crashes' = 0, failures' = 0, ~ overlap', ~ crossed'
    PROVE  RecordInv'
<1>1. /\ proc[p].pc = "unlock" /\ proc'[p].pc = IF Job(p).del THEN "flush" ELSE "consume"
      /\ proc'[p].job = proc[p].job /\ proc'[p].opened = proc[p].opened
      /\ \A q \in Procs \ {p} : proc'[q] = proc[q]
      /\ UNCHANGED <<aux, siteFile>>
      /\ crashes = 0 /\ failures = 0 /\ ~ overlap /\ ~ crossed
  BY DEF Unlock, Goto, catalog, faults, TypeInv, ProcOK, ProcRec
<1>2. Updating(p) /\ Unsettled(p) /\ \A q \in Procs \ {p} : ~ Updating(q)
  BY <1>1 DEF LockInv, Excluded, MutualExclusion, Updating, Unsettled
<1>3. \A q \in Procs : ~ Updating(q)'
  BY <1>1, <1>2 DEF Updating
<1>4. RecordOf(proc[p], aux, siteFile) /\ Job(p).del \in BOOLEAN /\ Site(p) \in Sites
  BY <1>1, <1>2, JobType DEF RecordInv, TypeInv
<1>5. /\ \A q \in Procs \ {p} : Unsettled(q)' <=> Unsettled(q)
      /\ \A q \in Procs \ {p} : WritesBack(q)' <=> WritesBack(q)
      /\ \A q \in Procs : Site(q)' = Site(q)
      /\ WritesBack(p)' => Job(p).del
      /\ Unsettled(p)' <=> Job(p).del
  BY <1>1, <1>3, <1>4 DEF Unsettled, WritesBack, Updating
<1>6. ASSUME NEW q \in Procs PROVE HeldOf(proc'[q], aux', siteFile')
  <2>1. CASE q = p
    BY <1>1, <1>4, <2>1 DEF HeldOf, RecordOf, GoneWith
  <2>2. CASE q # p
    BY <1>1, <2>2 DEF RecordInv
  <2>. QED BY <2>1, <2>2
<1>7. ASSUME NEW q \in Procs, NEW r \in Procs, WritesBack(q)', Unsettled(r)',
             Site(r)' = Site(q)'
      PROVE  r = q
  <2>0. Unsettled(r) /\ Site(r) = Site(q)
    BY <1>2, <1>5, <1>7
  <2>1. CASE q # p
    BY <1>1, <1>5, <1>7, <2>0, <2>1 DEF RecordInv
  <2>2. CASE q = p /\ r # p
    <3>1. WritesBack(r)
      BY <1>2, <2>0, <2>2 DEF Unsettled, WritesBack
    <3>. QED BY <1>1, <1>2, <2>0, <2>2, <3>1 DEF RecordInv
  <2>. QED BY <2>1, <2>2
<1>8. ASSUME NEW s \in Sites, \A q \in Procs : Unsettled(q)' => Site(q)' # s
      PROVE  RecordMatches(s, aux', siteFile')
  <2>1. CASE s = Site(p)
    <3>1. ~ Job(p).del
      BY <1>5, <1>8, <2>1
    <3>. QED BY <1>1, <1>4, <2>1, <3>1 DEF RecordOf
  <2>2. CASE s # Site(p)
    BY <1>1, <1>5, <1>8, <2>2 DEF RecordInv
  <2>. QED BY <2>1, <2>2
<1>. QED BY <1>3, <1>6, <1>7, <1>8 DEF RecordInv

\* A deletion's record gets to the disk.
LEMMA RecordFlushed ==
    ASSUME TypeInv, RecordInv, NEW p \in Procs, CloseHostDbs(p),
           crashes' = 0, failures' = 0, ~ overlap', ~ crossed'
    PROVE  RecordInv'
<1>0. ProcOK /\ aux \in [Sites -> Recs] /\ proc[p].opened.rec \in Recs /\ Site(p) \in Sites
  BY JobType DEF TypeInv, DataOK, ProcOK, ProcRec, CloseHostDbs
<1>1. /\ proc[p].pc = "flush" /\ proc'[p].pc = "consume"
      /\ \A q \in Procs \ {p} : proc'[q] = proc[q]
      /\ UNCHANGED siteFile
      /\ crashes = 0 /\ failures = 0 /\ ~ overlap /\ ~ crossed
  BY <1>0, GotoFields DEF CloseHostDbs, catalog, faults
<1>2. \A s \in Sites \ {Site(p)} : aux'[s] = aux[s]
  BY <1>0 DEF CloseHostDbs
<1>3. RecordMatches(Site(p), aux', siteFile')
  <2>1. GoneWith(proc[p], aux, siteFile)
    BY <1>1 DEF RecordInv, HeldOf
  <2>2. aux'[Site(p)].status # "active"
    <3>1. CASE proc[p].opened.rec = NoRec
      BY <2>1, <3>1 DEF CloseHostDbs, GoneWith
    <3>2. CASE proc[p].opened.rec # NoRec
      BY <1>0, <3>2 DEF CloseHostDbs, Deleted, Recs
    <3>. QED BY <3>1, <3>2
  <2>. QED BY <1>1, <2>1, <2>2 DEF GoneWith, RecordMatches
<1>4. \A q \in Procs : (WritesBack(q) \/ Unsettled(q)) /\ q # p => Site(q) # Site(p)
  BY <1>1 DEF RecordInv, WritesBack, Unsettled
<1>5. /\ \A q \in Procs \ {p} : Unsettled(q)' <=> Unsettled(q)
      /\ \A q \in Procs \ {p} : WritesBack(q)' <=> WritesBack(q)
      /\ ~ Unsettled(p)' /\ ~ WritesBack(p)'
  BY <1>1 DEF Unsettled, WritesBack, Updating
<1>6. ASSUME NEW q \in Procs, Unsettled(q)' \/ WritesBack(q)'
      PROVE  /\ proc'[q] = proc[q] /\ Site(q) \in Sites /\ Site(q) # Site(p)
             /\ aux'[Site(q)] = aux[Site(q)]
  <2>1. q # p
    BY <1>5, <1>6
  <2>2. Site(q) \in Sites
    <3>1. ~ At(q, "idle")
      BY <1>5, <1>6, <2>1 DEF Unsettled, WritesBack, Updating
    <3>. QED BY <1>0, <3>1, JobType
  <2>. QED BY <1>1, <1>2, <1>4, <1>5, <1>6, <2>1, <2>2
<1>7. ASSUME NEW q \in Procs, Updating(q)' PROVE RecordOf(proc'[q], aux', siteFile')
  <2>1. proc'[q] = proc[q] /\ Updating(q) /\ aux'[Site(q)] = aux[Site(q)]
    BY <1>6, <1>7 DEF Unsettled, Updating
  <2>2. RecordOf(proc[q], aux, siteFile)
    BY <1>1, <2>1 DEF RecordInv
  <2>. QED BY <1>1, <2>1, <2>2 DEF RecordOf, RecordMatches, GoneWith
<1>8. ASSUME NEW q \in Procs PROVE HeldOf(proc'[q], aux', siteFile')
  <2>1. CASE ~ WritesBack(q)'
    BY <2>1 DEF HeldOf, WritesBack
  <2>2. CASE WritesBack(q)'
    <3>1. proc'[q] = proc[q] /\ aux'[Site(q)] = aux[Site(q)]
      BY <1>6, <2>2
    <3>2. HeldOf(proc[q], aux, siteFile)
      BY <1>1 DEF RecordInv
    <3>. QED BY <1>1, <3>1, <3>2 DEF HeldOf, GoneWith
  <2>. QED BY <2>1, <2>2
<1>9. ASSUME NEW q \in Procs, NEW r \in Procs, WritesBack(q)', Unsettled(r)',
             Site(r)' = Site(q)'
      PROVE  r = q
  <2>1. q # p /\ r # p
    BY <1>5, <1>9
  <2>. QED BY <1>1, <1>5, <1>9, <2>1 DEF RecordInv
<1>10. ASSUME NEW s \in Sites, \A q \in Procs : Unsettled(q)' => Site(q)' # s
       PROVE  RecordMatches(s, aux', siteFile')
  <2>1. CASE s = Site(p)
    BY <1>3, <2>1
  <2>2. CASE s # Site(p)
    <3>1. \A q \in Procs : Unsettled(q) => Site(q) # s
      BY <1>1, <1>5, <1>10, <2>2
    <3>. QED BY <1>1, <1>2, <2>2, <3>1 DEF RecordInv, RecordMatches
  <2>. QED BY <2>1, <2>2
<1>. QED BY <1>7, <1>8, <1>9, <1>10 DEF RecordInv

\* The record of an insertion's site is read again ...
LEMMA RecordReread ==
    ASSUME TypeInv, RecordInv, NEW p \in Procs, Reread(p),
           crashes' = 0, failures' = 0, ~ overlap', ~ crossed'
    PROVE  RecordInv'
<1>1. /\ proc[p].pc = "reread" /\ proc'[p].pc = "rewrite" /\ proc'[p].job = proc[p].job
      /\ proc'[p].opened.rec = aux[Site(p)]
      /\ \A q \in Procs \ {p} : proc'[q] = proc[q]
      /\ UNCHANGED <<aux, siteFile>>
      /\ crashes = 0 /\ failures = 0 /\ ~ overlap /\ ~ crossed
  <2>1. PICK rec : /\ rec = aux[Site(p)]
                   /\ proc' = [proc EXCEPT ![p].pc = "rewrite", ![p].opened.rec = rec]
    BY DEF Reread
  <2>2. proc \in [Procs -> ProcRec]
    BY DEF TypeInv, ProcOK
  <2>3. /\ proc'[p].pc = "rewrite" /\ proc'[p].job = proc[p].job
        /\ proc'[p].opened.rec = rec /\ \A q \in Procs \ {p} : proc'[q] = proc[q]
    BY <2>1, <2>2 DEF ProcRec
  <2>4. /\ proc[p].pc = "reread" /\ UNCHANGED <<aux, siteFile>>
        /\ crashes = 0 /\ failures = 0 /\ ~ overlap /\ ~ crossed
    BY DEF Reread, catalog
  <2>. QED BY <2>1, <2>3, <2>4
<1>2. \A q \in Procs : Unsettled(q) => Site(q) # Site(p)
  BY <1>1 DEF Reread
<1>3. /\ \A q \in Procs : Unsettled(q)' <=> Unsettled(q)
      /\ \A q \in Procs : Updating(q)' <=> Updating(q)
      /\ \A q \in Procs \ {p} : WritesBack(q)' <=> WritesBack(q)
      /\ \A q \in Procs : Site(q)' = Site(q)
      /\ ~ Updating(p)
  BY <1>1 DEF Unsettled, WritesBack, Updating
<1>4. ASSUME NEW q \in Procs PROVE HeldOf(proc'[q], aux', siteFile')
  <2>1. CASE q = p
    BY <1>1, <2>1 DEF HeldOf
  <2>2. CASE q # p
    BY <1>1, <2>2 DEF RecordInv
  <2>. QED BY <2>1, <2>2
<1>5. ASSUME NEW q \in Procs, NEW r \in Procs, WritesBack(q)', Unsettled(r)',
             Site(r)' = Site(q)'
      PROVE  r = q
  <2>1. CASE q = p
    BY <1>2, <1>3, <1>5, <2>1
  <2>2. CASE q # p
    BY <1>1, <1>3, <1>5, <2>2 DEF RecordInv
  <2>. QED BY <2>1, <2>2
<1>6. \A q \in Procs : Updating(q)' => RecordOf(proc'[q], aux', siteFile')
  BY <1>1, <1>3 DEF RecordInv
<1>7. \A s \in Sites : (\A q \in Procs : Unsettled(q)' => Site(q)' # s)
                         => RecordMatches(s, aux', siteFile')
  BY <1>1, <1>3 DEF RecordInv
<1>. QED BY <1>4, <1>5, <1>6, <1>7 DEF RecordInv

\* ... and written back as it still is.
LEMMA RecordRewritten ==
    ASSUME TypeInv, RecordInv, NEW p \in Procs, Rewrite(p),
           crashes' = 0, failures' = 0, ~ overlap', ~ crossed'
    PROVE  RecordInv'
<1>1. /\ proc[p].pc = "rewrite" /\ proc' = [proc EXCEPT ![p] = Idle]
      /\ UNCHANGED <<siteFile, crashes, failures, overlap, crossed>>
      /\ aux' = [aux EXCEPT ![Site(p)] = proc[p].opened.rec]
  BY DEF Rewrite, catalog, faults
<1>2. aux' = aux
  <2>1. proc[p].opened.rec = aux[Site(p)] /\ Site(p) \in Sites
    BY <1>1, JobType DEF RecordInv, HeldOf, TypeInv
  <2>. QED BY <1>1, <2>1 DEF TypeInv, DataOK
<1>3. /\ proc'[p].pc = "idle" /\ \A q \in Procs \ {p} : proc'[q] = proc[q]
  BY <1>1 DEF TypeInv, ProcOK, Idle
<1>4. /\ \A q \in Procs : Unsettled(q)' <=> Unsettled(q)
      /\ \A q \in Procs : Updating(q)' <=> Updating(q)
      /\ \A q \in Procs : WritesBack(q)' => WritesBack(q) /\ q # p
      /\ ~ Updating(p) /\ ~ Unsettled(p)
  BY <1>1, <1>3 DEF Unsettled, WritesBack, Updating
<1>5. ASSUME NEW q \in Procs PROVE HeldOf(proc'[q], aux', siteFile')
  <2>1. CASE q = p
    BY <1>3, <2>1 DEF HeldOf
  <2>2. CASE q # p
    BY <1>1, <1>2, <1>3, <2>2 DEF RecordInv
  <2>. QED BY <2>1, <2>2
<1>6. ASSUME NEW q \in Procs, NEW r \in Procs, WritesBack(q)', Unsettled(r)',
             Site(r)' = Site(q)'
      PROVE  r = q
  <2>1. q # p /\ r # p /\ WritesBack(q) /\ Unsettled(r)
    BY <1>4, <1>6
  <2>. QED BY <1>1, <1>3, <1>6, <2>1 DEF RecordInv
<1>7. \A q \in Procs : Updating(q)' => RecordOf(proc'[q], aux', siteFile')
  BY <1>1, <1>2, <1>3, <1>4 DEF RecordInv
<1>8. \A s \in Sites : (\A q \in Procs : Unsettled(q)' => Site(q)' # s)
                         => RecordMatches(s, aux', siteFile')
  BY <1>1, <1>2, <1>3, <1>4 DEF RecordInv
<1>. QED BY <1>5, <1>6, <1>7, <1>8 DEF RecordInv

\* Every step keeps the agreement of records and site files.
LEMMA NextRecord ==
    TypeInv /\ LockInv /\ CatalogInv /\ RecordInv /\ [Next]_vars => RecordInv'
<1>. SUFFICES ASSUME TypeInv, LockInv, CatalogInv, RecordInv, [Next]_vars,
                     crashes' = 0, failures' = 0, ~ overlap', ~ crossed'
              PROVE  RecordInv'
  BY DEF RecordInv
<1>0. ProcOK /\ proc \in [Procs -> ProcRec] /\ failures \in Nat /\ crashes \in Nat
  BY BoundsAssumption DEF TypeInv, ProcOK, DataOK
<1>1. ASSUME UNCHANGED <<aux, siteFile, faults>>, NEW p \in Procs,
             proc[p].pc \in {"idle", "wait", "create", "consume", "reread"},
             proc'[p].pc \in {"idle", "wait", "create", "consume", "reread"},
             \A q \in Procs \ {p} : proc'[q] = proc[q]
      PROVE  RecordInv'
  <2>1. \A q \in Procs : /\ Unsettled(q)' <=> Unsettled(q)
                         /\ WritesBack(q)' <=> WritesBack(q)
                         /\ Unsettled(q) \/ WritesBack(q) => proc'[q] = proc[q]
    BY <1>1 DEF Unsettled, WritesBack, Updating
  <2>. QED BY <1>1, <2>1, RecordAlone DEF faults
<1>2. ASSUME NEW in \in Inputs, Arrive(in) PROVE RecordInv'
  BY <1>2, RecordAlone DEF Arrive, catalog, faults, Updating, Unsettled, WritesBack
<1>3. ASSUME NEW p \in Procs, NEW in \in Inputs, Begin(p, in) PROVE RecordInv'
  <2>1. /\ UNCHANGED <<aux, siteFile, faults>>
        /\ \A q \in Procs \ {p} : proc'[q] = proc[q]
    BY <1>0, <1>3 DEF Begin, catalog
  <2>2. proc[p].pc = "idle" /\ proc'[p].pc \in {"idle", "wait"}
    BY <1>0, <1>3 DEF Begin, Idle
  <2>. QED BY <1>1, <2>1, <2>2
<1>4. ASSUME NEW p \in Procs, Step(p) PROVE RecordInv'
  <2>1. CASE FindLocked(p) \/ GiveUp(p) \/ FindUnlocked(p) \/ Consume(p) \/ LeaveRecord(p)
    <3>1. UNCHANGED <<aux, siteFile, faults>>
      BY <2>1 DEF FindLocked, GiveUp, FindUnlocked, Consume, LeaveRecord, catalog
    <3>2. \A q \in Procs \ {p} : proc'[q] = proc[q]
      BY <1>0, <2>1, ParentApart DEF Apart
    <3>3. /\ proc'[p].pc \in {"idle", "wait", "create", "reread"}
          /\ proc[p].pc \in {"wait", "consume", "reread"}
      <4>1. CASE Consume(p)
        <5>1. CASE Job(p).del
          BY <1>0, <4>1, <5>1 DEF Consume, Idle
        <5>2. CASE ~ Job(p).del
          BY <1>0, <4>1, <5>2 DEF Consume, ProcRec
        <5>. QED BY <5>1, <5>2
      <4>2. CASE FindLocked(p) \/ GiveUp(p) \/ FindUnlocked(p) \/ LeaveRecord(p)
        BY <1>0, <4>2 DEF FindLocked, GiveUp, FindUnlocked, LeaveRecord, Idle, ProcRec
      <4>. QED BY <2>1, <4>1, <4>2
    <3>. QED BY <1>1, <3>1, <3>2, <3>3
  <2>2. CASE CreateLock(p)
    BY <2>2, RecordLocked
  <2>3. CASE Unlock(p)
    BY <2>3, RecordUnlocked
  <2>4. CASE CloseHostDbs(p) \/ Reread(p) \/ Rewrite(p)
    BY <2>4, RecordFlushed, RecordReread, RecordRewritten
  <2>5. CASE \/ OpenStartDbs(p) \/ (\E op \in Ops : UpdateList(p, op)) \/ TruncateTable(p)
             \/ WriteTable(p) \/ Compare(p) \/ RenameIdxFile(p) \/ HostActive(p)
             \/ MarkDeleted(p) \/ Inactivate(p) \/ HostDbUpdate(p) \/ Activate(p)
             \/ RenameSiteFile(p) \/ DeleteHost(p) \/ UnlinkSiteFile(p)
    <3>1. Working(p)
      BY <1>0, <2>5, ChildWorks
    <3>2. UNCHANGED <<crashes, failures, overlap, crossed>>
      BY <2>5 DEF MarkDeleted, Inactivate, HostDbUpdate, HostActive, Activate, RenameIdxFile,
                  OpenStartDbs, WriteTable, TruncateTable, RenameSiteFile, UnlinkSiteFile,
                  Compare, DeleteHost, UpdateList, faults
    <3>3. RecordOf(proc[p], aux, siteFile) /\ CatalogOf(proc[p], lists, tableFile, siteFile)
             => RecordOf(proc'[p], aux', siteFile') /\ OthersKept(p)
      BY <2>5, RecordGoesOn, RecordChanges
    <3>. QED BY <3>1, <3>2, <3>3, RecordWorks
  <2>. QED BY <1>4, <2>1, <2>2, <2>3, <2>4, <2>5 DEF Step
<1>5. ASSUME NEW p \in Procs, Fault(p) PROVE RecordInv'
  <2>1. crashes' = crashes + 1 \/ failures' = failures + 1
    BY <1>5 DEF Fault, InsertFails, InsertExits, IndexRenameFails, DeleteFails,
                DeleteMapFails, CountFailure, Crash
  <2>. QED BY <1>0, <2>1
<1>6. CASE UNCHANGED vars
  BY <1>6, RecordAlone DEF vars, catalog, faults, Updating, Unsettled, WritesBack
<1>. QED BY <1>2, <1>3, <1>4, <1>5, <1>6 DEF Next

\* At first no site has a record or a file.
LEMMA InitRecord == Init => RecordInv
<1>. SUFFICES ASSUME Init PROVE RecordInv
  OBVIOUS
<1>1. \A p \in Procs : ~ Updating(p) /\ ~ WritesBack(p) /\ HeldOf(proc[p], aux, siteFile)
  BY DEF Init, Updating, WritesBack, HeldOf, Idle
<1>2. \A s \in Sites : RecordMatches(s, aux, siteFile)
  BY DEF Init, RecordMatches, NoRec
<1>. QED BY <1>1, <1>2 DEF RecordInv

\* Records and site files agree, except for the sites that are being updated.
THEOREM RecordInvariance == Spec => []RecordInv
BY InitRecord, NextRecord, TypeInvariance, LockInvariance, CatalogInvariance, PTL DEF Spec

\* A record is ACTIVE exactly where there is a site file, although the two are
\* changed in different steps by two programs, some of them after the lock file is
\* gone: as long as no update of a site has begun before another one of it had
\* written its record back.
THEOREM ActiveHasItsFile == Spec => []ActiveHasFile
<1>1. RecordInv => ActiveHasFile
  BY DEF RecordInv, RecordMatches, ActiveHasFile
<1>. QED BY <1>1, RecordInvariance, PTL
-----------------------------------------------------------------------------
(***************************************************************************)
(* The age of a site's data.  It is compared before the lock is asked for,  *)
(* so this is about one process at a time.                                 *)
(***************************************************************************)
\* The record that process r will write back has the time of the one on disk.
SameTime(r, a) ==
    /\ r.pc = "rewrite" => r.opened.rec.time = a[r.job.site].time
    /\ r.pc = "flush" \/ (r.pc = "unlock" /\ r.job.del)
          => r.opened.rec = NoRec \/ r.opened.rec.time = a[r.job.site].time

\* Whoever waits for the lock has an input file that is not stale, and who writes
\* a record back has read it from the disk.
NotStale ==
    crashes = 0 /\ failures = 0 =>
        \A p \in Procs :
            /\ proc[p].pc \in {"wait", "create", "start", "inactivate", "hostdb"}
                  => ~ Stale(Job(p))
            /\ SameTime(proc[p], aux)

\* The times of the records when a process goes on without writing its own.
LEMMA TimesKept ==
    ASSUME TypeInv, NEW p \in Procs,
           \/ Inactivate(p) \/ MarkDeleted(p) \/ Activate(p) \/ DeleteHost(p)
    PROVE  \A s \in Sites : aux'[s].time = aux[s].time
<1>1. Site(p) \in Sites /\ aux \in [Sites -> Recs]
  BY JobType DEF TypeInv, DataOK, Inactivate, MarkDeleted, Activate, DeleteHost
<1>2. \/ aux' = aux
      \/ \E status : aux' = [aux EXCEPT ![Site(p)].status = status]
  BY DEF Inactivate, MarkDeleted, Activate, DeleteHost, Deleted
<1>3. ASSUME NEW status, aux' = [aux EXCEPT ![Site(p)].status = status]
      PROVE  \A s \in Sites : aux'[s].time = aux[s].time
  <2>1. [aux[Site(p)] EXCEPT !.status = status].time = aux[Site(p)].time
    BY <1>1 DEF Recs
  <2>. QED BY <1>1, <1>3, <2>1
<1>. QED BY <1>2, <1>3

\* And when it writes back a record it has read.
LEMMA TimesWritten ==
    ASSUME TypeInv, NEW p \in Procs, SameTime(proc[p], aux), CloseHostDbs(p) \/ Rewrite(p)
    PROVE  \A s \in Sites : aux'[s].time = aux[s].time
<1>. DEFINE rec == proc[p].opened.rec
<1>1. Site(p) \in Sites /\ aux \in [Sites -> Recs] /\ rec \in Recs
  BY JobType DEF TypeInv, DataOK, ProcOK, ProcRec, CloseHostDbs, Rewrite
<1>2. CASE CloseHostDbs(p)
  <2>1. Deleted(rec).time = rec.time
    BY <1>1 DEF Deleted, Recs
  <2>2. rec = NoRec \/ rec.time = aux[Site(p)].time
    BY <1>2 DEF CloseHostDbs, SameTime
  <2>3. aux' = IF rec = NoRec THEN aux ELSE [aux EXCEPT ![Site(p)] = Deleted(rec)]
    BY <1>2 DEF CloseHostDbs
  <2>. HIDE DEF rec
  <2>. QED BY <1>1, <2>1, <2>2, <2>3
<1>3. CASE Rewrite(p)
  <2>1. rec.time = aux[Site(p)].time /\ aux' = [aux EXCEPT ![Site(p)] = rec]
    BY <1>3 DEF Rewrite, SameTime
  <2>. QED BY <1>1, <2>1
<1>. QED BY <1>2, <1>3

\* The one process writes back what it has read.
LEMMA StepSameTime ==
    ASSUME TypeInv, NEW p \in Procs, SameTime(proc[p], aux), Step(p)
    PROVE  SameTime(proc'[p], aux')
<1>0. ProcOK /\ proc \in [Procs -> ProcRec]
  BY DEF TypeInv, ProcOK
<1>1. ASSUME proc'[p].pc \notin {"rewrite", "flush", "unlock"} PROVE SameTime(proc'[p], aux')
  BY <1>1 DEF SameTime
<1>. USE <1>0 DEF Goto, ProcRec
<1>2. CASE MarkDeleted(p)
  BY <1>2, MarkFields DEF SameTime
<1>3. CASE Unlock(p)
  BY <1>3 DEF Unlock, SameTime
<1>4. CASE Reread(p)
  <2>1. PICK rec : rec = aux[Site(p)] /\ proc' = [proc EXCEPT ![p].pc = "rewrite", ![p].opened.rec = rec]
    BY <1>4 DEF Reread
  <2>2. /\ proc'[p].pc = "rewrite" /\ proc'[p].job = proc[p].job
        /\ proc'[p].opened.rec = aux[Site(p)] /\ aux' = aux
    BY <1>4, <2>1 DEF Reread
  <2>. QED BY <2>2 DEF SameTime
<1>5. CASE OpenStartDbs(p)
  <2>1. CASE ~ Job(p).del /\ Job(p).recs = {}
    <3>1. proc'[p].pc = "unlock" /\ ~ proc'[p].job.del
      BY <1>0, <1>5, <2>1, GotoFields DEF OpenStartDbs
    <3>. QED BY <3>1 DEF SameTime
  <2>2. CASE ~ (~ Job(p).del /\ Job(p).recs = {})
    <3>1. proc'[p].pc \in {"host", "inactivate"}
      BY <1>5, <2>2 DEF OpenStartDbs
    <3>. QED BY <1>1, <3>1
  <2>. QED BY <2>1, <2>2
<1>6. CASE WriteTable(p)
  <2>1. proc'[p].pc = "unlink" \/ (proc'[p].pc = "unlock" /\ ~ proc'[p].job.del)
    BY <1>6 DEF WriteTable
  <2>. QED BY <2>1 DEF SameTime
<1>7. CASE GiveUp(p) \/ CloseHostDbs(p) \/ Consume(p) \/ Rewrite(p) \/ LeaveRecord(p)
  <2>1. CASE Consume(p)
    <3>1. CASE Job(p).del
      BY <1>1, <2>1, <3>1 DEF Consume, Idle
    <3>2. CASE ~ Job(p).del
      BY <1>1, <2>1, <3>2 DEF Consume
    <3>. QED BY <3>1, <3>2
  <2>. QED BY <1>1, <1>7, <2>1 DEF GiveUp, CloseHostDbs, Rewrite, LeaveRecord, Idle
<1>8. CASE FindLocked(p) \/ FindUnlocked(p) \/ CreateLock(p) \/ TruncateTable(p)
  BY <1>1, <1>8 DEF FindLocked, FindUnlocked, CreateLock, TruncateTable
<1>9. CASE \/ Inactivate(p) \/ HostDbUpdate(p) \/ HostActive(p) \/ Activate(p)
           \/ RenameSiteFile(p) \/ RenameIdxFile(p) \/ UnlinkSiteFile(p)
  <2>1. CASE Inactivate(p) \/ HostDbUpdate(p)
    BY <1>1, <2>1 DEF Inactivate, HostDbUpdate
  <2>2. CASE HostActive(p) \/ Activate(p) \/ UnlinkSiteFile(p)
    BY <1>1, <2>2 DEF HostActive, Activate, UnlinkSiteFile
  <2>3. CASE RenameSiteFile(p) \/ RenameIdxFile(p)
    BY <1>1, <2>3 DEF RenameSiteFile, RenameIdxFile
  <2>. QED BY <1>9, <2>1, <2>2, <2>3
<1>10. CASE Compare(p) \/ DeleteHost(p) \/ (\E op \in Ops : UpdateList(p, op))
  <2>1. CASE Compare(p)
    <3>1. CASE siteFile[Site(p)] = NoFile
      BY <1>1, <2>1, <3>1 DEF Compare
    <3>2. CASE siteFile[Site(p)] # NoFile
      BY <1>1, <2>1, <3>2 DEF Compare
    <3>. QED BY <3>1, <3>2
  <2>2. CASE DeleteHost(p)
    BY <1>1, <2>2 DEF DeleteHost
  <2>3. CASE \E op \in Ops : UpdateList(p, op)
    BY <1>1, <2>3 DEF UpdateList
  <2>. QED BY <1>10, <2>1, <2>2, <2>3
<1>. QED BY <1>2, <1>3, <1>4, <1>5, <1>6, <1>7, <1>8, <1>9, <1>10 DEF Step

\* The one process never works for an input file that has become stale.
LEMMA NextEarly ==
    ASSUME \A p, q \in Procs : p = q, TypeInv, NotStale, [Next]_vars,
           crashes' = 0, failures' = 0, NEW p \in Procs,
           proc'[p].pc \in {"wait", "create", "start", "inactivate", "hostdb"}
    PROVE  ~ Stale(proc[p].job)'
<1>. DEFINE Early == {"wait", "create", "start", "inactivate", "hostdb"}
<1>0. /\ ProcOK /\ proc \in [Procs -> ProcRec] /\ failures \in Nat /\ crashes \in Nat
      /\ \A q \in Procs : q = p
  BY BoundsAssumption DEF TypeInv, ProcOK, DataOK
<1>1. ASSUME crashes = 0, failures = 0, proc[p].pc \in Early, proc'[p].job = proc[p].job,
             \A s \in Sites : aux'[s].time = aux[s].time
      PROVE  ~ Stale(proc[p].job)'
  <2>1. ~ Stale(proc[p].job) /\ Site(p) \in Sites
    BY <1>0, <1>1, JobType DEF NotStale
  <2>. QED BY <1>1, <2>1 DEF Stale
<1>2. ASSUME NEW in \in Inputs, Arrive(in) PROVE ~ Stale(proc[p].job)'
  BY <1>1, <1>2 DEF Arrive, faults
<1>3. ASSUME NEW in \in Inputs, Begin(p, in) PROVE ~ Stale(proc[p].job)'
  <2>1. CASE Stale(in)
    BY <1>1, <1>3, <2>1 DEF Begin, faults
  <2>2. CASE ~ Stale(in)
    <3>1. proc' = [proc EXCEPT ![p] = [Idle EXCEPT !.pc = "wait", !.job = in]] /\ aux' = aux
      BY <1>3, <2>2 DEF Begin
    <3>2. [Idle EXCEPT !.pc = "wait", !.job = in].job = in
      BY DEF Idle
    <3>3. proc'[p].job = in
      BY <1>0, <3>1, <3>2
    <3>. QED BY <2>2, <3>1, <3>3 DEF Stale
  <2>. QED BY <2>1, <2>2
<1>4. CASE Step(p)
  <2>1. CASE FindLocked(p) \/ FindUnlocked(p) \/ CreateLock(p)
    <3>1. /\ proc[p].pc \in Early /\ proc'[p].job = proc[p].job
          /\ UNCHANGED <<aux, crashes, failures>>
      BY <1>0, <2>1 DEF FindLocked, FindUnlocked, CreateLock, Goto, ProcRec, faults
    <3>. QED BY <1>1, <3>1
  <2>2. CASE OpenStartDbs(p)
    <3>1. proc[p].pc \in Early /\ UNCHANGED <<aux, crashes, failures>>
      BY <2>2 DEF OpenStartDbs, faults
    <3>2. proc'[p].job = proc[p].job
      BY <1>0, <2>2, ChildWorks DEF Working
    <3>. QED BY <1>1, <3>1, <3>2
  <2>3. CASE Inactivate(p)
    <3>1. /\ proc[p].pc \in Early /\ proc'[p].job = proc[p].job
          /\ UNCHANGED <<crashes, failures>>
      BY <1>0, <2>3, GotoFields DEF Inactivate, faults
    <3>. QED BY <1>1, <2>3, <3>1, TimesKept
  <2>4. CASE \/ GiveUp(p) \/ MarkDeleted(p) \/ Unlock(p) \/ TruncateTable(p)
             \/ WriteTable(p) \/ HostDbUpdate(p) \/ HostActive(p) \/ Activate(p)
             \/ RenameSiteFile(p) \/ RenameIdxFile(p) \/ UnlinkSiteFile(p)
    <3>0. CASE MarkDeleted(p)
      BY <1>0, <3>0, MarkFields
    <3>1. CASE GiveUp(p) \/ Unlock(p)
      BY <1>0, <3>1 DEF GiveUp, Unlock, Goto, ProcRec, Idle
    <3>2. CASE TruncateTable(p) \/ WriteTable(p) \/ HostDbUpdate(p) \/ HostActive(p)
      BY <1>0, <3>2 DEF TruncateTable, WriteTable, HostDbUpdate, HostActive, Goto, ProcRec
    <3>3. CASE Activate(p) \/ RenameSiteFile(p) \/ RenameIdxFile(p) \/ UnlinkSiteFile(p)
      BY <1>0, <3>3 DEF Activate, RenameSiteFile, RenameIdxFile, UnlinkSiteFile, Goto, ProcRec
    <3>. QED BY <2>4, <3>0, <3>1, <3>2, <3>3
  <2>5. CASE Compare(p) \/ DeleteHost(p) \/ (\E op \in Ops : UpdateList(p, op))
    <3>1. CASE Compare(p)
      <4>1. proc'[p].pc \in {"index", "truncate"}
        <5>1. CASE siteFile[Site(p)] = NoFile
          BY <1>0, <3>1, <5>1 DEF Compare, ProcRec
        <5>2. CASE siteFile[Site(p)] # NoFile
          BY <1>0, <3>1, <5>2 DEF Compare, Goto, ProcRec
        <5>. QED BY <5>1, <5>2
      <4>. QED BY <4>1
    <3>2. CASE DeleteHost(p)
      <4>1. proc'[p].pc \in {"index", "mark"}
        BY <1>0, <3>2 DEF DeleteHost, Goto, ProcRec
      <4>. QED BY <4>1
    <3>3. CASE \E op \in Ops : UpdateList(p, op)
      BY <1>0, <3>3 DEF UpdateList, ProcRec
    <3>. QED BY <2>5, <3>1, <3>2, <3>3
  <2>6. CASE CloseHostDbs(p) \/ Consume(p) \/ Reread(p) \/ Rewrite(p) \/ LeaveRecord(p)
    <3>1. proc'[p].pc \in {"consume", "reread", "rewrite", "idle"}
      <4>1. CASE Consume(p)
        <5>1. CASE Job(p).del
          BY <1>0, <4>1, <5>1 DEF Consume, Idle
        <5>2. CASE ~ Job(p).del
          BY <1>0, <4>1, <5>2 DEF Consume, ProcRec
        <5>. QED BY <5>1, <5>2
      <4>2. CASE Reread(p)
        <5>1. PICK rec : proc' = [proc EXCEPT ![p].pc = "rewrite", ![p].opened.rec = rec]
          BY <4>2 DEF Reread
        <5>. QED BY <1>0, <5>1 DEF ProcRec
      <4>3. CASE CloseHostDbs(p) \/ Rewrite(p) \/ LeaveRecord(p)
        BY <1>0, <4>3 DEF CloseHostDbs, Rewrite, LeaveRecord, Goto, ProcRec, Idle
      <4>. QED BY <2>6, <4>1, <4>2, <4>3
    <3>. QED BY <3>1
  <2>. QED BY <1>4, <2>1, <2>2, <2>3, <2>4, <2>5, <2>6 DEF Step
<1>5. CASE Fault(p)
  <2>1. crashes' = crashes + 1 \/ failures' = failures + 1
    BY <1>5 DEF Fault, InsertFails, InsertExits, IndexRenameFails, DeleteFails,
                DeleteMapFails, CountFailure, Crash
  <2>. QED BY <1>0, <2>1
<1>6. CASE UNCHANGED vars
  BY <1>1, <1>6 DEF vars, faults
<1>. QED BY <1>0, <1>2, <1>3, <1>4, <1>5, <1>6 DEF Next

\* The two of them, for any number of steps.
LEMMA NextNotStale ==
    ASSUME \A p, q \in Procs : p = q, TypeInv, NotStale, [Next]_vars
    PROVE  NotStale'
<1>. SUFFICES ASSUME crashes' = 0, failures' = 0, NEW p \in Procs
              PROVE  SameTime(proc'[p], aux')
  BY NextEarly DEF NotStale
<1>0. /\ proc \in [Procs -> ProcRec] /\ failures \in Nat /\ crashes \in Nat
      /\ \A q \in Procs : q = p
  BY BoundsAssumption DEF TypeInv, ProcOK, DataOK
<1>1. ASSUME crashes = 0, failures = 0, UNCHANGED <<proc, aux>> PROVE SameTime(proc'[p], aux')
  BY <1>1 DEF NotStale
<1>2. ASSUME NEW in \in Inputs, Arrive(in) PROVE SameTime(proc'[p], aux')
  BY <1>1, <1>2 DEF Arrive, faults
<1>3. ASSUME NEW in \in Inputs, Begin(p, in) PROVE SameTime(proc'[p], aux')
  <2>1. CASE Stale(in)
    BY <1>1, <1>3, <2>1 DEF Begin, faults
  <2>2. CASE ~ Stale(in)
    <3>1. proc' = [proc EXCEPT ![p] = [Idle EXCEPT !.pc = "wait", !.job = in]]
      BY <1>3, <2>2 DEF Begin
    <3>2. [Idle EXCEPT !.pc = "wait", !.job = in].pc = "wait"
      BY DEF Idle
    <3>3. proc'[p].pc = "wait"
      BY <1>0, <3>1, <3>2
    <3>. QED BY <3>3 DEF SameTime
  <2>. QED BY <2>1, <2>2
<1>4. ASSUME Step(p) PROVE SameTime(proc'[p], aux')
  <2>1. UNCHANGED <<crashes, failures>>
    BY <1>4 DEF Step, FindLocked, GiveUp, FindUnlocked, CreateLock, MarkDeleted, Unlock,
                CloseHostDbs, Consume, Reread, Rewrite, LeaveRecord, OpenStartDbs, UpdateList,
                TruncateTable, WriteTable, Inactivate, HostDbUpdate, HostActive, Activate,
                Compare, RenameSiteFile, RenameIdxFile, DeleteHost, UnlinkSiteFile, faults
  <2>. QED BY <1>4, <2>1, StepSameTime DEF NotStale
<1>5. ASSUME Fault(p) PROVE FALSE
  <2>1. crashes' = crashes + 1 \/ failures' = failures + 1
    BY <1>5 DEF Fault, InsertFails, InsertExits, IndexRenameFails, DeleteFails,
                DeleteMapFails, CountFailure, Crash
  <2>. QED BY <1>0, <2>1
<1>6. CASE UNCHANGED vars
  BY <1>1, <1>6 DEF vars, faults
<1>. QED BY <1>0, <1>2, <1>3, <1>4, <1>5, <1>6 DEF Next

\* "Check to see if it is older data than currently in database": while one
\* process at a time updates, what the catalog knows of a site never gets older.
THEOREM NeverOlderAlone ==
    ASSUME \A p, q \in Procs : p = q
    PROVE  Spec => NeverOlder
<1>1. Init => NotStale
  <2>1. Init => \A p \in Procs : proc[p].pc = "idle"
    <3>1. Idle.pc = "idle"
      BY DEF Idle
    <3>. QED BY <3>1 DEF Init
  <2>. QED BY <2>1 DEF NotStale, SameTime
<1>2. TypeInv /\ NotStale /\ [Next]_vars => NotStale'
  BY NextNotStale
<1>3. ASSUME TypeInv, CatalogInv, NotStale, [Next]_vars,
             ~ overlap', crashes' = 0, failures' = 0, NEW s \in Sites
      PROVE  aux'[s].time >= aux[s].time
  <2>0. /\ failures \in Nat /\ crashes \in Nat /\ aux \in [Sites -> Recs]
        /\ aux[s].time \in Nat
    BY <1>3, BoundsAssumption DEF TypeInv, DataOK, Recs
  <2>1. ASSUME NEW p \in Procs, HostDbUpdate(p) PROVE aux'[s].time >= aux[s].time
    <3>1. crashes = 0 /\ failures = 0 /\ ~ overlap /\ At(p, "hostdb")
      BY <1>3, <2>1 DEF HostDbUpdate, faults
    <3>2. ~ Stale(Job(p)) /\ ~ Job(p).del
      BY <1>3, <3>1 DEF NotStale, CatalogInv, CatalogOf, Updating, InsertPlaces
    <3>3. Site(p) \in Sites /\ Job(p).time \in Nat
      BY <1>3, <3>1, JobType DEF TypeInv
    <3>4. PICK status : aux' = [aux EXCEPT ![Site(p)] = [status |-> status, time |-> Job(p).time]]
      BY <2>1 DEF HostDbUpdate
    <3>. QED BY <2>0, <3>2, <3>3, <3>4 DEF Stale
  <2>2. ASSUME NEW p \in Procs, Step(p) PROVE aux'[s].time >= aux[s].time
    <3>1. CASE MarkDeleted(p) \/ Inactivate(p) \/ Activate(p) \/ DeleteHost(p)
      BY <1>3, <2>0, <3>1, TimesKept
    <3>3. CASE CloseHostDbs(p) \/ Rewrite(p)
      <4>1. crashes = 0 /\ failures = 0
        BY <1>3, <3>3 DEF CloseHostDbs, Rewrite, faults
      <4>. QED BY <1>3, <2>0, <3>3, <4>1, TimesWritten DEF NotStale
    <3>2. CASE ~ (MarkDeleted(p) \/ Inactivate(p) \/ Activate(p) \/ DeleteHost(p)
                   \/ HostDbUpdate(p) \/ CloseHostDbs(p) \/ Rewrite(p))
      <4>1. aux' = aux
        BY <2>2, <3>2 DEF Step, FindLocked, GiveUp, FindUnlocked, CreateLock, Unlock, Consume,
                          Reread, LeaveRecord, OpenStartDbs, UpdateList, TruncateTable, WriteTable, HostActive,
                          Compare, RenameSiteFile, RenameIdxFile, UnlinkSiteFile
      <4>. QED BY <2>0, <4>1
    <3>. QED BY <2>1, <3>1, <3>2, <3>3
  <2>3. ASSUME NEW p \in Procs, Fault(p) PROVE FALSE
    <3>1. crashes' = crashes + 1 \/ failures' = failures + 1
      BY <2>3 DEF Fault, InsertFails, InsertExits, IndexRenameFails, DeleteFails,
                  DeleteMapFails, CountFailure, Crash
    <3>. QED BY <1>3, <2>0, <3>1
  <2>4. CASE UNCHANGED aux
    BY <2>0, <2>4
  <2>. QED BY <1>3, <2>2, <2>3, <2>4 DEF Next, Arrive, Begin, vars
<1>4. TypeInv /\ CatalogInv /\ NotStale /\ [Next]_vars =>
        [~ overlap' /\ crashes' = 0 /\ failures' = 0
           => \A s \in Sites : aux'[s].time >= aux[s].time]_vars
  BY <1>3
<1>. QED BY <1>1, <1>2, <1>4, TypeInvariance, CatalogInvariance, PTL DEF Spec, NeverOlder
-----------------------------------------------------------------------------
(***************************************************************************)
(* The repairs.  fix_start_db and the administrator take the lock file and  *)
(* remove it as well; they leave the updates as exclusive as they are.      *)
(***************************************************************************)
FixPCs == {"idle", "create", "open", "check", "unlock", "truncate", "write"}
FixOK == fix \in [pc : FixPCs, table : Seq(Sites), runs : Nat]

\* The places of fix_start_db at which its lock file should stand.
FixHolds == fix.pc \in {"open", "check", "unlock"}

\* As long as no lock file was created over another one, an update and
\* fix_start_db each hold it, and are alone.
Guarded ==
    ~ overlap => /\ \A p \in Procs : Updating(p) => lock /\ ~ FixHolds
                 /\ FixHolds => lock
                 /\ MutualExclusion

RepairInv == TypeInv /\ FixOK /\ Guarded

\* Everything is idle at first.
LEMMA InitRepair == RepairInit => RepairInv
<1>. SUFFICES ASSUME RepairInit PROVE RepairInv
  OBVIOUS
<1>1. TypeInv
  BY InitType DEF RepairInit
<1>2. FixOK /\ ~ FixHolds
  BY DEF RepairInit, NoFix, FixOK, FixPCs, FixHolds
<1>3. \A p \in Procs : ~ Updating(p)
  BY DEF RepairInit, Init, Idle, Updating
<1>. QED BY <1>1, <1>2, <1>3 DEF RepairInv, Guarded, MutualExclusion

\* A repair changes the shared files, not the processes; check_entry enters
\* only indices the host table has.
LEMMA RepairType ==
    ASSUME TypeInv, FixOK, FixStart \/ FixStep \/ RemoveLock \/ \E in \in Inputs : Requeue(in)
    PROVE  TypeInv' /\ FixOK' /\ UNCHANGED proc
<1>. USE DEF catalog, faults, FixGoto
<1>1. CASE FixStart
  <2>1. fix' = [fix EXCEPT !.pc = "create", !.runs = @ + 1] /\ UNCHANGED vars
    BY <1>1 DEF FixStart
  <2>2. fix.runs + 1 \in Nat
    BY DEF FixOK
  <2>3. FixOK'
    BY <2>1, <2>2 DEF FixOK, FixPCs
  <2>. QED BY <2>1, <2>3 DEF vars, TypeInv, DataOK, ProcOK, IndexFound
<1>2. CASE FixCreateLock \/ FixOpen \/ FixUnlock
  BY <1>2 DEF FixCreateLock, FixOpen, FixUnlock, vars, TypeInv, DataOK, ProcOK, IndexFound, FixOK, FixPCs
<1>3. CASE FixTruncate \/ FixWrite
  <2>1. <<>> \in Seq(Sites)
    OBVIOUS
  <2>. QED BY <1>3, <2>1 DEF FixTruncate, FixWrite, TypeInv, DataOK, ProcOK, IndexFound, FixOK, FixPCs
<1>4. CASE FixLists
  <2>. DEFINE Known(x) == {t \in Sites : Find(fix.table, t) # {} /\ x \in siteFile[t]}
              New(x) == {Index(fix.table, s) : s \in Known(x)}
  <2>1. \A x \in Starts : New(x) \subseteq Nat \ {0}
    BY FindType DEF FixOK
  <2>2. lists' = [x \in Starts |-> lists[x] \cup New(x)]
    BY <1>4 DEF FixLists
  <2>. HIDE DEF New
  <2>3. lists' \in Lists
    <3>1. \A x \in Starts : lists[x] \cup New(x) \in SUBSET (Nat \ {0})
      BY <2>1 DEF TypeInv, DataOK, Lists
    <3>. QED BY <2>2, <3>1 DEF Lists
  <2>. QED BY <1>4, <2>3 DEF FixLists, TypeInv, DataOK, ProcOK, IndexFound, FixOK, FixPCs
<1>5. CASE RemoveLock
  BY <1>5 DEF RemoveLock, TypeInv, DataOK, ProcOK, IndexFound, FixOK
<1>6. ASSUME NEW in \in Inputs, Requeue(in) PROVE TypeInv' /\ FixOK' /\ UNCHANGED proc
  BY <1>6 DEF Requeue, TypeInv, DataOK, ProcOK, IndexFound, FixOK
<1>. QED BY <1>1, <1>2, <1>3, <1>4, <1>5, <1>6 DEF FixStep

\* What the steps of the updates are for the lock file.
LEMMA UpdateGuarded ==
    ASSUME TypeInv, Guarded, Next, fix' = fix
    PROVE  Guarded'
<1>0. proc \in [Procs -> ProcRec]
  BY DEF TypeInv, ProcOK
<1>. USE <1>0 DEF FixHolds
<1>1. ASSUME UNCHANGED <<lock, overlap>>, \A p \in Procs : Updating(p)' => Updating(p)
      PROVE  Guarded'
  BY <1>1 DEF Guarded, MutualExclusion
<1>2. ASSUME NEW p \in Procs, Working(p) PROVE Guarded'
  <2>1. \A q \in Procs : Updating(q)' => Updating(q)
    BY <1>2 DEF Working, Updating
  <2>. QED BY <1>1, <1>2, <2>1 DEF Working
<1>3. ASSUME NEW p \in Procs, CreateLock(p) PROVE Guarded'
  <2>1. /\ \A q \in Procs \ {p} : proc'[q] = proc[q]
        /\ lock' = TRUE /\ overlap' = (overlap \/ lock)
    BY <1>3 DEF CreateLock, Goto
  <2>2. \A q \in Procs \ {p} : Updating(q)' => Updating(q)
    BY <2>1 DEF Updating
  <2>. QED BY <2>1, <2>2 DEF Guarded, MutualExclusion
<1>4. ASSUME NEW p \in Procs, Unlock(p) PROVE Guarded'
  <2>1. /\ At(p, "unlock") /\ proc'[p].pc \in {"flush", "consume"}
        /\ \A q \in Procs \ {p} : proc'[q] = proc[q]
        /\ overlap' = overlap
    BY <1>4 DEF Unlock, Goto, ProcRec, faults
  <2>2. Updating(p) /\ ~ Updating(p)' /\ \A q \in Procs \ {p} : Updating(q)' => Updating(q)
    BY <2>1 DEF Updating
  <2>. QED BY <2>1, <2>2 DEF Guarded, MutualExclusion
<1>5. ASSUME NEW p \in Procs,
             \/ (\E in \in Inputs : Begin(p, in)) \/ Crash(p)
             \/ FindLocked(p) \/ GiveUp(p) \/ FindUnlocked(p) \/ CloseHostDbs(p)
             \/ Consume(p) \/ Reread(p) \/ Rewrite(p) \/ LeaveRecord(p)
      PROVE  Guarded'
  <2>1. CASE \E in \in Inputs : Begin(p, in)
    <3>1. Idle.pc = "idle" /\ \A in : [Idle EXCEPT !.pc = "wait", !.job = in].pc = "wait"
      BY DEF Idle
    <3>2. PICK in \in Inputs : Begin(p, in)
      BY <2>1
    <3>6. /\ proc' = proc \/ proc' = [proc EXCEPT ![p] = [Idle EXCEPT !.pc = "wait", !.job = in]]
          /\ At(p, "idle") /\ UNCHANGED <<lock, overlap>>
      BY <3>2 DEF Begin, faults
    <3>3. (proc' = proc /\ At(p, "idle")) \/ proc'[p] = [Idle EXCEPT !.pc = "wait", !.job = in]
      BY <1>0, <3>6
    <3>4. UNCHANGED <<lock, overlap>> /\ \A q \in Procs \ {p} : proc'[q] = proc[q]
      BY <1>0, <3>6
    <3>7. proc'[p] = proc[p] \/ proc'[p].pc = "wait"
      BY <3>1, <3>3, <3>6
    <3>8. Updating(p)' => Updating(p)
      BY <3>7 DEF Updating
    <3>9. \A q \in Procs \ {p} : Updating(q)' => Updating(q)
      BY <3>4 DEF Updating
    <3>5. \A q \in Procs : Updating(q)' => Updating(q)
      BY <3>8, <3>9
    <3>. QED BY <1>1, <3>4, <3>5
  <2>2. CASE Crash(p)
    <3>1. UNCHANGED <<lock, overlap>> /\ proc' = [proc EXCEPT ![p] = Idle] /\ Idle.pc = "idle"
      BY <2>2 DEF Crash, Idle
    <3>2. \A q \in Procs : Updating(q)' => Updating(q)
      BY <3>1 DEF Updating
    <3>. QED BY <1>1, <3>1, <3>2
  <2>3. CASE ~ Crash(p) /\ ~ \E in \in Inputs : Begin(p, in)
    <3>1. Apart(p)
      BY <1>5, <2>3, ParentApart DEF TypeInv
    <3>2. \A q \in Procs : Updating(q)' => Updating(q)
      BY <3>1 DEF Apart, Updating
    <3>. QED BY <1>1, <3>1, <3>2 DEF Apart
  <2>. QED BY <2>1, <2>2, <2>3
<1>6. ASSUME NEW in \in Inputs, Arrive(in) PROVE Guarded'
  BY <1>1, <1>6 DEF Arrive, faults, Updating
<1>. QED BY <1>2, <1>3, <1>4, <1>5, <1>6, ChildWorks DEF Next, Step, Fault, TypeInv

\* Every step of an update or a repair keeps the lock protocol.
LEMMA NextRepair == RepairInv /\ [RepairNext]_allVars => RepairInv'
<1>. SUFFICES ASSUME RepairInv, [RepairNext]_allVars PROVE RepairInv'
  OBVIOUS
<1>1. CASE Next /\ UNCHANGED fix
  BY <1>1, NextType, UpdateGuarded DEF RepairInv, FixOK
<1>2. CASE FixStart \/ FixStep \/ RemoveLock \/ \E in \in Inputs : Requeue(in)
  <2>1. TypeInv' /\ FixOK' /\ UNCHANGED proc
    BY <1>2, RepairType DEF RepairInv
  <2>2. \A p \in Procs : Updating(p)' <=> Updating(p)
    BY <2>1 DEF Updating
  <2>3. Guarded'
    <3>1. CASE FixCreateLock
      BY <2>2, <3>1 DEF FixCreateLock, RepairInv, Guarded, MutualExclusion
    <3>2. CASE RemoveLock
      <4>1. \A p \in Procs : ~ Updating(p)
        BY <3>2 DEF RemoveLock, Quiet, Updating
      <4>2. ~ FixHolds'
        BY <3>2 DEF RemoveLock, Quiet, FixHolds
      <4>. QED BY <2>2, <4>1, <4>2 DEF Guarded, MutualExclusion
    <3>3. CASE FixUnlock
      <4>1. FixHolds /\ ~ FixHolds' /\ overlap' = overlap
        BY <3>3 DEF FixUnlock, FixGoto, FixHolds, faults, RepairInv, FixOK
      <4>. QED BY <2>2, <4>1 DEF RepairInv, Guarded, MutualExclusion
    <3>4. CASE \/ FixStart \/ FixOpen \/ FixLists \/ FixTruncate \/ FixWrite
               \/ \E in \in Inputs : Requeue(in)
      <4>1. UNCHANGED <<lock, overlap>> /\ (FixHolds' <=> FixHolds)
        BY <3>4 DEF FixStart, FixOpen, FixLists, FixTruncate, FixWrite, Requeue, FixGoto, FixHolds,
                    vars, faults, RepairInv, FixOK
      <4>. QED BY <2>2, <4>1 DEF RepairInv, Guarded, MutualExclusion
    <3>. QED BY <1>2, <3>1, <3>2, <3>3, <3>4 DEF FixStep
  <2>. QED BY <2>1, <2>3 DEF RepairInv
<1>3. CASE UNCHANGED allVars
  <2>1. TypeInv'
    BY <1>3, NextType DEF RepairInv, allVars
  <2>. QED BY <1>3, <2>1 DEF allVars, vars, faults, RepairInv, FixOK, Guarded, FixHolds, MutualExclusion, Updating
<1>. QED BY <1>1, <1>2, <1>3 DEF RepairNext

\* The lock protocol of the updates and the repairs holds always.
THEOREM RepairInvariance == RepairSpec => []RepairInv
BY InitRepair, NextRepair, PTL DEF RepairSpec

\* fix_start_db and the administrator, who removes lock files and gives input
\* files their names back, do not bring two updates together.
THEOREM RepairsLeaveExclusion == RepairSpec => []LockExcludes
<1>1. RepairInv => LockExcludes
  BY DEF RepairInv, Guarded, LockExcludes
<1>. QED BY <1>1, RepairInvariance, PTL

\* From its open_start_dbs to its unlock fix_start_db is alone with the lists,
\* for any number of processes, kills, failing calls and repairs.
THEOREM RepairAlone == RepairSpec => []ListsRepairedAlone
<1>1. RepairInv => ListsRepairedAlone
  BY DEF RepairInv, Guarded, FixHolds, ListsRepairedAlone
<1>. QED BY <1>1, RepairInvariance, PTL
=============================================================================
