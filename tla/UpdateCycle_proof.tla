------------------------- MODULE UpdateCycle_proof --------------------------
(***************************************************************************)
(* The types of the Update Cycle, that it loses no listing, and that it     *)
(* counts no failure twice, for any number of requests, faults and file     *)
(* names.                                                                  *)
(***************************************************************************)
EXTENDS UpdateCycle, TLAPS, FiniteSetTheorems

CtlRec == [pc : PCs, list : SUBSET Names, cur : Names, held : Files,
           out : Names, ready : SUBSET Names, applied : BOOLEAN]

USE DEF At, Cur
-----------------------------------------------------------------------------
\* The names the phases build are names of the spool directory.
LEMMA NameType ==
    /\ MaxNum \in Nat /\ MaxEvents \in Nat
    /\ Phases \subseteq {"retr", "parse", "update"} /\ {"retr", "parse", "update"} \subseteq Phases
    /\ \A ph \in Phases, num \in Nums \cup {Unnumbered} :
          Name(ph, num) \in Names /\ TmpName(ph, num) \in Names
    /\ 0 \in Nums /\ Unnumbered \notin Nums
    /\ NoName \in Names
    /\ \A n \in Names : TmpName(n.sfx, n.num) \in Names /\ n.sfx \in Phases
    /\ \A ph \in Phases, n \in Names : TmpName(ph, n.num) \in Names
BY BoundsAssumption DEF Names, Name, TmpName, Phases, Nums, Unnumbered, NoName

\* The files the steps write are files of the spool directory.
LEMMA FileType ==
    ASSUME attempts \in Nat
    PROVE  /\ Missing \in Files
           /\ \A kind \in Kinds \cup {"missing"}, v \in 0 .. attempts, t \in 0 .. Stamp :
                 File(kind, v, t) \in Files
           /\ Stamp \in Nat
BY DEF Files, File, Missing, Stamp, Kinds

\* The clock of the headers goes on.
LEMMA FilesGrow ==
    ASSUME attempts \in Nat, attempts' = attempts + 1
    PROVE  Files \subseteq Files' /\ Stamp' = Stamp + 2 /\ CtlRec \subseteq CtlRec'
<1>1. Stamp' = Stamp + 2 /\ Stamp \in Nat
  BY DEF Stamp
<1>2. 0 .. attempts \subseteq 0 .. attempts' /\ 0 .. Stamp \subseteq 0 .. Stamp'
  BY DEF Stamp
<1>3. \A f \in Files : f \in Files'
  BY <1>2 DEF Files
<1>4. CtlRec \subseteq CtlRec'
  BY <1>3 DEF CtlRec
<1>. QED BY <1>1, <1>3, <1>4

\* A record of a run in place of another one.
LEMMA ReplaceCtl ==
    ASSUME ctl \in [Phases -> CtlRec], NEW ph \in Phases, NEW r \in CtlRec,
           ctl' = [ctl EXCEPT ![ph] = r]
    PROVE  ctl' \in [Phases -> CtlRec]
OBVIOUS

\* Moving a run to another place keeps its record.
LEMMA GotoType ==
    ASSUME TypeOK, NEW ph \in Phases, NEW pc \in PCs, Goto(ph, pc)
    PROVE  ctl' \in [Phases -> CtlRec]
<1>. DEFINE r == [ctl[ph] EXCEPT !.pc = pc]
<1>1. ctl \in [Phases -> CtlRec]
  BY DEF TypeOK, CtlRec
<1>2. r \in CtlRec
  BY <1>1 DEF CtlRec
<1>3. ctl' = [ctl EXCEPT ![ph] = r]
  BY DEF Goto
<1>. QED BY <1>1, <1>2, <1>3, ReplaceCtl

\* A run that drops its file keeps its record.
LEMMA LeaveType ==
    ASSUME TypeOK, NEW ph \in Phases, NEW pc \in PCs, Leave(ph, pc)
    PROVE  ctl' \in [Phases -> CtlRec]
<1>. DEFINE r == [ctl[ph] EXCEPT !.pc = pc, !.held = Missing, !.cur = NoName, !.out = NoName,
                                 !.applied = FALSE]
<1>1. ctl \in [Phases -> CtlRec] /\ Missing \in Files /\ NoName \in Names
  BY FileType, NameType DEF TypeOK, CtlRec
<1>2. r \in CtlRec
  BY <1>1 DEF CtlRec
<1>3. ctl' = [ctl EXCEPT ![ph] = r]
  BY <1>1 DEF Leave
<1>. QED BY <1>1, <1>2, <1>3, ReplaceCtl

\* The record of a phase that does not run.
LEMMA IdleType == ASSUME attempts \in Nat PROVE Idle \in CtlRec
BY FileType, NameType DEF Idle, CtlRec, PCs

\* The initial states are typed.
LEMMA InitType == Init => TypeOK
<1>. SUFFICES ASSUME Init PROVE TypeOK
  OBVIOUS
<1>1. Missing \in Files /\ Idle \in CtlRec
  BY FileType, IdleType DEF Init
<1>2. ctl \in [Phases -> CtlRec] /\ spool \in [Names -> Files]
  BY <1>1 DEF Init
<1>3. rec \in HostRecs
  BY DEF Init, NoRec, Stamp, HostRecs
<1>4. faults \in [kills : Nat, failures : Nat, stops : Nat]
  BY DEF Init, NoFaults
<1>. QED BY <1>2, <1>3, <1>4, AnswersAssumption DEF Init, TypeOK, CtlRec

\* A step that leaves the clock and the host record alone.
LEMMA QuietStep ==
    ASSUME TypeOK, attempts' = attempts, asked' \in Nat, spool' \in [Names -> Files],
           ctl' \in [Phases -> CtlRec], rec' = rec, faults' \in [kills : Nat, failures : Nat, stops : Nat],
           sameName' = sameName, listed' = listed, stop' \in BOOLEAN, overlapped' \in BOOLEAN,
           UNCHANGED <<fetched, failed, settled>>, replaced' \subseteq 0 .. attempts
    PROVE  TypeOK'
<1>1. Files' = Files /\ Stamp' = Stamp
  BY DEF Files, Stamp
<1>2. CtlRec' = CtlRec
  BY <1>1 DEF CtlRec
<1>3. HostRecs' = HostRecs
  BY <1>1 DEF HostRecs
<1>. QED BY <1>1, <1>2, <1>3 DEF TypeOK, CtlRec

\* A fault leaves everything alone but the run and its count.
LEMMA FaultType ==
    ASSUME TypeOK
    PROVE  /\ [faults EXCEPT !.kills = @ + 1] \in [kills : Nat, failures : Nat, stops : Nat]
           /\ [faults EXCEPT !.failures = @ + 1] \in [kills : Nat, failures : Nat, stops : Nat]
           /\ [faults EXCEPT !.stops = @ + 1] \in [kills : Nat, failures : Nat, stops : Nat]
BY DEF TypeOK

\* The steps taken outside arcontrol keep the types.
LEMMA OutsideType ==
    ASSUME TypeOK, Request \/ RequestDeletion \/ Stop \/ Resume \/ RequeueAny
    PROVE  TypeOK'
<1>. ctl \in [Phases -> CtlRec] /\ attempts \in Nat /\ spool \in [Names -> Files]
  BY DEF TypeOK, CtlRec
<1>. USE DEF world, history
<1>1. ASSUME NEW kind \in Kinds, Ask(kind) PROVE TypeOK'
  <2>1. PICK num \in Free("retr", FALSE) : spool' = [spool EXCEPT ![Name("retr", num)] = File(kind, 0, 0)]
    BY <1>1 DEF Ask
  <2>2. File(kind, 0, 0) \in Files
    BY FileType
  <2>3. spool' \in [Names -> Files]
    BY <2>1, <2>2
  <2>. QED BY <1>1, <2>3, QuietStep DEF Ask, TypeOK
<1>2. ASSUME Stop \/ Resume PROVE TypeOK'
  BY <1>2, FaultType, QuietStep DEF Stop, Resume, TypeOK
<1>3. ASSUME NEW n \in Names, Requeue(n) PROVE TypeOK'
  <2>1. Missing \in Files
    BY FileType
  <2>2. spool' \in [Names -> Files]
    BY <1>3, <2>1 DEF Requeue
  <2>. QED BY <1>3, <2>2, QuietStep DEF Requeue, TypeOK
<1>. QED BY <1>1, <1>2, <1>3 DEF Request, RequestDeletion, RequeueAny, Kinds

\* The steps that prepare a file keep the types.
LEMMA PrepareType ==
    ASSUME TypeOK, NEW ph \in Phases,
           Start(ph) \/ StopFound(ph) \/ Read(ph) \/ ChooseName(ph) \/ Rename(ph) \/ Unlink(ph)
    PROVE  TypeOK'
<1>. ctl \in [Phases -> CtlRec] /\ attempts \in Nat /\ spool \in [Names -> Files]
  BY DEF TypeOK, CtlRec
<1>. Missing \in Files /\ NoName \in Names /\ Idle \in CtlRec /\ ctl[ph] \in CtlRec
  BY FileType, NameType, IdleType
<1>. USE DEF world, history
<1>1. CASE Start(ph)
  <2>1. PICK list \in SUBSET Names : ctl' = [ctl EXCEPT ![ph] = [Idle EXCEPT !.pc = "next", !.list = list]]
    BY <1>1 DEF Start
  <2>2. [Idle EXCEPT !.pc = "next", !.list = list] \in CtlRec
    BY DEF CtlRec, PCs
  <2>3. ctl' \in [Phases -> CtlRec]
    BY <2>1, <2>2
  <2>4. overlapped' \in BOOLEAN
    BY <1>1 DEF Start, TypeOK
  <2>. QED BY <1>1, <2>3, <2>4, QuietStep DEF Start, TypeOK
<1>2. CASE StopFound(ph)
  BY <1>2, QuietStep DEF StopFound, TypeOK
<1>3. CASE Read(ph)
  <2>1. PICK n \in ctl[ph].list :
          LET f == spool[n]
              deletion == ph = "retr" /\ f.kind = "deletion"
          IN  /\ spool' = IF deletion
                            THEN [spool EXCEPT ![Name("update", Unnumbered)] = f, ![n] = Missing]
                            ELSE spool
              /\ ctl' = IF f = Missing \/ deletion THEN [ctl EXCEPT ![ph].list = @ \ {n}]
                        ELSE [ctl EXCEPT ![ph].list = @ \ {n}, ![ph].cur = n, ![ph].held = f,
                                         ![ph].pc = IF Recorded(ph, f) THEN "record"
                                                    ELSE IF f.kind = "failure" THEN "choose" ELSE "rename"]
    BY <1>3 DEF Read
  <2>2. n \in Names /\ spool[n] \in Files
    BY DEF CtlRec
  <2>3. spool' \in [Names -> Files]
    BY <2>1, <2>2
  <2>4. [ctl[ph] EXCEPT !.list = @ \ {n}] \in CtlRec
    BY DEF CtlRec
  <2>5. \A pc \in {"record", "choose", "rename"} :
          [ctl[ph] EXCEPT !.list = @ \ {n}, !.cur = n, !.held = spool[n], !.pc = pc] \in CtlRec
    BY <2>2 DEF CtlRec, PCs
  <2>6. \/ ctl' = [ctl EXCEPT ![ph] = [ctl[ph] EXCEPT !.list = @ \ {n}]]
        \/ \E pc \in {"record", "choose", "rename"} :
             ctl' = [ctl EXCEPT ![ph] = [ctl[ph] EXCEPT !.list = @ \ {n}, !.cur = n, !.held = spool[n], !.pc = pc]]
    BY <2>1
  <2>7. ctl' \in [Phases -> CtlRec]
    BY <2>4, <2>5, <2>6
  <2>. QED BY <1>3, <2>3, <2>7, QuietStep DEF Read, TypeOK
<1>6. CASE ChooseName(ph)
  <2>1. PICK num \in Nums :
          ctl' = [ctl EXCEPT ![ph].pc = "rename", ![ph].out = Name(Onward(ph), num), ![ph].held.time = Stamp]
    BY <1>6 DEF ChooseName, Free
  <2>. DEFINE o == Name(Onward(ph), num)
  <2>2. ctl[ph].held \in Files /\ o \in Names
    BY NameType DEF CtlRec, Onward
  <2>. DEFINE f == [ctl[ph].held EXCEPT !.time = Stamp]
              r == [ctl[ph] EXCEPT !.pc = "rename", !.out = o, !.held = f]
  <2>3. f \in Files
    BY <2>2, FileType DEF Files
  <2>4. ctl' = [ctl EXCEPT ![ph] = r]
    BY <2>1
  <2>. HIDE DEF f, o
  <2>5. r \in CtlRec
    BY <2>2, <2>3 DEF CtlRec, PCs
  <2>6. ctl' \in [Phases -> CtlRec]
    BY <2>4, <2>5
  <2>. QED BY <1>6, <2>6, QuietStep DEF ChooseName, TypeOK
<1>4. CASE Rename(ph)
  <2>1. ctl' \in [Phases -> CtlRec]
    BY <1>4, GotoType DEF Rename, PCs
  <2>2. ctl[ph].held \in Files /\ ctl[ph].out \in Names /\ TmpName(ph, Cur(ph).num) \in Names
    BY NameType DEF CtlRec
  <2>3. \E n \in Names :
           /\ spool' = [spool EXCEPT ![n] = ctl[ph].held]
           /\ replaced' \in {replaced, replaced \cup {spool[n].ver}}
    BY <1>4, <2>2 DEF Rename
  <2>4. spool' \in [Names -> Files] /\ replaced' \subseteq 0 .. attempts
    BY <2>2, <2>3 DEF TypeOK, Files
  <2>. QED BY <1>4, <2>1, <2>4, QuietStep DEF Rename, TypeOK
<1>5. CASE Unlink(ph)
  <2>1. ctl[ph].cur \in Names /\ ctl[ph].ready \in SUBSET Names /\ TmpName(ph, ctl[ph].cur.num) \in Names
    BY NameType DEF CtlRec
  <2>2. spool' \in [Names -> Files]
    BY <1>5 DEF Unlink
  <2>. DEFINE ready == IF ctl[ph].held.kind = "failure" THEN ctl[ph].ready
                       ELSE ctl[ph].ready \cup {TmpName(ph, ctl[ph].cur.num)}
              r == [ctl[ph] EXCEPT !.pc = "next", !.held = Missing, !.ready = ready, !.cur = NoName,
                                   !.out = NoName]
  <2>3. ready \in SUBSET Names
    BY <2>1
  <2>4. ctl' = [ctl EXCEPT ![ph] = r]
    BY <1>5 DEF Unlink
  <2>. HIDE DEF ready
  <2>5. r \in CtlRec
    BY <2>3 DEF CtlRec, PCs
  <2>6. ctl' \in [Phases -> CtlRec]
    BY <2>4, <2>5
  <2>. QED BY <1>5, <2>2, <2>6, QuietStep DEF Unlink, TypeOK
<1>. QED BY <1>1, <1>2, <1>3, <1>4, <1>5, <1>6

\* The steps that call a program and file its result keep the types.
LEMMA RunType ==
    ASSUME TypeOK, NEW ph \in Phases,
           Run(ph) \/ Finish(ph) \/ Consume(ph) \/ ProgramFails(ph) \/ Kill(ph)
    PROVE  TypeOK'
<1>. ctl \in [Phases -> CtlRec] /\ attempts \in Nat /\ spool \in [Names -> Files]
  BY DEF TypeOK, CtlRec
<1>. Missing \in Files /\ Idle \in CtlRec /\ ctl[ph] \in CtlRec /\ Cur(ph) \in Names
  BY FileType, IdleType DEF CtlRec
<1>. USE DEF world, history
<1>1. CASE Run(ph)
  <2>1. PICK n \in ctl[ph].ready :
          ctl' = IF spool[n] = Missing THEN [ctl EXCEPT ![ph].ready = @ \ {n}]
                 ELSE [ctl EXCEPT ![ph].ready = @ \ {n}, ![ph].cur = n, ![ph].held = spool[n],
                                  ![ph].pc = FirstPC[ph]]
    BY <1>1 DEF Run
  <2>2. n \in Names /\ spool[n] \in Files /\ FirstPC[ph] \in PCs
    <3>1. ph \in {"retr", "parse", "update"}
      BY NameType
    <3>2. FirstPC["retr"] \in PCs /\ FirstPC["parse"] \in PCs /\ FirstPC["update"] \in PCs
      BY DEF FirstPC, PCs
    <3>. QED BY <3>1, <3>2 DEF CtlRec
  <2>3. [ctl[ph] EXCEPT !.ready = @ \ {n}] \in CtlRec
    BY DEF CtlRec
  <2>4. [ctl[ph] EXCEPT !.ready = @ \ {n}, !.cur = n, !.held = spool[n], !.pc = FirstPC[ph]] \in CtlRec
    BY <2>2 DEF CtlRec
  <2>5. ctl' \in [Phases -> CtlRec]
    BY <2>1, <2>3, <2>4
  <2>. QED BY <1>1, <2>5, QuietStep DEF Run, TypeOK
<1>2. CASE Finish(ph)
  BY <1>2, QuietStep DEF Finish, TypeOK
<1>3. CASE Consume(ph)
  <2>1. ctl' \in [Phases -> CtlRec]
    BY <1>3, LeaveType DEF Consume, PCs
  <2>2. spool' \in [Names -> Files]
    BY <1>3 DEF Consume
  <2>. QED BY <1>3, <2>1, <2>2, QuietStep DEF Consume, TypeOK
<1>4. CASE ProgramFails(ph)
  <2>1. ctl' \in [Phases -> CtlRec]
    BY <1>4, LeaveType DEF ProgramFails, PCs
  <2>. QED BY <1>4, <2>1, FaultType, QuietStep DEF ProgramFails, TypeOK
<1>5. CASE Kill(ph)
  BY <1>5, FaultType, QuietStep DEF Kill, TypeOK
<1>. QED BY <1>1, <1>2, <1>3, <1>4, <1>5

\* The parse phase's program keeps the types.
LEMMA ParseType ==
    ASSUME TypeOK, Parse \/ ParseFails PROVE TypeOK'
<1>. ctl \in [Phases -> CtlRec] /\ attempts \in Nat /\ spool \in [Names -> Files] /\ "parse" \in Phases
  BY NameType DEF TypeOK, CtlRec
<1>. Missing \in Files /\ ctl["parse"] \in CtlRec /\ ctl["parse"].held \in Files /\ ctl["parse"].out \in Names
  BY FileType DEF CtlRec
<1>. USE DEF world, history
<1>1. CASE Filter
  <2>1. PICK num \in Nums :
          ctl' = [ctl EXCEPT !["parse"].pc = "write", !["parse"].out = TmpName("update", num)]
    BY <1>1 DEF Filter, Free
  <2>2. [ctl["parse"] EXCEPT !.pc = "write", !.out = TmpName("update", num)] \in CtlRec
    BY NameType DEF CtlRec, PCs
  <2>3. ctl' \in [Phases -> CtlRec]
    BY <2>1, <2>2
  <2>. QED BY <1>1, <2>3, QuietStep DEF Filter, TypeOK
<1>2. CASE WriteParsed
  <2>1. ctl' \in [Phases -> CtlRec]
    BY <1>2, GotoType DEF WriteParsed, PCs
  <2>. QED BY <1>2, <2>1, QuietStep DEF WriteParsed, TypeOK
<1>3. CASE ParseFails
  <2>1. ctl' \in [Phases -> CtlRec]
    BY <1>3, GotoType DEF ParseFails, PCs
  <2>2. [ctl["parse"].held EXCEPT !.kind = "failure"] \in Files
    BY DEF Files, Kinds
  <2>. QED BY <1>3, <2>1, <2>2, FaultType, QuietStep DEF ParseFails, TypeOK
<1>4. CASE Publish
  <2>1. ctl' \in [Phases -> CtlRec]
    BY <1>4, GotoType, LeaveType DEF Publish, PCs
  <2>2. PICK num \in Nums :
          spool' = IF spool[ctl["parse"].out] = Missing THEN spool
                   ELSE [spool EXCEPT ![Name("update", num)] = spool[ctl["parse"].out], ![ctl["parse"].out] = Missing]
    BY <1>4 DEF Publish, Free
  <2>3. spool' \in [Names -> Files]
    BY <2>2
  <2>. QED BY <1>4, <2>1, <2>3, QuietStep DEF Publish, TypeOK
<1>. QED BY <1>1, <1>2, <1>3, <1>4 DEF Parse

\* What RecordFailure and Apply do to the host record and the history.
LEMMA RecType ==
    ASSUME TypeOK, NEW h \in Files
    PROVE  /\ h.ver \in 0 .. attempts /\ h.time \in 0 .. Stamp
           /\ [rec EXCEPT !.status = "inactive", !.fails = @ + 1, !.time = h.time] \in HostRecs
           /\ [rec EXCEPT !.status = "active", !.time = h.time, !.ver = h.ver, !.fails = 0] \in HostRecs
           /\ [rec EXCEPT !.status = "deleted"] \in HostRecs
           /\ [rec EXCEPT !.fails = 0] \in HostRecs
<1>1. h.ver \in 0 .. attempts /\ h.time \in 0 .. Stamp
  BY DEF Files
<1>2. rec \in HostRecs /\ rec.fails + 1 \in Nat
  BY DEF TypeOK, HostRecs
<1>. QED BY <1>1, <1>2 DEF HostRecs

\* The update phase's program keeps the types.
LEMMA UpdateType ==
    ASSUME TypeOK, Update PROVE TypeOK'
<1>. ctl \in [Phases -> CtlRec] /\ attempts \in Nat /\ spool \in [Names -> Files] /\ "update" \in Phases
  BY NameType DEF TypeOK, CtlRec
<1>. ctl["update"] \in CtlRec /\ ctl["update"].held \in Files /\ Missing \in Files
  BY FileType DEF CtlRec
<1>. USE DEF world, history
<1>1. ASSUME attempts' = attempts, UNCHANGED <<asked, sameName, stop, faults, overlapped, fetched, replaced>>,
             spool' \in [Names -> Files], ctl' \in [Phases -> CtlRec], listed' \in BOOLEAN,
             rec' \in HostRecs,
             failed' \subseteq 0 .. attempts, settled' \subseteq 0 .. attempts
      PROVE  TypeOK'
  <2>1. Files' = Files /\ Stamp' = Stamp
    BY <1>1 DEF Files, Stamp
  <2>3. HostRecs' = HostRecs
    BY <1>1, <2>1 DEF HostRecs
  <2>2. CtlRec' = CtlRec
    BY <2>1 DEF CtlRec
  <2>. QED BY <1>1, <2>1, <2>2, <2>3 DEF TypeOK, CtlRec
<1>2. CASE RecordFailure
  <2>1. ctl' \in [Phases -> CtlRec]
    BY <1>2, GotoType DEF RecordFailure, PCs
  <2>2. failed' \subseteq 0 .. attempts /\ settled' \subseteq 0 .. attempts
    <3>1. ctl["update"].held.ver \in 0 .. attempts
      BY RecType
    <3>. QED BY <1>2, <3>1 DEF RecordFailure, TypeOK
  <2>3. rec' \in HostRecs
    BY <1>2, RecType DEF RecordFailure, TypeOK
  <2>. QED BY <1>1, <1>2, <2>1, <2>2, <2>3 DEF RecordFailure, TypeOK
<1>3. CASE Forget
  <2>1. ctl' \in [Phases -> CtlRec]
    BY <1>3, LeaveType DEF Forget, PCs
  <2>. QED BY <1>3, <2>1, QuietStep DEF Forget, TypeOK
<1>4. CASE Apply
  <2>. DEFINE r == [ctl["update"] EXCEPT !.pc = "consume", !.applied = ~ (ctl["update"].held.time < rec.time)]
  <2>1. r \in CtlRec /\ ctl' = [ctl EXCEPT !["update"] = r]
    BY <1>4 DEF Apply, CtlRec, PCs
  <2>2. ctl' \in [Phases -> CtlRec]
    BY <2>1
  <2>3. failed' \subseteq 0 .. attempts /\ settled' \subseteq 0 .. attempts /\ listed' \in BOOLEAN
    BY <1>4, RecType DEF Apply, TypeOK
  <2>4. rec' \in HostRecs
    BY <1>4, RecType DEF Apply, TypeOK
  <2>. QED BY <1>1, <1>4, <2>2, <2>3, <2>4 DEF Apply, TypeOK
<1>5. CASE ApplyDeletion
  <2>1. ctl' \in [Phases -> CtlRec]
    BY <1>5, GotoType DEF ApplyDeletion, PCs
  <2>2. rec' \in HostRecs
    BY <1>5, RecType DEF ApplyDeletion, TypeOK
  <2>. QED BY <1>1, <1>5, <2>1, <2>2 DEF ApplyDeletion, TypeOK
<1>6. CASE ResetFailCount
  <2>1. ctl' \in [Phases -> CtlRec]
    BY <1>6, GotoType DEF ResetFailCount, PCs
  <2>2. rec' \in HostRecs
    BY <1>6, RecType DEF ResetFailCount
  <2>. QED BY <1>1, <1>6, <2>1, <2>2 DEF ResetFailCount, TypeOK
<1>. QED BY <1>2, <1>3, <1>4, <1>5, <1>6 DEF Update

\* The retrieve phase's program keeps the types.
LEMMA RetrieveType ==
    ASSUME TypeOK, Retrieve PROVE TypeOK'
<1>. ctl \in [Phases -> CtlRec] /\ attempts \in Nat /\ spool \in [Names -> Files] /\ "retr" \in Phases
  BY NameType DEF TypeOK, CtlRec
<1>1. PICK kind \in {"listing", "failure"} : Fetch(kind)
  BY DEF Retrieve
<1>2. attempts' = attempts + 1
  BY <1>1 DEF Fetch
<1>3. Files \subseteq Files' /\ Stamp' = Stamp + 2 /\ CtlRec \subseteq CtlRec' /\ Stamp \in Nat
  BY <1>2, FilesGrow, FileType
<1>4. File(kind, attempts + 1, 2 * (attempts + 1)) \in Files'
  BY <1>2 DEF Files, File, Kinds, Stamp
<1>5. spool' \in [Names -> Files']
  BY <1>1, <1>3, <1>4 DEF Fetch
<1>6. ctl' \in [Phases -> CtlRec']
  <2>1. ctl' \in [Phases -> CtlRec]
    BY <1>1, GotoType DEF Fetch, PCs
  <2>. QED BY <2>1, <1>3
<1>7. 0 .. attempts \subseteq 0 .. attempts' /\ 0 .. Stamp \subseteq 0 .. Stamp'
       /\ 1 .. attempts \subseteq 1 .. attempts' /\ attempts + 1 \in 1 .. attempts'
  BY <1>2, <1>3
<1>8. rec' \in HostRecs'
  <2>1. rec' = rec
    BY <1>1 DEF Fetch
  <2>. QED BY <2>1, <1>7 DEF TypeOK, HostRecs
<1>9. fetched' \subseteq 1 .. attempts' /\ failed' \subseteq 0 .. attempts' /\ settled' \subseteq 0 .. attempts'
       /\ replaced' \subseteq 0 .. attempts'
  BY <1>1, <1>7 DEF Fetch, TypeOK
<1>. QED BY <1>1, <1>2, <1>5, <1>6, <1>8, <1>9 DEF Fetch, TypeOK, CtlRec, world

\* Every step keeps the types.
LEMMA StepType == TypeOK /\ [Next]_vars => TypeOK'
<1>. SUFFICES ASSUME TypeOK, [Next]_vars PROVE TypeOK'
  OBVIOUS
<1>1. CASE UNCHANGED vars
  <2>1. Files' = Files /\ Stamp' = Stamp
    BY <1>1 DEF Files, Stamp, vars
  <2>2. HostRecs' = HostRecs
    BY <1>1, <2>1 DEF HostRecs, vars
  <2>. QED BY <1>1, <2>1, <2>2 DEF TypeOK, vars, history
<1>2. CASE Request \/ RequestDeletion \/ Stop \/ Resume \/ RequeueAny
  BY <1>2, OutsideType
<1>3. ASSUME NEW ph \in Phases, PhaseStep(ph) PROVE TypeOK'
  BY <1>3, PrepareType, RunType, ParseType, UpdateType, RetrieveType DEF PhaseStep
<1>4. ASSUME NEW ph \in Phases, ProgramFails(ph) \/ Kill(ph) PROVE TypeOK'
  BY <1>4, RunType
<1>5. CASE ParseFails
  BY <1>5, ParseType
<1>. QED BY <1>1, <1>2, <1>3, <1>4, <1>5 DEF Next

\* The directory, the runs of the three phases and the host record keep their
\* types, whatever is asked for, killed or stopped: no header is stamped later
\* than now, and fail_count does not fall below zero.
THEOREM CycleTypeCorrect == Spec => []TypeOK
<1>. QED BY InitType, StepType, PTL DEF Spec
-----------------------------------------------------------------------------
(***************************************************************************)
(* Nothing is lost                                                         *)
(***************************************************************************)
Result(f) == f.kind \in {"listing", "failure"}

\* The untouched name of a file with _t.  While something other than an error
\* header stands there, the next run of the phase may overwrite the file with
\* _t by it, which may be older: then it does not count.
Original(n) == Name(n.sfx, n.num)
Safe(n, a) ==
    /\ Result(spool[n]) /\ spool[n].ver >= a
    /\ n.tmp => spool[Original(n)].kind \in {"missing", "failure"}
Covered(a) == (\E n \in Names : Safe(n, a)) \/ GoneBy(a)

\* What may stand under which name.
KindsOK ==
    \A n \in Names :
        /\ spool[n].kind = "missing" => spool[n] = Missing
        /\ n.sfx = "retr" => spool[n].kind \in {"missing", "request", "deletion"}
        /\ n.sfx = "parse" => /\ spool[n].kind \in {"missing", "listing", "failure"}
                              /\ spool[n].kind = "listing" => n.num = 0
                              /\ spool[n].kind = "failure" => ~ n.tmp
        /\ n.sfx = "update" /\ n.num = Unnumbered => spool[n].kind \in {"missing", "deletion"}
        /\ n.sfx = "update" /\ n.num # Unnumbered => spool[n].kind \in {"missing", "listing", "failure"}

\* No listing in .parse is older than what came from the parser; the error
\* headers that were renamed count no more.
Parsed(m) == m.sfx = "update" /\ (spool[m].kind = "listing" \/ (m.tmp /\ spool[m].kind = "failure"))
StageOrder ==
    \A n, m \in Names :
        n.sfx = "parse" /\ spool[n].kind = "listing" /\ Parsed(m) => spool[n].ver >= spool[m].ver

\* A run of the parse phase is alone.
Alone == ~ At("parse", "idle") => At("retr", "idle") /\ At("update", "idle")

Untouched(ph) == {n \in Names : n.sfx = ph /\ ~ n.tmp}
Taken(ph) == {n \in Names : n.sfx = ph /\ n.tmp}

Preparing == {"choose", "rename", "unlink", "record", "forget"}
InProgram == {"fetch", "filter", "write", "publish", "pass_on", "apply", "consume"}
PhasePCs ==
    [retr |-> {"choose", "rename", "unlink", "fetch", "consume"},
     parse |-> {"choose", "rename", "unlink", "filter", "write", "publish", "pass_on", "consume"},
     update |-> {"choose", "rename", "unlink", "record", "forget", "apply", "consume"}]

\* Where an error header goes on.
HeaderNames(ph) ==
    {n \in Names : n.sfx = Onward(ph) /\ ~ n.tmp /\ n.num # Unnumbered}

\* The names a run works on have the suffix of its phase; an error header takes
\* a name of the phase it goes on to.
RunOK(ph) ==
    /\ ctl[ph].list \subseteq Untouched(ph) /\ ctl[ph].ready \subseteq Taken(ph)
    /\ ctl[ph].pc \in Preparing => Cur(ph) \in Untouched(ph)
    /\ ctl[ph].pc \in InProgram => Cur(ph) \in Taken(ph)
    /\ ctl[ph].pc \in PhasePCs[ph] \cup {"idle", "next", "reset"}
    /\ At(ph, "choose") => ctl[ph].held.kind = "failure"
    /\ At(ph, "rename") /\ ctl[ph].held.kind = "failure" => ctl[ph].out \in HeaderNames(ph)
RunInv == \A ph \in Phases : RunOK(ph)

\* While a file is prepared, it is what was read, but for the stamp of a header,
\* and it is unlinked for a copy only.
Copied(ph) ==
    /\ ctl[ph].held.kind = "failure" =>
          \E m \in Names : ~ m.tmp /\ m # Cur(ph) /\ Result(spool[m]) /\ spool[m].ver >= ctl[ph].held.ver
    /\ ctl[ph].held.kind = "listing" => spool[TmpName(ph, Cur(ph).num)] = ctl[ph].held
PrepOK(ph) ==
    /\ ctl[ph].pc \in {"choose", "rename", "unlink"} =>
          \/ /\ spool[Cur(ph)].kind = ctl[ph].held.kind /\ spool[Cur(ph)].ver = ctl[ph].held.ver
             /\ ctl[ph].held.kind \in {"listing", "failure"}
             /\ ctl[ph].held.kind = "listing" => spool[Cur(ph)] = ctl[ph].held
          \/ Cur(ph).sfx = "update" /\ Cur(ph).num = Unnumbered /\ ctl[ph].held.kind = "deletion"
    /\ At(ph, "unlink") => Copied(ph)

RetrOK == ctl["retr"].pc \in {"choose", "rename"} => ctl["retr"].held.kind = "request"

\* The parse phase has no listing but the one it works on.
ParseOK ==
    /\ PrepOK("parse")
    /\ At("parse", "rename") /\ ctl["parse"].held.kind = "failure" => spool[ctl["parse"].out] = Missing
    /\ ~ At("parse", "idle") => \A n \in ctl["parse"].ready : spool[Original(n)] = Missing
    /\ ctl["parse"].pc \in InProgram =>
          /\ spool[Cur("parse")] = ctl["parse"].held
          /\ ctl["parse"].held.kind = "listing"
          /\ spool[Original(Cur("parse"))] = Missing
    /\ ctl["parse"].pc \in {"write", "publish", "pass_on"} =>
          ctl["parse"].out \in Taken("update") /\ ctl["parse"].out.num # Unnumbered
    /\ At("parse", "write") => spool[ctl["parse"].out] = Missing
    /\ ctl["parse"].pc \in {"publish", "pass_on"} =>
          spool[ctl["parse"].out] \in {ctl["parse"].held, [ctl["parse"].held EXCEPT !.kind = "failure"]}
    /\ At("parse", "consume") =>
          \E m \in Untouched("update") : Result(spool[m]) /\ spool[m].ver >= ctl["parse"].held.ver

\* The update phase unlinks what is settled.  What stands under the name that it
\* found free for an error header came later.
UpdateOK ==
    /\ PrepOK("update")
    /\ At("update", "rename") /\ ctl["update"].held.kind = "failure" =>
          LET out == spool[ctl["update"].out] IN out = Missing \/ out.time > ctl["update"].held.time
    /\ ctl["update"].pc \in {"record", "forget", "apply"} => spool[Cur("update")] = ctl["update"].held
    /\ ctl["update"].pc \in {"record", "forget"} => ctl["update"].held.kind = "failure"
    /\ ctl["update"].pc \in {"forget", "consume"} =>
          (Result(spool[Cur("update")]) => spool[Cur("update")].ver \in settled)

FilesOK == KindsOK /\ StageOrder /\ \A a \in fetched : Covered(a)
Kept == FilesOK /\ Alone /\ RetrOK /\ ParseOK /\ UpdateOK
KeptInv == ~ overlapped => Kept
-----------------------------------------------------------------------------
\* A name is a suffix, a number and whether it ends in _t.
LEMMA NameParts ==
    \A n \in Names : /\ n.sfx \in Phases /\ n.num \in Nums \cup {Unnumbered} /\ n.tmp \in BOOLEAN
                     /\ n = [sfx |-> n.sfx, num |-> n.num, tmp |-> n.tmp]
BY DEF Names

\* The names of files and of their prepared copies (_t).
LEMMA NameBuilt ==
    \A ph \in Phases, num \in Nums \cup {Unnumbered} :
        /\ Name(ph, num) \in Names /\ TmpName(ph, num) \in Names
        /\ Name(ph, num).sfx = ph /\ TmpName(ph, num).sfx = ph
        /\ Name(ph, num).num = num /\ TmpName(ph, num).num = num
        /\ ~ Name(ph, num).tmp /\ TmpName(ph, num).tmp
        /\ Original(TmpName(ph, num)) = Name(ph, num)
BY DEF Names, Name, TmpName, Original

\* Names with equal parts are equal.
LEMMA NameEqual == \A n, m \in Names : n.sfx = m.sfx /\ n.num = m.num /\ (n.tmp <=> m.tmp) => n = m
<1>. SUFFICES ASSUME NEW n \in Names, NEW m \in Names, n.sfx = m.sfx, n.num = m.num, n.tmp <=> m.tmp
              PROVE  n = m
  OBVIOUS
<1>1. n.tmp = m.tmp
  BY NameParts
<1>. QED BY <1>1, NameParts

\* The name that a file had before its copy was prepared.
LEMMA NameOriginal ==
    \A n \in Names : /\ Original(n) \in Names /\ Original(n).sfx = n.sfx
                     /\ Original(n).num = n.num /\ ~ Original(n).tmp
                     /\ ~ n.tmp => Original(n) = n
BY NameParts, NameBuilt, NameEqual DEF Original

\* The three phases of the cycle.
LEMMA PhasesAre == Phases = {"retr", "parse", "update"} /\ 0 \in Nums /\ Unnumbered \notin Nums
BY NameType DEF Phases

\* The parts of a file.
LEMMA FileFields ==
    ASSUME attempts \in Nat
    PROVE  /\ Missing \in Files /\ Missing.kind = "missing"
           /\ \A f \in Files : f.kind \in Kinds \cup {"missing"} /\ f.ver \in Nat /\ f.ver <= attempts
           /\ \A kind, v, t : File(kind, v, t).kind = kind /\ File(kind, v, t).ver = v
BY FileType DEF Files, File, Missing

\* A run goes on with other files.
LEMMA SetRun ==
    ASSUME TypeOK, RunInv, NEW ph \in Phases, \A q \in Phases \ {ph} : ctl'[q] = ctl[q], RunOK(ph)'
    PROVE  RunInv'
BY DEF RunInv, RunOK

\* Moving a run to another place keeps what is known of the file in its hands.
LEMMA RunGoto ==
    ASSUME TypeOK, RunInv, NEW ph \in Phases, NEW pc \in PCs, Goto(ph, pc),
           pc \in PhasePCs[ph] \cup {"idle", "next", "reset"}, pc \notin {"choose", "rename"},
           pc \in Preparing => Cur(ph) \in Untouched(ph),
           pc \in InProgram => Cur(ph) \in Taken(ph)
    PROVE  RunInv'
<1>1. ctl' = [ctl EXCEPT ![ph].pc = pc] /\ ctl \in [Phases -> CtlRec]
  BY DEF Goto, TypeOK, CtlRec
<1>2. ctl'[ph] = [ctl[ph] EXCEPT !.pc = pc] /\ \A q \in Phases \ {ph} : ctl'[q] = ctl[q]
  BY <1>1
<1>3. ctl'[ph].pc = pc /\ ctl'[ph].cur = Cur(ph) /\ ctl'[ph].list = ctl[ph].list /\ ctl'[ph].ready = ctl[ph].ready
  BY <1>1, <1>2 DEF CtlRec
<1>4. RunOK(ph)'
  BY <1>3 DEF RunInv, RunOK, Untouched, Taken
<1>. QED BY <1>2, <1>4, SetRun

\* A run that drops its file has nothing to keep.
LEMMA RunLeave ==
    ASSUME TypeOK, RunInv, NEW ph \in Phases, NEW pc \in {"next", "reset"}, Leave(ph, pc),
           pc \in PhasePCs[ph] \cup {"idle", "next", "reset"}
    PROVE  RunInv'
<1>1. ctl \in [Phases -> CtlRec]
  BY DEF TypeOK, CtlRec
<1>2. \A q \in Phases \ {ph} : ctl'[q] = ctl[q]
  BY <1>1 DEF Leave
<1>3. ctl'[ph].pc = pc /\ ctl'[ph].list = ctl[ph].list /\ ctl'[ph].ready = ctl[ph].ready
  BY <1>1 DEF Leave, CtlRec
<1>4. RunOK(ph)'
  BY <1>3 DEF RunInv, RunOK, Untouched, Taken, Preparing, InProgram
<1>. QED BY <1>2, <1>4, SetRun

\* A run that ended has nothing to keep.
LEMMA RunIdle ==
    ASSUME TypeOK, RunInv, NEW ph \in Phases, ctl' = [ctl EXCEPT ![ph] = Idle]
    PROVE  RunInv'
<1>1. ctl \in [Phases -> CtlRec]
  BY DEF TypeOK, CtlRec
<1>2. ctl'[ph] = Idle /\ \A q \in Phases \ {ph} : ctl'[q] = ctl[q]
  BY <1>1
<1>3. RunOK(ph)'
  BY <1>2 DEF RunOK, Idle, Preparing, InProgram
<1>. QED BY <1>2, <1>3, SetRun

\* The steps that prepare a file know what they hold.
LEMMA RunPrepare ==
    ASSUME TypeOK, RunInv, NEW ph \in Phases,
           Start(ph) \/ StopFound(ph) \/ Read(ph) \/ ChooseName(ph) \/ Rename(ph) \/ Unlink(ph)
    PROVE  RunInv'
<1>. ctl \in [Phases -> CtlRec] /\ RunOK(ph)
  BY DEF TypeOK, CtlRec, RunInv
<1>1. CASE Start(ph)
  <2>1. PICK list \in {{n \in Names : n.sfx = ph /\ ~ n.tmp /\ spool[n] # Missing}} :
          ctl' = [ctl EXCEPT ![ph] = [Idle EXCEPT !.pc = "next", !.list = list]]
    BY <1>1 DEF Start
  <2>2. ctl'[ph] = [Idle EXCEPT !.pc = "next", !.list = list] /\ \A q \in Phases \ {ph} : ctl'[q] = ctl[q]
    BY <2>1
  <2>3. RunOK(ph)'
    BY <2>1, <2>2 DEF RunOK, Idle, Preparing, InProgram, Untouched
  <2>. QED BY <2>2, <2>3, SetRun
<1>2. CASE StopFound(ph)
  BY <1>2, RunIdle DEF StopFound
<1>3. CASE Read(ph)
  <2>1. PICK n \in ctl[ph].list :
          \/ ctl' = [ctl EXCEPT ![ph].list = @ \ {n}]
          \/ \E pc \in {"record", "choose", "rename"} :
               /\ pc = "record" => ph = "update"
               /\ pc = "choose" <=> spool[n].kind = "failure" /\ pc # "record"
               /\ ctl' = [ctl EXCEPT ![ph].list = @ \ {n}, ![ph].cur = n, ![ph].held = spool[n], ![ph].pc = pc]
    BY <1>3 DEF Read, Recorded
  <2>2. \A q \in Phases \ {ph} : ctl'[q] = ctl[q]
    BY <2>1
  <2>3. n \in Untouched(ph) /\ At(ph, "next")
    BY <1>3 DEF RunOK, Read
  <2>4. /\ ctl'[ph].list = ctl[ph].list \ {n} /\ ctl'[ph].ready = ctl[ph].ready
        /\ \/ ctl'[ph].pc = "next"
           \/ /\ ctl'[ph].cur = n /\ ctl'[ph].held = spool[n]
              /\ \/ ctl'[ph].pc = "rename" /\ spool[n].kind # "failure"
                 \/ ctl'[ph].pc = "choose" /\ spool[n].kind = "failure"
                 \/ ctl'[ph].pc = "record" /\ ph = "update"
    BY <2>1, <2>3 DEF CtlRec
  <2>5. ctl'[ph].pc \in PhasePCs[ph] \cup {"idle", "next", "reset"}
    BY <2>4, PhasesAre DEF PhasePCs
  <2>6. RunOK(ph)'
    BY <2>3, <2>4, <2>5 DEF RunOK, Preparing, InProgram, Untouched, Taken
  <2>. QED BY <2>2, <2>6, SetRun
<1>6. CASE ChooseName(ph)
  <2>1. PICK num \in Nums :
          ctl' = [ctl EXCEPT ![ph].pc = "rename", ![ph].out = Name(Onward(ph), num), ![ph].held.time = Stamp]
    BY <1>6 DEF ChooseName, Free
  <2>2. \A q \in Phases \ {ph} : ctl'[q] = ctl[q]
    BY <2>1
  <2>. DEFINE o == Name(Onward(ph), num)
  <2>3. /\ ctl'[ph].list = ctl[ph].list /\ ctl'[ph].ready = ctl[ph].ready
        /\ ctl'[ph].pc = "rename" /\ ctl'[ph].cur = Cur(ph) /\ ctl'[ph].out = o
    BY <2>1 DEF CtlRec
  <2>4. o \in HeaderNames(ph)
    BY NameBuilt, PhasesAre DEF HeaderNames, Onward
  <2>. HIDE DEF o
  <2>5. Cur(ph) \in Untouched(ph) /\ "rename" \in PhasePCs[ph]
    <3>1. At(ph, "choose")
      BY <1>6 DEF ChooseName
    <3>. QED BY <3>1, PhasesAre DEF RunOK, Preparing, PhasePCs
  <2>6. RunOK(ph)'
    BY <2>3, <2>4, <2>5 DEF RunOK, Preparing, InProgram, Untouched, Taken, HeaderNames
  <2>. QED BY <2>2, <2>6, SetRun
<1>4. CASE Rename(ph)
  <2>1. Goto(ph, "unlink") /\ At(ph, "rename")
    BY <1>4 DEF Rename
  <2>2. "unlink" \in PhasePCs[ph] /\ "unlink" \in PCs /\ Cur(ph) \in Untouched(ph) /\ "unlink" \notin InProgram
    BY <2>1, PhasesAre DEF PhasePCs, PCs, RunOK, Preparing, InProgram
  <2>. QED BY <2>1, <2>2, RunGoto
<1>5. CASE Unlink(ph)
  <2>1. TmpName(ph, Cur(ph).num) \in Taken(ph)
    <3>1. Cur(ph) \in Names
      BY <1>5 DEF CtlRec
    <3>. QED BY <3>1, NameParts, NameBuilt DEF Taken
  <2>2. \A q \in Phases \ {ph} : ctl'[q] = ctl[q]
    BY <1>5 DEF Unlink
  <2>3. /\ ctl'[ph].list = ctl[ph].list
        /\ ctl'[ph].ready \subseteq ctl[ph].ready \cup {TmpName(ph, Cur(ph).num)}
        /\ ctl'[ph].pc = "next"
    BY <1>5 DEF Unlink, CtlRec
  <2>4. RunOK(ph)'
    BY <2>1, <2>3 DEF RunOK, Preparing, InProgram, Untouched, Taken
  <2>. QED BY <2>2, <2>4, SetRun
<1>. QED BY <1>1, <1>2, <1>3, <1>4, <1>5, <1>6

\* The steps that call a program and file its result know what they hold.
LEMMA RunProgram ==
    ASSUME TypeOK, RunInv, NEW ph \in Phases,
           Run(ph) \/ Finish(ph) \/ Consume(ph) \/ ProgramFails(ph) \/ Kill(ph)
    PROVE  RunInv'
<1>. ctl \in [Phases -> CtlRec] /\ RunOK(ph)
  BY DEF TypeOK, CtlRec, RunInv
<1>1. CASE Run(ph)
  <2>1. PICK n \in ctl[ph].ready :
          ctl' = IF spool[n] = Missing THEN [ctl EXCEPT ![ph].ready = @ \ {n}]
                 ELSE [ctl EXCEPT ![ph].ready = @ \ {n}, ![ph].cur = n, ![ph].held = spool[n],
                                  ![ph].pc = FirstPC[ph]]
    BY <1>1 DEF Run
  <2>2. \A q \in Phases \ {ph} : ctl'[q] = ctl[q]
    BY <2>1
  <2>3. n \in Taken(ph) /\ At(ph, "next")
    BY <1>1 DEF RunOK, Run
  <2>4. /\ ctl'[ph].list = ctl[ph].list /\ ctl'[ph].ready = ctl[ph].ready \ {n}
        /\ ctl'[ph].pc = "next" \/ (ctl'[ph].cur = n /\ ctl'[ph].pc = FirstPC[ph])
    BY <2>1, <2>3 DEF CtlRec
  <2>5. FirstPC[ph] \in PhasePCs[ph] /\ FirstPC[ph] \notin Preparing
    BY PhasesAre DEF PhasePCs, FirstPC, Preparing
  <2>6. RunOK(ph)'
    BY <2>3, <2>4, <2>5 DEF RunOK, Preparing, InProgram, Untouched, Taken
  <2>. QED BY <2>2, <2>6, SetRun
<1>2. CASE Finish(ph) \/ Kill(ph)
  BY <1>2, RunIdle DEF Finish, Kill
<1>3. CASE Consume(ph)
  BY <1>3, RunLeave DEF Consume
<1>4. CASE ProgramFails(ph)
  BY <1>4, RunLeave DEF ProgramFails
<1>. QED BY <1>1, <1>2, <1>3, <1>4

\* The parse phase's program knows what it holds.
LEMMA RunParse ==
    ASSUME TypeOK, RunInv, Parse \/ ParseFails PROVE RunInv'
<1>. ctl \in [Phases -> CtlRec] /\ "parse" \in Phases /\ RunOK("parse")
  BY PhasesAre DEF TypeOK, CtlRec, RunInv
<1>1. CASE Filter
  <2>1. PICK num \in Nums :
          ctl' = [ctl EXCEPT !["parse"].pc = "write", !["parse"].out = TmpName("update", num)]
    BY <1>1 DEF Filter, Free
  <2>2. \A q \in Phases \ {"parse"} : ctl'[q] = ctl[q]
    BY <2>1
  <2>3. /\ ctl'["parse"].list = ctl["parse"].list /\ ctl'["parse"].ready = ctl["parse"].ready
        /\ ctl'["parse"].pc = "write" /\ ctl'["parse"].cur = Cur("parse")
    BY <2>1 DEF CtlRec
  <2>4. RunOK("parse")'
    BY <1>1, <2>3 DEF Filter, RunOK, Preparing, InProgram, Untouched, Taken, PhasePCs
  <2>. QED BY <2>2, <2>4, SetRun
<1>2. CASE WriteParsed \/ ParseFails
  BY <1>2, RunGoto DEF WriteParsed, ParseFails, PCs, PhasePCs, Preparing, InProgram, RunOK
<1>3. CASE Publish
  BY <1>3, RunGoto, RunLeave DEF Publish, PCs, PhasePCs, Preparing, InProgram, RunOK
<1>. QED BY <1>1, <1>2, <1>3 DEF Parse

\* The update phase's program knows what it holds.
LEMMA RunUpdate ==
    ASSUME TypeOK, RunInv, Update PROVE RunInv'
<1>. ctl \in [Phases -> CtlRec] /\ "update" \in Phases /\ RunOK("update")
  BY PhasesAre DEF TypeOK, CtlRec, RunInv
<1>1. CASE Apply
  <2>1. \A q \in Phases \ {"update"} : ctl'[q] = ctl[q]
    BY <1>1 DEF Apply
  <2>2. /\ ctl'["update"].list = ctl["update"].list /\ ctl'["update"].ready = ctl["update"].ready
        /\ ctl'["update"].pc = "consume" /\ ctl'["update"].cur = Cur("update")
    BY <1>1 DEF Apply, CtlRec
  <2>3. RunOK("update")'
    BY <1>1, <2>2 DEF Apply, RunOK, Preparing, InProgram, Untouched, Taken, PhasePCs
  <2>. QED BY <2>1, <2>3, SetRun
<1>2. CASE RecordFailure \/ ApplyDeletion \/ ResetFailCount
  BY <1>2, RunGoto DEF RecordFailure, ApplyDeletion, ResetFailCount, PCs, PhasePCs, Preparing, InProgram, RunOK
<1>3. CASE Forget
  BY <1>3, RunLeave DEF Forget
<1>. QED BY <1>1, <1>2, <1>3 DEF Update

\* The retrieve phase's program knows what it holds.
LEMMA RunRetrieve ==
    ASSUME TypeOK, RunInv, Retrieve PROVE RunInv'
<1>. "retr" \in Phases /\ RunOK("retr")
  BY PhasesAre DEF RunInv
<1>. QED BY RunGoto DEF Retrieve, Fetch, PCs, PhasePCs, Preparing, InProgram, RunOK

\* Every step knows what each run holds.
LEMMA RunStep == TypeOK /\ RunInv /\ [Next]_vars => RunInv'
<1>. SUFFICES ASSUME TypeOK, RunInv, [Next]_vars PROVE RunInv'
  OBVIOUS
<1>1. ASSUME ctl' = ctl PROVE RunInv'
  BY <1>1 DEF RunInv, RunOK, Untouched, Taken
<1>2. CASE Request \/ RequestDeletion \/ Stop \/ Resume \/ RequeueAny \/ UNCHANGED vars
  BY <1>1, <1>2 DEF Request, RequestDeletion, Ask, Stop, Resume, RequeueAny, Requeue, vars
<1>3. ASSUME NEW ph \in Phases, PhaseStep(ph) \/ ProgramFails(ph) \/ Kill(ph) PROVE RunInv'
  BY <1>3, RunPrepare, RunProgram, RunParse, RunUpdate, RunRetrieve DEF PhaseStep
<1>4. CASE ParseFails
  BY <1>4, RunParse
<1>. QED BY <1>2, <1>3, <1>4 DEF Next

\* No phase runs in the initial states.
LEMMA RunInit == Init => RunInv
BY DEF Init, RunInv, RunOK, Idle, Preparing, InProgram
-----------------------------------------------------------------------------
\* What is covered stays so while its witness stays, or is replaced.
LEMMA CoverKept ==
    ASSUME fetched' = fetched, settled \subseteq settled', replaced \subseteq replaced', \A a \in fetched : Covered(a),
           \A a \in fetched, n \in Names : Safe(n, a) => Covered(a)'
    PROVE  \A a \in fetched' : Covered(a)'
BY DEF Covered, GoneBy

\* A step that leaves the spool directory alone loses no listing.
LEMMA FilesSame ==
    ASSUME FilesOK, spool' = spool, fetched' = fetched, settled \subseteq settled', replaced \subseteq replaced' PROVE FilesOK'
BY DEF FilesOK, KindsOK, StageOrder, Parsed, Covered, GoneBy, Safe, Result

\* A file is unlinked: what it was the witness of needs another one.
LEMMA FilesRemoved ==
    ASSUME TypeOK, FilesOK, NEW n \in Names, spool' = [spool EXCEPT ![n] = Missing],
           fetched' = fetched, settled \subseteq settled', replaced \subseteq replaced',
           \A a \in fetched : Safe(n, a) => Covered(a)'
    PROVE  FilesOK'
<1>. attempts \in Nat /\ spool \in [Names -> Files]
  BY DEF TypeOK
<1>1. \A m \in Names : spool'[m] = IF m = n THEN Missing ELSE spool[m]
  OBVIOUS
<1>2. Missing.kind = "missing"
  BY FileFields
<1>3. KindsOK'
  BY <1>1, <1>2 DEF FilesOK, KindsOK
<1>4. StageOrder'
  BY <1>1, <1>2 DEF FilesOK, StageOrder, Parsed
<1>5. ASSUME NEW a \in fetched, NEW m \in Names, Safe(m, a) PROVE Covered(a)'
  <2>1. CASE m = n
    BY <1>5, <2>1
  <2>2. CASE m # n
    <3>1. Safe(m, a)'
      BY <1>1, <1>2, <1>5, <2>2, NameOriginal DEF Safe
    <3>. QED BY <3>1 DEF Covered
  <2>. QED BY <2>1, <2>2
<1>6. \A a \in fetched' : Covered(a)'
  BY <1>5, CoverKept DEF FilesOK
<1>. QED BY <1>3, <1>4, <1>6 DEF FilesOK

\* A request takes a free name, so it replaces no listing.
LEMMA FilesAsk ==
    ASSUME TypeOK, FilesOK, NEW kind \in {"request", "deletion"}, Ask(kind) PROVE FilesOK'
<1>. attempts \in Nat /\ spool \in [Names -> Files]
  BY DEF TypeOK
<1>1. PICK num \in Free("retr", FALSE) : spool' = [spool EXCEPT ![Name("retr", num)] = File(kind, 0, 0)]
  BY DEF Ask
<1>. DEFINE n == Name("retr", num)
<1>2. n \in Names /\ n.sfx = "retr" /\ File(kind, 0, 0).kind = kind
  BY <1>1, NameBuilt, FileFields, PhasesAre DEF Free
<1>3. \A m \in Names : spool'[m] = IF m = n THEN File(kind, 0, 0) ELSE spool[m]
  BY <1>1
<1>. HIDE DEF n
<1>4. KindsOK'
  BY <1>2, <1>3 DEF FilesOK, KindsOK
<1>5. StageOrder'
  BY <1>2, <1>3 DEF FilesOK, StageOrder, Parsed
<1>6. ASSUME NEW a \in fetched, NEW m \in Names, Safe(m, a) PROVE Covered(a)'
  <2>1. spool[m].kind \notin {"request", "deletion", "missing"} /\ m # n
    BY <1>2, <1>6 DEF Safe, Result, FilesOK, KindsOK
  <2>2. m.tmp => m.sfx # "retr"
    BY <2>1 DEF FilesOK, KindsOK
  <2>3. Safe(m, a)'
    BY <1>2, <1>3, <1>6, <2>1, <2>2, NameOriginal DEF Safe
  <2>. QED BY <2>3 DEF Covered
<1>7. \A a \in fetched' : Covered(a)'
  BY <1>6, CoverKept DEF FilesOK, Ask, history
<1>. QED BY <1>4, <1>5, <1>7 DEF FilesOK

\* A requeued file replaces no file that anything depends on.
LEMMA FilesRequeue ==
    ASSUME TypeOK, FilesOK, NEW n \in Names, Requeue(n) PROVE FilesOK'
<1>. attempts \in Nat /\ spool \in [Names -> Files]
  BY DEF TypeOK
<1>. DEFINE o == Original(n)
<1>1. o \in Names /\ o.sfx = n.sfx /\ o.num = n.num /\ ~ o.tmp /\ n.tmp /\ o # n
  BY NameOriginal DEF Requeue
<1>2. \A m \in Names : spool'[m] = IF m = n THEN Missing ELSE IF m = o THEN spool[n] ELSE spool[m]
  BY <1>1 DEF Requeue, Original
<1>3. Missing.kind = "missing" /\ spool[o] = Missing
  BY FileFields DEF Requeue, Original
<1>. HIDE DEF o
<1>4. KindsOK'
  BY <1>1, <1>2, <1>3 DEF FilesOK, KindsOK
<1>5. StageOrder'
  BY <1>1, <1>2, <1>3 DEF FilesOK, StageOrder, Parsed
<1>6. ASSUME NEW a \in fetched, NEW m \in Names, Safe(m, a) PROVE Covered(a)'
  <2>1. CASE m = n
    <3>1. Safe(o, a)'
      BY <1>1, <1>2, <1>6, <2>1 DEF Safe, Result
    <3>. QED BY <1>1, <3>1 DEF Covered
  <2>2. CASE m # n
    <3>1. ASSUME m.tmp, Original(m) = o PROVE m = n
      <4>1. m.sfx = n.sfx /\ m.num = n.num
        BY <1>1, <3>1, NameOriginal
      <4>. QED BY <1>1, <3>1, <4>1, NameEqual
    <3>2. m # o
      BY <1>3, <1>6 DEF Safe, Result
    <3>3. Safe(m, a)'
      BY <1>1, <1>2, <1>3, <1>6, <2>2, <3>1, <3>2, NameOriginal DEF Safe
    <3>. QED BY <3>3 DEF Covered
  <2>. QED BY <2>1, <2>2
<1>7. \A a \in fetched' : Covered(a)'
  BY <1>6, CoverKept DEF FilesOK, Requeue, history
<1>. QED BY <1>4, <1>5, <1>7 DEF FilesOK

\* The retrieve phase passes a request to delete on.
LEMMA FilesDeletion ==
    ASSUME TypeOK, FilesOK, NEW n \in Untouched("retr"), spool[n].kind = "deletion",
           spool' = [spool EXCEPT ![Name("update", Unnumbered)] = spool[n], ![n] = Missing],
           UNCHANGED <<fetched, settled, replaced>>
    PROVE  FilesOK'
<1>. attempts \in Nat /\ spool \in [Names -> Files]
  BY DEF TypeOK
<1>. DEFINE o == Name("update", Unnumbered)
<1>1. n \in Names /\ n.sfx = "retr" /\ ~ n.tmp /\ o \in Names /\ o.sfx = "update" /\ o.num = Unnumbered /\ ~ o.tmp
  BY NameBuilt, PhasesAre DEF Untouched
<1>2. \A m \in Names : spool'[m] = IF m = n THEN Missing ELSE IF m = o THEN spool[n] ELSE spool[m]
  BY <1>1
<1>3. Missing.kind = "missing"
  BY FileFields
<1>. HIDE DEF o
<1>4. KindsOK'
  BY <1>1, <1>2, <1>3 DEF FilesOK, KindsOK
<1>5. StageOrder'
  BY <1>1, <1>2, <1>3 DEF FilesOK, StageOrder, Parsed
<1>6. ASSUME NEW a \in fetched, NEW m \in Names, Safe(m, a) PROVE Covered(a)'
  <2>1. m # n /\ m # o
    BY <1>1, <1>6 DEF Safe, Result, FilesOK, KindsOK
  <2>2. m.tmp => Original(m) # o
    BY <1>1, <1>6, NameOriginal DEF Safe, Result, FilesOK, KindsOK
  <2>3. Safe(m, a)'
    BY <1>1, <1>2, <1>3, <1>6, <2>1, <2>2, NameOriginal DEF Safe
  <2>. QED BY <2>3 DEF Covered
<1>7. \A a \in fetched' : Covered(a)'
  BY <1>6, CoverKept DEF FilesOK
<1>. QED BY <1>4, <1>5, <1>7 DEF FilesOK

\* A prepared copy, of a listing or of something else, takes the name with _t.
LEMMA FilesCopied ==
    ASSUME TypeOK, FilesOK, NEW ph \in Phases, NEW n \in Untouched(ph), NEW f \in Files,
           f.kind \notin {"failure", "missing"}, ph = "retr" => f.kind \in {"request", "deletion"},
           ph # "retr" =>
              \/ spool[n] = f
              \/ ph = "update" /\ n.num = Unnumbered /\ f.kind = "deletion",
           spool' = [spool EXCEPT ![TmpName(ph, n.num)] = f],
           UNCHANGED <<fetched, settled, replaced>>
    PROVE  FilesOK'
<1>. attempts \in Nat /\ spool \in [Names -> Files]
  BY DEF TypeOK
<1>. DEFINE t == TmpName(ph, n.num)
<1>1. n \in Names /\ n.sfx = ph /\ ~ n.tmp /\ t \in Names /\ t.sfx = ph /\ t.num = n.num /\ t.tmp /\ Original(t) = n
  BY NameBuilt, NameParts, NameOriginal DEF Untouched, Original
<1>2. \A m \in Names : spool'[m] = IF m = t THEN f ELSE spool[m]
  BY <1>1
<1>. HIDE DEF t
<1>3. KindsOK'
  BY <1>1, <1>2 DEF FilesOK, KindsOK
<1>4. StageOrder'
  <2>1. ph # "retr" /\ f.kind = "listing" => spool[n] = f
    OBVIOUS
  <2>2. ph = "retr" => f.kind # "listing"
    OBVIOUS
  <2>. QED BY <1>1, <1>2, <2>1, <2>2 DEF FilesOK, StageOrder, Parsed
<1>5. ASSUME NEW a \in fetched, NEW m \in Names, Safe(m, a) PROVE Covered(a)'
  <2>1. CASE m = t
    <3>1. spool[n].kind \in {"missing", "failure"} /\ spool[t].kind \in {"listing", "failure"}
      BY <1>1, <1>5, <2>1 DEF Safe, Result
    <3>2. ph = "update" /\ n.num = Unnumbered
      BY <1>1, <3>1 DEF FilesOK, KindsOK
    <3>. QED BY <1>1, <3>1, <3>2 DEF FilesOK, KindsOK
  <2>2. CASE m # t
    <3>1. Safe(m, a)'
      BY <1>1, <1>2, <1>5, <2>2, NameOriginal DEF Safe
    <3>. QED BY <3>1 DEF Covered
  <2>. QED BY <2>1, <2>2
<1>6. \A a \in fetched' : Covered(a)'
  BY <1>5, CoverKept DEF FilesOK
<1>. QED BY <1>3, <1>4, <1>6 DEF FilesOK

\* An error header takes a free name, or the place of what came there since.
LEMMA FilesHeader ==
    ASSUME TypeOK, FilesOK, NEW ph \in Phases, NEW n \in HeaderNames(ph), NEW f \in Files,
           f.kind = "failure", spool' = [spool EXCEPT ![n] = f],
           UNCHANGED <<fetched, settled>>, replaced \subseteq replaced',
           spool[n] = Missing \/ spool[n].ver \in replaced'
    PROVE  FilesOK'
<1>. attempts \in Nat /\ spool \in [Names -> Files]
  BY DEF TypeOK
<1>1. n \in Names /\ n.sfx \in {"parse", "update"} /\ ~ n.tmp /\ n.num # Unnumbered
  BY DEF HeaderNames, Onward
<1>2. \A m \in Names : spool'[m] = IF m = n THEN f ELSE spool[m]
  BY <1>1
<1>3. Missing.kind = "missing"
  BY FileFields
<1>4. KindsOK'
  BY <1>1, <1>2 DEF FilesOK, KindsOK
<1>5. StageOrder'
  BY <1>1, <1>2 DEF FilesOK, StageOrder, Parsed
<1>6. ASSUME NEW a \in fetched, NEW m \in Names, Safe(m, a) PROVE Covered(a)'
  <2>1. CASE m = n
    BY <1>3, <1>6, <2>1 DEF Safe, Result, Covered, GoneBy
  <2>2. CASE m # n
    <3>1. Safe(m, a)'
      BY <1>1, <1>2, <1>6, <2>2, NameOriginal DEF Safe
    <3>. QED BY <3>1 DEF Covered
  <2>. QED BY <2>1, <2>2
<1>7. \A a \in fetched' : Covered(a)'
  BY <1>6, CoverKept DEF FilesOK
<1>. QED BY <1>4, <1>5, <1>7 DEF FilesOK

\* The newest attempt covers every earlier one.
LEMMA FilesFetched ==
    ASSUME TypeOK, FilesOK, NEW kind \in {"listing", "failure"}, Fetch(kind)
    PROVE  FilesOK'
<1>. attempts \in Nat /\ spool \in [Names -> Files]
  BY DEF TypeOK
<1>. DEFINE n == Name("parse", 0)
            f == File(kind, attempts + 1, 2 * (attempts + 1))
<1>1. n \in Names /\ n.sfx = "parse" /\ ~ n.tmp /\ n.num = 0
  BY NameBuilt, PhasesAre
<1>2. f.kind = kind /\ f.ver = attempts + 1
  BY FileFields
<1>3. \A m \in Names : spool'[m] = IF m = n THEN f ELSE spool[m]
  BY <1>1 DEF Fetch
<1>4. \A m \in Names : spool[m].ver \in Nat /\ spool[m].ver <= attempts
  BY FileFields
<1>. HIDE DEF n, f
<1>5. KindsOK'
  BY <1>1, <1>2, <1>3 DEF FilesOK, KindsOK
<1>6. StageOrder'
  <2>. SUFFICES ASSUME NEW p \in Names, NEW m \in Names, p.sfx = "parse", spool'[p].kind = "listing", Parsed(m)'
                PROVE  spool'[p].ver >= spool'[m].ver
    BY DEF StageOrder
  <2>1. m # n /\ spool'[m] = spool[m] /\ Parsed(m)
    BY <1>1, <1>3 DEF Parsed
  <2>2. CASE p = n
    BY <1>2, <1>3, <1>4, <2>1, <2>2
  <2>3. CASE p # n
    BY <1>3, <2>1, <2>3 DEF FilesOK, StageOrder
  <2>. QED BY <2>2, <2>3
<1>7. ASSUME NEW a \in fetched' PROVE Covered(a)'
  <2>1. a \in 1 .. attempts + 1
    BY DEF Fetch, TypeOK
  <2>2. Safe(n, a)'
    BY <1>1, <1>2, <1>3, <2>1 DEF Safe, Result
  <2>. QED BY <1>1, <2>2 DEF Covered
<1>. QED BY <1>5, <1>6, <1>7 DEF FilesOK

\* The parser writes to a new file; its input is the only listing in .parse.
LEMMA FilesParsed ==
    ASSUME TypeOK, FilesOK, NEW c \in Taken("parse"), spool[c].kind = "listing", spool[Original(c)] = Missing,
           NEW out \in Taken("update"), out.num # Unnumbered, spool[out] = Missing,
           NEW f \in Files, Result(f), f.ver = spool[c].ver, spool' = [spool EXCEPT ![out] = f],
           UNCHANGED <<fetched, settled, replaced>>
    PROVE  FilesOK'
<1>. attempts \in Nat /\ spool \in [Names -> Files]
  BY DEF TypeOK
<1>1. c \in Names /\ c.sfx = "parse" /\ c.tmp /\ c.num = 0 /\ out \in Names /\ out.sfx = "update" /\ out.tmp
  BY DEF Taken, FilesOK, KindsOK
<1>2. \A m \in Names : spool'[m] = IF m = out THEN f ELSE spool[m]
  BY <1>1
<1>3. Missing.kind = "missing"
  BY FileFields
<1>4. KindsOK'
  BY <1>1, <1>2 DEF FilesOK, KindsOK, Result
<1>5. StageOrder'
  <2>. SUFFICES ASSUME NEW p \in Names, NEW m \in Names, p.sfx = "parse", spool'[p].kind = "listing", Parsed(m)'
                PROVE  spool'[p].ver >= spool'[m].ver
    BY DEF StageOrder
  <2>1. p # out /\ spool'[p] = spool[p] /\ p.num = 0
    BY <1>1, <1>2 DEF FilesOK, KindsOK
  <2>2. p = c
    <3>1. CASE p.tmp
      BY <1>1, <2>1, <3>1, NameEqual
    <3>2. CASE ~ p.tmp
      <4>1. p = Original(c)
        BY <1>1, <2>1, <3>2, NameEqual, NameOriginal
      <4>. QED BY <1>3, <2>1, <4>1
    <3>. QED BY <3>1, <3>2
  <2>3. CASE m = out
    <3>1. spool[c].ver \in Nat
      BY <1>1, FileFields
    <3>. QED BY <1>1, <1>2, <2>1, <2>2, <2>3, <3>1
  <2>4. CASE m # out
    BY <1>2, <2>1, <2>4 DEF FilesOK, StageOrder, Parsed
  <2>. QED BY <2>3, <2>4
<1>6. ASSUME NEW a \in fetched, NEW m \in Names, Safe(m, a) PROVE Covered(a)'
  <2>1. m # out /\ Original(m) # out
    BY <1>1, <1>3, <1>6, NameOriginal DEF Safe, Result
  <2>2. Safe(m, a)'
    BY <1>1, <1>2, <1>6, <2>1, NameOriginal DEF Safe
  <2>. QED BY <2>2 DEF Covered
<1>7. \A a \in fetched' : Covered(a)'
  BY <1>6, CoverKept DEF FilesOK
<1>. QED BY <1>4, <1>5, <1>7 DEF FilesOK

\* The output is renamed; it is no older than a file that waits with _t for the
\* same number.
LEMMA FilesPublished ==
    ASSUME TypeOK, FilesOK, NEW c \in Taken("parse"), spool[c].kind = "listing",
           NEW out \in Taken("update"), out.num # Unnumbered, Result(spool[out]), spool[out].ver = spool[c].ver,
           NEW num \in Free("update", FALSE),
           spool' = [spool EXCEPT ![Name("update", num)] = spool[out], ![out] = Missing],
           UNCHANGED <<fetched, settled, replaced>>
    PROVE  FilesOK'
<1>. attempts \in Nat /\ spool \in [Names -> Files]
  BY DEF TypeOK
<1>. DEFINE n == Name("update", num)
<1>1. /\ c \in Names /\ c.sfx = "parse" /\ out \in Names /\ out.sfx = "update" /\ out.tmp
      /\ n \in Names /\ n.sfx = "update" /\ ~ n.tmp /\ n.num # Unnumbered /\ spool[n] = Missing
  BY NameBuilt, PhasesAre DEF Taken, Free, Name
<1>2. \A m \in Names : spool'[m] = IF m = out THEN Missing ELSE IF m = n THEN spool[out] ELSE spool[m]
  BY <1>1
<1>3. Missing.kind = "missing" /\ \A m \in Names : spool[m].ver \in Nat
  BY FileFields
<1>. HIDE DEF n
<1>4. KindsOK'
  BY <1>1, <1>2, <1>3 DEF FilesOK, KindsOK, Result
<1>5. StageOrder'
  BY <1>1, <1>2, <1>3 DEF FilesOK, StageOrder, Parsed
<1>6. ASSUME NEW a \in fetched, NEW m \in Names, Safe(m, a) PROVE Covered(a)'
  <2>1. a \in Nat /\ m # n
    BY <1>1, <1>3, <1>6 DEF TypeOK, Safe, Result
  <2>2. CASE m = out
    <3>1. Safe(n, a)'
      BY <1>1, <1>2, <1>6, <2>2 DEF Safe
    <3>. QED BY <1>1, <3>1 DEF Covered
  <2>3. CASE m # out /\ (m.tmp => Original(m) # n)
    <3>1. Safe(m, a)'
      BY <1>1, <1>2, <1>3, <1>6, <2>1, <2>3, NameOriginal DEF Safe
    <3>. QED BY <3>1 DEF Covered
  <2>4. CASE m # out /\ m.tmp /\ Original(m) = n
    <3>1. Parsed(m)
      BY <1>1, <1>6, <2>4, NameOriginal DEF Parsed, Safe, Result
    <3>2. spool[c].ver >= spool[m].ver
      BY <1>1, <3>1 DEF FilesOK, StageOrder
    <3>3. spool[c].ver >= a
      BY <1>1, <1>3, <1>6, <2>1, <3>2 DEF Safe
    <3>4. Safe(n, a)'
      BY <1>1, <1>2, <3>3 DEF Safe
    <3>. QED BY <1>1, <3>4 DEF Covered
  <2>. QED BY <2>2, <2>3, <2>4
<1>7. \A a \in fetched' : Covered(a)'
  BY <1>6, CoverKept DEF FilesOK
<1>. QED BY <1>4, <1>5, <1>7 DEF FilesOK
-----------------------------------------------------------------------------
\* What Goto changes of a run, and what it leaves.
LEMMA GotoFields ==
    ASSUME TypeOK, NEW ph \in Phases, NEW pc, Goto(ph, pc)
    PROVE  /\ ctl'[ph].pc = pc /\ ctl'[ph].cur = ctl[ph].cur /\ ctl'[ph].held = ctl[ph].held
           /\ ctl'[ph].out = ctl[ph].out /\ ctl'[ph].ready = ctl[ph].ready
           /\ \A q \in Phases \ {ph} : ctl'[q] = ctl[q]
BY DEF Goto, TypeOK

\* What Leave changes of a run, and what it leaves.
LEMMA LeaveFields ==
    ASSUME TypeOK, NEW ph \in Phases, NEW pc, Leave(ph, pc)
    PROVE  /\ ctl'[ph].pc = pc /\ ctl'[ph].ready = ctl[ph].ready
           /\ \A q \in Phases \ {ph} : ctl'[q] = ctl[q]
BY DEF Leave, TypeOK

\* What the end of a run changes, and what it leaves.
LEMMA IdleFields ==
    ASSUME TypeOK, NEW ph \in Phases, ctl' = [ctl EXCEPT ![ph] = Idle]
    PROVE  ctl'[ph].pc = "idle" /\ \A q \in Phases \ {ph} : ctl'[q] = ctl[q]
BY DEF Idle, TypeOK

\* Without a file in its hands, a run has nothing to keep but its list.
LEMMA ParseBetween ==
    ASSUME ctl'["parse"].pc \in {"idle", "next", "reset"},
           ctl'["parse"].pc # "idle" => \A n \in ctl'["parse"].ready : spool'[Original(n)] = Missing
    PROVE  ParseOK'
BY DEF ParseOK, PrepOK, InProgram

\* Between two files the update phase has nothing in its hands.
LEMMA UpdateBetween ==
    ASSUME ctl'["update"].pc \in {"idle", "next", "reset"} PROVE UpdateOK'
BY DEF UpdateOK, PrepOK

\* A run of the parse phase: the others are idle.
LEMMA ParseAlone ==
    ASSUME Kept, "parse" \in Phases, "retr" \in Phases, "update" \in Phases,
           At("retr", "idle"), At("update", "idle"), \A q \in Phases \ {"parse"} : ctl'[q] = ctl[q],
           FilesOK', ParseOK'
    PROVE  Kept'
<1>1. At("retr", "idle")' /\ At("update", "idle")'
  OBVIOUS
<1>2. UpdateOK'
  BY <1>1, UpdateBetween
<1>. QED BY <1>1, <1>2 DEF Kept, Alone, RetrOK

\* A run of another phase: the parse phase is idle.
LEMMA UpdateRuns ==
    ASSUME Kept, Phases = {"retr", "parse", "update"}, At("parse", "idle"),
           \A q \in Phases \ {"update"} : ctl'[q] = ctl[q], FilesOK', UpdateOK'
    PROVE  Kept'
<1>1. At("parse", "idle")' /\ ctl'["retr"] = ctl["retr"]
  OBVIOUS
<1>2. ParseOK'
  BY <1>1, ParseBetween
<1>. QED BY <1>1, <1>2 DEF Kept, Alone, RetrOK

\* Changes to names of the retrieve phase, a deletion that is passed on and a
\* new attempt leave the update phase what it needs.
LEMMA UpdateKept ==
    ASSUME TypeOK, RunInv, Kept, ctl'["update"] = ctl["update"], settled' = settled,
           \A n \in Names : n.sfx = "update" =>
              spool'[n] = spool[n] \/ (n.num = Unnumbered /\ ~ n.tmp /\ spool'[n].kind = "deletion"),
           \A n \in Names : n.sfx = "parse" => spool'[n] = spool[n] \/ \A t \in 0 .. Stamp : spool'[n].time > t,
           \A n \in Names : ~ n.tmp /\ Result(spool[n]) =>
              Result(spool'[n]) /\ spool'[n].ver \in {spool[n].ver, attempts + 1}
    PROVE  UpdateOK'
<1>. ctl["update"] \in CtlRec /\ RunOK("update") /\ attempts \in Nat /\ spool \in [Names -> Files]
  BY PhasesAre DEF TypeOK, CtlRec, RunInv
<1>. DEFINE c == Cur("update")
            h == ctl["update"].held
<1>1. c \in Names /\ h \in Files
  BY DEF CtlRec
<1>2. ctl["update"].pc \in Preparing \cup InProgram => c.sfx = "update"
  BY DEF RunOK, Untouched, Taken
<1>3. ASSUME ctl["update"].pc \in Preparing \cup InProgram, spool[c].kind \in {"listing", "failure"}
      PROVE  spool'[c] = spool[c]
  BY <1>1, <1>2, <1>3 DEF Kept, FilesOK, KindsOK
<1>4. PrepOK("update")'
  <2>1. ASSUME ctl["update"].pc \in {"choose", "rename", "unlink"}
        PROVE  \/ /\ spool'[c].kind = h.kind /\ spool'[c].ver = h.ver /\ h.kind \in {"listing", "failure"}
                  /\ h.kind = "listing" => spool'[c] = h
               \/ c.sfx = "update" /\ c.num = Unnumbered /\ h.kind = "deletion"
    BY <1>3, <2>1 DEF Kept, UpdateOK, PrepOK, Preparing
  <2>2. ASSUME At("update", "unlink"), h.kind = "failure"
        PROVE  \E m \in Names : ~ m.tmp /\ m # c /\ Result(spool'[m]) /\ spool'[m].ver >= h.ver
    <3>1. PICK m \in Names : ~ m.tmp /\ m # c /\ Result(spool[m]) /\ spool[m].ver >= h.ver
      BY <2>2 DEF Kept, UpdateOK, PrepOK, Copied
    <3>2. h.ver \in Nat /\ h.ver <= attempts
      BY <1>1, FileFields
    <3>3. Result(spool'[m]) /\ spool'[m].ver \in {spool[m].ver, attempts + 1}
      BY <3>1
    <3>4. CASE spool'[m].ver = spool[m].ver
      BY <3>1, <3>3, <3>4
    <3>5. CASE spool'[m].ver = attempts + 1
      BY <3>1, <3>2, <3>3, <3>5
    <3>. QED BY <3>3, <3>4, <3>5
  <2>3. ASSUME At("update", "unlink"), h.kind = "listing"
        PROVE  spool'[TmpName("update", c.num)] = h
    <3>1. TmpName("update", c.num) \in Names /\ TmpName("update", c.num).sfx = "update" /\ TmpName("update", c.num).tmp
      BY <1>1, NameParts, NameBuilt, PhasesAre
    <3>. QED BY <2>3, <3>1 DEF Kept, UpdateOK, PrepOK, Copied
  <2>. QED BY <2>1, <2>2, <2>3 DEF PrepOK, Copied
<1>5. ctl["update"].pc \in {"record", "forget"} => spool'[c] = h /\ h.kind = "failure"
  BY <1>3 DEF Kept, UpdateOK, Preparing
<1>6. ctl["update"].pc \in {"apply", "consume"} => spool'[c] = spool[c]
  BY <1>1 DEF RunOK, InProgram, Taken
<1>7. ASSUME At("update", "rename"), h.kind = "failure"
      PROVE  LET out == spool'[ctl["update"].out] IN out = Missing \/ out.time > h.time
  <2>. DEFINE o == ctl["update"].out
  <2>1. o \in Names /\ o.sfx = "parse"
    BY <1>7 DEF RunOK, HeaderNames, Onward
  <2>2. spool[o] = Missing \/ spool[o].time > h.time
    BY <1>7 DEF Kept, UpdateOK
  <2>3. h.time \in 0 .. Stamp
    BY <1>1 DEF Files
  <2>. QED BY <2>1, <2>2, <2>3
<1>. QED BY <1>4, <1>5, <1>6, <1>7 DEF Kept, UpdateOK

\* A run of the parse phase prepares its files.
LEMMA KeptParsePrepares ==
    ASSUME TypeOK, RunInv, Kept, ~ overlapped',
           Start("parse") \/ StopFound("parse") \/ Read("parse") \/ ChooseName("parse") \/ Rename("parse") \/ Unlink("parse")
    PROVE  Kept'
<1>. /\ ctl \in [Phases -> CtlRec] /\ spool \in [Names -> Files] /\ attempts \in Nat
     /\ "parse" \in Phases /\ "retr" \in Phases /\ "update" \in Phases
     /\ RunOK("parse") /\ FilesOK /\ ParseOK
  BY PhasesAre DEF TypeOK, CtlRec, RunInv, Kept
<1>. ctl["parse"] \in CtlRec /\ Cur("parse") \in Names /\ ctl["parse"].held \in Files
  BY DEF CtlRec
<1>. DEFINE c == Cur("parse")
            h == ctl["parse"].held
            t == TmpName("parse", c.num)
<1>1. At("retr", "idle") /\ At("update", "idle")
  BY DEF Kept, Alone, Start, StopFound, Read, ChooseName, Rename, Unlink
<1>2. ASSUME ctl'["parse"].pc = "unlink" \/ At("parse", "unlink"), c \in Untouched("parse")
      PROVE  /\ c.sfx = "parse" /\ ~ c.tmp /\ t \in Taken("parse") /\ t \in Names /\ t # c /\ Original(t) = c
  BY <1>2, NameBuilt, NameParts, NameOriginal DEF Untouched, Taken, Original
<1>3. CASE Start("parse")
  <2>1. ctl'["parse"].pc = "next" /\ ctl'["parse"].ready = {} /\ \A q \in Phases \ {"parse"} : ctl'[q] = ctl[q]
    BY <1>3 DEF Start, Idle
  <2>2. FilesOK'
    BY <1>3, FilesSame DEF Start
  <2>. QED BY <1>1, <2>1, <2>2, ParseBetween, ParseAlone
<1>4. CASE StopFound("parse")
  <2>1. FilesOK'
    BY <1>4, FilesSame DEF StopFound, history
  <2>. QED BY <1>1, <1>4, <2>1, IdleFields, ParseBetween, ParseAlone DEF StopFound
<1>5. CASE Read("parse")
  <2>1. PICK n \in ctl["parse"].list :
          /\ spool' = spool
          /\ ctl' = IF spool[n] = Missing THEN [ctl EXCEPT !["parse"].list = @ \ {n}]
                    ELSE [ctl EXCEPT !["parse"].list = @ \ {n}, !["parse"].cur = n, !["parse"].held = spool[n],
                                     !["parse"].pc = IF spool[n].kind = "failure" THEN "choose" ELSE "rename"]
    BY <1>5 DEF Read, Recorded
  <2>2. FilesOK'
    BY <1>5, <2>1, FilesSame DEF Read, history
  <2>3. \A q \in Phases \ {"parse"} : ctl'[q] = ctl[q]
    BY <2>1
  <2>4. ctl'["parse"].ready = ctl["parse"].ready /\ At("parse", "next")
    BY <1>5, <2>1 DEF Read, CtlRec
  <2>5. n \in Names /\ n.sfx = "parse"
    BY DEF RunOK, Untouched
  <2>6. ParseOK'
    <3>1. CASE spool[n] = Missing
      <4>1. ctl'["parse"].pc = "next"
        BY <2>1, <2>4, <3>1 DEF CtlRec
      <4>. QED BY <2>1, <2>4, <4>1, ParseBetween DEF ParseOK
    <3>2. CASE spool[n] # Missing
      <4>1. /\ ctl'["parse"].pc = IF spool[n].kind = "failure" THEN "choose" ELSE "rename"
            /\ ctl'["parse"].cur = n /\ ctl'["parse"].held = spool[n]
        BY <2>1, <3>2 DEF CtlRec
      <4>2. spool[n].kind \in {"listing", "failure"}
        BY <2>5, <3>2 DEF FilesOK, KindsOK
      <4>3. CASE spool[n].kind = "failure"
        <5>1. ctl'["parse"].pc = "choose" /\ ctl'["parse"].held.kind = "failure"
          BY <4>1, <4>3
        <5>. QED BY <2>1, <2>4, <4>1, <5>1 DEF ParseOK, PrepOK, InProgram
      <4>4. CASE spool[n].kind # "failure"
        <5>1. ctl'["parse"].pc = "rename" /\ ctl'["parse"].held.kind = "listing"
          BY <4>1, <4>2, <4>4
        <5>. QED BY <2>1, <2>4, <4>1, <5>1 DEF ParseOK, PrepOK, InProgram
      <4>. QED BY <4>3, <4>4
    <3>. QED BY <3>1, <3>2
  <2>. QED BY <1>1, <2>2, <2>3, <2>6, ParseAlone
<1>8. CASE ChooseName("parse")
  <2>1. PICK num \in Free("update", FALSE) :
          ctl' = [ctl EXCEPT !["parse"].pc = "rename", !["parse"].out = Name("update", num),
                             !["parse"].held.time = Stamp]
    BY <1>8 DEF ChooseName, Onward
  <2>2. spool' = spool /\ FilesOK'
    BY <1>8, FilesSame DEF ChooseName, history
  <2>3. \A q \in Phases \ {"parse"} : ctl'[q] = ctl[q]
    BY <2>1
  <2>4. /\ ctl'["parse"].pc = "rename" /\ ctl'["parse"].cur = c /\ ctl'["parse"].out = Name("update", num)
        /\ ctl'["parse"].held = [h EXCEPT !.time = Stamp] /\ ctl'["parse"].ready = ctl["parse"].ready
        /\ At("parse", "choose")
    BY <1>8, <2>1 DEF ChooseName, CtlRec
  <2>5. ctl'["parse"].held.kind = "failure" /\ ctl'["parse"].held.ver = h.ver /\ h.kind = "failure"
    BY <2>4 DEF RunOK, Files
  <2>6. spool[Name("update", num)] = Missing
    BY DEF Free, Name
  <2>7. spool[c].kind = h.kind /\ spool[c].ver = h.ver
    BY <2>4, <2>5 DEF ParseOK, PrepOK
  <2>8. ParseOK'
    BY <2>2, <2>4, <2>5, <2>6, <2>7 DEF ParseOK, PrepOK, InProgram
  <2>. QED BY <1>1, <2>2, <2>3, <2>8, ParseAlone
<1>6. CASE Rename("parse")
  <2>1. /\ ctl'["parse"].pc = "unlink" /\ ctl'["parse"].cur = c /\ ctl'["parse"].held = h
        /\ ctl'["parse"].ready = ctl["parse"].ready /\ \A q \in Phases \ {"parse"} : ctl'[q] = ctl[q]
    BY <1>6, GotoFields DEF Rename
  <2>2. c \in Untouched("parse") /\ At("parse", "rename")
    BY <1>6 DEF Rename, RunOK, Preparing
  <2>3. c.sfx = "parse" /\ ~ c.tmp /\ t \in Names /\ t.sfx = "parse" /\ t.tmp
    BY <1>2, <2>1, <2>2 DEF Taken
  <2>4. /\ spool[c].kind = h.kind /\ spool[c].ver = h.ver /\ h.kind \in {"listing", "failure"}
        /\ h.kind = "listing" => spool[c] = h
    BY <2>2, <2>3 DEF ParseOK, PrepOK
  <2>5. UNCHANGED <<fetched, settled>>
    BY <1>6 DEF Rename
  <2>6. CASE h.kind = "failure"
    <3>. DEFINE m == ctl["parse"].out
    <3>1. spool' = [spool EXCEPT ![m] = h] /\ replaced \subseteq replaced'
      BY <1>6, <2>6 DEF Rename
    <3>2. m \in HeaderNames("parse") /\ m \in Names /\ m.sfx = "update" /\ ~ m.tmp
      BY <2>2, <2>6 DEF RunOK, HeaderNames, Onward
    <3>3. spool[m] = Missing /\ h.ver \in Nat
      BY <2>2, <2>6 DEF ParseOK, Files
    <3>4. FilesOK'
      BY <2>5, <2>6, <3>1, <3>2, <3>3, FilesHeader
    <3>5. \A n \in Names : spool'[n] = IF n = m THEN h ELSE spool[n]
      BY <3>1
    <3>. HIDE DEF m
    <3>6. \A n \in ctl["parse"].ready : Original(n) \in Names /\ Original(n) # m
      BY <3>2, NameOriginal DEF RunOK, Taken
    <3>7. ParseOK'
      BY <2>1, <2>2, <2>3, <2>4, <2>6, <3>2, <3>3, <3>5, <3>6 DEF ParseOK, PrepOK, Copied, InProgram, Result
    <3>. QED BY <1>1, <2>1, <3>4, <3>7, ParseAlone
  <2>7. CASE h.kind = "listing"
    <3>1. spool' = [spool EXCEPT ![t] = h] /\ replaced' = replaced
      BY <1>6, <2>7 DEF Rename
    <3>2. FilesOK'
      BY <2>2, <2>4, <2>5, <2>7, <3>1, FilesCopied
    <3>3. \A n \in Names : spool'[n] = IF n = t THEN h ELSE spool[n]
      BY <3>1
    <3>. HIDE DEF t
    <3>4. \A n \in ctl["parse"].ready : Original(n) \in Names /\ Original(n) # t
      BY <2>3, NameOriginal DEF RunOK, Taken
    <3>5. spool'[t] = h /\ spool'[c] = h
      BY <2>3, <2>4, <2>7, <3>3
    <3>6. PrepOK("parse")'
      BY <2>1, <2>4, <2>7, <3>5 DEF PrepOK, Copied, t
    <3>7. ParseOK'
      BY <2>1, <2>2, <3>3, <3>4, <3>6 DEF ParseOK, InProgram
    <3>. QED BY <1>1, <2>1, <3>2, <3>7, ParseAlone
  <2>. QED BY <2>4, <2>6, <2>7
<1>7. CASE Unlink("parse")
  <2>1. \A q \in Phases \ {"parse"} : ctl'[q] = ctl[q]
    BY <1>7 DEF Unlink
  <2>2. ctl'["parse"].pc = "next" /\ ctl'["parse"].ready \subseteq ctl["parse"].ready \cup {t} /\ At("parse", "unlink")
    BY <1>7 DEF Unlink, CtlRec
  <2>3. c \in Untouched("parse") /\ spool' = [spool EXCEPT ![c] = Missing]
    BY <1>7, <2>2 DEF Unlink, RunOK, Preparing
  <2>4. c.sfx = "parse" /\ ~ c.tmp /\ t \in Names /\ t.tmp /\ t # c /\ Original(t) = c
    BY <1>2, <2>2, <2>3 DEF Taken
  <2>5. /\ spool[c].kind = h.kind /\ spool[c].ver = h.ver /\ h.kind \in {"listing", "failure"}
        /\ h.kind = "listing" => spool[c] = h
        /\ Copied("parse")
    BY <2>2, <2>4 DEF ParseOK, PrepOK
  <2>6. \A n \in Names : spool'[n] = IF n = c THEN Missing ELSE spool[n]
    BY <2>3
  <2>7. UNCHANGED <<fetched, settled, replaced>> /\ Missing.kind = "missing"
    BY <1>7, FileFields DEF Unlink, history
  <2>8. ASSUME NEW a \in fetched, Safe(c, a) PROVE Covered(a)'
    <3>1. a \in Nat /\ h.ver \in Nat /\ h.ver >= a
      BY <2>5, <2>8, FileFields DEF TypeOK, Safe
    <3>2. CASE h.kind = "failure"
      <4>1. PICK m \in Names : ~ m.tmp /\ m # c /\ Result(spool[m]) /\ spool[m].ver >= h.ver
        BY <2>5, <3>2 DEF Copied
      <4>2. spool[m].ver \in Nat
        BY FileFields
      <4>3. Safe(m, a)'
        BY <2>6, <3>1, <4>1, <4>2 DEF Safe
      <4>. QED BY <4>3 DEF Covered
    <3>3. CASE h.kind = "listing"
      <4>1. PICK m \in Names : m = t
        BY <2>4
      <4>2. spool[m] = h /\ m # c /\ Original(m) = c
        BY <2>4, <2>5, <3>3, <4>1 DEF Copied
      <4>. HIDE DEF t
      <4>3. Safe(m, a)'
        BY <2>6, <2>7, <3>1, <3>3, <4>2 DEF Safe, Result
      <4>. QED BY <4>3 DEF Covered
    <3>. QED BY <2>5, <3>2, <3>3
  <2>9. FilesOK'
    BY <2>3, <2>7, <2>8, FilesRemoved
  <2>10. \A n \in ctl'["parse"].ready : spool'[Original(n)] = Missing
    <3>1. \A n \in ctl["parse"].ready : Original(n) \in Names /\ spool[Original(n)] = Missing
      BY <2>2, NameOriginal DEF ParseOK, RunOK, Taken
    <3>. HIDE DEF t
    <3>. QED BY <2>2, <2>4, <2>6, <3>1
  <2>. QED BY <1>1, <2>1, <2>2, <2>9, <2>10, ParseBetween, ParseAlone
<1>. QED BY <1>3, <1>4, <1>5, <1>6, <1>7, <1>8

\* A run of the parse phase works on its files.
LEMMA KeptParseWorks ==
    ASSUME TypeOK, RunInv, Kept, ~ overlapped',
           \/ Run("parse") \/ Finish("parse") \/ Consume("parse") \/ ProgramFails("parse") \/ Kill("parse")
           \/ Parse \/ ParseFails
    PROVE  Kept'
<1>. /\ ctl \in [Phases -> CtlRec] /\ spool \in [Names -> Files] /\ attempts \in Nat
     /\ "parse" \in Phases /\ "retr" \in Phases /\ "update" \in Phases
     /\ RunOK("parse") /\ FilesOK /\ ParseOK
  BY PhasesAre DEF TypeOK, CtlRec, RunInv, Kept
<1>. ctl["parse"] \in CtlRec /\ Cur("parse") \in Names /\ ctl["parse"].held \in Files /\ ctl["parse"].out \in Names
  BY DEF CtlRec
<1>. DEFINE c == Cur("parse")
            h == ctl["parse"].held
            out == ctl["parse"].out
<1>1. ~ At("parse", "idle") /\ At("retr", "idle") /\ At("update", "idle")
  BY DEF Kept, Alone, Run, Finish, Consume, ProgramFails, Kill, Parse, Filter, WriteParsed, Publish, ParseFails
<1>2. \A n \in ctl["parse"].ready : n \in Names /\ n.sfx = "parse" /\ n.tmp /\ spool[Original(n)] = Missing
  BY <1>1 DEF ParseOK, RunOK, Taken
<1>3. ctl["parse"].pc \in InProgram =>
        /\ c \in Taken("parse") /\ c.sfx = "parse" /\ c.tmp
        /\ spool[c] = h /\ h.kind = "listing" /\ spool[Original(c)] = Missing
  BY DEF RunOK, ParseOK, Taken
<1>4. ctl["parse"].pc \in {"write", "publish", "pass_on"} =>
        out \in Taken("update") /\ out.sfx = "update" /\ out.tmp /\ out.num # Unnumbered
  BY DEF ParseOK, Taken
<1>5. CASE Finish("parse") \/ Kill("parse")
  <2>1. FilesOK'
    BY <1>5, FilesSame DEF Finish, Kill, history
  <2>. QED BY <1>1, <1>5, <2>1, IdleFields, ParseBetween, ParseAlone DEF Finish, Kill
<1>6. CASE ProgramFails("parse")
  <2>1. FilesOK'
    BY <1>6, FilesSame DEF ProgramFails, history
  <2>2. spool' = spool /\ Leave("parse", "next")
    BY <1>6 DEF ProgramFails
  <2>3. ParseOK'
    BY <1>2, <2>2, LeaveFields, ParseBetween
  <2>. QED BY <1>1, <2>1, <2>2, <2>3, LeaveFields, ParseAlone
<1>7. CASE Run("parse")
  <2>1. PICK n \in ctl["parse"].ready :
          ctl' = IF spool[n] = Missing THEN [ctl EXCEPT !["parse"].ready = @ \ {n}]
                 ELSE [ctl EXCEPT !["parse"].ready = @ \ {n}, !["parse"].cur = n, !["parse"].held = spool[n],
                                  !["parse"].pc = "filter"]
    BY <1>7 DEF Run, FirstPC
  <2>2. spool' = spool /\ At("parse", "next") /\ \A q \in Phases \ {"parse"} : ctl'[q] = ctl[q]
    BY <1>7, <2>1 DEF Run
  <2>3. FilesOK'
    BY <1>7, FilesSame DEF Run, history
  <2>4. ctl'["parse"].ready = ctl["parse"].ready \ {n}
    BY <2>1 DEF CtlRec
  <2>5. ParseOK'
    <3>1. CASE spool[n] = Missing
      <4>1. ctl'["parse"].pc = "next"
        BY <2>1, <2>2, <3>1 DEF CtlRec
      <4>. QED BY <1>2, <2>2, <2>4, <4>1, ParseBetween
    <3>2. CASE spool[n] # Missing
      <4>1. ctl'["parse"].pc = "filter" /\ ctl'["parse"].cur = n /\ ctl'["parse"].held = spool[n]
        BY <2>1, <3>2 DEF CtlRec
      <4>2. spool[n].kind = "listing"
        BY <1>2, <3>2 DEF FilesOK, KindsOK
      <4>. QED BY <1>2, <2>2, <2>4, <4>1, <4>2 DEF ParseOK, PrepOK
    <3>. QED BY <3>1, <3>2
  <2>. QED BY <1>1, <2>2, <2>3, <2>5, ParseAlone
<1>8. CASE Consume("parse")
  <2>1. PICK pc \in {"next", "reset"} : Leave("parse", pc)
    BY <1>8 DEF Consume
  <2>2. At("parse", "consume") /\ spool' = [spool EXCEPT ![c] = Missing] /\ UNCHANGED <<fetched, settled, replaced>>
    BY <1>8 DEF Consume, history
  <2>3. PICK m \in Untouched("update") : Result(spool[m]) /\ spool[m].ver >= h.ver
    BY <2>2 DEF ParseOK
  <2>4. c.sfx = "parse" /\ spool[c] = h
    BY <1>3, <2>2 DEF InProgram
  <2>5. m \in Names /\ m # c /\ ~ m.tmp /\ spool[m].ver \in Nat
    BY <2>4, FileFields DEF Untouched
  <2>6. \A n \in Names : spool'[n] = IF n = c THEN Missing ELSE spool[n]
    BY <2>2
  <2>7. ASSUME NEW a \in fetched, Safe(c, a) PROVE Covered(a)'
    <3>1. a \in Nat /\ h.ver \in Nat /\ h.ver >= a
      BY <2>4, <2>7, FileFields DEF TypeOK, Safe
    <3>2. Safe(m, a)'
      BY <2>3, <2>5, <2>6, <3>1 DEF Safe
    <3>. QED BY <2>5, <3>2 DEF Covered
  <2>8. FilesOK'
    BY <2>2, <2>7, FilesRemoved
  <2>9. \A n \in ctl["parse"].ready : spool'[Original(n)] = Missing
    BY <1>2, <2>6, NameOriginal
  <2>10. ParseOK'
    BY <2>1, <2>9, LeaveFields, ParseBetween
  <2>. QED BY <1>1, <2>1, <2>8, <2>10, LeaveFields, ParseAlone
<1>9. CASE Filter
  <2>1. PICK num \in Free("update", TRUE) :
          ctl' = [ctl EXCEPT !["parse"].pc = "write", !["parse"].out = TmpName("update", num)]
    BY <1>9 DEF Filter
  <2>2. /\ spool' = spool /\ At("parse", "filter")
        /\ ctl'["parse"].pc = "write" /\ ctl'["parse"].out = TmpName("update", num) /\ ctl'["parse"].cur = c
        /\ ctl'["parse"].held = h /\ ctl'["parse"].ready = ctl["parse"].ready
        /\ \A q \in Phases \ {"parse"} : ctl'[q] = ctl[q]
    BY <1>9, <2>1 DEF Filter, CtlRec
  <2>3. FilesOK'
    BY <1>9, FilesSame DEF Filter, history
  <2>4. TmpName("update", num) \in Taken("update") /\ TmpName("update", num).num # Unnumbered
    BY NameBuilt, PhasesAre DEF Free, Taken
  <2>5. spool[TmpName("update", num)] = Missing
    BY DEF Free, TmpName
  <2>6. ParseOK'
    BY <1>2, <1>3, <2>2, <2>4, <2>5 DEF ParseOK, PrepOK, Taken, InProgram
  <2>. QED BY <1>1, <2>2, <2>3, <2>6, ParseAlone
<1>10. CASE WriteParsed \/ ParseFails
  <2>1. PICK f \in Files, pc \in {"publish", "pass_on"} :
          /\ f.kind \in {"listing", "failure"} /\ f.ver = h.ver
          /\ f \in {h, [h EXCEPT !.kind = "failure"]}
          /\ spool' = [spool EXCEPT ![out] = f] /\ Goto("parse", pc)
    <3>1. CASE WriteParsed
      BY <1>3, <3>1 DEF WriteParsed, InProgram
    <3>2. CASE ParseFails
      <4>1. [h EXCEPT !.kind = "failure"] \in Files /\ [h EXCEPT !.kind = "failure"].kind = "failure"
            /\ [h EXCEPT !.kind = "failure"].ver = h.ver
        BY DEF Files, Kinds
      <4>. QED BY <3>2, <4>1 DEF ParseFails
    <3>. QED BY <1>10, <3>1, <3>2
  <2>2. At("parse", "write") /\ UNCHANGED <<fetched, settled, replaced>>
    BY <1>10 DEF WriteParsed, ParseFails, history
  <2>3. /\ ctl'["parse"].pc = pc /\ ctl'["parse"].cur = c /\ ctl'["parse"].held = h /\ ctl'["parse"].out = out
        /\ ctl'["parse"].ready = ctl["parse"].ready /\ \A q \in Phases \ {"parse"} : ctl'[q] = ctl[q]
    BY <2>1, GotoFields
  <2>4. /\ c \in Taken("parse") /\ c.sfx = "parse" /\ c.tmp /\ spool[c] = h /\ h.kind = "listing"
        /\ spool[Original(c)] = Missing /\ Original(c) \in Names /\ Original(c).sfx = "parse"
    BY <1>3, <2>2, NameOriginal DEF InProgram
  <2>5. out \in Taken("update") /\ out.sfx = "update" /\ out.num # Unnumbered /\ spool[out] = Missing
    BY <1>4, <2>2 DEF ParseOK
  <2>6. FilesOK'
    BY <2>1, <2>2, <2>4, <2>5, FilesParsed DEF Result
  <2>7. \A n \in Names : spool'[n] = IF n = out THEN f ELSE spool[n]
    BY <2>1
  <2>8. \A n \in ctl["parse"].ready : spool'[Original(n)] = Missing
    BY <1>2, <2>5, <2>7, NameOriginal
  <2>9. spool'[c] = h /\ spool'[Original(c)] = Missing /\ spool'[out] = f
    BY <2>4, <2>5, <2>7
  <2>10. ParseOK'
    BY <2>1, <2>3, <2>4, <2>5, <2>8, <2>9 DEF ParseOK, PrepOK, Taken
  <2>. QED BY <1>1, <2>3, <2>6, <2>10, ParseAlone
<1>11. CASE Publish
  <2>1. ctl["parse"].pc \in {"publish", "pass_on"} /\ UNCHANGED <<fetched, settled, replaced>>
    BY <1>11 DEF Publish, history
  <2>2. /\ c \in Taken("parse") /\ c.sfx = "parse" /\ c.tmp /\ spool[c] = h /\ h.kind = "listing"
        /\ spool[Original(c)] = Missing /\ Original(c) \in Names /\ Original(c).sfx = "parse"
    BY <1>3, <2>1, NameOriginal DEF InProgram
  <2>3. out \in Taken("update") /\ out.sfx = "update" /\ out.num # Unnumbered
    BY <1>4, <2>1
  <2>4. Result(spool[out]) /\ spool[out].ver = h.ver /\ spool[out] # Missing /\ h.ver \in Nat
    BY <2>1, <2>2, FileFields DEF ParseOK, Result, Files
  <2>5. PICK num \in Free("update", FALSE) :
          spool' = [spool EXCEPT ![Name("update", num)] = spool[out], ![out] = Missing]
    BY <1>11, <2>4 DEF Publish
  <2>. DEFINE m == Name("update", num)
  <2>6. m \in Untouched("update") /\ m.sfx = "update" /\ ~ m.tmp /\ m # out
    BY <2>3, NameBuilt DEF Free, Untouched, Taken
  <2>7. FilesOK'
    BY <2>1, <2>2, <2>3, <2>4, <2>5, FilesPublished
  <2>8. \A n \in Names : spool'[n] = IF n = out THEN Missing ELSE IF n = m THEN spool[out] ELSE spool[n]
    BY <2>5, <2>6
  <2>. HIDE DEF m
  <2>9. \A n \in ctl["parse"].ready : spool'[Original(n)] = Missing
    BY <1>2, <2>6, <2>8, NameOriginal
  <2>10. CASE Goto("parse", "consume")
    <3>1. /\ ctl'["parse"].pc = "consume" /\ ctl'["parse"].cur = c /\ ctl'["parse"].held = h
          /\ ctl'["parse"].ready = ctl["parse"].ready /\ \A q \in Phases \ {"parse"} : ctl'[q] = ctl[q]
      BY <2>10, GotoFields
    <3>2. spool'[c] = h /\ spool'[Original(c)] = Missing /\ spool'[m] = spool[out]
      BY <2>2, <2>3, <2>6, <2>8 DEF Untouched
    <3>3. Result(spool'[m]) /\ spool'[m].ver >= h.ver
      BY <2>4, <3>2
    <3>4. ParseOK'
      BY <2>2, <2>6, <2>9, <3>1, <3>2, <3>3 DEF ParseOK, PrepOK, Result, Untouched
    <3>. QED BY <1>1, <2>7, <3>1, <3>4, ParseAlone
  <2>11. CASE Leave("parse", "next")
    <3>1. ParseOK'
      BY <2>9, <2>11, LeaveFields, ParseBetween
    <3>. QED BY <1>1, <2>7, <2>11, <3>1, LeaveFields, ParseAlone
  <2>. QED BY <1>11, <2>10, <2>11 DEF Publish
<1>. QED BY <1>5, <1>6, <1>7, <1>8, <1>9, <1>10, <1>11 DEF Parse

\* A run of the update phase prepares its files.
LEMMA KeptUpdatePrepares ==
    ASSUME TypeOK, RunInv, Kept, ~ overlapped',
           Start("update") \/ StopFound("update") \/ Read("update") \/ ChooseName("update") \/ Rename("update") \/ Unlink("update")
    PROVE  Kept'
<1>. /\ ctl \in [Phases -> CtlRec] /\ spool \in [Names -> Files] /\ attempts \in Nat
     /\ "update" \in Phases /\ Phases = {"retr", "parse", "update"}
     /\ RunOK("update") /\ FilesOK /\ UpdateOK
  BY PhasesAre DEF TypeOK, CtlRec, RunInv, Kept
<1>. ctl["update"] \in CtlRec /\ Cur("update") \in Names /\ ctl["update"].held \in Files
  BY DEF CtlRec
<1>. DEFINE c == Cur("update")
            h == ctl["update"].held
            t == TmpName("update", c.num)
<1>1. At("parse", "idle")
  BY DEF Kept, Alone, Start, StopFound, Read, ChooseName, Rename, Unlink
<1>2. ASSUME c \in Untouched("update")
      PROVE  /\ c.sfx = "update" /\ ~ c.tmp /\ t \in Names /\ t.sfx = "update" /\ t.tmp /\ t.num = c.num
             /\ t # c /\ Original(t) = c
  BY <1>2, NameBuilt, NameParts, NameOriginal DEF Untouched, Original
<1>3. CASE Start("update")
  <2>1. ctl'["update"].pc = "next" /\ \A q \in Phases \ {"update"} : ctl'[q] = ctl[q]
    BY <1>3 DEF Start, Idle
  <2>2. FilesOK'
    BY <1>3, FilesSame DEF Start
  <2>. QED BY <1>1, <2>1, <2>2, UpdateBetween, UpdateRuns
<1>4. CASE StopFound("update")
  <2>1. FilesOK'
    BY <1>4, FilesSame DEF StopFound, history
  <2>. QED BY <1>1, <1>4, <2>1, IdleFields, UpdateBetween, UpdateRuns DEF StopFound
<1>5. CASE Read("update")
  <2>1. PICK n \in ctl["update"].list :
          /\ spool' = spool
          /\ ctl' = IF spool[n] = Missing THEN [ctl EXCEPT !["update"].list = @ \ {n}]
                    ELSE [ctl EXCEPT !["update"].list = @ \ {n}, !["update"].cur = n, !["update"].held = spool[n],
                                     !["update"].pc = IF Recorded("update", spool[n]) THEN "record"
                                                      ELSE IF spool[n].kind = "failure" THEN "choose" ELSE "rename"]
    BY <1>5 DEF Read
  <2>2. FilesOK'
    BY <1>5, <2>1, FilesSame DEF Read, history
  <2>3. At("update", "next") /\ \A q \in Phases \ {"update"} : ctl'[q] = ctl[q]
    BY <1>5, <2>1 DEF Read
  <2>4. n \in Names /\ n.sfx = "update"
    BY DEF RunOK, Untouched
  <2>5. UpdateOK'
    <3>1. CASE spool[n] = Missing
      <4>1. ctl'["update"].pc = "next"
        BY <2>1, <2>3, <3>1 DEF CtlRec
      <4>. QED BY <4>1, UpdateBetween
    <3>2. CASE spool[n] # Missing
      <4>1. /\ ctl'["update"].cur = n /\ ctl'["update"].held = spool[n]
            /\ ctl'["update"].pc = IF Recorded("update", spool[n]) THEN "record"
                                   ELSE IF spool[n].kind = "failure" THEN "choose" ELSE "rename"
        BY <2>1, <3>2 DEF CtlRec
      <4>2. IF n.num = Unnumbered THEN spool[n].kind = "deletion" ELSE spool[n].kind \in {"listing", "failure"}
        BY <2>4, <3>2 DEF FilesOK, KindsOK
      <4>3. spool' = spool
        BY <2>1
      <4>4. CASE Recorded("update", spool[n])
        <5>1. ctl'["update"].pc = "record" /\ spool[n].kind = "failure"
          BY <4>1, <4>4 DEF Recorded
        <5>. QED BY <4>1, <4>3, <5>1 DEF UpdateOK, PrepOK
      <4>5. CASE ~ Recorded("update", spool[n]) /\ spool[n].kind = "failure"
        <5>1. ctl'["update"].pc = "choose"
          BY <4>1, <4>5
        <5>. QED BY <2>4, <4>1, <4>2, <4>3, <4>5, <5>1 DEF UpdateOK, PrepOK
      <4>6. CASE ~ Recorded("update", spool[n]) /\ spool[n].kind # "failure"
        <5>1. ctl'["update"].pc = "rename" /\ ctl'["update"].held.kind # "failure"
          BY <4>1, <4>6
        <5>. QED BY <2>4, <4>1, <4>2, <4>3, <5>1 DEF UpdateOK, PrepOK
      <4>. QED BY <4>4, <4>5, <4>6
    <3>. QED BY <3>1, <3>2
  <2>. QED BY <1>1, <2>2, <2>3, <2>5, UpdateRuns
<1>8. CASE ChooseName("update")
  <2>1. PICK num \in Free("parse", FALSE) :
          ctl' = [ctl EXCEPT !["update"].pc = "rename", !["update"].out = Name("parse", num),
                             !["update"].held.time = Stamp]
    BY <1>8 DEF ChooseName, Onward
  <2>2. spool' = spool /\ FilesOK'
    BY <1>8, FilesSame DEF ChooseName, history
  <2>3. \A q \in Phases \ {"update"} : ctl'[q] = ctl[q]
    BY <2>1
  <2>4. /\ ctl'["update"].pc = "rename" /\ ctl'["update"].cur = c /\ ctl'["update"].out = Name("parse", num)
        /\ ctl'["update"].held = [h EXCEPT !.time = Stamp] /\ At("update", "choose")
    BY <1>8, <2>1 DEF ChooseName, CtlRec
  <2>5. ctl'["update"].held.kind = "failure" /\ ctl'["update"].held.ver = h.ver /\ h.kind = "failure"
    BY <2>4 DEF RunOK, Files
  <2>6. spool[Name("parse", num)] = Missing
    BY DEF Free, Name
  <2>7. spool[c].kind = h.kind /\ spool[c].ver = h.ver
    BY <2>4, <2>5 DEF UpdateOK, PrepOK
  <2>8. UpdateOK'
    BY <2>2, <2>4, <2>5, <2>6, <2>7 DEF UpdateOK, PrepOK
  <2>. QED BY <1>1, <2>2, <2>3, <2>8, UpdateRuns
<1>6. CASE Rename("update")
  <2>1. /\ ctl'["update"].pc = "unlink" /\ ctl'["update"].cur = c /\ ctl'["update"].held = h
        /\ \A q \in Phases \ {"update"} : ctl'[q] = ctl[q]
    BY <1>6, GotoFields DEF Rename
  <2>2. c \in Untouched("update") /\ At("update", "rename")
    BY <1>6 DEF Rename, RunOK, Preparing
  <2>3. \/ /\ spool[c].kind = h.kind /\ spool[c].ver = h.ver /\ h.kind \in {"listing", "failure"}
           /\ h.kind = "listing" => spool[c] = h
        \/ c.num = Unnumbered /\ h.kind = "deletion"
    BY <2>2 DEF UpdateOK, PrepOK
  <2>4. UNCHANGED <<fetched, settled>>
    BY <1>6 DEF Rename
  <2>5. CASE h.kind = "failure"
    <3>. DEFINE m == ctl["update"].out
    <3>1. /\ spool' = [spool EXCEPT ![m] = h] /\ replaced \subseteq replaced'
          /\ spool[m].time > h.time => spool[m].ver \in replaced'
      BY <1>6, <2>5 DEF Rename
    <3>2. m \in HeaderNames("update") /\ m \in Names /\ m.sfx = "parse" /\ ~ m.tmp
      BY <2>2, <2>5 DEF RunOK, HeaderNames, Onward
    <3>3. (spool[m] = Missing \/ spool[m].ver \in replaced') /\ h.ver \in Nat
      BY <2>2, <2>5, <3>1 DEF UpdateOK, Files
    <3>4. FilesOK'
      BY <2>4, <2>5, <3>1, <3>2, <3>3, FilesHeader
    <3>5. \A n \in Names : spool'[n] = IF n = m THEN h ELSE spool[n]
      BY <3>1
    <3>. HIDE DEF m
    <3>6. c # m /\ c \in Names
      BY <1>2, <2>2, <3>2
    <3>7. UpdateOK'
      BY <2>1, <2>3, <2>5, <3>2, <3>3, <3>5, <3>6 DEF UpdateOK, PrepOK, Copied, Result
    <3>. QED BY <1>1, <2>1, <3>4, <3>7, UpdateRuns
  <2>6. CASE h.kind # "failure"
    <3>1. spool' = [spool EXCEPT ![t] = h] /\ replaced' = replaced
      BY <1>6, <2>6 DEF Rename
    <3>2. FilesOK'
      BY <2>2, <2>3, <2>4, <2>6, <3>1, FilesCopied
    <3>3. t \in Names /\ t # c /\ c.sfx = "update"
      BY <1>2, <2>2
    <3>4. spool'[t] = h /\ spool'[c] = spool[c]
      BY <3>1, <3>3
    <3>5. UpdateOK'
      BY <2>1, <2>3, <2>6, <3>3, <3>4 DEF UpdateOK, PrepOK, Copied
    <3>. QED BY <1>1, <2>1, <3>2, <3>5, UpdateRuns
  <2>. QED BY <2>5, <2>6
<1>7. CASE Unlink("update")
  <2>1. \A q \in Phases \ {"update"} : ctl'[q] = ctl[q]
    BY <1>7 DEF Unlink
  <2>2. ctl'["update"].pc = "next" /\ At("update", "unlink")
    BY <1>7 DEF Unlink, CtlRec
  <2>3. c \in Untouched("update") /\ spool' = [spool EXCEPT ![c] = Missing]
    BY <1>7, <2>2 DEF Unlink, RunOK, Preparing
  <2>4. c.sfx = "update" /\ ~ c.tmp /\ t \in Names /\ t.tmp /\ t # c /\ Original(t) = c
    BY <1>2, <2>3
  <2>5. /\ Copied("update")
        /\ \/ /\ spool[c].kind = h.kind /\ spool[c].ver = h.ver /\ h.kind \in {"listing", "failure"}
              /\ h.kind = "listing" => spool[c] = h
           \/ c.num = Unnumbered
    BY <2>2 DEF UpdateOK, PrepOK
  <2>6. \A n \in Names : spool'[n] = IF n = c THEN Missing ELSE spool[n]
    BY <2>3
  <2>7. UNCHANGED <<fetched, settled, replaced>> /\ Missing.kind = "missing"
    BY <1>7, FileFields DEF Unlink, history
  <2>8. ASSUME NEW a \in fetched, Safe(c, a) PROVE Covered(a)'
    <3>1. /\ spool[c].kind = h.kind /\ spool[c].ver = h.ver /\ h.kind \in {"listing", "failure"}
          /\ h.kind = "listing" => spool[c] = h
      BY <2>4, <2>5, <2>8 DEF Safe, Result, FilesOK, KindsOK
    <3>2. a \in Nat /\ h.ver \in Nat /\ h.ver >= a
      BY <2>8, <3>1, FileFields DEF TypeOK, Safe
    <3>3. CASE h.kind = "failure"
      <4>1. PICK m \in Names : ~ m.tmp /\ m # c /\ Result(spool[m]) /\ spool[m].ver >= h.ver
        BY <2>5, <3>3 DEF Copied
      <4>2. spool[m].ver \in Nat
        BY FileFields
      <4>3. Safe(m, a)'
        BY <2>6, <3>2, <4>1, <4>2 DEF Safe
      <4>. QED BY <4>3 DEF Covered
    <3>4. CASE h.kind = "listing"
      <4>1. PICK m \in Names : m = t
        BY <2>4
      <4>2. spool[m] = h /\ m # c /\ Original(m) = c
        BY <2>4, <2>5, <3>4, <4>1 DEF Copied
      <4>. HIDE DEF t
      <4>3. Safe(m, a)'
        BY <2>6, <2>7, <3>2, <3>4, <4>2 DEF Safe, Result
      <4>. QED BY <4>3 DEF Covered
    <3>. QED BY <3>1, <3>3, <3>4
  <2>9. FilesOK'
    BY <2>3, <2>7, <2>8, FilesRemoved
  <2>. QED BY <1>1, <2>1, <2>2, <2>9, UpdateBetween, UpdateRuns
<1>. QED BY <1>3, <1>4, <1>5, <1>6, <1>7, <1>8

\* A run of the update phase works on its files.
LEMMA KeptUpdateWorks ==
    ASSUME TypeOK, RunInv, Kept, ~ overlapped',
           \/ Run("update") \/ Finish("update") \/ Consume("update") \/ ProgramFails("update") \/ Kill("update")
           \/ Update
    PROVE  Kept'
<1>. /\ ctl \in [Phases -> CtlRec] /\ spool \in [Names -> Files] /\ attempts \in Nat
     /\ "update" \in Phases /\ Phases = {"retr", "parse", "update"}
     /\ RunOK("update") /\ FilesOK /\ UpdateOK
  BY PhasesAre DEF TypeOK, CtlRec, RunInv, Kept
<1>. ctl["update"] \in CtlRec /\ Cur("update") \in Names /\ ctl["update"].held \in Files
  BY DEF CtlRec
<1>. DEFINE c == Cur("update")
            h == ctl["update"].held
<1>1. At("parse", "idle")
  BY DEF Kept, Alone, Run, Finish, Consume, ProgramFails, Kill, Update, RecordFailure, Forget, Apply,
         ApplyDeletion, ResetFailCount
<1>2. CASE Finish("update") \/ Kill("update")
  <2>1. FilesOK'
    BY <1>2, FilesSame DEF Finish, Kill, history
  <2>. QED BY <1>1, <1>2, <2>1, IdleFields, UpdateBetween, UpdateRuns DEF Finish, Kill
<1>3. CASE ProgramFails("update")
  <2>1. FilesOK'
    BY <1>3, FilesSame DEF ProgramFails, history
  <2>. QED BY <1>1, <1>3, <2>1, LeaveFields, UpdateBetween, UpdateRuns DEF ProgramFails
<1>4. CASE Run("update")
  <2>1. PICK n \in ctl["update"].ready :
          ctl' = IF spool[n] = Missing THEN [ctl EXCEPT !["update"].ready = @ \ {n}]
                 ELSE [ctl EXCEPT !["update"].ready = @ \ {n}, !["update"].cur = n, !["update"].held = spool[n],
                                  !["update"].pc = "apply"]
    BY <1>4 DEF Run, FirstPC
  <2>2. spool' = spool /\ At("update", "next") /\ \A q \in Phases \ {"update"} : ctl'[q] = ctl[q]
    BY <1>4, <2>1 DEF Run
  <2>3. FilesOK'
    BY <1>4, FilesSame DEF Run, history
  <2>4. \/ ctl'["update"].pc = "next"
        \/ ctl'["update"].pc = "apply" /\ ctl'["update"].cur = n /\ ctl'["update"].held = spool[n]
    BY <2>1, <2>2 DEF CtlRec
  <2>5. UpdateOK'
    BY <2>2, <2>4, UpdateBetween DEF UpdateOK, PrepOK
  <2>. QED BY <1>1, <2>2, <2>3, <2>5, UpdateRuns
<1>5. CASE Consume("update") \/ Forget
  <2>1. PICK pc \in {"next", "reset"} : Leave("update", pc)
    BY <1>5 DEF Consume, Forget
  <2>2. /\ ctl["update"].pc \in {"consume", "forget"} /\ spool' = [spool EXCEPT ![c] = Missing]
        /\ UNCHANGED <<fetched, settled, replaced>>
    BY <1>5 DEF Consume, Forget, history
  <2>3. Result(spool[c]) => spool[c].ver \in settled
    BY <2>2 DEF UpdateOK
  <2>4. ASSUME NEW a \in fetched, Safe(c, a) PROVE Covered(a)'
    BY <2>2, <2>3, <2>4 DEF Safe, Covered, GoneBy
  <2>5. FilesOK'
    BY <2>2, <2>4, FilesRemoved
  <2>. QED BY <1>1, <2>1, <2>5, LeaveFields, UpdateBetween, UpdateRuns
<1>6. CASE RecordFailure
  <2>1. /\ At("update", "record") /\ spool' = spool /\ settled' = settled \cup {h.ver} /\ UNCHANGED <<fetched, replaced>>
        /\ Goto("update", "forget")
    BY <1>6 DEF RecordFailure
  <2>2. /\ ctl'["update"].pc = "forget" /\ ctl'["update"].cur = c /\ ctl'["update"].held = h
        /\ \A q \in Phases \ {"update"} : ctl'[q] = ctl[q]
    BY <2>1, GotoFields
  <2>3. FilesOK'
    BY <2>1, FilesSame
  <2>4. UpdateOK'
    BY <2>1, <2>2 DEF UpdateOK, PrepOK
  <2>. QED BY <1>1, <2>2, <2>3, <2>4, UpdateRuns
<1>7. CASE Apply
  <2>1. /\ At("update", "apply") /\ spool' = spool /\ settled' = settled \cup {h.ver} /\ UNCHANGED <<fetched, replaced>>
    BY <1>7 DEF Apply
  <2>2. /\ ctl'["update"].pc = "consume" /\ ctl'["update"].cur = c
        /\ \A q \in Phases \ {"update"} : ctl'[q] = ctl[q]
    BY <1>7 DEF Apply, CtlRec
  <2>3. FilesOK'
    BY <2>1, FilesSame
  <2>4. UpdateOK'
    BY <2>1, <2>2 DEF UpdateOK, PrepOK
  <2>. QED BY <1>1, <2>2, <2>3, <2>4, UpdateRuns
<1>8. CASE ApplyDeletion
  <2>1. /\ At("update", "apply") /\ spool' = spool /\ UNCHANGED <<fetched, settled, replaced>>
        /\ h.kind = "deletion" /\ Goto("update", "consume")
    BY <1>8 DEF ApplyDeletion, history
  <2>2. /\ ctl'["update"].pc = "consume" /\ ctl'["update"].cur = c
        /\ \A q \in Phases \ {"update"} : ctl'[q] = ctl[q]
    BY <2>1, GotoFields
  <2>3. FilesOK'
    BY <2>1, FilesSame
  <2>4. UpdateOK'
    BY <2>1, <2>2 DEF UpdateOK, PrepOK, Result
  <2>. QED BY <1>1, <2>2, <2>3, <2>4, UpdateRuns
<1>9. CASE ResetFailCount
  <2>1. spool' = spool /\ UNCHANGED <<fetched, settled, replaced>> /\ Goto("update", "next")
    BY <1>9 DEF ResetFailCount, history
  <2>2. FilesOK'
    BY <2>1, FilesSame
  <2>. QED BY <1>1, <2>1, <2>2, GotoFields, UpdateBetween, UpdateRuns
<1>. QED BY <1>2, <1>3, <1>4, <1>5, <1>6, <1>7, <1>8, <1>9 DEF Update

\* A step of the retrieve phase, or a request: what it changes outside its own
\* names leaves the update phase what it needs.
Steady ==
    /\ \A n \in Names : n.sfx = "update" =>
          spool'[n] = spool[n] \/ (n.num = Unnumbered /\ ~ n.tmp /\ spool'[n].kind = "deletion")
    /\ \A n \in Names : n.sfx = "parse" => spool'[n] = spool[n] \/ \A t \in 0 .. Stamp : spool'[n].time > t
    /\ \A n \in Names : ~ n.tmp /\ Result(spool[n]) =>
          Result(spool'[n]) /\ spool'[n].ver \in {spool[n].ver, attempts + 1}

\* A run of the retrieve phase: the parse phase is idle and the update phase unchanged.
LEMMA RetrRuns ==
    ASSUME TypeOK, RunInv, Kept, At("parse", "idle"), \A q \in Phases \ {"retr"} : ctl'[q] = ctl[q],
           settled' = settled, FilesOK', RetrOK', Steady
    PROVE  Kept'
<1>1. At("parse", "idle")' /\ ctl'["update"] = ctl["update"]
  BY PhasesAre
<1>2. ParseOK'
  BY <1>1, ParseBetween
<1>3. UpdateOK'
  BY <1>1, UpdateKept DEF Steady
<1>. QED BY <1>1, <1>2, <1>3 DEF Kept, Alone

\* A step that leaves the spool directory alone leaves every name as it is.
LEMMA SteadySame == ASSUME spool' = spool PROVE Steady
BY DEF Steady

\* One name of the retrieve phase is written or unlinked.
LEMMA SteadyRetr ==
    ASSUME TypeOK, FilesOK, NEW n \in Names, n.sfx = "retr", NEW f, spool' = [spool EXCEPT ![n] = f]
    PROVE  /\ Steady
           /\ \A m \in Names : m.sfx # "retr" => spool'[m] = spool[m]
<1>1. \A m \in Names : m # n => spool'[m] = spool[m]
  BY DEF TypeOK
<1>2. ~ Result(spool[n])
  BY DEF Result, FilesOK, KindsOK
<1>. QED BY <1>1, <1>2 DEF Steady

\* A run of the retrieve phase.
LEMMA KeptRetr ==
    ASSUME TypeOK, RunInv, Kept, ~ overlapped',
           \/ Start("retr") \/ StopFound("retr") \/ Read("retr") \/ ChooseName("retr") \/ Rename("retr") \/ Unlink("retr")
           \/ Run("retr") \/ Finish("retr") \/ Consume("retr") \/ ProgramFails("retr") \/ Kill("retr")
           \/ Retrieve
    PROVE  Kept'
<1>. /\ ctl \in [Phases -> CtlRec] /\ spool \in [Names -> Files] /\ attempts \in Nat
     /\ "retr" \in Phases /\ RunOK("retr") /\ FilesOK /\ RetrOK
  BY PhasesAre DEF TypeOK, CtlRec, RunInv, Kept
<1>. ctl["retr"] \in CtlRec /\ Cur("retr") \in Names /\ ctl["retr"].held \in Files
  BY DEF CtlRec
<1>. DEFINE c == Cur("retr")
            h == ctl["retr"].held
<1>1. At("parse", "idle")
  BY PhasesAre DEF Kept, Alone, Start, StopFound, Read, ChooseName, Rename, Unlink, Run, Finish, Consume, ProgramFails, Kill,
                   Retrieve, Fetch
<1>2. ASSUME spool' = spool, UNCHANGED <<fetched, settled, replaced>>, \A q \in Phases \ {"retr"} : ctl'[q] = ctl[q], RetrOK'
      PROVE  Kept'
  BY <1>1, <1>2, FilesSame, SteadySame, RetrRuns
<1>3. ASSUME c.sfx = "retr", spool' = [spool EXCEPT ![c] = Missing], UNCHANGED <<fetched, settled, replaced>>,
             \A q \in Phases \ {"retr"} : ctl'[q] = ctl[q], ctl'["retr"].pc \in {"next", "reset"}
      PROVE  Kept'
  <2>1. \A a \in fetched : ~ Safe(c, a)
    BY <1>3 DEF Safe, Result, FilesOK, KindsOK
  <2>2. FilesOK'
    BY <1>3, <2>1, FilesRemoved
  <2>. QED BY <1>1, <1>3, <2>2, SteadyRetr, RetrRuns DEF RetrOK
<1>4. CASE Start("retr")
  <2>1. ctl'["retr"].pc = "next" /\ \A q \in Phases \ {"retr"} : ctl'[q] = ctl[q]
    BY <1>4 DEF Start, Idle
  <2>. QED BY <1>2, <1>4, <2>1 DEF Start, RetrOK
<1>5. CASE StopFound("retr") \/ Finish("retr") \/ Kill("retr")
  <2>1. ctl' = [ctl EXCEPT !["retr"] = Idle] /\ spool' = spool /\ UNCHANGED <<fetched, settled, replaced>>
    BY <1>5 DEF StopFound, Finish, Kill, history
  <2>. QED BY <1>2, <2>1, IdleFields DEF RetrOK
<1>6. CASE ProgramFails("retr")
  BY <1>2, <1>6, LeaveFields DEF ProgramFails, RetrOK, history
<1>7. CASE Run("retr")
  <2>1. PICK n \in ctl["retr"].ready :
          ctl' = IF spool[n] = Missing THEN [ctl EXCEPT !["retr"].ready = @ \ {n}]
                 ELSE [ctl EXCEPT !["retr"].ready = @ \ {n}, !["retr"].cur = n, !["retr"].held = spool[n],
                                  !["retr"].pc = "fetch"]
    BY <1>7 DEF Run, FirstPC
  <2>2. At("retr", "next") /\ ctl'["retr"].pc \in {"next", "fetch"} /\ \A q \in Phases \ {"retr"} : ctl'[q] = ctl[q]
    BY <1>7, <2>1 DEF Run, CtlRec
  <2>. QED BY <1>2, <1>7, <2>2 DEF Run, RetrOK, history
<1>8. CASE Consume("retr")
  <2>1. c.sfx = "retr"
    BY <1>8 DEF Consume, RunOK, InProgram, Taken
  <2>2. PICK pc \in {"next", "reset"} : Leave("retr", pc)
    BY <1>8 DEF Consume
  <2>. QED BY <1>3, <1>8, <2>1, <2>2, LeaveFields DEF Consume, history
<1>9. CASE Unlink("retr")
  <2>1. c.sfx = "retr"
    BY <1>9 DEF Unlink, RunOK, Preparing, Untouched
  <2>2. ctl'["retr"].pc = "next" /\ \A q \in Phases \ {"retr"} : ctl'[q] = ctl[q]
    BY <1>9 DEF Unlink, CtlRec
  <2>. QED BY <1>3, <1>9, <2>1, <2>2 DEF Unlink, history
<1>10. CASE Read("retr")
  <2>1. PICK n \in ctl["retr"].list :
          LET deletion == spool[n].kind = "deletion"
          IN  /\ spool' = IF deletion
                            THEN [spool EXCEPT ![Name("update", Unnumbered)] = spool[n], ![n] = Missing]
                            ELSE spool
              /\ ctl' = IF spool[n] = Missing \/ deletion THEN [ctl EXCEPT !["retr"].list = @ \ {n}]
                        ELSE [ctl EXCEPT !["retr"].list = @ \ {n}, !["retr"].cur = n, !["retr"].held = spool[n],
                                         !["retr"].pc = IF spool[n].kind = "failure" THEN "choose" ELSE "rename"]
    BY <1>10 DEF Read, Recorded
  <2>2. n \in Untouched("retr") /\ n \in Names /\ n.sfx = "retr" /\ At("retr", "next")
    BY <1>10 DEF RunOK, Untouched, Read
  <2>3. UNCHANGED <<fetched, settled, replaced>> /\ \A q \in Phases \ {"retr"} : ctl'[q] = ctl[q]
    BY <1>10, <2>1 DEF Read, history
  <2>4. \/ ctl'["retr"].pc = "next"
        \/ ctl'["retr"].held = spool[n] /\ spool[n] # Missing /\ spool[n].kind # "deletion"
    BY <2>1, <2>2 DEF CtlRec
  <2>5. RetrOK'
    BY <2>2, <2>4 DEF RetrOK, FilesOK, KindsOK
  <2>6. CASE spool[n].kind = "deletion"
    <3>1. FilesOK'
      BY <2>1, <2>2, <2>3, <2>6, FilesDeletion
    <3>. DEFINE o == Name("update", Unnumbered)
    <3>2. o \in Names /\ o.sfx = "update" /\ o.num = Unnumbered /\ ~ o.tmp
      BY NameBuilt, PhasesAre
    <3>3. \A m \in Names : spool'[m] = IF m = n THEN Missing ELSE IF m = o THEN spool[n] ELSE spool[m]
      BY <2>1, <2>2, <2>6, <3>2
    <3>. HIDE DEF o
    <3>4. ~ Result(spool[n]) /\ ~ Result(spool[o])
      BY <2>2, <3>2 DEF Result, FilesOK, KindsOK
    <3>5. Steady
      BY <2>2, <2>6, <3>2, <3>3, <3>4 DEF Steady
    <3>. QED BY <1>1, <2>3, <2>5, <3>1, <3>5, RetrRuns
  <2>. QED BY <1>2, <2>1, <2>3, <2>5, <2>6
<1>13. CASE ChooseName("retr")
  BY <1>13 DEF ChooseName, RunOK, RetrOK
<1>11. CASE Rename("retr")
  <2>. DEFINE t == TmpName("retr", c.num)
  <2>1. c \in Untouched("retr") /\ h.kind = "request"
    BY <1>11 DEF Rename, RunOK, Preparing, RetrOK
  <2>2. t \in Names /\ t.sfx = "retr"
    BY NameBuilt, NameParts
  <2>3. spool' = [spool EXCEPT ![t] = h] /\ UNCHANGED <<fetched, settled, replaced>> /\ Goto("retr", "unlink")
    BY <1>11, <2>1 DEF Rename, history
  <2>4. FilesOK'
    BY <2>1, <2>3, FilesCopied
  <2>. HIDE DEF t
  <2>5. Steady
    BY <2>2, <2>3, SteadyRetr
  <2>. QED BY <1>1, <2>3, <2>4, <2>5, GotoFields, RetrRuns DEF RetrOK
<1>12. CASE Retrieve
  <2>1. PICK kind \in {"listing", "failure"} : Fetch(kind)
    BY <1>12 DEF Retrieve
  <2>. DEFINE n == Name("parse", 0)
              f == File(kind, attempts + 1, 2 * (attempts + 1))
  <2>2. n \in Names /\ n.sfx = "parse" /\ Result(f) /\ f.ver = attempts + 1
    BY NameBuilt, PhasesAre, FileFields DEF Result
  <2>3. spool' = [spool EXCEPT ![n] = f] /\ settled' = settled /\ Goto("retr", "consume")
    BY <2>1 DEF Fetch
  <2>4. FilesOK'
    BY <2>1, FilesFetched
  <2>. HIDE DEF n, f
  <2>5. \A m \in Names : spool'[m] = IF m = n THEN f ELSE spool[m]
    BY <2>3
  <2>6. Steady
    <3>1. \A t \in 0 .. Stamp : f.time > t
      BY DEF f, File, Stamp
    <3>. QED BY <2>2, <2>5, <3>1 DEF Steady
  <2>. QED BY <1>1, <2>3, <2>4, <2>6, GotoFields, RetrRuns DEF RetrOK
<1>. QED BY <1>4, <1>5, <1>6, <1>7, <1>8, <1>9, <1>10, <1>11, <1>12, <1>13
\* While a request is written, a run of the parse phase may be on.
LEMMA ParseKept ==
    ASSUME TypeOK, RunInv, Kept, ctl' = ctl, \A n \in Names : n.sfx # "retr" => spool'[n] = spool[n]
    PROVE  ParseOK'
<1>. ctl["parse"] \in CtlRec /\ RunOK("parse") /\ ParseOK
  BY PhasesAre DEF TypeOK, CtlRec, RunInv, Kept
<1>. DEFINE c == Cur("parse")
            h == ctl["parse"].held
            t == TmpName("parse", c.num)
<1>1. c \in Names /\ ctl["parse"].out \in Names
  BY DEF CtlRec
<1>2. t \in Names /\ t.sfx = "parse"
  BY <1>1, NameParts, NameBuilt, PhasesAre
<1>3. ctl["parse"].pc \in Preparing \cup InProgram => c.sfx = "parse" /\ spool'[c] = spool[c]
  BY <1>1 DEF RunOK, Untouched, Taken
<1>4. PrepOK("parse")'
  <2>1. spool'[t] = spool[t]
    BY <1>2
  <2>2. ASSUME At("parse", "unlink"), h.kind = "failure"
        PROVE  \E m \in Names : ~ m.tmp /\ m # c /\ Result(spool'[m]) /\ spool'[m].ver >= h.ver
    <3>1. PICK m \in Names : ~ m.tmp /\ m # c /\ Result(spool[m]) /\ spool[m].ver >= h.ver
      BY <2>2 DEF ParseOK, PrepOK, Copied
    <3>2. m.sfx # "retr"
      BY <3>1 DEF Result, Kept, FilesOK, KindsOK
    <3>. QED BY <3>1, <3>2
  <2>. QED BY <1>3, <2>1, <2>2 DEF ParseOK, PrepOK, Copied, Preparing
<1>5. ~ At("parse", "idle") => \A n \in ctl["parse"].ready : spool'[Original(n)] = Missing
  BY NameOriginal DEF ParseOK, RunOK, Taken
<1>6. ctl["parse"].pc \in InProgram =>
        spool'[c] = h /\ h.kind = "listing" /\ spool'[Original(c)] = Missing
  BY <1>1, <1>3, NameOriginal DEF ParseOK
<1>7. ctl["parse"].pc \in {"write", "publish", "pass_on"} => spool'[ctl["parse"].out] = spool[ctl["parse"].out]
  BY <1>1 DEF ParseOK, Taken
<1>8. At("parse", "consume") =>
        \E m \in Untouched("update") : Result(spool'[m]) /\ spool'[m].ver >= h.ver
  <2>. HAVE At("parse", "consume")
  <2>1. PICK m \in Untouched("update") : Result(spool[m]) /\ spool[m].ver >= h.ver
    BY DEF ParseOK
  <2>. QED BY <2>1 DEF Untouched
<1>9. At("parse", "rename") /\ h.kind = "failure" => spool'[ctl["parse"].out] = Missing
  BY <1>1 DEF ParseOK, RunOK, HeaderNames, Onward
<1>. QED BY <1>4, <1>5, <1>6, <1>7, <1>8, <1>9 DEF ParseOK

\* The steps of arretrieve and the administrator.
LEMMA KeptOutside ==
    ASSUME TypeOK, RunInv, Kept,
           Request \/ RequestDeletion \/ Stop \/ Resume \/ RequeueAny \/ UNCHANGED vars
    PROVE  Kept'
<1>. attempts \in Nat /\ spool \in [Names -> Files] /\ FilesOK /\ Alone /\ RetrOK
  BY DEF TypeOK, Kept
<1>1. CASE Stop \/ Resume \/ UNCHANGED vars
  <2>1. spool' = spool /\ ctl' = ctl /\ UNCHANGED <<fetched, settled, replaced>>
    BY <1>1 DEF Stop, Resume, vars, history
  <2>2. FilesOK' /\ ParseOK'
    BY <2>1, FilesSame, ParseKept
  <2>3. UpdateOK'
    BY <2>1, UpdateKept
  <2>. QED BY <2>1, <2>2, <2>3 DEF Kept, Alone, RetrOK
<1>2. ASSUME NEW kind \in {"request", "deletion"}, Ask(kind) PROVE Kept'
  <2>1. PICK num \in Free("retr", FALSE) : spool' = [spool EXCEPT ![Name("retr", num)] = File(kind, 0, 0)]
    BY <1>2 DEF Ask
  <2>2. Name("retr", num) \in Names /\ Name("retr", num).sfx = "retr"
    BY NameBuilt, PhasesAre DEF Free
  <2>3. Steady /\ \A n \in Names : n.sfx # "retr" => spool'[n] = spool[n]
    BY <2>1, <2>2, SteadyRetr
  <2>4. ctl' = ctl /\ settled' = settled
    BY <1>2 DEF Ask, history
  <2>5. FilesOK'
    BY <1>2, FilesAsk
  <2>6. ParseOK'
    BY <2>3, <2>4, ParseKept
  <2>7. UpdateOK'
    BY <2>3, <2>4, UpdateKept DEF Steady
  <2>. QED BY <2>4, <2>5, <2>6, <2>7 DEF Kept, Alone, RetrOK
<1>3. ASSUME NEW n \in Names, Requeue(n) PROVE Kept'
  <2>1. ctl' = ctl /\ \A ph \in Phases : At(ph, "idle")
    BY <1>3 DEF Requeue
  <2>2. FilesOK'
    BY <1>3, FilesRequeue
  <2>3. ParseOK' /\ UpdateOK'
    BY <2>1, PhasesAre, ParseBetween, UpdateBetween
  <2>. QED BY <2>1, <2>2, <2>3, PhasesAre DEF Kept, Alone, RetrOK
<1>. QED BY <1>1, <1>2, <1>3 DEF Request, RequestDeletion, RequeueAny

\* Nothing is fetched in the initial states.
LEMMA KeptInit == Init => KeptInv
<1>. SUFFICES ASSUME Init PROVE Kept
  BY DEF KeptInv
<1>1. Missing.kind = "missing" /\ \A n \in Names : spool[n] = Missing
  BY FileFields DEF Init
<1>2. \A ph \in Phases : ctl[ph].pc = "idle"
  BY DEF Init, Idle
<1>3. FilesOK
  BY <1>1 DEF FilesOK, KindsOK, StageOrder, Init
<1>. QED BY <1>2, <1>3, PhasesAre DEF Kept, Alone, RetrOK, ParseOK, UpdateOK, PrepOK, InProgram

\* Runs that have coincided stay so marked.
LEMMA OverlapStays == TypeOK /\ [Next]_vars => (overlapped => overlapped')
<1>. SUFFICES ASSUME [Next]_vars PROVE overlapped => overlapped'
  OBVIOUS
<1>1. ASSUME NEW ph \in Phases, PhaseStep(ph) \/ ProgramFails(ph) \/ Kill(ph)
      PROVE  overlapped => overlapped'
  BY <1>1 DEF PhaseStep, Start, StopFound, Read, ChooseName, Rename, Unlink, Run, Consume, Finish, Retrieve, Fetch, Parse,
              Filter, WriteParsed, Publish, Update, RecordFailure, Forget, Apply, ApplyDeletion, ResetFailCount,
              ProgramFails, Kill, history
<1>2. CASE Request \/ RequestDeletion \/ Stop \/ Resume \/ RequeueAny \/ ParseFails \/ UNCHANGED vars
  BY <1>2 DEF Request, RequestDeletion, Ask, Stop, Resume, RequeueAny, Requeue, ParseFails, vars, history
<1>. QED BY <1>1, <1>2 DEF Next

\* Every step keeps every listing that was fetched.
LEMMA KeptStep == TypeOK /\ RunInv /\ KeptInv /\ [Next]_vars => KeptInv'
<1>. SUFFICES ASSUME TypeOK, RunInv, KeptInv, [Next]_vars, ~ overlapped' PROVE Kept'
  BY DEF KeptInv
<1>1. Kept
  BY OverlapStays DEF KeptInv
<1>2. CASE Request \/ RequestDeletion \/ Stop \/ Resume \/ RequeueAny \/ UNCHANGED vars
  BY <1>1, <1>2, KeptOutside
<1>3. ASSUME NEW ph \in Phases, PhaseStep(ph) \/ ProgramFails(ph) \/ Kill(ph) PROVE Kept'
  <2>1. CASE ph = "retr"
    BY <1>1, <1>3, <2>1, KeptRetr DEF PhaseStep
  <2>2. CASE ph = "parse"
    BY <1>1, <1>3, <2>2, KeptParsePrepares, KeptParseWorks DEF PhaseStep
  <2>3. CASE ph = "update"
    BY <1>1, <1>3, <2>3, KeptUpdatePrepares, KeptUpdateWorks DEF PhaseStep
  <2>. QED BY <2>1, <2>2, <2>3, PhasesAre
<1>4. CASE ParseFails
  BY <1>1, <1>4, KeptParseWorks
<1>. QED BY <1>2, <1>3, <1>4 DEF Next

\* What NothingLost says follows from the places every listing may be in.
LEMMA KeptShows == KeptInv => NothingLost
BY DEF KeptInv, Kept, FilesOK, Covered, Safe, Result, NothingLost, InSpool

\* No listing that a retrieval obtained is lost on its way to update_anonftp,
\* through any number of renames, kills, failing programs and stop files and
\* any sequence of arcontrol runs in which no run of the parse phase coincides
\* with one of another phase: the order of copy, rename and unlink in
\* preprocess_file and parse_anonftp leaves one file with the listing, or a
\* later attempt's result, at every step.
THEOREM CycleLosesNothing == Spec => []NothingLost
<1>1. Init => TypeOK /\ RunInv /\ KeptInv
  BY InitType, RunInit, KeptInit
<1>2. TypeOK /\ RunInv /\ KeptInv /\ [Next]_vars => (TypeOK /\ RunInv /\ KeptInv)'
  BY StepType, RunStep, KeptStep
<1>. QED BY <1>1, <1>2, KeptShows, PTL DEF Spec
-----------------------------------------------------------------------------
(***************************************************************************)
(* Failures are counted once                                               *)
(***************************************************************************)
\* An error header that is still to be worked on: a file nobody is about to
\* unlink, or one that a run has read and not yet passed on or recorded.
Doomed(n) == \E ph \in Phases : ctl[ph].pc \in Preparing /\ Cur(ph) = n
FileCopy(n, v) == spool[n].kind = "failure" /\ spool[n].ver = v /\ ~ Doomed(n)
RunCopy(ph, v) == ctl[ph].pc \in {"choose", "rename", "record"} /\ ctl[ph].held.kind = "failure" /\ ctl[ph].held.ver = v

\* The failure of an attempt is in one such place, or it is recorded.
UniqueAt(v) ==
    /\ \A n, m \in Names : FileCopy(n, v) /\ FileCopy(m, v) => n = m
    /\ \A n \in Names, ph \in Phases : ~ (FileCopy(n, v) /\ RunCopy(ph, v))
    /\ \A ph, q \in Phases : RunCopy(ph, v) /\ RunCopy(q, v) => ph = q
    /\ v \in failed => (\A n \in Names : ~ FileCopy(n, v)) /\ (\A ph \in Phases : ~ RunCopy(ph, v))
Unique == \A v \in Nat : UniqueAt(v)

\* What a file says of its attempt: until a parser has failed (k = 0), no attempt
\* has both a listing and an error header.
TrueTo(f, F, k) ==
    /\ f.kind = "missing" => f = Missing
    /\ f.kind = "listing" => f.ver \in F
    /\ f.kind = "failure" /\ k = 0 => f.ver \notin F
Versions ==
    /\ \A n \in Names : TrueTo(spool[n], fetched, faults.failures)
    /\ \A ph \in Phases : TrueTo(ctl[ph].held, fetched, faults.failures)
    /\ faults.failures = 0 => failed \cap fetched = {}

\* What the parse phase works on; an error header with _t is what it writes.
Parsable(f) == f.kind \in {"missing", "listing", "failure"}
Inputs ==
    /\ \A n \in Names : n.sfx = "parse" => Parsable(spool[n])
    /\ Parsable(ctl["parse"].held)
    /\ \A n \in Names : n.tmp /\ spool[n].kind = "failure" =>
          ctl["parse"].pc \in {"publish", "pass_on"} /\ n = ctl["parse"].out
    /\ ctl["parse"].pc \in {"filter", "write"} => ctl["parse"].held.kind = "listing"
    /\ ctl["parse"].pc \in {"write", "publish", "pass_on"} => ctl["parse"].out \in Taken("update")

\* fail_count, and where update_anonftp sets it to 0 once more.
Counted ==
    /\ rec.fails = Cardinality(failed)
    /\ ctl["update"].applied => At("update", "consume") /\ failed = {}
    /\ At("update", "reset") => failed = {}
    /\ At("update", "record") => ctl["update"].held.kind = "failure"

Counting == Unique /\ Versions /\ Inputs /\ Counted
Few == faults.kills = 0 /\ faults.failures <= 1
CountInv == Few => Counting

\* The facts about types that the steps need.
LEMMA CountTypes ==
    ASSUME TypeOK, RunInv
    PROVE  /\ ctl \in [Phases -> CtlRec] /\ spool \in [Names -> Files] /\ attempts \in Nat
           /\ Phases = {"retr", "parse", "update"} /\ faults.failures \in Nat
           /\ \A ph \in Phases : /\ RunOK(ph) /\ ctl[ph] \in CtlRec
                                 /\ Cur(ph) \in Names /\ ctl[ph].held \in Files /\ ctl[ph].out \in Names
           /\ Missing.kind = "missing" /\ Missing \in Files
<1>1. ctl \in [Phases -> CtlRec] /\ spool \in [Names -> Files] /\ attempts \in Nat /\ faults.failures \in Nat
  BY DEF TypeOK, CtlRec
<1>2. \A ph \in Phases : ctl[ph] \in CtlRec
  BY <1>1
<1>3. \A ph \in Phases : Cur(ph) \in Names /\ ctl[ph].held \in Files /\ ctl[ph].out \in Names
  BY <1>2 DEF CtlRec
<1>. QED BY <1>1, <1>2, <1>3, PhasesAre, FileFields DEF RunInv

\* A later failure of the parser takes nothing from what is true; the absent
\* file and a new stamp are true to everything.
LEMMA TrueFacts ==
    /\ \A f, F : \A k, j \in Nat : TrueTo(f, F, k) /\ k <= j => TrueTo(f, F, j)
    /\ \A F, k : TrueTo(Missing, F, k)
    /\ \A f \in Files : \A F, k, t : TrueTo(f, F, k) /\ f.kind # "missing" => TrueTo([f EXCEPT !.time = t], F, k)
BY DEF TrueTo, Missing, File, Files

\* What another step leaves of the places of the error headers.
LEMMA DoomedKept ==
    ASSUME NEW ph \in Phases, \A q \in Phases \ {ph} : ctl'[q] = ctl[q],
           ctl[ph].pc \in Preparing => ctl'[ph].pc \in Preparing /\ ctl'[ph].cur = Cur(ph)
    PROVE  \A n \in Names : Doomed(n) => Doomed(n)'
<1>1. ASSUME NEW n \in Names, NEW q \in Phases, ctl[q].pc \in Preparing, Cur(q) = n  PROVE Doomed(n)'
  <2>1. CASE q = ph
    BY <1>1, <2>1 DEF Doomed
  <2>2. CASE q # ph
    <3>1. ctl'[q] = ctl[q]
      BY <2>2
    <3>. QED BY <1>1, <3>1 DEF Doomed
  <2>. QED BY <2>1, <2>2
<1>. QED BY <1>1 DEF Doomed

\* A run that is not about to rename or record has no copy in its hands.
LEMMA RunCopyGone ==
    ASSUME NEW ph \in Phases, \A q \in Phases \ {ph} : ctl'[q] = ctl[q],
           ctl'[ph].pc \notin {"choose", "rename", "record"}
    PROVE  \A q \in Phases, v \in Nat : RunCopy(q, v)' => RunCopy(q, v) /\ q # ph
<1>1. ASSUME NEW q \in Phases, NEW v \in Nat, RunCopy(q, v)'  PROVE RunCopy(q, v) /\ q # ph
  <2>1. q # ph
    BY <1>1 DEF RunCopy
  <2>2. ctl'[q] = ctl[q]
    BY <2>1
  <2>. QED BY <1>1, <2>1, <2>2 DEF RunCopy
<1>. QED BY <1>1

\* No place takes an error header it has not had.
LEMMA NoNewCopy ==
    ASSUME TypeOK, RunInv, Unique, NEW ph \in Phases, \A q \in Phases \ {ph} : ctl'[q] = ctl[q],
           failed' \subseteq failed,
           \A n \in Names : spool'[n].kind = "failure" => spool[n].kind = "failure" /\ spool'[n].ver = spool[n].ver,
           ctl[ph].pc \in Preparing =>
              (ctl'[ph].pc \in Preparing /\ ctl'[ph].cur = Cur(ph)) \/ spool'[Cur(ph)].kind # "failure",
           ctl'[ph].pc \in {"choose", "rename", "record"} =>
              /\ ctl[ph].pc \in {"choose", "rename", "record"}
              /\ ctl'[ph].held.kind = ctl[ph].held.kind /\ ctl'[ph].held.ver = ctl[ph].held.ver
    PROVE  Unique'
<1>1. ASSUME NEW n \in Names, NEW v \in Nat, FileCopy(n, v)'  PROVE FileCopy(n, v)
  <2>1. spool'[n].kind = "failure" /\ spool'[n].ver = v /\ ~ Doomed(n)'
    BY <1>1 DEF FileCopy
  <2>2. ASSUME NEW q \in Phases, ctl[q].pc \in Preparing, Cur(q) = n  PROVE FALSE
    <3>1. CASE q = ph
      BY <2>1, <2>2, <3>1 DEF Doomed
    <3>2. CASE q # ph
      <4>1. ctl'[q] = ctl[q]
        BY <3>2
      <4>. QED BY <2>1, <2>2, <4>1 DEF Doomed
    <3>. QED BY <3>1, <3>2
  <2>. QED BY <2>1, <2>2 DEF FileCopy, Doomed
<1>2. ASSUME NEW q \in Phases, NEW v \in Nat, RunCopy(q, v)'  PROVE RunCopy(q, v)
  BY <1>2 DEF RunCopy
<1>3. ASSUME NEW v \in Nat  PROVE UniqueAt(v)'
  <2>1. UniqueAt(v)
    BY DEF Unique
  <2>. QED BY <1>1, <1>2, <2>1 DEF UniqueAt
<1>. QED BY <1>3 DEF Unique

\* Files and runs hold what some file or run has held.
LEMMA VersionsKept ==
    ASSUME TypeOK, RunInv, Versions, NEW ph \in Phases, \A q \in Phases \ {ph} : ctl'[q] = ctl[q],
           fetched' = fetched, faults'.failures \in {faults.failures, faults.failures + 1},
           faults.failures = 0 => failed' \cap fetched = {},
           \A n \in Names : TrueTo(spool'[n], fetched, faults.failures),
           TrueTo(ctl'[ph].held, fetched, faults.failures)
    PROVE  Versions'
<1>1. faults.failures \in Nat /\ faults'.failures \in Nat /\ faults.failures <= faults'.failures
  BY CountTypes
<1>2. \A f : TrueTo(f, fetched, faults.failures) => TrueTo(f, fetched', faults'.failures)
  BY <1>1, TrueFacts
<1>3. \A n \in Names : TrueTo(spool'[n], fetched', faults'.failures)
  BY <1>2
<1>4. ASSUME NEW q \in Phases  PROVE TrueTo(ctl'[q].held, fetched', faults'.failures)
  <2>1. TrueTo(ctl'[q].held, fetched, faults.failures)
    BY DEF Versions
  <2>. QED BY <1>2, <2>1
<1>5. faults'.failures = 0 => failed' \cap fetched' = {}
  BY <1>1
<1>. QED BY <1>3, <1>4, <1>5 DEF Versions

\* Steps of others leave the parse phase what it needs.
LEMMA InputsKept ==
    ASSUME Inputs, ctl'["parse"] = ctl["parse"],
           \A n \in Names :
              \/ spool'[n] = spool[n]
              \/ spool'[n].kind # "failure" /\ (n.sfx = "parse" => Parsable(spool'[n]))
              \/ ~ n.tmp /\ Parsable(spool'[n])
    PROVE  Inputs'
<1>1. \A n \in Names : n.sfx = "parse" => Parsable(spool'[n])
  BY DEF Inputs
<1>2. \A n \in Names : n.tmp /\ spool'[n].kind = "failure" => spool'[n] = spool[n]
  OBVIOUS
<1>. QED BY <1>1, <1>2 DEF Inputs, Taken

\* So do its own steps before and after the parser.
LEMMA InputsBetween ==
    ASSUME Inputs, ctl["parse"].pc \notin {"publish", "pass_on"},
           ctl'["parse"].pc \notin {"filter", "write", "publish", "pass_on"}, Parsable(ctl'["parse"].held),
           \A n \in Names :
              \/ spool'[n] = spool[n]
              \/ spool'[n].kind # "failure" /\ (n.sfx = "parse" => Parsable(spool'[n]))
              \/ ~ n.tmp /\ Parsable(spool'[n])
    PROVE  Inputs'
<1>1. \A n \in Names : n.sfx = "parse" => Parsable(spool'[n])
  BY DEF Inputs
<1>2. \A n \in Names : n.tmp => spool'[n].kind # "failure"
  BY DEF Inputs
<1>. QED BY <1>1, <1>2 DEF Inputs

\* The count of failures stays right while the record and the update phase stand still.
LEMMA CountedKept ==
    ASSUME Counted, UNCHANGED <<rec, failed>>,
           ctl'["update"] = ctl["update"] \/ (~ ctl'["update"].applied /\ ctl'["update"].pc \notin {"reset", "record"})
    PROVE  Counted'
BY DEF Counted
-----------------------------------------------------------------------------
\* Steps that make no error header, and what they have to keep.
LEMMA QuietCount ==
    ASSUME TypeOK, RunInv, Counting, NEW ph \in Phases, \A q \in Phases \ {ph} : ctl'[q] = ctl[q],
           fetched' = fetched, failed' \subseteq failed,
           faults'.failures \in {faults.failures, faults.failures + 1},
           \A n \in Names :
              \/ spool'[n] \in {spool[n], Missing}
              \/ spool'[n].kind # "failure" /\ TrueTo(spool'[n], fetched, faults.failures),
           ctl[ph].pc \in Preparing =>
              (ctl'[ph].pc \in Preparing /\ ctl'[ph].cur = Cur(ph)) \/ spool'[Cur(ph)].kind # "failure",
           ctl'[ph].pc \notin {"choose", "rename", "record"},
           TrueTo(ctl'[ph].held, fetched, faults.failures)
    PROVE  Unique' /\ Versions'
<1>. USE CountTypes
<1>1. \A n \in Names : spool'[n].kind = "failure" => spool[n].kind = "failure" /\ spool'[n].ver = spool[n].ver
  OBVIOUS
<1>2. Unique'
  BY <1>1, NoNewCopy DEF Counting
<1>3. \A n \in Names : TrueTo(spool'[n], fetched, faults.failures)
  BY TrueFacts DEF Counting, Versions
<1>4. Versions'
  BY <1>3, VersionsKept DEF Counting, Versions
<1>. QED BY <1>2, <1>4

\* Requests, stop files and the names that are given back.
LEMMA OutsideCount ==
    ASSUME TypeOK, RunInv, Counting, Request \/ RequestDeletion \/ Stop \/ Resume \/ RequeueAny
    PROVE  Counting'
<1>. USE CountTypes
<1>1. ctl' = ctl /\ UNCHANGED <<rec, fetched, failed>> /\ faults'.failures = faults.failures
  BY DEF Request, RequestDeletion, Ask, Stop, Resume, RequeueAny, Requeue, world, history, TypeOK
<1>2. \A n \in Names :
         \/ spool'[n] \in {spool[n], Missing}
         \/ /\ spool'[n].kind # "failure" /\ TrueTo(spool'[n], fetched, faults.failures)
            /\ n.sfx = "parse" => Parsable(spool'[n])
  <2>1. ASSUME NEW kind \in {"request", "deletion"}, Ask(kind), NEW m \in Names
        PROVE  \/ spool'[m] = spool[m]
               \/ spool'[m].kind = kind /\ m.sfx = "retr"
    <3>1. PICK num \in Free("retr", FALSE) : spool' = [spool EXCEPT ![Name("retr", num)] = File(kind, 0, 0)]
      BY <2>1 DEF Ask
    <3>2. Name("retr", num).sfx = "retr" /\ File(kind, 0, 0).kind = kind
      BY DEF Name, File
    <3>. QED BY <3>1, <3>2
  <2>2. ASSUME NEW n \in Names, Requeue(n), NEW m \in Names
        PROVE  \/ spool'[m] \in {spool[m], Missing}
               \/ /\ spool'[m].kind # "failure" /\ TrueTo(spool'[m], fetched, faults.failures)
                  /\ m.sfx = "parse" => Parsable(spool'[m])
    <3>1. n.tmp /\ At("parse", "idle") /\ spool' = [spool EXCEPT ![Name(n.sfx, n.num)] = spool[n], ![n] = Missing]
      BY <2>2 DEF Requeue
    <3>2. spool[n].kind # "failure" /\ TrueTo(spool[n], fetched, faults.failures) /\ (n.sfx = "parse" => Parsable(spool[n]))
      BY <3>1 DEF Counting, Inputs, Versions
    <3>3. Name(n.sfx, n.num).sfx = n.sfx
      BY DEF Name
    <3>. QED BY <3>1, <3>2, <3>3
  <2>3. \A m \in Names : spool'[m].kind \in {"request", "deletion"} =>
           spool'[m].kind # "failure" /\ TrueTo(spool'[m], fetched, faults.failures)
    BY DEF TrueTo
  <2>4. Request \/ RequestDeletion => \E kind \in {"request", "deletion"} : Ask(kind)
    BY DEF Request, RequestDeletion
  <2>5. Stop \/ Resume => spool' = spool
    BY DEF Stop, Resume
  <2>6. ASSUME Request \/ RequestDeletion, NEW m \in Names
        PROVE  \/ spool'[m] \in {spool[m], Missing}
               \/ /\ spool'[m].kind # "failure" /\ TrueTo(spool'[m], fetched, faults.failures)
                  /\ m.sfx = "parse" => Parsable(spool'[m])
    BY <2>1, <2>3, <2>4, <2>6
  <2>. QED BY <2>2, <2>5, <2>6 DEF RequeueAny
<1>3. TrueTo(ctl'["retr"].held, fetched, faults.failures)
  BY <1>1 DEF Counting, Versions
<1>4. Unique'
  BY <1>1, <1>2, NoNewCopy DEF Counting
<1>5. \A n \in Names : TrueTo(spool'[n], fetched, faults.failures)
  BY <1>2, TrueFacts DEF Counting, Versions
<1>6. Versions'
  BY <1>1, <1>3, <1>5, VersionsKept DEF Counting, Versions
<1>7. Inputs'
  BY <1>1, <1>2, InputsKept DEF Counting, Parsable
<1>8. Counted'
  BY <1>1, CountedKept DEF Counting
<1>. QED BY <1>4, <1>6, <1>7, <1>8 DEF Counting

\* A run starts, finds the stop file, comes to its end or loses its program.
LEMMA BetweenCount ==
    ASSUME TypeOK, RunInv, Counting, NEW ph \in Phases,
           Start(ph) \/ StopFound(ph) \/ Finish(ph) \/ ProgramFails(ph)
    PROVE  Counting'
<1>. USE CountTypes
<1>1. /\ UNCHANGED <<spool, rec, fetched, failed>> /\ faults'.failures \in {faults.failures, faults.failures + 1}
      /\ \A q \in Phases \ {ph} : ctl'[q] = ctl[q]
  BY DEF Start, StopFound, Finish, ProgramFails, Leave, history, world, TypeOK
<1>2. /\ ctl'[ph].pc \in {"idle", "next"} /\ ctl'[ph].held = Missing /\ ~ ctl'[ph].applied
      /\ ctl[ph].pc \in {"idle", "next", "fetch", "filter", "apply"}
  <2>1. ASSUME StopFound(ph) \/ Finish(ph)
        PROVE  ctl'[ph].pc = "idle" /\ ctl'[ph].held = Missing /\ ~ ctl'[ph].applied
    <3>1. ctl'[ph] = Idle
      BY <2>1 DEF StopFound, Finish
    <3>. QED BY <3>1 DEF Idle
  <2>2. ASSUME Start(ph)
        PROVE  ctl'[ph].pc = "next" /\ ctl'[ph].held = Missing /\ ~ ctl'[ph].applied
    <3>1. PICK list : ctl'[ph] = [Idle EXCEPT !.pc = "next", !.list = list]
      BY <2>2 DEF Start
    <3>. QED BY <3>1 DEF Idle
  <2>3. ProgramFails(ph) => ctl'[ph].pc \in {"idle", "next"} /\ ctl'[ph].held = Missing /\ ~ ctl'[ph].applied
    BY DEF ProgramFails, Leave, CtlRec
  <2>. QED BY <2>1, <2>2, <2>3 DEF Start, StopFound, Finish, ProgramFails
<1>3. Unique' /\ Versions'
  BY <1>1, <1>2, QuietCount, TrueFacts DEF Preparing
<1>4. Inputs'
  <2>1. CASE ph = "parse"
    BY <1>1, <1>2, <2>1, InputsBetween DEF Counting, Parsable
  <2>2. CASE ph # "parse"
    BY <1>1, <2>2, InputsKept DEF Counting
  <2>. QED BY <2>1, <2>2
<1>5. Counted'
  BY <1>1, <1>2, CountedKept DEF Counting
<1>. QED BY <1>3, <1>4, <1>5 DEF Counting
-----------------------------------------------------------------------------
\* A file that is read is the one whose error header it holds; no other place
\* has that attempt.
LEMMA ReadCount == ASSUME TypeOK, RunInv, Counting, NEW ph \in Phases, Read(ph) PROVE Counting'
<1>. USE CountTypes
<1>1. /\ ctl[ph].pc = "next" /\ UNCHANGED <<rec, fetched, failed, faults>>
      /\ \A q \in Phases \ {ph} : ctl'[q] = ctl[q]
  BY DEF Read, world, history
<1>2. PICK n \in ctl[ph].list :
        \/ /\ ctl' = [ctl EXCEPT ![ph].list = @ \ {n}]
           /\ \/ spool' = spool
              \/ /\ spool[n].kind = "deletion" /\ ph = "retr"
                 /\ spool' = [spool EXCEPT ![Name("update", Unnumbered)] = spool[n], ![n] = Missing]
        \/ \E pc \in {"record", "choose", "rename"} :
              /\ spool' = spool /\ (pc = "record" => ph = "update" /\ spool[n].kind = "failure")
              /\ ctl' = [ctl EXCEPT ![ph].list = @ \ {n}, ![ph].cur = n, ![ph].held = spool[n], ![ph].pc = pc]
  BY DEF Read, Recorded
<1>3. n \in Names /\ n.sfx = ph /\ ~ n.tmp
  BY DEF RunOK, Untouched
<1>4. CASE ctl' = [ctl EXCEPT ![ph].list = @ \ {n}]
  <2>1. ctl'[ph].pc = "next" /\ ctl'[ph].held = ctl[ph].held /\ ctl'[ph].applied = ctl[ph].applied /\ ctl'[ph].out = ctl[ph].out
    BY <1>1, <1>4 DEF CtlRec
  <2>2. \A m \in Names :
           \/ spool'[m] \in {spool[m], Missing}
           \/ spool'[m].kind = "deletion" /\ m.sfx = "update"
    <3>1. Name("update", Unnumbered).sfx = "update"
      BY DEF Name
    <3>2. CASE spool' = spool
      BY <3>2
    <3>3. CASE spool[n].kind = "deletion" /\ spool' = [spool EXCEPT ![Name("update", Unnumbered)] = spool[n], ![n] = Missing]
      BY <3>1, <3>3
    <3>4. CASE ~ (spool' = spool) /\ ~ (spool[n].kind = "deletion" /\ spool' = [spool EXCEPT ![Name("update", Unnumbered)] = spool[n], ![n] = Missing])
      <4>1. spool' = spool
        BY <1>1, <1>2, <3>4 DEF CtlRec
      <4>. QED BY <3>4, <4>1
    <3>. QED BY <3>2, <3>3, <3>4
  <2>3. Unique' /\ Versions'
    <3>1. \A m \in Names : spool'[m] \in {spool[m], Missing} \/ (spool'[m].kind # "failure" /\ TrueTo(spool'[m], fetched, faults.failures))
      BY <2>2 DEF TrueTo
    <3>2. TrueTo(ctl'[ph].held, fetched, faults.failures)
      BY <2>1 DEF Counting, Versions
    <3>. QED BY <1>1, <2>1, <3>1, <3>2, QuietCount DEF Preparing
  <2>4. Inputs'
    <3>1. \A m \in Names : spool'[m] = spool[m] \/ (spool'[m].kind # "failure" /\ (m.sfx = "parse" => Parsable(spool'[m])))
      BY <2>2 DEF Parsable
    <3>2. CASE ph = "parse"
      BY <1>1, <2>1, <3>1, <3>2, InputsBetween DEF Counting, Inputs
    <3>3. CASE ph # "parse"
      BY <1>1, <3>1, <3>3, InputsKept DEF Counting
    <3>. QED BY <3>2, <3>3
  <2>5. Counted'
    <3>1. ph = "update" => ~ ctl[ph].applied
      BY <1>1 DEF Counting, Counted
    <3>2. CASE ph = "update"
      BY <1>1, <2>1, <3>1, <3>2, CountedKept DEF Counting
    <3>3. CASE ph # "update"
      BY <1>1, <3>3, CountedKept DEF Counting
    <3>. QED BY <3>2, <3>3
  <2>. QED BY <2>3, <2>4, <2>5 DEF Counting
<1>5. ASSUME NEW pc \in {"record", "choose", "rename"}, spool' = spool,
             pc = "record" => ph = "update" /\ spool[n].kind = "failure",
             ctl' = [ctl EXCEPT ![ph].list = @ \ {n}, ![ph].cur = n, ![ph].held = spool[n], ![ph].pc = pc]
      PROVE  Counting'
  <2>1. /\ ctl'[ph].pc = pc /\ ctl'[ph].held = spool[n] /\ ctl'[ph].cur = n
        /\ ctl'[ph].applied = ctl[ph].applied /\ ctl'[ph].out = ctl[ph].out
    BY <1>1, <1>5 DEF CtlRec
  <2>2. Doomed(n)'
    BY <2>1 DEF Doomed, Preparing
  <2>3. \A m \in Names : Doomed(m) => Doomed(m)'
    <3>1. ASSUME NEW m \in Names, NEW q \in Phases, ctl[q].pc \in Preparing, Cur(q) = m  PROVE Doomed(m)'
      <4>1. q # ph
        BY <1>1, <3>1 DEF Preparing
      <4>2. ctl'[q] = ctl[q]
        BY <1>1, <4>1
      <4>. QED BY <3>1, <4>2 DEF Doomed
    <3>. QED BY <3>1 DEF Doomed
  <2>4. \A m \in Names, v \in Nat : FileCopy(m, v)' => FileCopy(m, v) /\ m # n
    BY <1>5, <2>2, <2>3 DEF FileCopy
  <2>5. ~ Doomed(n)
    <3>1. ASSUME NEW q \in Phases, ctl[q].pc \in Preparing, Cur(q) = n  PROVE FALSE
      <4>1. n.sfx = q
        BY <3>1 DEF RunOK, Untouched
      <4>. QED BY <1>1, <1>3, <3>1, <4>1 DEF Preparing
    <3>. QED BY <3>1 DEF Doomed
  <2>6. \A q \in Phases, v \in Nat : RunCopy(q, v)' => RunCopy(q, v) \/ (q = ph /\ FileCopy(n, v))
    <3>1. ASSUME NEW q \in Phases, NEW v \in Nat, RunCopy(q, v)', q # ph  PROVE RunCopy(q, v)
      <4>1. ctl'[q] = ctl[q]
        BY <1>1, <3>1
      <4>. QED BY <3>1, <4>1 DEF RunCopy
    <3>2. ASSUME NEW v \in Nat, RunCopy(ph, v)'  PROVE FileCopy(n, v)
      BY <2>1, <2>5, <3>2 DEF RunCopy, FileCopy
    <3>. QED BY <3>1, <3>2
  <2>7. ASSUME NEW v \in Nat  PROVE UniqueAt(v)'
    <3>1. UniqueAt(v)
      BY DEF Counting, Unique
    <3>2. ~ RunCopy(ph, v)
      BY <1>1 DEF RunCopy
    <3>3. \A m, l \in Names : FileCopy(m, v)' /\ FileCopy(l, v)' => m = l
      BY <2>4, <3>1 DEF UniqueAt
    <3>4. \A m \in Names, q \in Phases : ~ (FileCopy(m, v)' /\ RunCopy(q, v)')
      BY <1>3, <2>4, <2>6, <3>1 DEF UniqueAt
    <3>5. \A p, q \in Phases : RunCopy(p, v)' /\ RunCopy(q, v)' => p = q
      BY <1>3, <2>6, <3>1, <3>2 DEF UniqueAt
    <3>6. v \in failed' => (\A m \in Names : ~ FileCopy(m, v)') /\ (\A q \in Phases : ~ RunCopy(q, v)')
      BY <1>1, <1>3, <2>4, <2>6, <3>1 DEF UniqueAt
    <3>. QED BY <3>3, <3>4, <3>5, <3>6 DEF UniqueAt
  <2>8. Unique'
    BY <2>7 DEF Unique
  <2>9. Versions'
    <3>1. \A m \in Names : TrueTo(spool'[m], fetched, faults.failures)
      BY <1>5 DEF Counting, Versions
    <3>2. TrueTo(ctl'[ph].held, fetched, faults.failures)
      BY <1>3, <2>1 DEF Counting, Versions
    <3>. QED BY <1>1, <3>1, <3>2, VersionsKept DEF Counting, Versions
  <2>10. Inputs'
    <3>1. CASE ph = "parse"
      <4>1. Parsable(ctl'["parse"].held)
        BY <1>3, <2>1, <3>1 DEF Counting, Inputs
      <4>. QED BY <1>1, <1>5, <2>1, <3>1, <4>1, InputsBetween DEF Counting
    <3>2. CASE ph # "parse"
      BY <1>1, <1>5, <3>2, InputsKept DEF Counting
    <3>. QED BY <3>1, <3>2
  <2>11. Counted'
    <3>1. ph = "update" => ~ ctl[ph].applied
      BY <1>1 DEF Counting, Counted
    <3>2. CASE ph = "update"
      BY <1>1, <1>5, <2>1, <3>1, <3>2 DEF Counting, Counted
    <3>3. CASE ph # "update"
      BY <1>1, <3>3, CountedKept DEF Counting
    <3>. QED BY <3>2, <3>3
  <2>. QED BY <2>8, <2>9, <2>10, <2>11 DEF Counting
<1>. QED BY <1>2, <1>4, <1>5
-----------------------------------------------------------------------------
\* The runs keep their fields but for the program counter.
LEMMA GotoApplied ==
    ASSUME TypeOK, NEW ph \in Phases, NEW pc, Goto(ph, pc)
    PROVE  ctl'[ph].applied = ctl[ph].applied
BY DEF Goto, TypeOK

\* A run that drops its file holds nothing and has applied nothing.
LEMMA LeaveEmpty ==
    ASSUME TypeOK, NEW ph \in Phases, NEW pc, Leave(ph, pc)
    PROVE  ctl'[ph].held = Missing /\ ~ ctl'[ph].applied
BY DEF Leave, TypeOK

\* A file takes an error header, and nothing else has that attempt any more.
LEMMA FileMoved ==
    ASSUME Unique, NEW v \in Nat, NEW d \in Names, failed' \subseteq failed, v \notin failed,
           \A n \in Names, w \in Nat : FileCopy(n, w)' => FileCopy(n, w) \/ w = v,
           \A q \in Phases, w \in Nat : RunCopy(q, w)' => RunCopy(q, w),
           \A n \in Names : FileCopy(n, v)' => n = d,
           \A q \in Phases : ~ RunCopy(q, v)'
    PROVE  Unique'
<1>1. ASSUME NEW w \in Nat  PROVE UniqueAt(w)'
  <2>1. UniqueAt(w)
    BY DEF Unique
  <2>2. CASE w = v
    BY <2>2 DEF UniqueAt
  <2>3. CASE w # v
    BY <2>1, <2>3 DEF UniqueAt
  <2>. QED BY <2>2, <2>3
<1>. QED BY <1>1 DEF Unique

\* A header that is stamped stays in the hands of its run.
LEMMA ChooseCount == ASSUME TypeOK, RunInv, Counting, NEW ph \in Phases, ChooseName(ph) PROVE Counting'
<1>. USE CountTypes
<1>. DEFINE h == ctl[ph].held
<1>1. /\ ctl[ph].pc = "choose" /\ UNCHANGED <<spool, rec, fetched, failed, faults>>
      /\ \A q \in Phases \ {ph} : ctl'[q] = ctl[q]
  BY DEF ChooseName, world, history
<1>2. /\ ctl'[ph].pc = "rename" /\ ctl'[ph].cur = Cur(ph) /\ ctl'[ph].applied = ctl[ph].applied
      /\ ctl'[ph].held = [h EXCEPT !.time = Stamp]
  BY DEF ChooseName, CtlRec
<1>3. h \in Files /\ TrueTo(h, fetched, faults.failures) /\ (ph = "parse" => Parsable(h)) /\ h.kind = "failure"
  BY <1>1 DEF Counting, Versions, Inputs, RunOK
<1>4. ctl'[ph].held.kind = "failure" /\ ctl'[ph].held.ver = h.ver
  BY <1>2, <1>3 DEF Files
<1>5. Unique'
  <2>1. \A n \in Names : spool'[n].kind = "failure" => spool[n].kind = "failure" /\ spool'[n].ver = spool[n].ver
    BY <1>1
  <2>2. failed' \subseteq failed
    BY <1>1
  <2>3. ctl'[ph].pc \in Preparing /\ ctl'[ph].cur = Cur(ph)
    BY <1>2 DEF Preparing
  <2>4. ctl[ph].pc \in {"choose", "rename", "record"}
    BY <1>1
  <2>5. ctl'[ph].held.kind = h.kind /\ ctl'[ph].held.ver = h.ver
    BY <1>3, <1>4
  <2>. HIDE DEF h
  <2>6. ctl'[ph].held.kind = ctl[ph].held.kind /\ ctl'[ph].held.ver = ctl[ph].held.ver
    BY <2>5 DEF h
  <2>7. \A q \in Phases \ {ph} : ctl'[q] = ctl[q]
    BY <1>1
  <2>8. Unique
    BY DEF Counting
  <2>. QED BY <2>1, <2>2, <2>3, <2>4, <2>6, <2>7, <2>8, NoNewCopy
<1>6. TrueTo(ctl'[ph].held, fetched, faults.failures)
  <2>. HIDE DEF h
  <2>. QED BY <1>2, <1>3, TrueFacts
<1>7. Versions'
  BY <1>1, <1>6, VersionsKept DEF Counting, Versions
<1>8. Inputs'
  <2>1. CASE ph = "parse"
    BY <1>1, <1>2, <1>4, <2>1, InputsBetween DEF Counting, Parsable
  <2>2. CASE ph # "parse"
    BY <1>1, <2>2, InputsKept DEF Counting
  <2>. QED BY <2>1, <2>2
<1>9. Counted'
  <2>1. ph = "update" => ~ ctl[ph].applied
    BY <1>1 DEF Counting, Counted
  <2>2. CASE ph = "update"
    BY <1>1, <1>2, <2>1, <2>2, CountedKept DEF Counting
  <2>3. CASE ph # "update"
    BY <1>1, <2>3, CountedKept DEF Counting
  <2>. QED BY <2>2, <2>3
<1>. QED BY <1>5, <1>7, <1>8, <1>9 DEF Counting

\* What Rename writes is the only file of its attempt besides the original, which Unlink removes.
LEMMA RenameCount == ASSUME TypeOK, RunInv, Counting, NEW ph \in Phases, Rename(ph) PROVE Counting'
<1>. USE CountTypes
<1>. DEFINE h == ctl[ph].held
<1>1. /\ ctl[ph].pc = "rename" /\ UNCHANGED <<rec, fetched, failed, faults>> /\ Goto(ph, "unlink")
  BY DEF Rename, world, history
<1>2. /\ ctl'[ph].pc = "unlink" /\ ctl'[ph].cur = Cur(ph) /\ ctl'[ph].held = h /\ ctl'[ph].out = ctl[ph].out
      /\ \A q \in Phases \ {ph} : ctl'[q] = ctl[q]
      /\ ctl'[ph].applied = ctl[ph].applied
  BY <1>1, GotoFields, GotoApplied
<1>3. h \in Files /\ TrueTo(h, fetched, faults.failures) /\ (ph = "parse" => Parsable(h))
  BY DEF Counting, Versions, Inputs
<1>4. Counted'
  <2>1. ph = "update" => ~ ctl[ph].applied
    BY <1>1 DEF Counting, Counted
  <2>2. CASE ph = "update"
    BY <1>1, <1>2, <2>1, <2>2, CountedKept DEF Counting
  <2>3. CASE ph # "update"
    BY <1>1, <1>2, <2>3, CountedKept DEF Counting
  <2>. QED BY <2>2, <2>3
<1>5. ASSUME \A n \in Names :
                \/ spool'[n] = spool[n]
                \/ spool'[n].kind # "failure" /\ (n.sfx = "parse" => Parsable(spool'[n]))
                \/ ~ n.tmp /\ Parsable(spool'[n])
      PROVE  Inputs'
  <2>1. CASE ph = "parse"
    BY <1>1, <1>2, <1>3, <1>5, <2>1, InputsBetween DEF Counting
  <2>2. CASE ph # "parse"
    BY <1>2, <1>5, <2>2, InputsKept DEF Counting
  <2>. QED BY <2>1, <2>2
<1>6. CASE h.kind # "failure"
  <2>1. spool' = [spool EXCEPT ![TmpName(ph, Cur(ph).num)] = h]
    BY <1>6 DEF Rename
  <2>2. TmpName(ph, Cur(ph).num).sfx = ph
    BY DEF TmpName
  <2>3. \A n \in Names : spool'[n] = spool[n] \/ (spool'[n] = h /\ n.sfx = ph)
    BY <2>1, <2>2
  <2>. HIDE DEF h
  <2>4. Unique' /\ Versions'
    BY <1>1, <1>2, <1>3, <1>6, <2>3, QuietCount DEF Preparing
  <2>5. Inputs'
    BY <1>3, <1>5, <1>6, <2>3
  <2>. QED BY <1>4, <2>4, <2>5 DEF Counting
<1>7. CASE h.kind = "failure"
  <2>. DEFINE d == ctl[ph].out
  <2>1. spool' = [spool EXCEPT ![d] = h]
    BY <1>7 DEF Rename
  <2>2. d \in Names /\ ~ d.tmp
    BY <1>1, <1>7 DEF RunOK, HeaderNames, Onward
  <2>0. PICK v \in Nat : v = h.ver
    BY <1>3 DEF Files
  <2>3. h.kind = "failure" /\ h.ver = v /\ TrueTo(h, fetched, faults.failures)
    BY <1>3, <1>7, <2>0
  <2>. HIDE DEF d, h
  <2>5. spool'[d] = h /\ \A n \in Names : n # d => spool'[n] = spool[n]
    BY <2>1, <2>2
  <2>6. \A n \in Names : Doomed(n) => Doomed(n)'
    BY <1>1, <1>2, DoomedKept DEF Preparing
  <2>7. \A n \in Names, w \in Nat : FileCopy(n, w)' => FileCopy(n, w) \/ (n = d /\ w = v)
    BY <2>3, <2>5, <2>6 DEF FileCopy
  <2>8. \A q \in Phases, w \in Nat : RunCopy(q, w)' => RunCopy(q, w) /\ q # ph
    BY <1>2, RunCopyGone
  <2>9. UniqueAt(v) /\ RunCopy(ph, v)
    BY <1>1, <1>7, <2>0 DEF Counting, Unique, RunCopy, h
  <2>10. Unique'
    <3>1. v \notin failed
      BY <2>9 DEF UniqueAt
    <3>2. \A n \in Names : FileCopy(n, v)' => n = d
      BY <2>3, <2>7, <2>9 DEF UniqueAt
    <3>3. \A q \in Phases : ~ RunCopy(q, v)'
      BY <2>3, <2>8, <2>9 DEF UniqueAt
    <3>. QED BY <1>1, <2>2, <2>3, <2>7, <2>8, <3>1, <3>2, <3>3, FileMoved DEF Counting
  <2>11. Versions'
    <3>1. \A n \in Names : TrueTo(spool'[n], fetched, faults.failures)
      BY <2>3, <2>5 DEF Counting, Versions
    <3>. QED BY <1>1, <1>2, <1>3, <3>1, VersionsKept DEF Counting, Versions
  <2>12. Inputs'
    BY <1>5, <2>2, <2>3, <2>5 DEF Parsable
  <2>. QED BY <1>4, <2>10, <2>11, <2>12 DEF Counting
<1>. QED BY <1>6, <1>7
-----------------------------------------------------------------------------
\* Unlink removes the original of the file that was renamed.
LEMMA UnlinkCount == ASSUME TypeOK, RunInv, Counting, NEW ph \in Phases, Unlink(ph) PROVE Counting'
<1>. USE CountTypes
<1>1. /\ ctl[ph].pc = "unlink" /\ UNCHANGED <<rec, fetched, failed, faults>>
      /\ spool' = [spool EXCEPT ![Cur(ph)] = Missing]
      /\ \A q \in Phases \ {ph} : ctl'[q] = ctl[q]
  BY DEF Unlink, world, history
<1>2. ctl'[ph].pc = "next" /\ ctl'[ph].held = Missing /\ ctl'[ph].applied = ctl[ph].applied
  BY DEF Unlink, CtlRec
<1>3. \A n \in Names : spool'[n] \in {spool[n], Missing}
  BY <1>1
<1>4. spool'[Cur(ph)].kind # "failure" /\ TrueTo(ctl'[ph].held, fetched, faults.failures)
  BY <1>1, <1>2, TrueFacts
<1>5. Unique' /\ Versions'
  BY <1>1, <1>2, <1>3, <1>4, QuietCount
<1>6. Inputs'
  <2>1. CASE ph = "parse"
    BY <1>1, <1>2, <1>3, <2>1, InputsBetween DEF Counting, Parsable
  <2>2. CASE ph # "parse"
    BY <1>1, <1>3, <2>2, InputsKept DEF Counting, Parsable
  <2>. QED BY <2>1, <2>2
<1>7. Counted'
  <2>1. ph = "update" => ~ ctl[ph].applied
    BY <1>1 DEF Counting, Counted
  <2>2. CASE ph = "update"
    BY <1>1, <1>2, <2>1, <2>2, CountedKept DEF Counting
  <2>3. CASE ph # "update"
    BY <1>1, <2>3, CountedKept DEF Counting
  <2>. QED BY <2>2, <2>3
<1>. QED BY <1>5, <1>6, <1>7 DEF Counting

\* No error header stands under a name with _t while the parser does not run:
\* what the filter is given is a listing.
LEMMA RunCount == ASSUME TypeOK, RunInv, Counting, NEW ph \in Phases, Run(ph) PROVE Counting'
<1>. USE CountTypes
<1>1. /\ ctl[ph].pc = "next" /\ UNCHANGED <<spool, rec, fetched, failed, faults>>
      /\ \A q \in Phases \ {ph} : ctl'[q] = ctl[q]
  BY DEF Run, world, history
<1>2. PICK n \in ctl[ph].ready :
         ctl' = IF spool[n] = Missing THEN [ctl EXCEPT ![ph].ready = @ \ {n}]
                ELSE [ctl EXCEPT ![ph].ready = @ \ {n}, ![ph].cur = n, ![ph].held = spool[n],
                                 ![ph].pc = FirstPC[ph]]
  BY DEF Run
<1>3. n \in Names /\ n.sfx = ph /\ n.tmp
  BY DEF RunOK, Taken
<1>4. /\ ctl'[ph].applied = ctl[ph].applied
      /\ \/ ctl'[ph].pc = "next" /\ ctl'[ph].held = ctl[ph].held
         \/ ctl'[ph].pc = FirstPC[ph] /\ ctl'[ph].held = spool[n] /\ spool[n] # Missing
  BY <1>1, <1>2 DEF CtlRec
<1>5. FirstPC[ph] \in {"fetch", "filter", "apply"} /\ (FirstPC[ph] = "filter" => ph = "parse")
  BY DEF FirstPC
<1>6. TrueTo(ctl'[ph].held, fetched, faults.failures)
  BY <1>3, <1>4 DEF Counting, Versions
<1>7. Unique' /\ Versions'
  BY <1>1, <1>4, <1>5, <1>6, QuietCount DEF Preparing
<1>8. Inputs'
  <2>1. CASE ph = "parse"
    <3>1. spool[n].kind # "failure" /\ Parsable(spool[n]) /\ TrueTo(spool[n], fetched, faults.failures)
      BY <1>1, <1>3, <2>1 DEF Counting, Inputs, Versions
    <3>2. spool[n] # Missing => spool[n].kind = "listing"
      BY <3>1 DEF Parsable, TrueTo
    <3>3. Parsable(ctl'["parse"].held) /\ (ctl'["parse"].pc \in {"filter", "write"} => ctl'["parse"].held.kind = "listing")
      BY <1>4, <2>1, <3>1, <3>2 DEF Counting, Inputs
    <3>4. ctl'["parse"].pc \in {"next", "filter"} \cup {"fetch", "apply"}
      BY <1>4, <1>5, <2>1
    <3>5. \A m \in Names : m.tmp => spool[m].kind # "failure"
      BY <1>1, <2>1 DEF Counting, Inputs
    <3>6. \A m \in Names : m.sfx = "parse" => Parsable(spool[m])
      BY DEF Counting, Inputs
    <3>. QED BY <1>1, <3>3, <3>4, <3>5, <3>6 DEF Inputs
  <2>2. CASE ph # "parse"
    BY <1>1, <2>2, InputsKept DEF Counting
  <2>. QED BY <2>1, <2>2
<1>9. Counted'
  <2>1. ph = "update" => ~ ctl[ph].applied
    BY <1>1 DEF Counting, Counted
  <2>2. CASE ph = "update"
    BY <1>1, <1>4, <1>5, <2>1, <2>2, CountedKept DEF Counting
  <2>3. CASE ph # "update"
    BY <1>1, <2>3, CountedKept DEF Counting
  <2>. QED BY <2>2, <2>3
<1>. QED BY <1>7, <1>8, <1>9 DEF Counting

\* The input of a program, or the header that was recorded, is unlinked.
LEMMA ConsumeCount ==
    ASSUME TypeOK, RunInv, Counting, NEW ph \in Phases, Consume(ph) \/ (ph = "update" /\ Forget)
    PROVE  Counting'
<1>. USE CountTypes
<1>1. /\ ctl[ph].pc \in {"consume", "forget"} /\ UNCHANGED <<rec, fetched, failed, faults>>
      /\ spool' = [spool EXCEPT ![Cur(ph)] = Missing]
  BY DEF Consume, Forget, world, history
<1>2. PICK pc \in {"next", "reset"} :
         Leave(ph, pc) /\ (pc = "reset" => ctl[ph].applied /\ ctl[ph].pc = "consume")
  BY DEF Consume, Forget
<1>3. /\ ctl'[ph].pc = pc /\ ctl'[ph].held = Missing /\ ~ ctl'[ph].applied
      /\ \A q \in Phases \ {ph} : ctl'[q] = ctl[q]
  BY <1>2, LeaveFields, LeaveEmpty
<1>4. \A n \in Names : spool'[n] \in {spool[n], Missing}
  BY <1>1
<1>5. spool'[Cur(ph)].kind # "failure" /\ TrueTo(ctl'[ph].held, fetched, faults.failures)
  BY <1>1, <1>3, TrueFacts
<1>6. Unique' /\ Versions'
  BY <1>1, <1>3, <1>4, <1>5, QuietCount
<1>7. Inputs'
  <2>1. CASE ph = "parse"
    BY <1>1, <1>3, <1>4, <2>1, InputsBetween DEF Counting, Parsable
  <2>2. CASE ph # "parse"
    BY <1>3, <1>4, <2>2, InputsKept DEF Counting, Parsable
  <2>. QED BY <2>1, <2>2
<1>8. Counted'
  <2>1. CASE ph = "update"
    BY <1>1, <1>2, <1>3, <2>1 DEF Counting, Counted
  <2>2. CASE ph # "update"
    BY <1>1, <1>3, <2>2, CountedKept DEF Counting
  <2>. QED BY <2>1, <2>2
<1>. QED BY <1>6, <1>7, <1>8 DEF Counting
-----------------------------------------------------------------------------
\* update_anonftp: a success starts the count afresh.
LEMMA ApplyCount ==
    ASSUME TypeOK, RunInv, Counting, Apply \/ ApplyDeletion \/ ResetFailCount PROVE Counting'
<1>. USE CountTypes
<1>1. /\ "update" \in Phases /\ ctl["update"].pc \in {"apply", "reset"}
      /\ spool' = spool /\ fetched' = fetched /\ faults' = faults
  BY DEF Apply, ApplyDeletion, ResetFailCount, world, history
<1>2. /\ ctl'["update"].held = ctl["update"].held
      /\ ctl'["update"].pc = IF ResetFailCount THEN "next" ELSE "consume"
      /\ \A q \in Phases \ {"update"} : ctl'[q] = ctl[q]
  <2>1. CASE Apply
    BY <1>1, <2>1 DEF Apply, ResetFailCount, CtlRec
  <2>2. CASE ApplyDeletion
    BY <2>2, GotoFields, <1>1 DEF ApplyDeletion, ResetFailCount
  <2>3. CASE ResetFailCount
    BY <2>3, GotoFields, <1>1 DEF ResetFailCount
  <2>. QED BY <2>1, <2>2, <2>3
<1>3. ctl["update"].applied = FALSE
  BY <1>1 DEF Counting, Counted, CtlRec
<1>4. failed' \subseteq failed /\ Counted'
  <2>0. rec \in [status : {"none", "active", "inactive", "deleted"}, time : 0 .. Stamp, ver : 0 .. attempts, fails : Nat]
    BY DEF TypeOK, HostRecs
  <2>1. CASE Apply
    <3>1. CASE ctl["update"].held.time < rec.time
      <4>1. UNCHANGED <<rec, failed>> /\ ctl'["update"].applied = FALSE /\ ctl'["update"].pc = "consume"
        BY <1>1, <2>1, <3>1 DEF Apply, CtlRec
      <4>. QED BY <4>1, CountedKept DEF Counting
    <3>2. CASE ~ (ctl["update"].held.time < rec.time)
      <4>1. rec'.fails = 0 /\ failed' = {} /\ ctl'["update"].pc = "consume"
        BY <1>1, <2>0, <2>1, <3>2 DEF Apply, CtlRec
      <4>. QED BY <4>1, FS_EmptySet DEF Counted
    <3>. QED BY <3>1, <3>2
  <2>2. CASE ApplyDeletion
    <3>1. rec'.fails = rec.fails /\ failed' = failed
      BY <2>0, <2>2 DEF ApplyDeletion, history
    <3>2. ctl'["update"].applied = FALSE /\ ctl'["update"].pc = "consume"
      BY <1>1, <1>3, <2>2, GotoFields, GotoApplied DEF ApplyDeletion
    <3>. QED BY <3>1, <3>2 DEF Counting, Counted
  <2>3. CASE ResetFailCount
    <3>1. rec'.fails = 0 /\ failed' = failed /\ failed = {}
      BY <2>0, <2>3 DEF ResetFailCount, Counting, Counted, history
    <3>2. ctl'["update"].applied = FALSE /\ ctl'["update"].pc = "next"
      BY <1>1, <1>3, <2>3, GotoFields, GotoApplied DEF ResetFailCount
    <3>. QED BY <3>1, <3>2, FS_EmptySet DEF Counted
  <2>. QED BY <2>1, <2>2, <2>3
<1>5. TrueTo(ctl'["update"].held, fetched, faults.failures)
  BY <1>1, <1>2 DEF Counting, Versions
<1>6. Unique' /\ Versions'
  BY <1>1, <1>2, <1>4, <1>5, QuietCount DEF Preparing
<1>7. Inputs'
  BY <1>1, <1>2, InputsKept DEF Counting
<1>. QED BY <1>4, <1>6, <1>7 DEF Counting

\* write_hostdb_failure: the attempt has not been recorded yet, and nothing else
\* has its error header.
LEMMA RecordCount == ASSUME TypeOK, RunInv, Counting, RecordFailure PROVE Counting'
<1>. USE CountTypes
<1>1. /\ "update" \in Phases /\ ctl["update"].pc = "record"
      /\ UNCHANGED <<spool, fetched, faults>> /\ Goto("update", "forget")
  BY DEF RecordFailure, world, history
<1>2. /\ ctl'["update"].pc = "forget" /\ ctl'["update"].cur = Cur("update")
      /\ ctl'["update"].held = ctl["update"].held /\ ctl'["update"].applied = ctl["update"].applied
      /\ \A q \in Phases \ {"update"} : ctl'[q] = ctl[q]
  BY <1>1, GotoFields, GotoApplied
<1>3. PICK v \in Nat : v = ctl["update"].held.ver
  BY <1>1 DEF Files
<1>4. ~ ctl["update"].applied /\ RunCopy("update", v)
  BY <1>1, <1>3 DEF Counting, Counted, RunCopy
<1>5. TrueTo(ctl'["update"].held, fetched, faults.failures)
  BY <1>1, <1>2 DEF Counting, Versions
<1>6. Inputs'
  BY <1>1, <1>2, InputsKept DEF Counting
<1>7. CASE UNCHANGED <<rec, failed>>
  <2>1. Counted'
    BY <1>2, <1>4, <1>7, CountedKept DEF Counting
  <2>2. Unique' /\ Versions'
    BY <1>1, <1>2, <1>5, <1>7, QuietCount DEF Preparing
  <2>. QED BY <1>6, <2>1, <2>2 DEF Counting
<1>8. CASE ~ UNCHANGED <<rec, failed>>
  <2>1. failed' = failed \cup {v} /\ rec'.fails = rec.fails + 1
    BY <1>3, <1>8 DEF RecordFailure, TypeOK, HostRecs
  <2>2. UniqueAt(v)
    BY DEF Counting, Unique
  <2>3. v \notin failed
    BY <1>1, <1>4, <2>2 DEF UniqueAt
  <2>4. Counted'
    <3>1. IsFiniteSet(failed)
      <4>1. IsFiniteSet(0 .. attempts)
        BY FS_Interval
      <4>2. failed \subseteq 0 .. attempts
        BY DEF TypeOK
      <4>. QED BY <4>1, <4>2, FS_Subset
    <3>2. Cardinality(failed') = Cardinality(failed) + 1
      BY <2>1, <2>3, <3>1, FS_AddElement
    <3>. QED BY <1>2, <1>4, <2>1, <3>2 DEF Counting, Counted
  <2>5. Versions'
    <3>1. faults.failures = 0 => v \notin fetched
      BY <1>1, <1>3, <1>4 DEF Counting, Versions, TrueTo, RunCopy
    <3>2. faults.failures = 0 => failed' \cap fetched = {}
      BY <2>1, <3>1 DEF Counting, Versions
    <3>3. \A n \in Names : TrueTo(spool'[n], fetched, faults.failures)
      BY <1>1 DEF Counting, Versions
    <3>. QED BY <1>1, <1>2, <1>5, <3>2, <3>3, VersionsKept DEF Counting
  <2>6. \A n \in Names, w \in Nat : FileCopy(n, w)' => FileCopy(n, w)
    <3>1. \A n \in Names : Doomed(n) => Doomed(n)'
      BY <1>1, <1>2, DoomedKept DEF Preparing
    <3>. QED BY <1>1, <3>1 DEF FileCopy
  <2>7. \A q \in Phases, w \in Nat : RunCopy(q, w)' => RunCopy(q, w) /\ q # "update"
    BY <1>1, <1>2, RunCopyGone
  <2>8. ASSUME NEW w \in Nat  PROVE UniqueAt(w)'
    <3>1. UniqueAt(w)
      BY DEF Counting, Unique
    <3>2. CASE w = v
      <4>1. \A n \in Names : ~ FileCopy(n, v)'
        BY <1>1, <1>4, <2>2, <2>6 DEF UniqueAt
      <4>2. \A q \in Phases : ~ RunCopy(q, v)'
        BY <1>1, <1>4, <2>2, <2>7 DEF UniqueAt
      <4>. QED BY <3>2, <4>1, <4>2 DEF UniqueAt
    <3>3. CASE w # v
      BY <2>1, <2>6, <2>7, <3>1, <3>3 DEF UniqueAt
    <3>. QED BY <3>2, <3>3
  <2>9. Unique'
    BY <2>8 DEF Unique
  <2>. QED BY <1>6, <2>4, <2>5, <2>9 DEF Counting
<1>. QED BY <1>7, <1>8
-----------------------------------------------------------------------------
\* The parser has an output of its own, and writes a listing to it.
LEMMA WriteCount == ASSUME TypeOK, RunInv, Counting, Filter \/ WriteParsed PROVE Counting'
<1>. USE CountTypes
<1>. DEFINE h == ctl["parse"].held
<1>1. /\ "parse" \in Phases /\ "update" \in Phases /\ ctl["parse"].pc \in {"filter", "write"}
      /\ UNCHANGED <<rec, fetched, failed, faults>>
  BY DEF Filter, WriteParsed, world, history
<1>2. h.kind = "listing" /\ TrueTo(h, fetched, faults.failures) /\ \A n \in Names : n.tmp => spool[n].kind # "failure"
  BY <1>1 DEF Counting, Inputs, Versions
<1>3. /\ ctl'["parse"].pc \in {"write", "publish"} /\ ctl'["parse"].held = h /\ ctl'["parse"].out \in Taken("update")
      /\ \A q \in Phases \ {"parse"} : ctl'[q] = ctl[q]
      /\ \A n \in Names : spool'[n] = spool[n] \/ spool'[n] = h
  <2>1. CASE Filter
    <3>1. PICK num \in Nums : ctl' = [ctl EXCEPT !["parse"].pc = "write", !["parse"].out = TmpName("update", num)]
      BY <2>1 DEF Filter, Free
    <3>2. TmpName("update", num) \in Taken("update")
      BY <1>1, NameBuilt DEF Taken
    <3>3. /\ ctl'["parse"].pc = "write" /\ ctl'["parse"].held = h
          /\ ctl'["parse"].out = TmpName("update", num)
      BY <1>1, <3>1 DEF CtlRec
    <3>4. \A q \in Phases \ {"parse"} : ctl'[q] = ctl[q]
      BY <3>1
    <3>5. spool' = spool
      BY <2>1 DEF Filter
    <3>. QED BY <3>2, <3>3, <3>4, <3>5, Zenon
  <2>2. CASE WriteParsed
    <3>1. ctl["parse"].pc = "write" /\ Goto("parse", "publish") /\ spool' = [spool EXCEPT ![ctl["parse"].out] = h]
      BY <2>2 DEF WriteParsed
    <3>2. ctl["parse"].out \in Taken("update")
      BY <3>1 DEF Counting, Inputs
    <3>3. \A n \in Names : spool'[n] = spool[n] \/ spool'[n] = h
      BY <3>1
    <3>. HIDE DEF h
    <3>4. ctl'["parse"].pc = "publish" /\ ctl'["parse"].held = ctl["parse"].held /\ ctl'["parse"].out = ctl["parse"].out
          /\ \A q \in Phases \ {"parse"} : ctl'[q] = ctl[q]
      BY <1>1, <3>1, GotoFields
    <3>. QED BY <3>2, <3>3, <3>4 DEF h
  <2>. QED BY <2>1, <2>2
<1>. HIDE DEF h
<1>4. \A n \in Names : spool'[n] = spool[n] \/ (spool'[n].kind # "failure" /\ TrueTo(spool'[n], fetched, faults.failures))
  BY <1>2, <1>3
<1>5. Unique' /\ Versions'
  BY <1>1, <1>2, <1>3, <1>4, QuietCount DEF Preparing
<1>6. Inputs'
  <2>1. \A n \in Names : n.sfx = "parse" => Parsable(spool'[n])
    BY <1>2, <1>3 DEF Counting, Inputs, Parsable
  <2>2. \A n \in Names : n.tmp => spool'[n].kind # "failure"
    BY <1>2, <1>3
  <2>3. Parsable(h)
    BY <1>2 DEF Parsable
  <2>. QED BY <1>2, <1>3, <2>1, <2>2, <2>3 DEF Inputs
<1>7. Counted'
  BY <1>1, <1>3, CountedKept DEF Counting
<1>. QED BY <1>5, <1>6, <1>7 DEF Counting

\* The first parser that fails makes an error header of a listing: no file and
\* no run has one of that attempt.
LEMMA ParseFailsCount ==
    ASSUME TypeOK, RunInv, Counting, ParseFails, faults'.failures <= 1 PROVE Counting'
<1>. USE CountTypes
<1>. DEFINE g == [ctl["parse"].held EXCEPT !.kind = "failure"]
            d == ctl["parse"].out
<1>1. /\ "parse" \in Phases /\ "update" \in Phases /\ ctl["parse"].pc = "write" /\ UNCHANGED <<rec, fetched, failed>>
      /\ faults'.failures = faults.failures + 1 /\ spool' = [spool EXCEPT ![d] = g]
  BY DEF ParseFails, history, TypeOK
<1>2. faults.failures = 0 /\ faults'.failures = 1
  BY <1>1
<1>3. PICK pc \in {"publish", "pass_on"} : Goto("parse", pc)
  BY DEF ParseFails
<1>4. /\ ctl'["parse"].pc = pc /\ ctl'["parse"].held = ctl["parse"].held /\ ctl'["parse"].out = d
      /\ \A q \in Phases \ {"parse"} : ctl'[q] = ctl[q]
  BY <1>1, <1>3, GotoFields
<1>5. PICK v \in Nat : v = ctl["parse"].held.ver
  BY <1>1 DEF Files
<1>6. g.kind = "failure" /\ g.ver = v /\ d \in Taken("update") /\ d \in Names /\ v \in fetched
      /\ ctl["parse"].held.kind = "listing"
  BY <1>1, <1>5 DEF Counting, Inputs, Versions, TrueTo, Taken, Files
<1>7. d.sfx = "update" /\ d.tmp
  BY <1>6 DEF Taken
<1>. HIDE DEF g, d
<1>8. spool'[d] = g /\ \A n \in Names : n # d => spool'[n] = spool[n]
  BY <1>1, <1>6
<1>9. (\A n \in Names : ~ FileCopy(n, v)) /\ (\A q \in Phases : ~ RunCopy(q, v)) /\ v \notin failed
  BY <1>2, <1>6 DEF Counting, Versions, TrueTo, FileCopy, RunCopy
<1>10. Unique'
  <2>1. \A n \in Names : Doomed(n) => Doomed(n)'
    BY <1>1, <1>4, DoomedKept DEF Preparing
  <2>2. \A n \in Names, w \in Nat : FileCopy(n, w)' => FileCopy(n, w) \/ (n = d /\ w = v)
    BY <1>6, <1>8, <2>1 DEF FileCopy
  <2>3. \A q \in Phases, w \in Nat : RunCopy(q, w)' => RunCopy(q, w)
    BY <1>1, <1>4, RunCopyGone
  <2>4. \A n \in Names : FileCopy(n, v)' => n = d
    BY <1>9, <2>2
  <2>5. \A q \in Phases : ~ RunCopy(q, v)'
    BY <1>9, <2>3
  <2>. QED BY <1>1, <1>6, <1>9, <2>2, <2>3, <2>4, <2>5, FileMoved DEF Counting
<1>11. Versions'
  <2>1. \A f : TrueTo(f, fetched, faults.failures) => TrueTo(f, fetched', faults'.failures)
    BY <1>1, <1>2, TrueFacts
  <2>2. TrueTo(g, fetched', faults'.failures)
    BY <1>2, <1>6 DEF TrueTo
  <2>3. \A n \in Names : TrueTo(spool'[n], fetched', faults'.failures)
    BY <1>8, <2>1, <2>2 DEF Counting, Versions
  <2>4. \A q \in Phases : ctl'[q].held = ctl[q].held
    BY <1>4
  <2>5. \A q \in Phases : TrueTo(ctl'[q].held, fetched', faults'.failures)
    BY <2>1, <2>4 DEF Counting, Versions
  <2>. QED BY <1>2, <2>3, <2>5 DEF Versions
<1>12. Inputs'
  <2>1. \A n \in Names : n.tmp /\ n # d => spool'[n].kind # "failure"
    BY <1>1, <1>8 DEF Counting, Inputs
  <2>2. \A n \in Names : n.sfx = "parse" => Parsable(spool'[n])
    BY <1>7, <1>8 DEF Counting, Inputs
  <2>3. Parsable(ctl["parse"].held)
    BY DEF Counting, Inputs
  <2>. QED BY <1>4, <1>6, <2>1, <2>2, <2>3 DEF Inputs, Taken
<1>13. Counted'
  BY <1>1, <1>4, CountedKept DEF Counting
<1>. QED BY <1>10, <1>11, <1>12, <1>13 DEF Counting
-----------------------------------------------------------------------------
\* The names that the output of the parser is published under.
LEMMA OutNames ==
    \A num \in Nums : LET d == Name("update", num) IN d \in Names /\ ~ d.tmp /\ d.sfx = "update"
BY NameBuilt, PhasesAre

\* The output of the parser takes a free name for the update phase.
LEMMA PublishCount == ASSUME TypeOK, RunInv, Counting, Publish PROVE Counting'
<1>. USE CountTypes
<1>. DEFINE out == ctl["parse"].out
            g == spool[out]
<1>1. /\ "parse" \in Phases /\ ctl["parse"].pc \in {"publish", "pass_on"} /\ UNCHANGED <<rec, fetched, failed, faults>>
  BY DEF Publish, world, history
<1>2. /\ out \in Names /\ out.tmp /\ out.sfx = "update"
      /\ \A n \in Names : n.tmp /\ spool[n].kind = "failure" => n = out
  BY <1>1 DEF Counting, Inputs, Taken
<1>3. PICK num \in Nums :
         spool' = IF g = Missing THEN spool ELSE [spool EXCEPT ![Name("update", num)] = g, ![out] = Missing]
  BY DEF Publish, Free
<1>. DEFINE d == Name("update", num)
<1>4. d \in Names /\ ~ d.tmp /\ d.sfx = "update"
  BY OutNames, Zenon
<1>5. /\ ctl'["parse"].pc \in {"next", "consume"}
      /\ ctl'["parse"].held \in {Missing, ctl["parse"].held}
      /\ \A q \in Phases \ {"parse"} : ctl'[q] = ctl[q]
  <2>1. Goto("parse", "consume") \/ Leave("parse", "next")
    BY DEF Publish
  <2>. QED BY <1>1, <2>1, GotoFields, LeaveFields, LeaveEmpty
<1>6. TrueTo(ctl'["parse"].held, fetched, faults.failures) /\ Parsable(ctl'["parse"].held)
  BY <1>5, TrueFacts DEF Counting, Versions, Inputs, Parsable
<1>7. TrueTo(g, fetched, faults.failures) /\ g \in Files /\ (g # Missing => g.kind # "missing")
  BY <1>2 DEF Counting, Versions, TrueTo
<1>8. Counted'
  BY <1>1, <1>5, CountedKept DEF Counting
<1>. HIDE DEF d, g
<1>9. CASE g = Missing
  <2>1. spool' = spool
    BY <1>3, <1>9
  <2>2. g.kind # "failure"
    BY <1>9
  <2>3. \A n \in Names : n.tmp => spool'[n].kind # "failure"
    BY <1>2, <2>1, <2>2 DEF g
  <2>4. \A n \in Names : n.sfx = "parse" => Parsable(spool'[n])
    BY <2>1 DEF Counting, Inputs
  <2>5. Inputs'
    BY <1>5, <1>6, <2>3, <2>4 DEF Inputs
  <2>6. Unique' /\ Versions'
    BY <1>1, <1>5, <1>6, <2>1, QuietCount DEF Preparing
  <2>. QED BY <1>8, <2>5, <2>6 DEF Counting
<1>10. CASE g # Missing
  <2>1. spool' = [spool EXCEPT ![d] = g, ![out] = Missing]
    BY <1>3, <1>10 DEF d
  <2>. HIDE DEF out
  <2>2. spool'[out] = Missing /\ spool'[d] = g /\ \A n \in Names : n # d /\ n # out => spool'[n] = spool[n]
    BY <1>2, <1>4, <2>1
  <2>3. Inputs'
    <3>1. \A n \in Names : n.tmp => spool'[n].kind # "failure"
      BY <1>2, <1>4, <2>2
    <3>2. \A n \in Names : n.sfx = "parse" => Parsable(spool'[n])
      BY <1>2, <1>4, <2>2 DEF Counting, Inputs
    <3>. QED BY <1>5, <1>6, <3>1, <3>2 DEF Inputs
  <2>4. \A n \in Names : TrueTo(spool'[n], fetched, faults.failures)
    BY <1>7, <2>2, TrueFacts DEF Counting, Versions
  <2>5. Versions'
    BY <1>1, <1>5, <1>6, <2>4, VersionsKept DEF Counting, Versions
  <2>6. CASE g.kind # "failure"
    <3>1. \A n \in Names : spool'[n] \in {spool[n], Missing} \/ (spool'[n].kind # "failure" /\ TrueTo(spool'[n], fetched, faults.failures))
      BY <1>7, <2>2, <2>6
    <3>2. Unique'
      BY <1>1, <1>5, <1>6, <3>1, QuietCount DEF Preparing
    <3>. QED BY <1>8, <2>3, <2>5, <3>2 DEF Counting
  <2>7. CASE g.kind = "failure"
    <3>1. PICK v \in Nat : v = g.ver
      BY <1>7 DEF Files
    <3>2. FileCopy(out, v)
      <4>1. ~ Doomed(out)
        BY <1>2 DEF Doomed, RunOK, Untouched
      <4>. QED BY <2>7, <3>1, <4>1 DEF FileCopy, g, out
    <3>3. UniqueAt(v)
      BY DEF Counting, Unique
    <3>4. \A n \in Names : Doomed(n) => Doomed(n)'
      BY <1>1, <1>5, DoomedKept DEF Preparing
    <3>5. \A n \in Names, w \in Nat : FileCopy(n, w)' => n # out /\ (FileCopy(n, w) \/ (n = d /\ w = v))
      BY <2>2, <3>1, <3>4 DEF FileCopy
    <3>6. \A q \in Phases, w \in Nat : RunCopy(q, w)' => RunCopy(q, w)
      BY <1>1, <1>5, RunCopyGone
    <3>7. \A n \in Names : FileCopy(n, v)' => n = d
      BY <1>2, <3>2, <3>3, <3>5 DEF UniqueAt
    <3>8. \A q \in Phases : ~ RunCopy(q, v)'
      BY <1>2, <3>2, <3>3, <3>6 DEF UniqueAt
    <3>9. v \notin failed
      BY <1>2, <3>2, <3>3 DEF UniqueAt
    <3>10. Unique'
      BY <1>1, <1>4, <3>5, <3>6, <3>7, <3>8, <3>9, FileMoved DEF Counting
    <3>. QED BY <1>8, <2>3, <2>5, <3>10 DEF Counting
  <2>. QED BY <2>6, <2>7
<1>. QED BY <1>9, <1>10

\* What is retrieved is of a new attempt.
LEMMA FetchCount == ASSUME TypeOK, RunInv, Counting, NEW kind \in {"listing", "failure"}, Fetch(kind) PROVE Counting'
<1>. USE CountTypes
<1>. DEFINE d == Name("parse", 0)
            v == attempts + 1
            g == File(kind, v, 2 * v)
<1>1. /\ "retr" \in Phases /\ ctl["retr"].pc = "fetch" /\ UNCHANGED <<rec, failed, faults>> /\ Goto("retr", "consume")
      /\ spool' = [spool EXCEPT ![d] = g]
      /\ fetched' = IF kind = "listing" THEN fetched \cup {v} ELSE fetched
  BY DEF Fetch, world
<1>2. /\ ctl'["retr"].pc = "consume" /\ ctl'["retr"].held = ctl["retr"].held
      /\ \A q \in Phases \ {"retr"} : ctl'[q] = ctl[q]
  BY <1>1, GotoFields
<1>3. d \in Names /\ ~ d.tmp /\ g.kind = kind /\ g.ver = v
  BY PhasesAre, NameBuilt, FileFields
<1>4. v \in Nat /\ v \notin fetched /\ v \notin failed /\ \A f \in Files : f.ver # v
  BY DEF TypeOK, Files
<1>5. \A f \in Files : TrueTo(f, fetched, faults.failures) => TrueTo(f, fetched', faults.failures)
  BY <1>1, <1>4 DEF TrueTo
<1>6. TrueTo(g, fetched', faults.failures)
  BY <1>1, <1>3, <1>4 DEF TrueTo
<1>. HIDE DEF d, g, v
<1>7. spool'[d] = g /\ \A n \in Names : n # d => spool'[n] = spool[n]
  BY <1>1, <1>3
<1>8. Versions'
  <2>1. \A n \in Names : TrueTo(spool'[n], fetched', faults.failures)
    BY <1>5, <1>6, <1>7 DEF Counting, Versions
  <2>2. \A q \in Phases : ctl'[q].held = ctl[q].held
    BY <1>2
  <2>3. \A q \in Phases : TrueTo(ctl'[q].held, fetched', faults.failures)
    BY <1>5, <2>2 DEF Counting, Versions
  <2>4. faults.failures = 0 => failed' \cap fetched' = {}
    BY <1>1, <1>4 DEF Counting, Versions
  <2>. QED BY <1>1, <2>1, <2>3, <2>4 DEF Versions
<1>9. Unique'
  <2>1. \A n \in Names : Doomed(n) => Doomed(n)'
    BY <1>1, <1>2, DoomedKept DEF Preparing
  <2>2. \A n \in Names, w \in Nat : FileCopy(n, w)' => FileCopy(n, w) \/ (n = d /\ w = v)
    BY <1>3, <1>7, <2>1 DEF FileCopy
  <2>3. \A q \in Phases, w \in Nat : RunCopy(q, w)' => RunCopy(q, w)
    BY <1>1, <1>2, RunCopyGone
  <2>4. \A n \in Names : ~ FileCopy(n, v)
    BY <1>4 DEF FileCopy
  <2>5. \A q \in Phases : ~ RunCopy(q, v)
    BY <1>4 DEF RunCopy
  <2>6. PICK u \in Nat : u = v
    BY <1>4
  <2>7. \A n \in Names : FileCopy(n, u)' => n = d
    BY <2>2, <2>4, <2>6
  <2>8. \A q \in Phases : ~ RunCopy(q, u)'
    BY <2>3, <2>5, <2>6
  <2>. QED BY <1>1, <1>3, <1>4, <2>2, <2>3, <2>6, <2>7, <2>8, FileMoved DEF Counting
<1>10. Inputs'
  BY <1>2, <1>3, <1>7, InputsKept DEF Counting, Parsable
<1>11. Counted'
  BY <1>1, <1>2, CountedKept DEF Counting
<1>. QED BY <1>8, <1>9, <1>10, <1>11 DEF Counting
-----------------------------------------------------------------------------
\* Nothing failed in the initial states.
LEMMA CountInit == Init => CountInv
<1>. SUFFICES ASSUME Init PROVE Counting
  BY DEF CountInv
<1>1. attempts = 0 /\ Missing.kind = "missing"
  BY FileFields DEF Init
<1>2. (\A n \in Names : spool[n] = Missing) /\ \A ph \in Phases : ctl[ph] = Idle
  BY DEF Init
<1>3. Idle.pc = "idle" /\ Idle.held = Missing /\ Idle.applied = FALSE
  BY DEF Idle
<1>4. Unique
  BY <1>1, <1>2, <1>3 DEF Unique, UniqueAt, FileCopy, RunCopy
<1>5. Versions
  BY <1>1, <1>2, <1>3, TrueFacts DEF Versions, Init
<1>6. Inputs
  BY <1>1, <1>2, <1>3, PhasesAre DEF Inputs, Parsable
<1>7. Counted
  BY <1>2, <1>3, PhasesAre, FS_EmptySet DEF Counted, Init, NoRec
<1>. QED BY <1>4, <1>5, <1>6, <1>7 DEF Counting

\* Kills and failures are not taken back.
LEMMA FaultsGrow ==
    ASSUME TypeOK, [Next]_vars
    PROVE  /\ faults.kills \in Nat /\ faults'.kills \in Nat /\ faults.kills <= faults'.kills
           /\ faults.failures \in Nat /\ faults'.failures \in Nat /\ faults.failures <= faults'.failures
<1>1. faults \in [kills : Nat, failures : Nat, stops : Nat]
  BY DEF TypeOK
<1>2. \/ faults' \in {faults, [faults EXCEPT !.kills = @ + 1], [faults EXCEPT !.failures = @ + 1],
                      [faults EXCEPT !.stops = @ + 1]}
  <2>1. CASE Request \/ RequestDeletion \/ Stop \/ Resume \/ RequeueAny \/ UNCHANGED vars
    BY <2>1 DEF Request, RequestDeletion, Ask, Stop, Resume, RequeueAny, Requeue, world, vars
  <2>2. ASSUME NEW ph \in Phases,
               \/ Start(ph) \/ StopFound(ph) \/ Read(ph) \/ ChooseName(ph) \/ Rename(ph) \/ Unlink(ph)
               \/ Run(ph) \/ Consume(ph) \/ Finish(ph)
        PROVE  faults' = faults
    BY <2>2 DEF Start, StopFound, Read, ChooseName, Rename, Unlink, Run, Consume, Finish, world
  <2>3. CASE Retrieve
    BY <2>3 DEF Retrieve, Fetch, world
  <2>4. CASE Parse
    BY <2>4 DEF Parse, Filter, WriteParsed, Publish, world
  <2>5. CASE Update
    BY <2>5 DEF Update, RecordFailure, Forget, Apply, ApplyDeletion, ResetFailCount, world
  <2>6. CASE ParseFails
    BY <2>6 DEF ParseFails, world
  <2>7. ASSUME NEW ph \in Phases, ProgramFails(ph) \/ Kill(ph)
        PROVE  faults' \in {[faults EXCEPT !.kills = @ + 1], [faults EXCEPT !.failures = @ + 1]}
    BY <2>7 DEF ProgramFails, Kill, world
  <2>. QED BY <2>1, <2>2, <2>3, <2>4, <2>5, <2>6, <2>7 DEF Next, PhaseStep
<1>. QED BY <1>1, <1>2

\* Every step keeps the count of failures.
LEMMA CountStep == TypeOK /\ RunInv /\ CountInv /\ [Next]_vars => CountInv'
<1>. SUFFICES ASSUME TypeOK, RunInv, CountInv, [Next]_vars, Few' PROVE Counting'
  BY DEF CountInv
<1>1. Few
  BY FaultsGrow DEF Few
<1>2. Counting
  BY <1>1 DEF CountInv
<1>3. CASE UNCHANGED vars
  <2>1. UNCHANGED <<spool, ctl, rec, fetched, failed, faults>>
    BY <1>3 DEF vars, history
  <2>2. Unique' /\ Counted'
    BY <1>2, <2>1 DEF Counting, Unique, UniqueAt, FileCopy, RunCopy, Doomed, Counted
  <2>3. Versions'
    BY <1>2, <2>1 DEF Counting, Versions, TrueTo
  <2>4. Inputs'
    BY <1>2, <2>1 DEF Counting, Inputs, Parsable, Taken
  <2>. QED BY <2>2, <2>3, <2>4 DEF Counting
<1>4. CASE Request \/ RequestDeletion \/ Stop \/ Resume \/ RequeueAny
  BY <1>2, <1>4, OutsideCount
<1>5. ASSUME NEW ph \in Phases, Kill(ph) PROVE FALSE
  BY <1>1, <1>5 DEF Kill, Few, TypeOK
<1>6. ASSUME NEW ph \in Phases, ProgramFails(ph) PROVE Counting'
  BY <1>2, <1>6, BetweenCount
<1>7. ASSUME NEW ph \in Phases, PhaseStep(ph) PROVE Counting'
  BY <1>2, <1>7, BetweenCount, ReadCount, ChooseCount, RenameCount, UnlinkCount, RunCount, ConsumeCount, WriteCount,
     PublishCount, FetchCount, ApplyCount, RecordCount DEF PhaseStep, Retrieve, Parse, Update
<1>8. CASE ParseFails
  BY <1>2, <1>8, ParseFailsCount DEF Few
<1>. QED BY <1>3, <1>4, <1>5, <1>6, <1>7, <1>8 DEF Next

\* fail_count of the host record is the number of attempts that failed since
\* the last success: write_hostdb_failure counts no attempt twice, however the
\* three runs overlap and whatever files they read, copy and unlink meanwhile,
\* as long as none is killed and no more than one program fails.
THEOREM CycleCountsOnce == Spec => []FailsSuccessive
<1>1. CountInv => FailsSuccessive
  BY DEF CountInv, Few, Counting, Counted, FailsSuccessive
<1>. QED BY <1>1, InitType, RunInit, CountInit, StepType, RunStep, CountStep, PTL DEF Spec
=============================================================================
