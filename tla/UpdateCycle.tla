----------------------------- MODULE UpdateCycle -----------------------------
(***************************************************************************)
(* The Update Cycle: the files of one site and catalog in the holding       *)
(* directory (db/tmp), and the three arcontrol runs (-r, -p, -u) that take   *)
(* them from phase to phase by their suffixes.                              *)
(*                                                                         *)
(* An arcontrol run reads the directory once, prepares every file (a copy,  *)
(* uncompressed, is renamed to the name with _t, the original unlinked), and *)
(* then runs the phase's program on each of them.  A file whose header says  *)
(* FAIL is not given to the program: the header goes on by itself, to the   *)
(* host databases in the end.  Runs of different phases, started by cron,   *)
(* may overlap; each may be killed or stopped between any two steps.         *)
(*                                                                         *)
(* One step is the code between two accesses to the directory.  Versions of  *)
(* the listing are numbered by the attempts to retrieve it; attempt a is     *)
(* made at time 2a, and what happens before the next one at 2a + 1.         *)
(***************************************************************************)
EXTENDS Integers, FiniteSets

CONSTANTS
    MaxNum,         \* bound: the numbers tried for a file name are 0 .. MaxNum (99 in the code)
    MaxEvents,      \* bound: requests, kills, failing programs and stop files, in all
    NameAnswers     \* may the site's preferred name (still) be that of its host?

ASSUME AnswersAssumption == NameAnswers \subseteq BOOLEAN

ASSUME BoundsAssumption == {MaxNum, MaxEvents} \subseteq Nat

VARIABLES
    spool,      \* the holding directory
    ctl,        \* the arcontrol run of each phase, with the program it waits for
    rec,        \* the site's auxiliary host record
    sameName,   \* the name service still knows the host by its preferred name
    listed,     \* the host is in the primary host database
    stop,       \* etc/process.stop exists
    attempts,   \* retrievals made, the clock of the headers
    asked,      \* retrievals and deletions asked for, so far
    faults,     \* kills, failures and stops, so far
    fetched,    \* history: the attempts that obtained a listing
    failed,     \* history: the attempts that were recorded as failures since the last success
    settled,    \* history: the attempts whose result reached update_anonftp or the host record
    overlapped, \* history: the parse phase and another one were running at once
    replaced    \* history: the attempts whose result an error header took the place of,
                \* under a name that had been free

history == <<fetched, failed, settled, overlapped, replaced>>
vars == <<spool, ctl, rec, sameName, listed, stop, attempts, asked, faults, history>>

Phases == {"retr", "parse", "update"}
Nums == 0 .. MaxNum
Unnumbered == MaxNum + 1
Names == [sfx : Phases, num : Nums \cup {Unnumbered}, tmp : BOOLEAN]
Name(sfx, num) == [sfx |-> sfx, num |-> num, tmp |-> FALSE]
TmpName(sfx, num) == [sfx |-> sfx, num |-> num, tmp |-> TRUE]

\* A file: what its header says, which attempt it stems from, its retrieve_time.
Kinds == {"request", "deletion", "listing", "failure"}
File(kind, ver, time) == [kind |-> kind, ver |-> ver, time |-> time]
Missing == File("missing", 0, 0)

\* Mutant: the numbers are not tried, the first one is taken.
Free_Untried(sfx, tmp) == {0}

\* access(name) == -1, in the loops that look for a free "random" number.
Free(sfx, tmp) == {n \in Nums : spool[[sfx |-> sfx, num |-> n, tmp |-> tmp]] = Missing}

NoName == Name("retr", 0)
Idle == [pc |-> "idle", list |-> {}, ready |-> {}, cur |-> NoName, held |-> Missing, out |-> NoName,
         applied |-> FALSE]

NoRec == [status |-> "none", time |-> 0, ver |-> 0, fails |-> 0]
NoFaults == [kills |-> 0, failures |-> 0, stops |-> 0]

Init ==
    /\ spool = [n \in Names |-> Missing]
    /\ ctl = [ph \in Phases |-> Idle]
    /\ rec = NoRec
    /\ sameName \in NameAnswers
    /\ listed \in BOOLEAN
    /\ stop = FALSE
    /\ attempts = 0
    /\ asked = 0
    /\ faults = NoFaults
    /\ fetched = {} /\ failed = {} /\ settled = {} /\ overlapped = FALSE /\ replaced = {}

At(ph, pc) == ctl[ph].pc = pc
Cur(ph) == ctl[ph].cur
Goto(ph, pc) == ctl' = [ctl EXCEPT ![ph].pc = pc]

\* The run is done with its current file.
Leave(ph, pc) ==
    ctl' = [ctl EXCEPT ![ph].pc = pc, ![ph].held = Missing, ![ph].cur = NoName, ![ph].out = NoName,
                          ![ph].applied = FALSE]
MayHappen == asked + faults.kills + faults.failures + faults.stops < MaxEvents
Stamp == 2 * attempts + 1
NameGood == listed /\ sameName
world == <<sameName, listed, stop, asked, faults>>
-----------------------------------------------------------------------------
(***************************************************************************)
(* What reaches the directory from outside                                 *)
(***************************************************************************)
\* arretrieve asks for the site: get_headers writes a header under a free
\* number.  One request at a time.
Ask(kind) ==
    /\ MayHappen
    /\ \A n \in Names : n.sfx = "retr" => spool[n] = Missing
    /\ At("retr", "idle")
    /\ \E num \in Free("retr", FALSE) :
          spool' = [spool EXCEPT ![Name("retr", num)] = File(kind, 0, 0)]
    /\ asked' = asked + 1
    /\ UNCHANGED <<ctl, rec, sameName, listed, stop, attempts, faults, history>>

Request == Ask("request")
RequestDeletion == Ask("deletion")

\* The administrator creates and removes process.stop, and gives files that
\* were left with the suffix _t their names back.
Stop ==
    /\ ~ stop /\ MayHappen
    /\ stop' = TRUE
    /\ faults' = [faults EXCEPT !.stops = @ + 1]
    /\ UNCHANGED <<spool, ctl, rec, sameName, listed, attempts, asked, history>>

Resume ==
    /\ stop /\ stop' = FALSE
    /\ UNCHANGED <<spool, ctl, rec, sameName, listed, attempts, asked, faults, history>>

Requeue(n) ==
    /\ n.tmp /\ spool[n] # Missing /\ spool[Name(n.sfx, n.num)] = Missing
    /\ \A ph \in Phases : At(ph, "idle")
    /\ spool' = [spool EXCEPT ![Name(n.sfx, n.num)] = spool[n], ![n] = Missing]
    /\ UNCHANGED <<ctl, rec, world, attempts, history>>
-----------------------------------------------------------------------------
(***************************************************************************)
(* arcontrol: main, get_file_list and preprocess_file                      *)
(***************************************************************************)
\* main: the names that end in the phase's suffix, as they are now.
Start(ph) ==
    /\ At(ph, "idle")
    /\ \E list \in {{n \in Names : n.sfx = ph /\ ~ n.tmp /\ spool[n] # Missing}} :
          /\ list # {}
          /\ ctl' = [ctl EXCEPT ![ph] = [Idle EXCEPT !.pc = "next", !.list = list]]
    /\ overlapped' = (overlapped \/ IF ph = "parse" THEN \E other \in Phases : ~ At(other, "idle")
                                                   ELSE ~ At("parse", "idle"))
    /\ UNCHANGED <<spool, rec, world, attempts, fetched, failed, settled, replaced>>

\* The stop file is looked for before each file: exit(A_OK), and the files
\* prepared so far keep their _t.
StopFound(ph) ==
    /\ stop
    /\ At(ph, "next") /\ ctl[ph].list \cup ctl[ph].ready # {}
    /\ ctl' = [ctl EXCEPT ![ph] = Idle]
    /\ UNCHANGED <<spool, rec, world, attempts, history>>

\* Mutant: the name of a failed site is not checked, its header always goes on.
Recorded_Never(ph, f) == FALSE

\* A failed retrieval ends in the host record if the name service denies the
\* site's name, or no such host is known.
Recorded(ph, f) == ph = "update" /\ f.kind = "failure" /\ ~ NameGood

\* The file is opened and read; one that has gone since is passed over.  A
\* request to delete goes on to the update phase as it is.
Read(ph) ==
    /\ At(ph, "next") /\ ~ stop
    /\ \E n \in ctl[ph].list :
          LET f == spool[n]
              deletion == ph = "retr" /\ f.kind = "deletion"
          IN  /\ spool' = IF deletion
                            THEN [spool EXCEPT ![Name("update", Unnumbered)] = f, ![n] = Missing]
                            ELSE spool
              /\ ctl' = IF f = Missing \/ deletion THEN [ctl EXCEPT ![ph].list = @ \ {n}]
                        ELSE [ctl EXCEPT ![ph].list = @ \ {n}, ![ph].cur = n, ![ph].held = f,
                                         ![ph].pc = IF Recorded(ph, f) THEN "record"
                                                  ELSE IF f.kind = "failure" THEN "choose" ELSE "rename"]
    /\ UNCHANGED <<rec, world, attempts, history>>

\* Where an error header goes on: to the next phase from parsing, to .parse from
\* anywhere else, also from the update phase if the site's name is still good.
Onward(ph) == IF ph = "parse" THEN "update" ELSE "parse"

\* The label fail_handle.  An error header is to go on under a name that is free
\* when it is looked for; it is stamped, and written to the temporary file.
ChooseName(ph) ==
    /\ At(ph, "choose")
    /\ \E num \in Free(Onward(ph), FALSE) :
          ctl' = [ctl EXCEPT ![ph].pc = "rename", ![ph].out = Name(Onward(ph), num),
                             ![ph].held.time = Stamp]
    /\ UNCHANGED <<spool, rec, world, attempts, history>>

\* What was prepared takes its name: an error header the chosen one, a copy the
\* input's with _t, whatever stands there now.
Rename(ph) ==
    /\ At(ph, "rename")
    /\ LET f == ctl[ph].held
           header == f.kind = "failure"
           n == IF header THEN ctl[ph].out ELSE TmpName(ph, Cur(ph).num)
       IN  /\ spool' = [spool EXCEPT ![n] = f]
           /\ replaced' = IF header /\ spool[n].time > f.time THEN replaced \cup {spool[n].ver}
                                                             ELSE replaced
    /\ Goto(ph, "unlink")
    /\ UNCHANGED <<rec, world, attempts, fetched, failed, settled, overlapped>>

\* The original goes, whatever stands under its name now.
Unlink(ph) ==
    /\ At(ph, "unlink")
    /\ spool' = [spool EXCEPT ![Cur(ph)] = Missing]
    /\ ctl' = [ctl EXCEPT ![ph].pc = "next", ![ph].held = Missing,
                          ![ph].ready = IF ctl[ph].held.kind = "failure" THEN @
                                        ELSE @ \cup {TmpName(ph, Cur(ph).num)},
                          ![ph].cur = NoName, ![ph].out = NoName]
    /\ UNCHANGED <<rec, world, attempts, history>>

\* write_hostdb_failure, for a site that has a record or a host to add one to;
\* the status it sets on the header when fail_count exceeds MAX_FAIL comes after
\* the record was made from the header.  Then the file is unlinked.
RecordFailure ==
    /\ At("update", "record")
    /\ IF rec = NoRec /\ ~ listed
         THEN UNCHANGED <<rec, failed>>
         ELSE /\ rec' = [rec EXCEPT !.status = "inactive", !.fails = @ + 1,
                                    !.time = ctl["update"].held.time]
              /\ failed' = failed \cup {ctl["update"].held.ver}
    /\ settled' = settled \cup {ctl["update"].held.ver}
    /\ Goto("update", "forget")
    /\ UNCHANGED <<spool, world, attempts, fetched, overlapped, replaced>>

\* Mutant: the header that was recorded stays.
Forget_Kept ==
    /\ At("update", "forget")
    /\ Leave("update", "next")
    /\ UNCHANGED <<spool, rec, world, attempts, history>>

Forget ==
    /\ At("update", "forget")
    /\ spool' = [spool EXCEPT ![Cur("update")] = Missing]
    /\ Leave("update", "next")
    /\ UNCHANGED <<rec, world, attempts, history>>

-----------------------------------------------------------------------------
(***************************************************************************)
(* arcontrol: cntl_function, and the programs it runs                      *)
(***************************************************************************)
FirstPC == [retr |-> "fetch", parse |-> "filter", update |-> "apply"]

\* The list is worked off: cntl_function runs the phase's program on each file
\* that was prepared.  The program opens its input; without it, it exits.
Run(ph) ==
    /\ At(ph, "next") /\ ctl[ph].list = {} /\ ~ stop
    /\ \E n \in ctl[ph].ready :
          ctl' = IF spool[n] = Missing THEN [ctl EXCEPT ![ph].ready = @ \ {n}]
                 ELSE [ctl EXCEPT ![ph].ready = @ \ {n}, ![ph].cur = n, ![ph].held = spool[n],
                                  ![ph].pc = FirstPC[ph]]
    /\ UNCHANGED <<spool, rec, world, attempts, history>>

Finish(ph) ==
    /\ At(ph, "next") /\ ctl[ph].list \cup ctl[ph].ready = {}
    /\ ctl' = [ctl EXCEPT ![ph] = Idle]
    /\ UNCHANGED <<spool, rec, world, attempts, history>>

\* retrieve_anonftp renames what it obtained, or the error header, to number 0,
\* whatever stands there.
Fetch(kind) ==
    /\ At("retr", "fetch")
    /\ attempts' = attempts + 1
    /\ spool' = [spool EXCEPT ![Name("parse", 0)] = File(kind, attempts + 1, 2 * (attempts + 1))]
    /\ fetched' = IF kind = "listing" THEN fetched \cup {attempts + 1} ELSE fetched
    /\ Goto("retr", "consume")
    /\ UNCHANGED <<rec, world, failed, settled, overlapped, replaced>>

\* parse_anonftp: a free name is chosen before the filter runs ...
Filter ==
    /\ At("parse", "filter")
    /\ \E num \in Free("update", TRUE) :
          ctl' = [ctl EXCEPT !["parse"].pc = "write", !["parse"].out = TmpName("update", num)]
    /\ UNCHANGED <<spool, rec, world, attempts, history>>

\* ... the parser writes to it after the filter has ended ...
WriteParsed ==
    /\ At("parse", "write")
    /\ spool' = [spool EXCEPT ![ctl["parse"].out] = ctl["parse"].held]
    /\ Goto("parse", "publish")
    /\ UNCHANGED <<rec, world, attempts, history>>

\* ... or writes a header that says FAIL; it exits so as well, unless all that is
\* wrong is that the listing has no entries.
ParseFails ==
    /\ At("parse", "write") /\ MayHappen
    /\ faults' = [faults EXCEPT !.failures = @ + 1]
    /\ spool' = [spool EXCEPT ![ctl["parse"].out] = [ctl["parse"].held EXCEPT !.kind = "failure"]]
    /\ \E pc \in {"pass_on", "publish"} : Goto("parse", pc)
    /\ UNCHANGED <<rec, sameName, listed, stop, asked, attempts, history>>

\* Either way the output is renamed; the input is unlinked only if the parser
\* succeeded and the rename did.
Publish ==
    /\ ctl["parse"].pc \in {"publish", "pass_on"}
    /\ LET out == ctl["parse"].out IN
       \E num \in Free("update", FALSE) :
          /\ spool' = IF spool[out] = Missing THEN spool
                      ELSE [spool EXCEPT ![Name("update", num)] = spool[out], ![out] = Missing]
          /\ IF At("parse", "publish") /\ spool[out] # Missing
               THEN Goto("parse", "consume")
               ELSE Leave("parse", "next")
    /\ UNCHANGED <<rec, world, attempts, history>>

\* update_anonftp: a listing older than the host record is ignored, another one
\* replaces the site's listing, and do_hostdb_update its host record, fail_count
\* included; a deletion marks the record.  (AnonftpUpdate has the steps between.)
Apply ==
    /\ At("update", "apply") /\ ctl["update"].held.kind = "listing"
    /\ LET f == ctl["update"].held
           stale == f.time < rec.time
       IN  /\ ctl' = [ctl EXCEPT !["update"].pc = "consume", !["update"].applied = ~ stale]
           /\ IF stale
                THEN UNCHANGED <<rec, listed, failed>>
                ELSE /\ rec' = [rec EXCEPT !.status = "active", !.time = f.time, !.ver = f.ver, !.fails = 0]
                     /\ listed' = TRUE
                     /\ failed' = {}
    /\ settled' = settled \cup {ctl["update"].held.ver}
    /\ UNCHANGED <<spool, sameName, stop, asked, faults, attempts, fetched, overlapped, replaced>>

ApplyDeletion ==
    /\ At("update", "apply") /\ ctl["update"].held.kind = "deletion"
    /\ rec' = IF rec = NoRec THEN rec ELSE [rec EXCEPT !.status = "deleted"]
    /\ Goto("update", "consume")
    /\ UNCHANGED <<spool, world, attempts, history>>

\* The program's last steps: its input is unlinked; after an insertion
\* fail_count is set to 0 once more.
Consume(ph) ==
    /\ At(ph, "consume")
    /\ spool' = [spool EXCEPT ![Cur(ph)] = Missing]
    /\ Leave(ph, IF ctl[ph].applied THEN "reset" ELSE "next")
    /\ UNCHANGED <<rec, world, attempts, history>>

\* Mutant: one failure is forgiven by a success.
ResetFailCount_One ==
    /\ At("update", "reset")
    /\ rec' = [rec EXCEPT !.fails = @ - 1]
    /\ Goto("update", "next")
    /\ UNCHANGED <<spool, world, attempts, history>>

ResetFailCount ==
    /\ At("update", "reset")
    /\ rec' = [rec EXCEPT !.fails = 0]
    /\ Goto("update", "next")
    /\ UNCHANGED <<spool, world, attempts, history>>

\* A program exits with an error before it has done anything: arcontrol goes
\* on, its input keeps the suffix _t.
ProgramFails(ph) ==
    /\ ctl[ph].pc \in {"fetch", "filter", "apply"} /\ MayHappen
    /\ faults' = [faults EXCEPT !.failures = @ + 1]
    /\ Leave(ph, "next")
    /\ UNCHANGED <<spool, rec, sameName, listed, stop, asked, attempts, history>>

\* arcontrol is killed with its children, or the machine stops.
Kill(ph) ==
    /\ ~ At(ph, "idle") /\ MayHappen
    /\ faults' = [faults EXCEPT !.kills = @ + 1]
    /\ ctl' = [ctl EXCEPT ![ph] = Idle]
    /\ UNCHANGED <<spool, rec, sameName, listed, stop, asked, attempts, history>>
-----------------------------------------------------------------------------
Retrieve == \E kind \in {"listing", "failure"} : Fetch(kind)
Parse == Filter \/ WriteParsed \/ Publish
Update == RecordFailure \/ Forget \/ Apply \/ ApplyDeletion \/ ResetFailCount

\* A run of the phase, from its start by cron to its end.
PhaseStep(ph) ==
    \/ Start(ph) \/ StopFound(ph) \/ Read(ph) \/ ChooseName(ph) \/ Rename(ph) \/ Unlink(ph)
    \/ Run(ph) \/ Consume(ph) \/ Finish(ph)
    \/ ph = "retr" /\ Retrieve
    \/ ph = "parse" /\ Parse
    \/ ph = "update" /\ Update

RequeueAny == \E n \in Names : Requeue(n)

Next ==
    \/ Request \/ RequestDeletion \/ Stop \/ Resume \/ RequeueAny
    \/ \E ph \in Phases : PhaseStep(ph) \/ ProgramFails(ph) \/ Kill(ph)
    \/ ParseFails

Spec == Init /\ [][Next]_vars

\* cron starts every phase again and again, programs go on, and the
\* administrator looks after what was left behind.
FairSpec ==
    /\ Spec
    /\ \A ph \in Phases : WF_vars(PhaseStep(ph))
    /\ WF_vars(Resume)
    /\ SF_vars(RequeueAny)
-----------------------------------------------------------------------------
PCs == {"idle", "next", "choose", "rename", "unlink", "record", "forget", "fetch", "filter",
        "write", "publish", "pass_on", "apply", "consume", "reset"}
Files == [kind : Kinds \cup {"missing"}, ver : 0 .. attempts, time : 0 .. Stamp]
HostRecs == [status : {"none", "active", "inactive", "deleted"}, time : 0 .. Stamp,
             ver : 0 .. attempts, fails : Nat]

TypeOK ==
    /\ attempts \in Nat /\ asked \in Nat
    /\ spool \in [Names -> Files]
    /\ ctl \in [Phases -> [pc : PCs, list : SUBSET Names, cur : Names, held : Files,
                           out : Names, ready : SUBSET Names, applied : BOOLEAN]]
    /\ rec \in HostRecs
    /\ faults \in [kills : Nat, failures : Nat, stops : Nat]
    /\ sameName \in NameAnswers /\ listed \in BOOLEAN /\ stop \in BOOLEAN /\ overlapped \in BOOLEAN
    /\ fetched \subseteq 1 .. attempts /\ failed \subseteq 0 .. attempts
    /\ settled \subseteq 0 .. attempts /\ replaced \subseteq 0 .. attempts

\* The result of attempt a or a later one is in some file.
InSpool(a) == \E n \in Names : spool[n].kind \in {"listing", "failure"} /\ spool[n].ver >= a

\* The outcome of attempt a or a later one was worked off, or an error header has
\* taken its place: one that the update phase sends back to .parse under a name it
\* found free, when a retrieval has put its result there since.
GoneBy(a) == \E b \in settled \cup replaced : b >= a

\* A listing that was obtained is worked off or still in a file, or a later
\* attempt's outcome is: through all the renaming, copying and unlinking, after
\* kills, failing programs and stop files.  There are two exceptions.  While a run
\* of the parse phase coincides with one of another phase, arcontrol unlinks names
\* that stand for newer files meanwhile; and a header may replace a listing that
\* came after its name was chosen (replaced), and in no other way.
NothingLost == ~ overlapped => \A a \in fetched : InSpool(a) \/ GoneBy(a)

\* fail_count is the number of attempts that were recorded as failures since
\* the last success: write_hostdb_failure counts none twice, and update_anonftp
\* starts afresh.  A kill between the record and the unlink, or a second
\* failure to parse the same listing, counts an attempt twice indeed.
FailsSuccessive ==
    faults.kills = 0 /\ faults.failures <= 1 => rec.fails = Cardinality(failed)

\* The outcome of every attempt reaches update_anonftp or the host record, or a
\* later one does, unless phases overlap or a header replaces it.  The error header
\* of a site whose name is still good never does: it goes from .update to .parse
\* and back.
AttemptsSettle ==
    \A a \in 1 .. MaxEvents :
        attempts >= a ~> \/ GoneBy(a)
                         \/ overlapped
                         \/ NameGood /\ \E n \in Names : spool[n].kind = "failure"
=============================================================================
