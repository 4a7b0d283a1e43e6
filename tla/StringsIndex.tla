---------------------------- MODULE StringsIndex ----------------------------
(***************************************************************************)
(* The strings of a catalog (lib/archstridx): Stridx.Strings, to which      *)
(* insert_anonftp appends a string that is not there yet; Stridx.Index,     *)
(* which db_build makes anew over the whole text from time to time; and     *)
(* Stridx.Split, the length of the text that need not be searched as it     *)
(* stands.  A string is known everywhere else by its offset in the text.    *)
(*                                                                         *)
(* Three programs work on these files at the same time: one insertion (the  *)
(* catalog's lock file keeps others away, see AnonftpUpdate), db_build, and *)
(* clients that search.  Only the exchange of index and split is made under *)
(* a lock (Stridx.Lock).  One step is the code between two accesses to       *)
(* shared files.                                                            *)
(*                                                                         *)
(* A string takes two units of text, its head and its end with the          *)
(* separator, so that it can be written in part.  Offsets count from 1.     *)
(***************************************************************************)
EXTENDS Integers, Sequences, FiniteSets

CONSTANTS
    Keys,           \* strings
    NoKey,          \* the empty string before the first separator
    MaxText,        \* bound: offsets given to new strings
    MaxRuns,        \* bound: insertions
    MaxFaults       \* bound: kills and writes that fall short

ASSUME NoKeyAssumption == NoKey \notin Keys
ASSUME BoundsAssumption == {MaxText, MaxRuns, MaxFaults} \subseteq Nat

VARIABLES
    files,          \* which of Strings, Split and Type are there and complete:
                    \* "none", "some", "all"
    text,           \* Stridx.Strings
    split,          \* Stridx.Split; 0 while the file is empty
    idx,            \* Stridx.Index
    ap,             \* the insertion
    bd,             \* db_build
    se,             \* a client
    published,      \* <<string, offset>> in site files and in the start database
    lost,           \* history: of these, what a kill left without its string
    torn,           \* history: some write stopped inside a string or the first separator
    blind,          \* history: some insertion opened an index that is not exact
    runs, faults    \* so far

stridx == <<files, text, split, idx>>
history == <<published, lost, torn, blind>>
bounds == <<runs, faults>>
vars == <<stridx, ap, bd, se, history, bounds>>

Unit == [key : Keys \cup {NoKey}, end : BOOLEAN]
HeadOf(k) == [key |-> k, end |-> FALSE]
EndOf(k) == [key |-> k, end |-> TRUE]
Separator == EndOf(NoKey)

\* How much of the text an index covers, and whether the text stood still while
\* it was built.
NoIndex == [cover |-> 0, exact |-> TRUE]

Closed == [pc |-> "idle", split |-> 0, index |-> NoIndex, cache |-> {}, next |-> 0, pend |-> <<>>, made |-> {}]
NoBuild == [pc |-> "idle", split |-> 0, index |-> NoIndex]
NoSearch == [pc |-> "idle", split |-> 0, index |-> NoIndex, len |-> 0]

Init ==
    /\ files = "none" /\ text = <<>> /\ split = 0 /\ idx = NoIndex
    /\ ap = Closed /\ bd = NoBuild /\ se = NoSearch
    /\ published = {} /\ lost = {} /\ torn = FALSE /\ blind = FALSE
    /\ runs = 0 /\ faults = 0
-----------------------------------------------------------------------------
(***************************************************************************)
(* The text                                                                *)
(***************************************************************************)
\* archGetString: the string at p is k.
Reads(t, k, p) == p + 1 \in DOMAIN t /\ p \in DOMAIN t /\ t[p] = HeadOf(k) /\ t[p + 1] = EndOf(k)

\* A search for exactly k matches at p: the separator before it is part of the
\* search key.
Matches(t, k, p) == Reads(t, k, p) /\ p - 1 \in DOMAIN t /\ t[p - 1].end

\* init_hash_table reads the text line by line, the first line starting at the
\* split whatever stands before it ...
Lines(t, from) == {kp \in Keys \X (from + 1 .. Len(t)) :
                     \/ Matches(t, kp[1], kp[2])
                     \/ kp[2] = from + 1 /\ Reads(t, kp[1], kp[2])}

\* ... and of equal strings the last one remains.
CacheOf(t, from) == {kp \in Lines(t, from) : \A lp \in Lines(t, from) : lp[1] = kp[1] => lp[2] <= kp[2]}

\* get_key fails at a last line without a separator.
Readable(t, from) == Len(t) > from => t[Len(t)].end

\* What an exact index finds.  It also has the beginning of a string that was
\* not complete when the index was built; whether it finds the whole string then
\* depends on its other strings.
Hits(t, k, cover) == {p \in 1 .. cover - 1 : Matches(t, k, p)}
MaybeHits(t, k, cover) == {p \in {cover} : Matches(t, k, p)}

\* An index that is not exact has strings under wrong starts and in wrong places.
\* What it finds for exactly k is compared with the text, so that it may miss k
\* but does not take another string for it.
MayFind(t, k, i) ==
    IF i.exact THEN Hits(t, k, i.cover) \cup MaybeHits(t, k, i.cover)
               ELSE {p \in DOMAIN t : Matches(t, k, p)}
MayMiss(t, k, i) == i.exact => Hits(t, k, i.cover) = {}
-----------------------------------------------------------------------------
(***************************************************************************)
(* An insertion: archOpenStrIdx(ARCH_STRIDX_APPEND), archAppendKey for each *)
(* string of the site, the publication of the offsets in the start database *)
(* and the site file, archCloseStrIdx                                       *)
(***************************************************************************)
ApAt(pc) == ap.pc = pc
Flushed == text \o ap.pend

\* db_build holds Stridx.Lock.
Exclusive == bd.pc \in {"truncate", "write"}

\* insert_anonftp finds no files at all; archCreateStrIdx makes Strings, whose
\* first separator stays in memory, ...
CreateStrings ==
    /\ ApAt("idle") /\ runs < MaxRuns /\ files = "none"
    /\ runs' = runs + 1
    /\ files' = "some"
    /\ ap' = [Closed EXCEPT !.pc = "create", !.pend = <<Separator>>]
    /\ UNCHANGED <<text, split, idx, bd, se, history, faults>>

\* ... then Split ...
CreateSplit ==
    /\ ApAt("create")
    /\ split' = 1
    /\ ap' = [ap EXCEPT !.pc = "type", !.split = 1]
    /\ UNCHANGED <<files, text, idx, bd, se, history, bounds>>

\* ... and Type, with which the strings can be opened.
CreateType ==
    /\ ApAt("type")
    /\ files' = "all"
    /\ ap' = [ap EXCEPT !.pc = "open", !.next = 2]
    /\ UNCHANGED <<text, split, idx, bd, se, history, bounds>>

\* Mutant: what read_split answers is not looked at.
ReadSplit_Unchecked ==
    /\ ApAt("idle") /\ runs < MaxRuns /\ files = "all"
    /\ runs' = runs + 1
    /\ ap' = [Closed EXCEPT !.pc = "split", !.split = split]
    /\ UNCHANGED <<stridx, bd, se, history, faults>>

\* open_append: the split is read before the lock is taken.  An empty file ends
\* the program.
ReadSplit ==
    /\ ApAt("idle") /\ runs < MaxRuns /\ files = "all"
    /\ runs' = runs + 1
    /\ ap' = IF split = 0 THEN Closed ELSE [Closed EXCEPT !.pc = "split", !.split = split]
    /\ UNCHANGED <<stridx, bd, se, history, faults>>

\* Mutant: the first offset is that of the unindexed text.
FirstOffset_Split == ap.split + 1

FirstOffset == Len(text) + 1

\* The index is opened under the lock; then the unindexed strings are loaded.
OpenIndex ==
    /\ ApAt("split") /\ ~ Exclusive
    /\ ap' = IF Readable(text, ap.split)
               THEN [ap EXCEPT !.pc = "open", !.index = idx, !.cache = CacheOf(text, ap.split),
                               !.next = FirstOffset]
               ELSE Closed
    /\ blind' = (blind \/ ~ idx.exact)
    /\ UNCHANGED <<stridx, bd, se, published, lost, torn, bounds>>

\* archAppendKey: the string is one of the unindexed ones.
AppendCached(k) ==
    /\ ApAt("open")
    /\ \E kp \in ap.cache : kp[1] = k /\ ap' = [ap EXCEPT !.made = @ \cup {kp}]
    /\ UNCHANGED <<stridx, bd, se, history, bounds>>

NotCached(k) == \A kp \in ap.cache : kp[1] # k

\* The search reads the text through the file that is written to, which writes
\* out what was kept in memory.
AppendIndexed(k) ==
    /\ ApAt("open") /\ NotCached(k)
    /\ \E p \in MayFind(Flushed, k, ap.index) :
          ap' = [ap EXCEPT !.made = @ \cup {<<k, p>>}, !.pend = <<>>]
    /\ text' = Flushed
    /\ UNCHANGED <<files, split, idx, bd, se, history, bounds>>

\* Mutant: only the cache is asked.
AppendNew_Unsearched(k) ==
    /\ ApAt("open") /\ NotCached(k)
    /\ ap.next <= MaxText
    /\ text' = Flushed
    /\ ap' = [ap EXCEPT !.pend = <<HeadOf(k), EndOf(k)>>, !.next = @ + 2,
                        !.cache = @ \cup {<<k, ap.next>>}, !.made = @ \cup {<<k, ap.next>>}]
    /\ UNCHANGED <<files, split, idx, bd, se, history, bounds>>

\* It is nowhere: it is put into the cache and, behind a seek to the end that
\* writes out the string before it, into the file's buffer.
AppendNew(k) ==
    /\ ApAt("open") /\ NotCached(k) /\ MayMiss(Flushed, k, ap.index)
    /\ ap.next <= MaxText
    /\ text' = Flushed
    /\ ap' = [ap EXCEPT !.pend = <<HeadOf(k), EndOf(k)>>, !.next = @ + 2,
                        !.cache = @ \cup {<<k, ap.next>>}, !.made = @ \cup {<<k, ap.next>>}]
    /\ UNCHANGED <<files, split, idx, bd, se, history, bounds>>

\* The lists and the site file, with the offsets of the site's strings, are in
\* place before the strings file is closed.
Publish ==
    /\ ApAt("open")
    /\ published' = published \cup ap.made
    /\ lost' = lost \ ap.made
    /\ ap' = [Closed EXCEPT !.pc = "close", !.pend = ap.pend]
    /\ UNCHANGED <<stridx, bd, se, torn, blind, bounds>>

\* archCloseStrIdx, or exit() on one of the error paths before.
Close ==
    /\ ap.pc \in {"open", "close", "create", "type"}
    /\ text' = Flushed
    /\ ap' = Closed
    /\ UNCHANGED <<files, split, idx, bd, se, history, bounds>>

\* The first n units of what is in memory are written, the rest never is.  The
\* offsets of a string that is not in the text now name nothing.
Dropped(n) ==
    /\ text' = text \o SubSeq(ap.pend, 1, n)
    /\ lost' = lost \cup {kp \in published : kp[2] + 1 > Len(text) + n}
    /\ torn' = (torn \/ n \notin {0, Len(ap.pend)} \/ (ap.pend = <<Separator>> /\ n = 0))
    /\ ap' = Closed

\* Kill, or the machine stops; or a full disk when the file is closed, which
\* nobody looks at.
Killed ==
    /\ ~ ApAt("idle") /\ faults < MaxFaults
    /\ faults' = faults + 1
    /\ \E n \in 0 .. Len(ap.pend) : Dropped(n)
    /\ UNCHANGED <<files, split, idx, bd, se, published, blind, runs>>

\* The disk is full while strings are appended: archAppendKey returns an error,
\* rollback() does nothing, ...
WriteFails ==
    /\ ApAt("open") /\ faults < MaxFaults
    /\ faults' = faults + 1
    /\ \E n \in 0 .. Len(ap.pend) - 1 :
          /\ text' = text \o SubSeq(ap.pend, 1, n)
          /\ ap' = [Closed EXCEPT !.pc = "failed", !.pend = SubSeq(ap.pend, n + 1, Len(ap.pend))]
          /\ torn' = (torn \/ n # 0)
    /\ UNCHANGED <<files, split, idx, bd, se, published, lost, blind, runs>>

\* ... and exit() tries once more.
ExitFailed ==
    /\ ApAt("failed")
    /\ \E n \in {0, Len(ap.pend)} : Dropped(n)
    /\ UNCHANGED <<files, split, idx, bd, se, published, blind, bounds>>

Insertion ==
    \/ CreateStrings \/ CreateSplit \/ CreateType \/ ReadSplit \/ OpenIndex
    \/ \E k \in Keys : AppendCached(k) \/ AppendIndexed(k) \/ AppendNew(k)
    \/ Publish \/ Close \/ Killed \/ WriteFails \/ ExitFailed
-----------------------------------------------------------------------------
(***************************************************************************)
(* db_build                                                                *)
(***************************************************************************)
BdAt(pc) == bd.pc = pc

\* An open for searching succeeds: both files are read under the lock; an empty
\* text cannot be mapped.
Opens == files = "all" /\ ~ Exclusive /\ split # 0
Maps(n) == Len(text) = n \/ text # <<>>

\* Opened for searching, the sizes are compared (-f: whatever they are); then
\* open_build takes the size of the text for the new split.
BuildOpen ==
    /\ BdAt("idle") /\ Opens /\ text # <<>>
    /\ bd' = [pc |-> "build", split |-> Len(text), index |-> NoIndex]
    /\ UNCHANGED <<stridx, ap, se, history, bounds>>

\* csort reads runs of the text until one ends with the text, and sorts them.
\* Then it reads on: what has been appended meanwhile becomes a run of its own,
\* whose starts are counted from where a full run would have begun, and is put
\* between the strings of the earlier runs, whose text is read again and is
\* longer now.
BuildText ==
    /\ BdAt("build") /\ bd.index.cover < Len(text)
    /\ bd' = [bd EXCEPT !.index = [cover |-> Len(text), exact |-> bd.index.cover = 0]]
    /\ UNCHANGED <<stridx, ap, se, history, bounds>>

\* Such a run may have no index point, or the earlier one be sought behind the
\* end of the text: the build ends without a new index.
BuildFails ==
    /\ BdAt("build") /\ 0 < bd.index.cover /\ bd.index.cover < Len(text)
    /\ bd' = NoBuild
    /\ UNCHANGED <<stridx, ap, se, history, bounds>>

\* Nothing more comes: the runs are merged into the new index.
BuildIndex ==
    /\ BdAt("build") /\ bd.index.cover = Len(text)
    /\ bd' = [bd EXCEPT !.pc = "install"]
    /\ UNCHANGED <<stridx, ap, se, history, bounds>>

\* Mutant: the old index stays.
Install_NoRename ==
    /\ BdAt("install")
    /\ bd' = [bd EXCEPT !.pc = "truncate"]
    /\ UNCHANGED <<stridx, ap, se, history, bounds>>

\* Under the exclusive lock the new index takes the old one's name ...
Install ==
    /\ BdAt("install")
    /\ idx' = bd.index
    /\ bd' = [bd EXCEPT !.pc = "truncate"]
    /\ UNCHANGED <<files, text, split, ap, se, history, bounds>>

\* ... and write_split opens the split file, which empties it, ...
TruncateSplit ==
    /\ BdAt("truncate")
    /\ split' = 0
    /\ bd' = [bd EXCEPT !.pc = "write"]
    /\ UNCHANGED <<files, text, idx, ap, se, history, bounds>>

\* Mutant: the size of the text at the end of the build.
NewSplit_Now == Len(text)

NewSplit == bd.split

\* ... writes it, and the lock is given back.
WriteSplit ==
    /\ BdAt("write")
    /\ split' = NewSplit
    /\ bd' = NoBuild
    /\ UNCHANGED <<files, text, idx, ap, se, history, bounds>>

BuildKilled ==
    /\ ~ BdAt("idle") /\ faults < MaxFaults
    /\ faults' = faults + 1
    /\ bd' = NoBuild
    /\ UNCHANGED <<stridx, ap, se, history, runs>>

Build == BuildOpen \/ BuildText \/ BuildFails \/ BuildIndex \/ Install \/ TruncateSplit \/ WriteSplit
-----------------------------------------------------------------------------
(***************************************************************************)
(* A client: archOpenStrIdx(ARCH_STRIDX_SEARCH)                            *)
(***************************************************************************)
SeAt(pc) == se.pc = pc

OpenSearch ==
    /\ SeAt("idle") /\ Opens
    /\ se' = [pc |-> "map", split |-> split, index |-> idx, len |-> 0]
    /\ UNCHANGED <<stridx, ap, bd, history, bounds>>

\* load_unindexed_text
MapText ==
    /\ SeAt("map")
    /\ se' = IF Maps(se.split) THEN [se EXCEPT !.pc = "search", !.len = Len(text)] ELSE NoSearch
    /\ UNCHANGED <<stridx, ap, bd, history, bounds>>

CloseSearch ==
    /\ SeAt("search")
    /\ se' = NoSearch
    /\ UNCHANGED <<stridx, ap, bd, history, bounds>>

Client == OpenSearch \/ MapText \/ CloseSearch

Next == Insertion \/ Build \/ BuildKilled \/ Client

\* db_build is run again and again, with -f, and comes to its end.
Spec == Init /\ [][Next]_vars /\ WF_vars(Build)
-----------------------------------------------------------------------------
Index == [cover : Nat, exact : BOOLEAN]

TypeOK ==
    /\ files \in {"none", "some", "all"}
    /\ text \in Seq(Unit) /\ split \in Nat /\ idx \in Index
    /\ ap \in [pc : {"idle", "create", "type", "split", "open", "close", "failed"}, split : Nat,
               index : Index, cache : SUBSET (Keys \X Nat), next : Nat, pend : Seq(Unit),
               made : SUBSET (Keys \X Nat)]
    /\ ap.pc = "split" => ap.split # 0
    /\ bd \in [pc : {"idle", "build", "install", "truncate", "write"}, split : Nat, index : Index]
    /\ se \in [pc : {"idle", "map", "search"}, split : Nat, index : Index, len : Nat]
    /\ published \subseteq Keys \X Nat /\ lost \subseteq published
    /\ torn \in BOOLEAN /\ blind \in BOOLEAN
    /\ runs \in Nat /\ faults \in Nat

\* archAppendKey and archGetString: an offset in a site file or in the start
\* database names the string it was given for, for ever: whatever is appended,
\* indexed, killed or left incomplete later.  Two exceptions: a string still in
\* the memory of the insertion that published it, and one that a kill dropped there.
OffsetsHold == \A kp \in published \ lost : Reads(Flushed, kp[1], kp[2])

\* archAppendKey: a string has one offset, whoever asks for it, before, during
\* and after a new index; unless a write has stopped inside a string, or an
\* insertion has worked with an index built over a text that grew.
OneOffset ==
    ~ torn /\ ~ blind => \A kp, lp \in (published \ lost) \cup ap.made : kp[1] = lp[1] => kp[2] = lp[2]

\* open_search: with an exact index a client finds every string that was in the
\* text when it opened the files, by the index or in the unindexed text, though
\* strings are appended and index and split exchanged at the same time.  Not one
\* that the split goes through, after a write stopped inside it; and a string
\* appended behind such a piece is part of the piece's string, which Matches
\* does not take for it.
SearchFinds ==
    SeAt("search") /\ se.index.exact =>
        \A k \in Keys, p \in 2 .. se.len - 1 :
            Matches(text, k, p) => \/ p \in Hits(text, k, se.index.cover)
                                   \/ p > se.split
                                   \/ torn /\ p = se.split

\* The index is exact and has all of the text.
AllIndexed == idx.exact /\ idx.cover = Len(text)

\* db_build does not start.
NoBuildStarts == BdAt("idle") /\ (files # "all" \/ split = 0 \/ text = <<>>)

\* db_build: again and again all of the text is in an exact index, whatever was
\* appended during earlier builds and killed or left incomplete between their
\* steps, as long as db_build starts at all: not before the files are there, nor
\* after a kill that leaves an empty split file or no type.
IndexedInTheEnd == []<>(AllIndexed \/ NoBuildStarts)
=============================================================================
