------------------------- MODULE StringsIndex_proof -------------------------
(***************************************************************************)
(* Proofs about StringsIndex, for any strings and bounds: TypeOK,           *)
(* OffsetsHold, OneOffset and SearchFinds.                                 *)
(*                                                                         *)
(* What the text will be once the insertion's buffer is written (Flushed)   *)
(* only grows at its end, except when a kill drops a part of the buffer.    *)
(* Every offset in use was read from the text or is the one just behind it, *)
(* so that what it names stays.  For a search, no split reaches beyond its  *)
(* index, and, unless a write was torn, each lies between two strings, so   *)
(* that an insertion finds every string in the index or in its cache.       *)
(***************************************************************************)
EXTENDS StringsIndex, SequenceTheorems, TLAPS

\* The buffer holds at most one string, or the first separator of an empty text.
Buffered ==
    \/ ap.pend = <<>>
    \/ ap.pend = <<Separator>> /\ text = <<>>
    \/ \E k \in Keys : ap.pend = <<HeadOf(k), EndOf(k)>>

\* What the insertion knows.
InsertionInv ==
    /\ ap.pc \in {"idle", "split"} => ap.pend = <<>>
    /\ ap.pc \in {"idle", "split", "create", "type"} => ap.made = {}
    /\ ap.pc \in {"create", "type"} => /\ text = <<>> /\ ap.pend = <<Separator>>
                                     /\ ap.cache = {} /\ ap.index = NoIndex
    /\ ap.pc = "open" => ap.next = Len(Flushed) + 1
    /\ ap.pc \in {"open", "close", "failed"} =>
          \A kp \in ap.cache \cup ap.made : Reads(Flushed, kp[1], kp[2])
    /\ files = "none" => text = <<>> /\ ap.pc = "idle"
    /\ ap.pc # "failed" \/ ~ torn => Buffered

\* A split does not reach beyond its index, unless nothing is indexed.
Within(s, cover) == s <= cover \/ s <= 1

CoverInv ==
    /\ Within(split, idx.cover) /\ Within(split, Len(text))
    /\ bd.split <= Len(text)
    /\ bd.pc \in {"install", "truncate", "write"} => bd.split <= bd.index.cover /\ Within(split, bd.index.cover)
    /\ bd.pc \in {"truncate", "write"} => idx = bd.index
    /\ se.pc # "idle" => Within(se.split, se.index.cover)

\* A split lies behind a separator.
Between(s) ==
    \/ s = 0
    \/ s \in DOMAIN text /\ text[s].end
    \/ s = 1 /\ text = <<>> /\ ap.pend = <<Separator>>

BoundaryInv ==
    ~ torn => /\ Between(split) /\ Between(bd.split) /\ Between(se.split)
              /\ text # <<>> => text[Len(text)].end

\* The split that an insertion has read does not reach beyond the index that it
\* is about to open.
LoadInv ==
    ap.pc = "split" =>
        /\ Within(ap.split, idx.cover) /\ Within(ap.split, Len(text))
        /\ bd.pc \in {"install", "truncate", "write"} => Within(ap.split, bd.index.cover)

\* Before the head of a string stands a separator.
Separated(t) == \A p \in DOMAIN t : ~ t[p].end => p - 1 \in DOMAIN t /\ t[p - 1].end

\* No string is twice in a text.
Once(t) == \A k \in Keys, p, q \in DOMAIN t : Reads(t, k, p) /\ Reads(t, k, q) => p = q

\* As long as no write was torn and no insertion opened an index that is not exact:
\* every string is in the text once, and an insertion that is open finds it in the
\* index or in its cache.
OnceInv ==
    ~ torn /\ ~ blind =>
        /\ files # "none" => text # <<>> \/ ap.pend = <<Separator>>
        /\ Separated(Flushed) /\ Once(Flushed)
        /\ ap.pc = "split" => ap.split \in DOMAIN text /\ text[ap.split].end
        /\ ap.pc = "open" => ap.index.exact
        /\ ap.pc = "open" =>
              \A k \in Keys, p \in DOMAIN Flushed :
                  Reads(Flushed, k, p) => p < ap.index.cover \/ <<k, p>> \in ap.cache

IInv == InsertionInv /\ OffsetsHold /\ CoverInv /\ BoundaryInv /\ LoadInv /\ OnceInv
-----------------------------------------------------------------------------
(***************************************************************************)
(* Facts about texts                                                       *)
(***************************************************************************)
\* The first separator and the two parts of a string are units of text.
LEMMA UnitType ==
    /\ Separator \in Unit
    /\ \A k \in Keys : HeadOf(k) \in Unit /\ EndOf(k) \in Unit
BY DEF Separator, HeadOf, EndOf, Unit

\* A text that is appended to keeps what it had.
LEMMA Appended ==
    ASSUME NEW t \in Seq(Unit), NEW u \in Seq(Unit)
    PROVE  /\ t \o u \in Seq(Unit)
           /\ Len(t \o u) = Len(t) + Len(u)
           /\ \A i \in DOMAIN t : i \in DOMAIN (t \o u) /\ (t \o u)[i] = t[i]
<1>1. /\ t \o u \in Seq(Unit)
      /\ Len(t \o u) = Len(t) + Len(u)
      /\ \A i \in 1 .. Len(t) + Len(u) : (t \o u)[i] = IF i <= Len(t) THEN t[i] ELSE u[i - Len(t)]
  BY ConcatProperties
<1>2. DOMAIN t = 1 .. Len(t) /\ DOMAIN (t \o u) = 1 .. Len(t \o u) /\ Len(t) \in Nat /\ Len(u) \in Nat
  BY <1>1
<1>. HIDE DEF Unit
<1>. QED BY <1>1, <1>2

\* A string stays where it is when the text is appended to.
LEMMA ReadsStays ==
    ASSUME NEW t \in Seq(Unit), NEW u \in Seq(Unit), NEW k, NEW p, Reads(t, k, p)
    PROVE  Reads(t \o u, k, p)
BY Appended DEF Reads

\* What lies in the first part of a text is read from it.
LEMMA ReadsBefore ==
    ASSUME NEW t \in Seq(Unit), NEW u \in Seq(Unit), NEW k, NEW p \in Nat,
           Reads(t \o u, k, p), p + 1 <= Len(t)
    PROVE  Reads(t, k, p)
<1>1. DOMAIN t = 1 .. Len(t) /\ Len(t) \in Nat
  OBVIOUS
<1>2. DOMAIN (t \o u) = 1 .. Len(t \o u) /\ Len(t \o u) \in Nat
  BY Appended
<1>3. p \in DOMAIN t /\ p + 1 \in DOMAIN t
  BY <1>1, <1>2 DEF Reads
<1>. QED BY <1>3, Appended DEF Reads

\* A new string is read at the first offset behind the text.
LEMMA ReadsNew ==
    ASSUME NEW t \in Seq(Unit), NEW k \in Keys
    PROVE  Reads(t \o <<HeadOf(k), EndOf(k)>>, k, Len(t) + 1)
<1>. DEFINE u == <<HeadOf(k), EndOf(k)>>
<1>1. u \in Seq(Unit) /\ Len(u) = 2 /\ u[1] = HeadOf(k) /\ u[2] = EndOf(k)
  BY UnitType
<1>2. /\ t \o u \in Seq(Unit)
      /\ Len(t \o u) = Len(t) + Len(u)
      /\ \A i \in 1 .. Len(t) + Len(u) : (t \o u)[i] = IF i <= Len(t) THEN t[i] ELSE u[i - Len(t)]
  BY <1>1, ConcatProperties
<1>3. Len(t) \in Nat
  OBVIOUS
<1>. HIDE DEF u
<1>4. Len(t) + 1 \in 1 .. Len(t) + Len(u) /\ Len(t) + 2 \in 1 .. Len(t) + Len(u)
  BY <1>1, <1>3
<1>5. (t \o u)[Len(t) + 1] = u[1] /\ (t \o u)[Len(t) + 2] = u[2]
  <2>1. Len(t) + 1 - Len(t) = 1 /\ Len(t) + 2 - Len(t) = 2 /\ ~ (Len(t) + 1 <= Len(t)) /\ ~ (Len(t) + 2 <= Len(t))
    BY <1>3
  <2>. QED BY <1>2, <1>4, <2>1
<1>6. DOMAIN (t \o u) = 1 .. Len(t) + Len(u) /\ Len(t) + 1 + 1 = Len(t) + 2
  BY <1>2, <1>3
<1>7. Reads(t \o u, k, Len(t) + 1)
  BY <1>1, <1>4, <1>5, <1>6 DEF Reads
<1>. QED BY <1>7 DEF u

\* The library's fact, for any set of elements.
LEMMA ConcatIsAssociative ==
    ASSUME NEW S, NEW a \in Seq(S), NEW b \in Seq(S), NEW c \in Seq(S)
    PROVE  (a \o b) \o c = a \o (b \o c)
BY ConcatAssociative

\* A buffer is cut into two parts that are the buffer together.
LEMMA Cut ==
    ASSUME NEW t \in Seq(Unit), NEW u \in Seq(Unit), NEW n \in 0 .. Len(u)
    PROVE  /\ SubSeq(u, 1, n) \in Seq(Unit) /\ Len(SubSeq(u, 1, n)) = n
           /\ SubSeq(u, n + 1, Len(u)) \in Seq(Unit)
           /\ (t \o SubSeq(u, 1, n)) \o SubSeq(u, n + 1, Len(u)) = t \o u
<1>1. \A i \in 1 .. Len(u) : u[i] \in Unit
  OBVIOUS
<1>2. n \in Int /\ 0 <= n /\ n <= Len(u) /\ Len(u) \in Nat
  OBVIOUS
<1>3. SubSeq(u, 1, n) \in Seq(Unit) /\ Len(SubSeq(u, 1, n)) = n
  <2>1. \A i \in 1 .. n : u[i] \in Unit
    BY <1>1, <1>2
  <2>2. SubSeq(u, 1, n) \in Seq(Unit) /\ Len(SubSeq(u, 1, n)) = IF 1 <= n THEN n - 1 + 1 ELSE 0
    BY <1>2, <2>1, SubSeqProperties
  <2>. QED BY <1>2, <2>2
<1>4. SubSeq(u, n + 1, Len(u)) \in Seq(Unit)
  <2>1. \A i \in n + 1 .. Len(u) : u[i] \in Unit
    BY <1>1, <1>2
  <2>. QED BY <1>2, <2>1, SubSeqProperties
<1>5. SubSeq(u, 1, n) \o SubSeq(u, n + 1, Len(u)) = u
  <2>1. 1 \in 1 .. Len(u) + 1 /\ n \in 1 - 1 .. Len(u) /\ Len(u) \in n .. Len(u)
    BY <1>2
  <2>2. SubSeq(u, 1, n) \o SubSeq(u, n + 1, Len(u)) = SubSeq(u, 1, Len(u))
    BY <2>1, ConcatAdjacentSubSeq
  <2>. QED BY <2>2, SubSeqFull
<1>6. (t \o SubSeq(u, 1, n)) \o SubSeq(u, n + 1, Len(u))
        = t \o (SubSeq(u, 1, n) \o SubSeq(u, n + 1, Len(u)))
  <2>. DEFINE a == SubSeq(u, 1, n)
              b == SubSeq(u, n + 1, Len(u))
  <2>. SUFFICES (t \o a) \o b = t \o (a \o b)
    OBVIOUS
  <2>1. a \in Seq(Unit) /\ b \in Seq(Unit)
    BY <1>3, <1>4
  <2>. HIDE DEF a, b, Unit
  <2>. QED BY <2>1, ConcatIsAssociative
<1>. QED BY <1>3, <1>4, <1>5, <1>6
-----------------------------------------------------------------------------
(***************************************************************************)
(* Types                                                                   *)
(***************************************************************************)
Insertions == [pc : {"idle", "create", "type", "split", "open", "close", "failed"}, split : Nat,
               index : Index, cache : SUBSET (Keys \X Nat), next : Nat, pend : Seq(Unit),
               made : SUBSET (Keys \X Nat)]
Builds == [pc : {"idle", "build", "install", "truncate", "write"}, split : Nat, index : Index]
Searches == [pc : {"idle", "map", "search"}, split : Nat, index : Index, len : Nat]

\* The empty text is a text.
LEMMA EmptySeqType == <<>> \in Seq(Unit)
OBVIOUS

\* The three programs, when they do not run, have their types.
LEMMA ClosedType == /\ Closed \in Insertions /\ NoBuild \in Builds /\ NoSearch \in Searches
                    /\ NoIndex \in Index
<1>1. {} \in SUBSET (Keys \X Nat)
  OBVIOUS
<1>2. NoIndex \in Index
  BY DEF NoIndex, Index
<1>. QED BY <1>1, <1>2, EmptySeqType DEF Closed, NoBuild, NoSearch, Insertions, Builds, Searches

\* The fields of an index.
LEMMA IndexType ==
    ASSUME NEW i \in Index
    PROVE  i.cover \in Nat /\ i.exact \in BOOLEAN
BY DEF Index

\* The cache and the matches of an index consist of offsets.
LEMMA FoundType ==
    ASSUME NEW t \in Seq(Unit), NEW k, NEW c \in Nat
    PROVE  /\ CacheOf(t, c) \subseteq Keys \X Nat
           /\ \A i \in Index : MayFind(t, k, i) \subseteq Nat
BY DEF CacheOf, Lines, Hits, MaybeHits, MayFind, Index

\* TypeOK with names for the sets of records.
TypeInv ==
    /\ files \in {"none", "some", "all"}
    /\ text \in Seq(Unit) /\ split \in Nat /\ idx \in Index
    /\ ap \in Insertions /\ (ap.pc = "split" => ap.split # 0)
    /\ bd \in Builds /\ se \in Searches
    /\ published \subseteq Keys \X Nat /\ lost \subseteq published
    /\ torn \in BOOLEAN /\ blind \in BOOLEAN
    /\ runs \in Nat /\ faults \in Nat

\* It is TypeOK.
LEMMA TypeForm == TypeInv <=> TypeOK
BY DEF TypeInv, TypeOK, Insertions, Builds, Searches

\* The fields of an insertion, and the changes that archAppendKey makes.
LEMMA InsertionTypes ==
    ASSUME NEW a \in Insertions
    PROVE  /\ a.split \in Nat /\ a.index \in Index /\ a.index.cover \in Nat /\ a.next \in Nat /\ a.pend \in Seq(Unit)
           /\ a.cache \subseteq Keys \X Nat /\ a.made \subseteq Keys \X Nat
           /\ \A m \in SUBSET (Keys \X Nat) : [a EXCEPT !.made = m] \in Insertions
           /\ \A m \in SUBSET (Keys \X Nat) : \A q \in Seq(Unit) :
                 [a EXCEPT !.made = m, !.pend = q] \in Insertions
           /\ \A c, m \in SUBSET (Keys \X Nat) : \A q \in Seq(Unit) : \A x \in Nat :
                 [a EXCEPT !.pend = q, !.next = x, !.cache = c, !.made = m] \in Insertions
BY IndexType DEF Insertions

\* What is in memory, what is written of it and what is left are texts.
LEMMA BufferType ==
    ASSUME TypeInv
    PROVE  /\ ap.pend \in Seq(Unit) /\ Flushed \in Seq(Unit)
           /\ \A n \in 0 .. Len(ap.pend) : /\ text \o SubSeq(ap.pend, 1, n) \in Seq(Unit)
                                         /\ SubSeq(ap.pend, n + 1, Len(ap.pend)) \in Seq(Unit)
<1>1. text \in Seq(Unit) /\ ap.pend \in Seq(Unit)
  BY InsertionTypes DEF TypeInv
<1>2. \A n \in 0 .. Len(ap.pend) : /\ text \o SubSeq(ap.pend, 1, n) \in Seq(Unit)
                                 /\ SubSeq(ap.pend, n + 1, Len(ap.pend)) \in Seq(Unit)
  BY <1>1, Cut, Appended
<1>. QED BY <1>1, <1>2, Appended DEF Flushed

\* Every step of the three programs keeps the types.
LEMMA TypeStep ==
    ASSUME TypeInv, [Next]_vars
    PROVE  TypeInv'
<1>. DEFINE Text == text' \in Seq(Unit)
            Insert == ap' \in Insertions /\ (ap'.pc = "split" => ap'.split # 0)
<1>0. /\ text \in Seq(Unit) /\ ap \in Insertions /\ bd \in Builds /\ se \in Searches
      /\ split \in Nat /\ idx \in Index /\ Len(text) \in Nat /\ Flushed \in Seq(Unit) /\ ap.pend \in Seq(Unit)
  BY BufferType DEF TypeInv
<1>1. CASE CreateStrings
  <2>1. <<Separator>> \in Seq(Unit)
    BY UnitType
  <2>2. Insert
    BY <1>1, <2>1, ClosedType DEF CreateStrings, Closed, Insertions
  <2>. QED BY <1>1, <2>2 DEF CreateStrings, TypeInv, history
<1>2. CASE CreateSplit
  <2>1. Insert
    BY <1>0, <1>2 DEF CreateSplit, Insertions
  <2>. QED BY <1>2, <2>1 DEF CreateSplit, TypeInv, history, bounds
<1>18. CASE CreateType
  <2>1. Insert
    BY <1>0, <1>18 DEF CreateType, Insertions
  <2>. QED BY <1>18, <2>1 DEF CreateType, TypeInv, history, bounds
<1>3. CASE ReadSplit
  <2>1. Insert
    <3>1. CASE split = 0
      BY <1>3, <3>1, ClosedType DEF ReadSplit, Closed
    <3>2. CASE split # 0
      BY <1>0, <1>3, <3>2, ClosedType DEF ReadSplit, Closed, Insertions
    <3>. QED BY <3>1, <3>2
  <2>. QED BY <1>3, <2>1 DEF ReadSplit, TypeInv, history, stridx
<1>4. CASE OpenIndex
  <2>1. CacheOf(text, ap.split) \subseteq Keys \X Nat
    BY <1>0, InsertionTypes, FoundType
  <2>2. FirstOffset \in Nat
    BY <1>0 DEF FirstOffset
  <2>3. CASE Readable(text, ap.split)
    BY <1>0, <1>4, <2>1, <2>2, <2>3 DEF OpenIndex, Insertions, TypeInv, history, stridx, bounds
  <2>4. CASE ~ Readable(text, ap.split)
    BY <1>4, <2>4, ClosedType DEF OpenIndex, Closed, TypeInv, history, stridx, bounds
  <2>. QED BY <2>3, <2>4
<1>5. ASSUME NEW k \in Keys, AppendCached(k)
      PROVE  TypeInv'
  <2>1. PICK kp \in ap.cache : ap' = [ap EXCEPT !.made = ap.made \cup {kp}]
    BY <1>5 DEF AppendCached
  <2>2. ap.made \cup {kp} \subseteq Keys \X Nat
    BY <1>0, <2>1, InsertionTypes
  <2>3. ap' \in Insertions
    BY <1>0, <2>1, <2>2, InsertionTypes
  <2>4. ap'.pc = ap.pc /\ ap'.split = ap.split
    BY <1>0, <2>1 DEF Insertions
  <2>. QED BY <1>5, <2>3, <2>4 DEF AppendCached, TypeInv, history, stridx, bounds
<1>6. ASSUME NEW k \in Keys, AppendIndexed(k)
      PROVE  TypeInv'
  <2>1. PICK p \in MayFind(Flushed, k, ap.index) :
           ap' = [ap EXCEPT !.made = ap.made \cup {<<k, p>>}, !.pend = <<>>]
    BY <1>6 DEF AppendIndexed
  <2>2. ap.made \cup {<<k, p>>} \subseteq Keys \X Nat
    <3>1. p \in Nat
      BY <1>0, <2>1, InsertionTypes, FoundType
    <3>2. <<k, p>> \in Keys \X Nat
      BY <3>1, <1>6
    <3>3. ap.made \subseteq Keys \X Nat
      BY <1>0, InsertionTypes
    <3>. QED BY <3>2, <3>3
  <2>3. ap' \in Insertions
    BY <1>0, <2>1, <2>2, InsertionTypes, EmptySeqType
  <2>4. ap'.pc = ap.pc /\ ap'.split = ap.split
    BY <1>0, <2>1 DEF Insertions
  <2>. QED BY <1>0, <1>6, <2>3, <2>4 DEF AppendIndexed, TypeInv, history, bounds
<1>7. ASSUME NEW k \in Keys, AppendNew(k)
      PROVE  TypeInv'
  <2>1. <<HeadOf(k), EndOf(k)>> \in Seq(Unit)
    BY UnitType
  <2>2. ap' = [ap EXCEPT !.pend = <<HeadOf(k), EndOf(k)>>, !.next = ap.next + 2,
                         !.cache = ap.cache \cup {<<k, ap.next>>}, !.made = ap.made \cup {<<k, ap.next>>}]
    BY <1>7 DEF AppendNew
  <2>3. /\ ap.next + 2 \in Nat
        /\ ap.cache \cup {<<k, ap.next>>} \subseteq Keys \X Nat
        /\ ap.made \cup {<<k, ap.next>>} \subseteq Keys \X Nat
    <3>1. ap.next \in Nat /\ ap.made \subseteq Keys \X Nat /\ ap.cache \subseteq Keys \X Nat
      BY <1>0, InsertionTypes
    <3>2. <<k, ap.next>> \in Keys \X Nat /\ ap.next + 2 \in Nat
      BY <3>1, <1>7
    <3>. QED BY <3>1, <3>2
  <2>4. ap' \in Insertions
    BY <1>0, <2>1, <2>2, <2>3, InsertionTypes
  <2>5. ap'.pc = ap.pc /\ ap'.split = ap.split
    BY <1>0, <2>2 DEF Insertions
  <2>. QED BY <1>0, <1>7, <2>4, <2>5 DEF AppendNew, TypeInv, history, bounds
<1>8. CASE Publish
  <2>1. Insert
    BY <1>0, <1>8, ClosedType DEF Publish, Insertions
  <2>2. published' \subseteq Keys \X Nat /\ lost' \subseteq published'
    BY <1>0, <1>8, InsertionTypes DEF Publish, TypeInv
  <2>. QED BY <1>8, <2>1, <2>2 DEF Publish, TypeInv, stridx, bounds
<1>9. CASE Close
  BY <1>0, <1>9, ClosedType DEF Close, TypeInv, history, bounds, Closed
<1>10. ASSUME NEW n \in 0 .. Len(ap.pend), Dropped(n)
       PROVE  Text /\ Insert /\ lost' \subseteq published /\ torn' \in BOOLEAN
  <2>1. Text
    BY <1>10, BufferType DEF Dropped
  <2>2. Insert
    BY <1>10, ClosedType DEF Dropped, Closed
  <2>3. torn' \in BOOLEAN
    BY <1>10 DEF Dropped, TypeInv
  <2>4. lost' \subseteq published
    BY <1>10 DEF Dropped, TypeInv
  <2>. QED BY <2>1, <2>2, <2>3, <2>4
<1>11. CASE Killed
  <2>1. PICK n \in 0 .. Len(ap.pend) : Dropped(n)
    BY <1>11 DEF Killed
  <2>2. Text /\ Insert /\ lost' \subseteq published /\ torn' \in BOOLEAN
    BY <1>10, <2>1
  <2>. QED BY <1>11, <2>2 DEF Killed, TypeInv
<1>12. CASE WriteFails
  <2>1. PICK n \in 0 .. Len(ap.pend) - 1 :
           /\ text' = text \o SubSeq(ap.pend, 1, n)
           /\ ap' = [Closed EXCEPT !.pc = "failed", !.pend = SubSeq(ap.pend, n + 1, Len(ap.pend))]
           /\ torn' = (torn \/ n # 0)
    BY <1>12 DEF WriteFails
  <2>2. n \in 0 .. Len(ap.pend)
    BY <1>0
  <2>3. Text
    BY <2>1, <2>2, BufferType
  <2>4. Insert
    <3>. DEFINE q == SubSeq(ap.pend, n + 1, Len(ap.pend))
    <3>1. q \in Seq(Unit)
      BY <2>2, BufferType
    <3>2. ap' = [Closed EXCEPT !.pc = "failed", !.pend = q]
      BY <2>1
    <3>. HIDE DEF q
    <3>. QED BY ClosedType, <3>1, <3>2 DEF Insertions
  <2>5. torn' \in BOOLEAN
    BY <2>1
  <2>. QED BY <1>12, <2>3, <2>4, <2>5 DEF WriteFails, TypeInv
<1>13. CASE ExitFailed
  <2>1. PICK n \in {0, Len(ap.pend)} : Dropped(n)
    BY <1>13 DEF ExitFailed
  <2>2. n \in 0 .. Len(ap.pend)
    BY <1>0, <2>1
  <2>3. Text /\ Insert /\ lost' \subseteq published /\ torn' \in BOOLEAN
    BY <1>10, <2>1, <2>2
  <2>. QED BY <1>13, <2>3 DEF ExitFailed, TypeInv, bounds
<1>14. CASE Build
  <2>. USE DEF stridx, history, bounds
  <2>1. CASE BuildOpen
    <3>1. bd' \in Builds
      BY <1>0, <2>1, ClosedType DEF BuildOpen, Builds
    <3>. QED BY <2>1, <3>1 DEF BuildOpen, TypeInv
  <2>2. CASE BuildText
    <3>1. [cover |-> Len(text), exact |-> bd.index.cover = 0] \in Index
      BY <1>0 DEF Index
    <3>2. bd' \in Builds
      BY <1>0, <2>2, <3>1 DEF BuildText, Builds
    <3>. QED BY <2>2, <3>2 DEF BuildText, TypeInv
  <2>6. CASE BuildFails
    BY <2>6, ClosedType DEF BuildFails, TypeInv
  <2>7. CASE BuildIndex
    <3>1. bd' \in Builds
      BY <1>0, <2>7 DEF BuildIndex, Builds
    <3>. QED BY <2>7, <3>1 DEF BuildIndex, TypeInv
  <2>3. CASE Install
    <3>1. bd' \in Builds /\ idx' \in Index
      BY <1>0, <2>3 DEF Install, Builds
    <3>. QED BY <2>3, <3>1 DEF Install, TypeInv
  <2>4. CASE TruncateSplit
    <3>1. bd' \in Builds
      BY <1>0, <2>4 DEF TruncateSplit, Builds
    <3>. QED BY <2>4, <3>1 DEF TruncateSplit, TypeInv
  <2>5. CASE WriteSplit
    <3>1. split' \in Nat
      BY <1>0, <2>5 DEF WriteSplit, NewSplit, Builds
    <3>. QED BY <2>5, <3>1, ClosedType DEF WriteSplit, TypeInv
  <2>. QED BY <1>14, <2>1, <2>2, <2>3, <2>4, <2>5, <2>6, <2>7 DEF Build
<1>15. CASE BuildKilled
  BY <1>15, ClosedType DEF BuildKilled, TypeInv, stridx, history
<1>16. CASE Client
  <2>1. CASE OpenSearch
    <3>1. se' \in Searches
      BY <1>0, <2>1 DEF OpenSearch, Searches
    <3>. QED BY <2>1, <3>1 DEF OpenSearch, TypeInv, stridx, history, bounds
  <2>2. CASE MapText
    <3>1. CASE Maps(se.split)
      <4>1. se' \in Searches
        BY <1>0, <2>2, <3>1 DEF MapText, Searches
      <4>. QED BY <2>2, <4>1 DEF MapText, TypeInv, stridx, history, bounds
    <3>2. CASE ~ Maps(se.split)
      BY <2>2, <3>2, ClosedType DEF MapText, TypeInv, stridx, history, bounds
    <3>. QED BY <3>1, <3>2
  <2>3. CASE CloseSearch
    BY <2>3, ClosedType DEF CloseSearch, TypeInv, stridx, history, bounds
  <2>. QED BY <1>16, <2>1, <2>2, <2>3 DEF Client
<1>17. CASE UNCHANGED vars
  BY <1>17 DEF vars, stridx, history, bounds, TypeInv
<1>. QED BY <1>1, <1>2, <1>3, <1>4, <1>5, <1>6, <1>7, <1>8, <1>9, <1>11, <1>12, <1>13, <1>14, <1>15,
            <1>16, <1>17, <1>18 DEF Next, Insertion

\* The types hold in every state.
LEMMA StringsTypes == Spec => []TypeInv
<1>1. Init => TypeInv
  <2>. SUFFICES ASSUME Init PROVE TypeInv
    OBVIOUS
  <2>1. /\ ap \in Insertions /\ bd \in Builds /\ se \in Searches /\ ap.pc = "idle"
        /\ text \in Seq(Unit) /\ idx \in Index
    BY ClosedType, EmptySeqType DEF Init, Closed
  <2>. QED BY <2>1 DEF Init, TypeInv
<1>. QED BY <1>1, TypeStep, PTL DEF Spec

\* read_split's answer, the offsets and all that the three programs keep have
\* their types, through every interleaving, kill and failing write.
THEOREM StringsTypeCorrect == Spec => []TypeOK
BY StringsTypes, TypeForm, PTL
-----------------------------------------------------------------------------
(***************************************************************************)
(* The text grows                                                          *)
(***************************************************************************)
\* What is not in an insertion leaves it alone, and the text.
LEMMA OthersLeaveText ==
    Build \/ BuildKilled \/ Client \/ UNCHANGED vars
       => UNCHANGED <<files, text, ap, published, lost, torn, blind>>
BY DEF Build, BuildKilled, BuildOpen, BuildText, BuildFails, BuildIndex, Install, TruncateSplit, WriteSplit,
       Client, OpenSearch, MapText, CloseSearch, vars, stridx, history, bounds

\* No step of the code shortens or changes the text.
LEMMA TextGrows ==
    ASSUME TypeInv, [Next]_vars
    PROVE  /\ Len(text) <= Len(text')
           /\ \A i \in DOMAIN text : i \in DOMAIN text' /\ text'[i] = text[i]
<1>0. text \in Seq(Unit) /\ ap.pend \in Seq(Unit)
  BY BufferType DEF TypeInv
<1>1. CASE text' = text
  BY <1>0, <1>1
<1>2. ASSUME NEW u \in Seq(Unit), text' = text \o u
      PROVE  /\ Len(text) <= Len(text')
             /\ \A i \in DOMAIN text : i \in DOMAIN text' /\ text'[i] = text[i]
  <2>1. /\ Len(text \o u) = Len(text) + Len(u)
        /\ \A i \in DOMAIN text : i \in DOMAIN (text \o u) /\ (text \o u)[i] = text[i]
    BY <1>0, Appended
  <2>2. Len(text) \in Nat /\ Len(u) \in Nat
    BY <1>0
  <2>. QED BY <1>2, <2>1, <2>2
<1>3. CASE text' = Flushed
  BY <1>0, <1>2, <1>3 DEF Flushed
<1>4. ASSUME NEW n \in 0 .. Len(ap.pend), text' = text \o SubSeq(ap.pend, 1, n)
      PROVE  /\ Len(text) <= Len(text')
             /\ \A i \in DOMAIN text : i \in DOMAIN text' /\ text'[i] = text[i]
  BY <1>0, <1>2, <1>4, Cut
<1>5. CASE Killed
  BY <1>4, <1>5 DEF Killed, Dropped
<1>6. CASE WriteFails
  <2>1. PICK n \in 0 .. Len(ap.pend) - 1 : text' = text \o SubSeq(ap.pend, 1, n)
    BY <1>6 DEF WriteFails
  <2>2. n \in 0 .. Len(ap.pend)
    BY <1>0
  <2>. QED BY <1>4, <2>1, <2>2
<1>7. CASE ExitFailed
  <2>1. PICK n \in {0, Len(ap.pend)} : Dropped(n)
    BY <1>7 DEF ExitFailed
  <2>2. n \in 0 .. Len(ap.pend)
    BY <1>0, <2>1
  <2>. QED BY <1>4, <2>1, <2>2 DEF Dropped
<1>8. CASE CreateStrings \/ CreateSplit \/ CreateType \/ ReadSplit \/ OpenIndex \/ Publish \/ Close
  BY <1>1, <1>3, <1>8 DEF CreateStrings, CreateSplit, CreateType, ReadSplit, OpenIndex, Publish, Close, stridx
<1>9. CASE \E k \in Keys : AppendCached(k) \/ AppendIndexed(k) \/ AppendNew(k)
  BY <1>1, <1>3, <1>9 DEF AppendCached, AppendIndexed, AppendNew, stridx
<1>. QED BY <1>1, <1>5, <1>6, <1>7, <1>8, <1>9, OthersLeaveText DEF Next, Insertion
-----------------------------------------------------------------------------
(***************************************************************************)
(* No split reaches beyond its index                                       *)
(***************************************************************************)
\* An insertion changes neither the index nor, once it is there, the split.
LEMMA InsertionLeavesFiles ==
    Insertion => /\ UNCHANGED <<idx, bd, se>>
                 /\ split' = split \/ split' = 1
BY DEF Insertion, CreateStrings, CreateSplit, CreateType, ReadSplit, OpenIndex, AppendCached, AppendIndexed,
       AppendNew, Publish, Close, Killed, WriteFails, ExitFailed, stridx

\* db_build takes the split before it reads the text, so that its index reaches as
\* far; index and split change places under the lock.
LEMMA CoverStep ==
    ASSUME TypeInv, CoverInv, [Next]_vars
    PROVE  CoverInv'
<1>0. /\ split \in Nat /\ idx.cover \in Nat /\ bd \in Builds /\ se \in Searches
      /\ Len(text) \in Nat /\ Len(text') \in Int /\ bd.split \in Nat /\ bd.index.cover \in Nat
      /\ se.split \in Nat /\ se.index.cover \in Nat
  <2>1. TypeInv'
    BY TypeStep
  <2>2. text \in Seq(Unit) /\ text' \in Seq(Unit)
    BY <2>1 DEF TypeInv
  <2>. QED BY <2>2, IndexType DEF TypeInv, Builds, Searches
<1>1. Len(text) <= Len(text')
  BY TextGrows
<1>. USE DEF CoverInv, Within, stridx, history, bounds
<1>2. CASE Insertion
  BY <1>0, <1>1, <1>2, InsertionLeavesFiles
<1>3. CASE BuildOpen
  BY <1>0, <1>3 DEF BuildOpen
<1>4. CASE BuildText
  <2>1. bd'.pc = "build" /\ bd'.split = bd.split /\ UNCHANGED <<text, split, idx, se>>
    BY <1>0, <1>4 DEF BuildText, BdAt, Builds
  <2>. QED BY <1>0, <2>1
<1>13. CASE BuildFails
  BY <1>0, <1>13 DEF BuildFails, NoBuild
<1>14. CASE BuildIndex
  BY <1>0, <1>14 DEF BuildIndex, BdAt, Builds
<1>5. CASE Install
  BY <1>0, <1>5 DEF Install, BdAt, Builds
<1>6. CASE TruncateSplit
  BY <1>0, <1>6 DEF TruncateSplit, BdAt, Builds
<1>7. CASE WriteSplit
  BY <1>0, <1>7 DEF WriteSplit, NewSplit, NoBuild, BdAt
<1>8. CASE BuildKilled
  BY <1>0, <1>8 DEF BuildKilled, NoBuild
<1>9. CASE OpenSearch
  BY <1>0, <1>9 DEF OpenSearch
<1>10. CASE MapText
  BY <1>0, <1>10 DEF MapText, NoSearch, SeAt, Searches
<1>11. CASE CloseSearch
  BY <1>0, <1>11 DEF CloseSearch, NoSearch
<1>12. CASE UNCHANGED vars
  BY <1>0, <1>12 DEF vars
<1>. QED BY <1>2, <1>3, <1>4, <1>5, <1>6, <1>7, <1>8, <1>9, <1>10, <1>11, <1>12, <1>13, <1>14
         DEF Next, Build, Client
-----------------------------------------------------------------------------
(***************************************************************************)
(* Offsets                                                                 *)
(***************************************************************************)
\* Writing the buffer out does not change what will have been written.
LEMMA Unbuffered ==
    ASSUME NEW t \in Seq(Unit)
    PROVE  t \o <<>> = t
BY ConcatEmptySeq

\* At first there are no strings.
LEMMA InsertionStart ==
    Init => IInv
<1>. SUFFICES ASSUME Init PROVE IInv
  OBVIOUS
<1>1. Flushed = <<>>
  BY DEF Init, Flushed, Closed
<1>2. OnceInv
  BY <1>1 DEF Init, OnceInv, Separated, Once, Closed
<1>. QED BY <1>2
     DEF Init, IInv, InsertionInv, OffsetsHold, CoverInv, BoundaryInv, LoadInv, Closed, NoBuild,
         NoSearch, Buffered, Within, Between

\* Published offsets hold if the text with its buffer stays, or is appended to.
LEMMA HoldsStays ==
    ASSUME TypeInv, OffsetsHold, published' \ lost' \subseteq published \ lost,
           NEW u \in Seq(Unit), Flushed' = Flushed \o u
    PROVE  OffsetsHold'
<1>1. Flushed \in Seq(Unit)
  BY BufferType
<1>2. ASSUME NEW kp \in published' \ lost'
      PROVE  Reads(Flushed', kp[1], kp[2])
  <2>1. Reads(Flushed, kp[1], kp[2])
    BY <1>2 DEF OffsetsHold
  <2>. QED BY <1>1, <2>1, ReadsStays
<1>. QED BY <1>2 DEF OffsetsHold

\* Published offsets hold when the text with its buffer stays as it is.
LEMMA HoldsUnchanged ==
    ASSUME OffsetsHold, published' \ lost' \subseteq published \ lost, Flushed' = Flushed
    PROVE  OffsetsHold'
<1>1. ASSUME NEW kp \in published' \ lost'
      PROVE  Reads(Flushed', kp[1], kp[2])
  BY <1>1 DEF OffsetsHold
<1>. QED BY <1>1 DEF OffsetsHold

\* The last insertion's strings that are not written are lost, the others stay.
LEMMA DroppedStep ==
    ASSUME TypeInv, InsertionInv, OffsetsHold, NEW n \in 0 .. Len(ap.pend), Dropped(n),
           ap.pc # "idle", UNCHANGED <<files, published>>
    PROVE  InsertionInv' /\ OffsetsHold'
<1>. DEFINE a == SubSeq(ap.pend, 1, n)
            b == SubSeq(ap.pend, n + 1, Len(ap.pend))
<1>0. text \in Seq(Unit) /\ ap.pend \in Seq(Unit) /\ published \subseteq Keys \X Nat
  BY BufferType DEF TypeInv
<1>1. /\ a \in Seq(Unit) /\ b \in Seq(Unit) /\ Len(a) = n
      /\ Flushed = (text \o a) \o b
  BY <1>0, Cut DEF Flushed
<1>2. /\ text' = text \o a /\ ap' = Closed
      /\ lost' = lost \cup {kp \in published : kp[2] + 1 > Len(text) + n}
  BY DEF Dropped
<1>. HIDE DEF a, b
<1>3. text \o a \in Seq(Unit) /\ Len(text \o a) = Len(text) + n /\ Len(text) \in Nat /\ n \in Nat
  <2>1. text \o a \in Seq(Unit) /\ Len(text \o a) = Len(text) + Len(a)
    BY <1>0, <1>1, Appended
  <2>2. Len(text) \in Nat /\ Len(a) \in Nat
    BY <1>0, <1>1
  <2>. QED BY <1>1, <2>1, <2>2
<1>4. Flushed' = text \o a
  BY <1>2, <1>3, Unbuffered DEF Flushed, Closed
<1>5. ASSUME NEW kp \in published' \ lost'
      PROVE  Reads(Flushed', kp[1], kp[2])
  <2>1. kp \in published \ lost /\ ~ (kp[2] + 1 > Len(text) + n)
    BY <1>2
  <2>2. kp[2] \in Nat
    BY <1>0, <2>1
  <2>3. kp[2] + 1 <= Len(text \o a)
    BY <1>3, <2>1, <2>2
  <2>4. Reads((text \o a) \o b, kp[1], kp[2])
    BY <1>1, <2>1 DEF OffsetsHold
  <2>. QED BY <1>1, <1>3, <1>4, <2>2, <2>3, <2>4, ReadsBefore
<1>6. InsertionInv'
  BY <1>2 DEF InsertionInv, Closed, Buffered
<1>. QED BY <1>5, <1>6 DEF OffsetsHold

\* What Init, a line of the text or an index gives is in the text.
LEMMA FoundReads ==
    /\ \A t, from : \A kp \in CacheOf(t, from) : Reads(t, kp[1], kp[2])
    /\ \A t, k, i : \A p \in MayFind(t, k, i) : Reads(t, k, p)
BY DEF CacheOf, Lines, Matches, Hits, MaybeHits, MayFind

\* Every step keeps what the insertion knows and the offsets that were published.
LEMMA InsertionStep ==
    ASSUME TypeInv, InsertionInv, OffsetsHold, [Next]_vars
    PROVE  InsertionInv' /\ OffsetsHold'
<1>0. /\ text \in Seq(Unit) /\ ap.pend \in Seq(Unit) /\ Flushed \in Seq(Unit) /\ ap \in Insertions
      /\ ap.next \in Nat /\ <<>> \in Seq(Unit) /\ lost \subseteq published
      /\ Flushed \o <<>> = Flushed /\ text \o <<>> = text
  BY BufferType, InsertionTypes, EmptySeqType, Unbuffered DEF TypeInv
<1>. USE DEF ApAt
<1>1. CASE CreateStrings
  <2>1. /\ text = <<>> /\ ap.pend = <<>> /\ text' = text /\ ap'.pend = <<Separator>>
        /\ UNCHANGED <<published, lost, torn>>
    BY <1>1 DEF CreateStrings, InsertionInv, history, Closed
  <2>2. Flushed' = Flushed \o <<Separator>> /\ <<Separator>> \in Seq(Unit)
    BY <1>0, <2>1, UnitType DEF Flushed
  <2>3. OffsetsHold'
    BY <2>1, <2>2, HoldsStays
  <2>4. /\ ap'.pc = "create" /\ ap'.made = {} /\ ap'.cache = {} /\ files' = "some"
        /\ ap'.index = NoIndex
    BY <1>1 DEF CreateStrings, Closed
  <2>5. InsertionInv'
    BY <2>1, <2>4 DEF InsertionInv, Buffered
  <2>. QED BY <2>3, <2>5
<1>14. CASE CreateSplit
  <2>1. /\ text' = text /\ text = <<>> /\ ap'.pend = ap.pend /\ ap.pend = <<Separator>>
        /\ ap'.pc = "type" /\ ap'.made = {} /\ ap'.cache = {} /\ files' = files /\ files # "none"
        /\ ap'.index = NoIndex
        /\ UNCHANGED <<published, lost, torn>>
    BY <1>0, <1>14 DEF CreateSplit, InsertionInv, history, Insertions
  <2>2. Flushed' = Flushed
    BY <2>1 DEF Flushed
  <2>3. InsertionInv'
    BY <2>1 DEF InsertionInv, Buffered
  <2>. QED BY <2>1, <2>2, <2>3, HoldsUnchanged
<1>2. CASE CreateType
  <2>1. /\ text' = <<>> /\ text = <<>> /\ ap'.pend = <<Separator>> /\ ap.pend = <<Separator>>
        /\ ap'.pc = "open" /\ ap'.next = 2 /\ ap'.made = {} /\ ap'.cache = {} /\ files' = "all"
        /\ UNCHANGED <<published, lost, torn>>
    BY <1>0, <1>2 DEF CreateType, InsertionInv, history, Insertions
  <2>2. Flushed' = Flushed /\ Flushed' = <<Separator>>
    BY <2>1, UnitType, ConcatEmptySeq DEF Flushed
  <2>3. Len(<<Separator>>) + 1 = 2
    OBVIOUS
  <2>4. InsertionInv'
    BY <2>1, <2>2, <2>3 DEF InsertionInv, Buffered
  <2>. QED BY <2>1, <2>2, <2>4, HoldsUnchanged
<1>3. CASE ReadSplit
  <2>1. /\ ap'.pc \in {"idle", "split"} /\ ap'.pend = <<>> /\ ap'.made = {} /\ ap.pend = <<>>
        /\ UNCHANGED <<text, published, lost, torn, files>> /\ files = "all"
    BY <1>3 DEF ReadSplit, Closed, history, stridx, InsertionInv
  <2>2. Flushed' = Flushed
    BY <2>1 DEF Flushed
  <2>3. InsertionInv'
    BY <2>1 DEF InsertionInv, Buffered
  <2>. QED BY <2>1, <2>2, <2>3, HoldsUnchanged
<1>4. CASE OpenIndex
  <2>1. UNCHANGED <<text, published, lost, torn, files>> /\ ap.pend = <<>> /\ ap.made = {} /\ files # "none"
    BY <1>4 DEF OpenIndex, history, stridx, InsertionInv
  <2>2. CASE ap' = Closed
    <3>1. Flushed' = Flushed
      BY <2>1, <2>2 DEF Flushed, Closed
    <3>2. InsertionInv'
      BY <2>1, <2>2 DEF InsertionInv, Buffered, Closed
    <3>. QED BY <2>1, <3>1, <3>2, HoldsUnchanged
  <2>3. CASE ap' = [ap EXCEPT !.pc = "open", !.index = idx, !.cache = CacheOf(text, ap.split),
                              !.next = FirstOffset]
    <3>1. /\ ap'.pc = "open" /\ ap'.pend = <<>> /\ ap'.made = {} /\ ap'.cache = CacheOf(text, ap.split)
          /\ ap'.next = Len(text) + 1
      BY <1>0, <2>1, <2>3 DEF FirstOffset, Insertions
    <3>2. Flushed' = Flushed /\ Flushed' = text
      BY <1>0, <2>1, <3>1 DEF Flushed
    <3>3. InsertionInv'
      BY <2>1, <3>1, <3>2, FoundReads DEF InsertionInv, Buffered
    <3>. QED BY <2>1, <3>2, <3>3, HoldsUnchanged
  <2>. QED BY <1>4, <2>2, <2>3 DEF OpenIndex
<1>5. ASSUME NEW k \in Keys, AppendCached(k)
      PROVE  InsertionInv' /\ OffsetsHold'
  <2>1. PICK kp \in ap.cache : ap' = [ap EXCEPT !.made = ap.made \cup {kp}]
    BY <1>5 DEF AppendCached
  <2>2. /\ ap'.pc = "open" /\ ap.pc = "open" /\ ap'.pend = ap.pend /\ ap'.next = ap.next
        /\ ap'.cache = ap.cache /\ ap'.made = ap.made \cup {kp}
        /\ UNCHANGED <<text, published, lost, torn, files>>
    BY <1>0, <1>5, <2>1 DEF AppendCached, history, stridx, Insertions
  <2>3. Flushed' = Flushed
    BY <2>2 DEF Flushed
  <2>4. InsertionInv'
    BY <2>1, <2>2, <2>3 DEF InsertionInv, Buffered
  <2>. QED BY <2>2, <2>3, <2>4, HoldsUnchanged
<1>6. ASSUME NEW k \in Keys, AppendIndexed(k)
      PROVE  InsertionInv' /\ OffsetsHold'
  <2>1. PICK p \in MayFind(Flushed, k, ap.index) :
           ap' = [ap EXCEPT !.made = ap.made \cup {<<k, p>>}, !.pend = <<>>]
    BY <1>6 DEF AppendIndexed
  <2>2. /\ ap'.pc = "open" /\ ap.pc = "open" /\ ap'.pend = <<>> /\ ap'.next = ap.next
        /\ ap'.cache = ap.cache /\ ap'.made = ap.made \cup {<<k, p>>}
        /\ text' = Flushed /\ UNCHANGED <<published, lost, torn, files>>
    BY <1>0, <1>6, <2>1 DEF AppendIndexed, history, Insertions
  <2>3. Flushed' = Flushed
    BY <1>0, <2>2 DEF Flushed
  <2>4. Reads(Flushed, k, p)
    BY <2>1, FoundReads
  <2>5. InsertionInv'
    BY <2>2, <2>3, <2>4 DEF InsertionInv, Buffered
  <2>. QED BY <2>2, <2>3, <2>5, HoldsUnchanged
<1>7. ASSUME NEW k \in Keys, AppendNew(k)
      PROVE  InsertionInv' /\ OffsetsHold'
  <2>. DEFINE u == <<HeadOf(k), EndOf(k)>>
  <2>1. /\ ap'.pc = "open" /\ ap.pc = "open" /\ ap'.pend = u /\ ap'.next = ap.next + 2
        /\ ap'.cache = ap.cache \cup {<<k, ap.next>>} /\ ap'.made = ap.made \cup {<<k, ap.next>>}
        /\ text' = Flushed /\ UNCHANGED <<published, lost, torn, files>>
    BY <1>0, <1>7 DEF AppendNew, history, Insertions
  <2>2. u \in Seq(Unit) /\ Len(u) = 2
    BY UnitType
  <2>3. ap.next = Len(Flushed) + 1
    BY <2>1 DEF InsertionInv
  <2>4. Reads(Flushed \o u, k, ap.next)
    BY <1>0, <2>3, ReadsNew
  <2>5. Buffered' /\ files # "none"
    BY <2>1 DEF Buffered, InsertionInv
  <2>. HIDE DEF u
  <2>6. Flushed' = Flushed \o u
    BY <2>1 DEF Flushed
  <2>7. ap'.next = Len(Flushed') + 1
    <3>1. Len(Flushed \o u) = Len(Flushed) + Len(u)
      BY <1>0, <2>2, Appended
    <3>2. Len(Flushed) \in Nat
      BY <1>0
    <3>. QED BY <2>1, <2>2, <2>3, <2>6, <3>1, <3>2
  <2>8. ASSUME NEW kp \in ap'.cache \cup ap'.made
        PROVE  Reads(Flushed', kp[1], kp[2])
    <3>1. CASE kp = <<k, ap.next>>
      BY <2>4, <2>6, <3>1
    <3>2. CASE kp \in ap.cache \cup ap.made
      <4>1. Reads(Flushed, kp[1], kp[2])
        BY <2>1, <3>2 DEF InsertionInv
      <4>. QED BY <1>0, <2>2, <2>6, <4>1, ReadsStays
    <3>. QED BY <2>1, <2>8, <3>1, <3>2
  <2>9. InsertionInv'
    BY <2>1, <2>5, <2>7, <2>8 DEF InsertionInv
  <2>. QED BY <2>1, <2>2, <2>6, <2>9, HoldsStays
<1>8. CASE Publish
  <2>1. /\ ap'.pc = "close" /\ ap.pc = "open" /\ ap'.pend = ap.pend
        /\ ap'.cache = {} /\ ap'.made = {}
        /\ published' = published \cup ap.made /\ lost' = lost \ ap.made
        /\ UNCHANGED <<text, torn, files>>
    BY <1>8 DEF Publish, stridx, Closed
  <2>2. Flushed' = Flushed
    BY <2>1 DEF Flushed
  <2>3. ASSUME NEW kp \in published' \ lost'
        PROVE  Reads(Flushed', kp[1], kp[2])
    <3>1. kp \in published \ lost \/ kp \in ap.made
      BY <2>1
    <3>. QED BY <2>1, <2>2, <3>1 DEF OffsetsHold, InsertionInv
  <2>4. InsertionInv'
    BY <2>1, <2>2 DEF InsertionInv, Buffered
  <2>. QED BY <2>3, <2>4 DEF OffsetsHold
<1>9. CASE Close
  <2>1. /\ text' = Flushed /\ ap' = Closed /\ UNCHANGED <<published, lost, torn, files>>
        /\ files # "none"
    BY <1>9 DEF Close, history, InsertionInv
  <2>2. Flushed' = Flushed
    BY <1>0, <2>1 DEF Flushed, Closed
  <2>3. InsertionInv'
    BY <2>1 DEF InsertionInv, Buffered, Closed
  <2>. QED BY <2>1, <2>2, <2>3, HoldsUnchanged
<1>10. CASE Killed
  <2>1. PICK n \in 0 .. Len(ap.pend) : Dropped(n)
    BY <1>10 DEF Killed
  <2>2. ap.pc # "idle" /\ UNCHANGED <<files, published>>
    BY <1>10 DEF Killed
  <2>. QED BY <2>1, <2>2, DroppedStep
<1>11. CASE WriteFails
  <2>1. PICK n \in 0 .. Len(ap.pend) - 1 :
           /\ text' = text \o SubSeq(ap.pend, 1, n)
           /\ ap' = [Closed EXCEPT !.pc = "failed", !.pend = SubSeq(ap.pend, n + 1, Len(ap.pend))]
           /\ torn' = (torn \/ n # 0)
    BY <1>11 DEF WriteFails
  <2>. DEFINE a == SubSeq(ap.pend, 1, n)
              b == SubSeq(ap.pend, n + 1, Len(ap.pend))
  <2>2. n \in 0 .. Len(ap.pend)
    BY <1>0
  <2>3. a \in Seq(Unit) /\ Len(a) = n /\ b \in Seq(Unit) /\ Flushed = (text \o a) \o b
    BY <1>0, <2>2, Cut DEF Flushed
  <2>4. ap' = [Closed EXCEPT !.pc = "failed", !.pend = b] /\ text' = text \o a
    BY <2>1
  <2>5. n = 0 => a = <<>> /\ b = ap.pend
    <3>1. SubSeq(ap.pend, 1, 0) = <<>>
      BY SubSeqEmpty
    <3>2. SubSeq(ap.pend, 0 + 1, Len(ap.pend)) = ap.pend
      BY <1>0, SubSeqFull
    <3>. QED BY <3>1, <3>2
  <2>. HIDE DEF a, b
  <2>6. ap'.pc = "failed" /\ ap'.pend = b /\ ap'.cache = {} /\ ap'.made = {}
    BY <2>4 DEF Closed
  <2>7. Flushed' = Flushed
    BY <2>3, <2>4, <2>6 DEF Flushed
  <2>8. UNCHANGED <<published, lost, files>> /\ ap.pc = "open" /\ files # "none"
    BY <1>11 DEF WriteFails, InsertionInv
  <2>9. ~ torn' => Buffered'
    <3>. SUFFICES ASSUME ~ torn'
                  PROVE  Buffered'
      OBVIOUS
    <3>1. n = 0 /\ ~ torn
      BY <2>1
    <3>2. Buffered /\ text' = text /\ ap'.pend = ap.pend
      BY <1>0, <2>4, <2>5, <2>6, <3>1 DEF InsertionInv
    <3>. QED BY <3>2 DEF Buffered
  <2>10. InsertionInv'
    BY <2>6, <2>7, <2>8, <2>9 DEF InsertionInv
  <2>. QED BY <2>7, <2>8, <2>10, HoldsUnchanged
<1>12. CASE ExitFailed
  <2>1. PICK n \in {0, Len(ap.pend)} : Dropped(n)
    BY <1>12 DEF ExitFailed
  <2>2. n \in 0 .. Len(ap.pend)
    BY <1>0, <2>1
  <2>3. ap.pc # "idle" /\ UNCHANGED <<files, published>>
    BY <1>12 DEF ExitFailed
  <2>. QED BY <2>1, <2>2, <2>3, DroppedStep
<1>13. CASE Build \/ BuildKilled \/ Client \/ UNCHANGED vars
  <2>1. UNCHANGED <<files, text, ap, published, lost, torn>>
    BY <1>13, OthersLeaveText
  <2>2. Flushed' = Flushed
    BY <2>1 DEF Flushed
  <2>3. InsertionInv'
    BY <2>1, <2>2 DEF InsertionInv, Buffered
  <2>. QED BY <2>1, <2>2, <2>3, HoldsUnchanged
<1>. QED BY <1>1, <1>2, <1>3, <1>4, <1>5, <1>6, <1>7, <1>8, <1>9, <1>10, <1>11, <1>12, <1>13,
            <1>14 DEF Next, Insertion
-----------------------------------------------------------------------------
(***************************************************************************)
(* Splits lie between strings                                              *)
(***************************************************************************)
\* With its buffer a text ends behind a separator if it did without it.
LEMMA FlushedEnds ==
    ASSUME TypeInv, Buffered, text # <<>> => text[Len(text)].end
    PROVE  /\ Flushed # <<>> => Flushed[Len(Flushed)].end
           /\ text = <<>> /\ ap.pend = <<Separator>> => 1 \in DOMAIN Flushed /\ Flushed[1].end
<1>0. text \in Seq(Unit) /\ Len(text) \in Nat
  BY DEF TypeInv
<1>1. CASE ap.pend = <<>>
  <2>1. Flushed = text
    BY <1>0, <1>1, Unbuffered DEF Flushed
  <2>2. <<>> # <<Separator>>
    OBVIOUS
  <2>. QED BY <1>1, <2>1, <2>2
<1>2. CASE ap.pend = <<Separator>> /\ text = <<>>
  <2>1. Flushed = <<Separator>>
    BY <1>2, UnitType, ConcatEmptySeq DEF Flushed
  <2>2. <<Separator>>[1].end
    BY DEF Separator, EndOf
  <2>3. Len(<<Separator>>) = 1 /\ 1 \in DOMAIN <<Separator>>
    OBVIOUS
  <2>. QED BY <2>1, <2>2, <2>3
<1>3. ASSUME NEW k \in Keys, ap.pend = <<HeadOf(k), EndOf(k)>>
      PROVE  /\ Flushed[Len(Flushed)].end
             /\ ap.pend # <<Separator>>
  <2>1. Reads(text \o <<HeadOf(k), EndOf(k)>>, k, Len(text) + 1)
    BY <1>0, ReadsNew
  <2>. DEFINE u == <<HeadOf(k), EndOf(k)>>
  <2>2. u \in Seq(Unit) /\ Len(u) = 2
    BY UnitType
  <2>3. Len(<<Separator>>) = 1
    OBVIOUS
  <2>4. ap.pend # <<Separator>>
    BY <1>3, <2>2, <2>3
  <2>. HIDE DEF u
  <2>5. Len(text \o u) = Len(text) + 1 + 1
    <3>1. Len(text \o u) = Len(text) + Len(u)
      BY <1>0, <2>2, Appended
    <3>. QED BY <1>0, <2>2, <3>1
  <2>6. Flushed = text \o u
    BY <1>3 DEF Flushed, u
  <2>7. Flushed[Len(text) + 1 + 1] = EndOf(k)
    BY <2>1, <2>6 DEF Reads, u
  <2>. QED BY <2>4, <2>5, <2>6, <2>7 DEF EndOf
<1>. QED BY <1>1, <1>2, <1>3 DEF Buffered

\* Each step of an insertion that tears nothing writes either nothing or all of
\* the buffer.
LEMMA BoundaryKept ==
    ASSUME TypeInv, BoundaryInv, ~ torn, UNCHANGED <<bd, se>>, split' \in {split, 1},
           split' # split => text = <<>> /\ ap.pend = <<Separator>>,
           \/ text' = text /\ (ap.pend = <<Separator>> => ap'.pend = ap.pend)
           \/ text' = Flushed /\ Buffered
    PROVE  BoundaryInv'
<1>1. text # <<>> => text[Len(text)].end
  BY DEF BoundaryInv
<1>2. text' # <<>> => text'[Len(text')].end
  BY <1>1, FlushedEnds
<1>3. ASSUME NEW s, Between(s)
      PROVE  \/ s = 0
             \/ s \in DOMAIN text' /\ text'[s].end
             \/ s = 1 /\ text' = <<>> /\ ap'.pend = <<Separator>>
  <2>1. CASE text' = text /\ (ap.pend = <<Separator>> => ap'.pend = ap.pend)
    BY <1>3, <2>1 DEF Between
  <2>2. CASE text' = Flushed /\ Buffered
    <3>1. \A i \in DOMAIN text : i \in DOMAIN Flushed /\ Flushed[i] = text[i]
      BY BufferType, Appended DEF Flushed, TypeInv
    <3>2. text = <<>> /\ ap.pend = <<Separator>> => 1 \in DOMAIN Flushed /\ Flushed[1].end
      BY <1>1, <2>2, FlushedEnds
    <3>. QED BY <1>3, <2>2, <3>1, <3>2 DEF Between
  <2>. QED BY <2>1, <2>2
<1>4. Between(split) /\ Between(bd.split) /\ Between(se.split) /\ (split' # split => Between(1))
  BY DEF BoundaryInv, Between
<1>5. Between(split)' /\ Between(bd.split)' /\ Between(se.split)'
  <2>1. Between(split)'
    <3>1. CASE split' = split
      BY <1>3, <1>4, <3>1 DEF Between
    <3>2. CASE split' = 1 /\ split' # split
      BY <1>3, <1>4, <3>2 DEF Between
    <3>. QED BY <3>1, <3>2
  <2>2. Between(bd.split)'
    BY <1>3, <1>4 DEF Between
  <2>3. Between(se.split)'
    BY <1>3, <1>4 DEF Between
  <2>. QED BY <2>1, <2>2, <2>3
<1>. QED BY <1>2, <1>5 DEF BoundaryInv

\* A part of the buffer that is dropped whole, or not at all.
LEMMA DroppedWhole ==
    ASSUME TypeInv, InsertionInv, NEW n \in 0 .. Len(ap.pend), Dropped(n), ~ torn'
    PROVE  /\ ~ torn /\ Buffered
           /\ \/ text' = text /\ (ap.pend = <<Separator>> => ap'.pend = ap.pend)
              \/ text' = Flushed
<1>1. ~ torn /\ n \in {0, Len(ap.pend)} /\ ~ (ap.pend = <<Separator>> /\ n = 0)
  BY DEF Dropped
<1>2. Buffered
  BY <1>1 DEF InsertionInv
<1>3. text \in Seq(Unit) /\ ap.pend \in Seq(Unit)
  BY BufferType DEF TypeInv
<1>4. CASE n = 0 /\ ap.pend # <<Separator>>
  <2>1. SubSeq(ap.pend, 1, 0) = <<>>
    BY SubSeqEmpty
  <2>2. text' = text
    BY <1>3, <1>4, <2>1, Unbuffered DEF Dropped
  <2>. QED BY <1>1, <1>2, <1>4, <2>2
<1>5. CASE n = Len(ap.pend)
  <2>1. SubSeq(ap.pend, 1, Len(ap.pend)) = ap.pend
    BY <1>3, SubSeqFull
  <2>. QED BY <1>1, <1>2, <1>5, <2>1 DEF Dropped, Flushed
<1>. QED BY <1>1, <1>4, <1>5

\* Every step that tears no string leaves the splits between strings.
LEMMA BoundaryStep ==
    ASSUME TypeInv, InsertionInv, BoundaryInv, CoverInv, [Next]_vars, ~ torn'
    PROVE  BoundaryInv'
<1>0. /\ text \in Seq(Unit) /\ ap.pend \in Seq(Unit) /\ ap \in Insertions /\ bd \in Builds
      /\ Len(text) \in Nat
  BY BufferType DEF TypeInv
<1>. DEFINE Known == \A s \in {split, bd.split, se.split, 0} : Between(s)
<1>1. CASE Insertion
  <2>1. UNCHANGED <<bd, se>> /\ split' \in {split, 1}
    BY <1>1, InsertionLeavesFiles
  <2>2. CASE CreateStrings \/ ReadSplit \/ OpenIndex
    <3>1. ap.pend = <<>> /\ text' = text /\ ~ torn /\ split' = split
      BY <2>2 DEF CreateStrings, ReadSplit, OpenIndex, InsertionInv, ApAt, history, stridx
    <3>2. ap.pend # <<Separator>>
      BY <3>1
    <3>. QED BY <2>1, <3>1, <3>2, BoundaryKept
  <2>3. CASE CreateSplit \/ CreateType
    <3>1. text = <<>> /\ ap.pend = <<Separator>> /\ text' = text /\ ~ torn
      BY <2>3 DEF CreateSplit, CreateType, InsertionInv, ApAt, history
    <3>2. ap'.pend = ap.pend
      BY <1>0, <2>3 DEF CreateSplit, CreateType, Insertions
    <3>. QED BY <2>1, <3>1, <3>2, BoundaryKept
  <2>4. ASSUME NEW k \in Keys, AppendCached(k)
        PROVE  BoundaryInv'
    <3>1. text' = text /\ ~ torn /\ split' = split
      BY <2>4 DEF AppendCached, history, stridx
    <3>2. PICK kp \in ap.cache : ap' = [ap EXCEPT !.made = ap.made \cup {kp}]
      BY <2>4 DEF AppendCached
    <3>3. ap'.pend = ap.pend
      BY <1>0, <3>2 DEF Insertions
    <3>. QED BY <2>1, <3>1, <3>3, BoundaryKept
  <2>5. CASE (\E k \in Keys : AppendIndexed(k) \/ AppendNew(k)) \/ Close
    <3>1. text' = Flushed /\ ~ torn /\ split' = split
      <4>1. ASSUME NEW k \in Keys, AppendIndexed(k) \/ AppendNew(k)
            PROVE  text' = Flushed /\ torn' = torn /\ split' = split
        BY <4>1 DEF AppendIndexed, AppendNew, history
      <4>2. CASE Close
        BY <4>2 DEF Close, history
      <4>. QED BY <2>5, <4>1, <4>2
    <3>2. Buffered
      BY <3>1 DEF InsertionInv
    <3>. QED BY <2>1, <3>1, <3>2, BoundaryKept
  <2>6. CASE Publish
    <3>1. text' = text /\ ~ torn /\ split' = split
      BY <2>6 DEF Publish, stridx
    <3>2. ap'.pend = ap.pend
      BY <2>6 DEF Publish, Closed
    <3>. QED BY <2>1, <3>1, <3>2, BoundaryKept
  <2>7. CASE Killed
    <3>1. PICK n \in 0 .. Len(ap.pend) : Dropped(n)
      BY <2>7 DEF Killed
    <3>2. split' = split
      BY <2>7 DEF Killed
    <3>. QED BY <2>1, <3>1, <3>2, DroppedWhole, BoundaryKept
  <2>8. CASE WriteFails
    <3>1. PICK n \in 0 .. Len(ap.pend) - 1 :
             /\ text' = text \o SubSeq(ap.pend, 1, n)
             /\ ap' = [Closed EXCEPT !.pc = "failed", !.pend = SubSeq(ap.pend, n + 1, Len(ap.pend))]
             /\ torn' = (torn \/ n # 0)
      BY <2>8 DEF WriteFails
    <3>2. n = 0 /\ ~ torn /\ split' = split
      BY <2>8, <3>1 DEF WriteFails
    <3>3. SubSeq(ap.pend, 1, 0) = <<>> /\ SubSeq(ap.pend, 0 + 1, Len(ap.pend)) = ap.pend
      BY <1>0, SubSeqEmpty, SubSeqFull
    <3>4. text' = text
      BY <1>0, <3>1, <3>2, <3>3, Unbuffered
    <3>5. ap' = [Closed EXCEPT !.pc = "failed", !.pend = ap.pend]
      BY <3>1, <3>2, <3>3
    <3>6. ap'.pend = ap.pend
      BY <3>5 DEF Closed
    <3>. QED BY <2>1, <3>2, <3>4, <3>6, BoundaryKept
  <2>9. CASE ExitFailed
    <3>1. PICK n \in {0, Len(ap.pend)} : Dropped(n)
      BY <2>9 DEF ExitFailed
    <3>2. n \in 0 .. Len(ap.pend) /\ split' = split
      BY <1>0, <2>9, <3>1 DEF ExitFailed
    <3>. QED BY <2>1, <3>1, <3>2, DroppedWhole, BoundaryKept
  <2>. QED BY <1>1, <2>2, <2>3, <2>4, <2>5, <2>6, <2>7, <2>8, <2>9 DEF Insertion
<1>2. CASE Build \/ BuildKilled \/ Client \/ UNCHANGED vars
  <2>1. UNCHANGED <<text, ap>> /\ ~ torn
    BY <1>2, OthersLeaveText
  <2>2. Known
    BY <2>1 DEF BoundaryInv, Between
  <2>3. Between(split') /\ Between(bd'.split) /\ Between(se'.split)
    <3>. USE DEF stridx, history, bounds
    <3>1. CASE BuildOpen
      <4>1. Len(text) \in DOMAIN text
        BY <1>0, <3>1 DEF BuildOpen
      <4>2. Between(Len(text))
        BY <2>1, <3>1, <4>1 DEF BuildOpen, BoundaryInv, Between
      <4>. QED BY <2>2, <3>1, <4>2 DEF BuildOpen
    <3>2. CASE BuildText
      <4>1. bd'.split = bd.split
        BY <1>0, <3>2 DEF BuildText, Builds
      <4>. QED BY <2>2, <3>2, <4>1 DEF BuildText
    <3>10. CASE BuildFails
      BY <2>2, <3>10 DEF BuildFails, NoBuild
    <3>11. CASE BuildIndex
      <4>1. bd'.split = bd.split
        BY <1>0, <3>11 DEF BuildIndex, Builds
      <4>. QED BY <2>2, <3>11, <4>1 DEF BuildIndex
    <3>3. CASE Install \/ TruncateSplit
      <4>1. bd'.split = bd.split
        BY <1>0, <3>3 DEF Install, TruncateSplit, Builds
      <4>. QED BY <2>2, <3>3, <4>1 DEF Install, TruncateSplit
    <3>4. CASE WriteSplit
      BY <2>2, <3>4 DEF WriteSplit, NewSplit, NoBuild
    <3>5. CASE BuildKilled
      BY <2>2, <3>5 DEF BuildKilled, NoBuild
    <3>6. CASE OpenSearch
      BY <2>2, <3>6 DEF OpenSearch
    <3>7. CASE MapText
      <4>1. se'.split \in {se.split, 0}
        BY <3>7 DEF MapText, NoSearch, TypeInv, Searches
      <4>. QED BY <2>2, <3>7, <4>1 DEF MapText
    <3>8. CASE CloseSearch
      BY <2>2, <3>8 DEF CloseSearch, NoSearch
    <3>9. CASE UNCHANGED vars
      BY <2>2, <3>9 DEF vars
    <3>. QED BY <1>2, <3>1, <3>2, <3>3, <3>4, <3>5, <3>6, <3>7, <3>8, <3>9, <3>10, <3>11
             DEF Build, Client
  <2>. QED BY <2>1, <2>3 DEF BoundaryInv, Between
<1>. QED BY <1>1, <1>2 DEF Next
-----------------------------------------------------------------------------
(***************************************************************************)
(* Every string has one offset                                             *)
(***************************************************************************)
\* What is read from a separated text is also matched there.
LEMMA ReadsSeparated ==
    ASSUME NEW t \in Seq(Unit), Separated(t), NEW k \in Keys, NEW p \in DOMAIN t, Reads(t, k, p)
    PROVE  /\ Matches(t, k, p) /\ p >= 2 /\ ~ t[p].end
<1>1. ~ t[p].end
  BY DEF Reads, HeadOf
<1>2. p - 1 \in DOMAIN t /\ t[p - 1].end
  BY <1>1 DEF Separated
<1>3. p >= 2
  BY <1>2
<1>. QED BY <1>1, <1>2, <1>3 DEF Matches

\* init_hash_table loads every string behind the split.
LEMMA LoadedAll ==
    ASSUME NEW t \in Seq(Unit), Separated(t), Once(t), NEW from \in Nat,
           NEW k \in Keys, NEW p \in DOMAIN t, Reads(t, k, p), p > from
    PROVE  <<k, p>> \in CacheOf(t, from)
<1>1. Len(t) \in Nat /\ DOMAIN t = 1 .. Len(t)
  OBVIOUS
<1>2. p \in from + 1 .. Len(t)
  BY <1>1
<1>3. <<k, p>> \in Lines(t, from)
  BY <1>2, ReadsSeparated DEF Lines
<1>4. ASSUME NEW lp \in Lines(t, from), lp[1] = k
      PROVE  lp[2] <= p
  <2>1. lp[2] \in from + 1 .. Len(t) /\ Reads(t, k, lp[2])
    BY <1>4 DEF Lines, Matches
  <2>2. lp[2] \in DOMAIN t
    BY <1>1, <2>1
  <2>3. lp[2] = p
    BY <2>1, <2>2 DEF Once
  <2>. QED BY <1>2, <2>3
<1>. QED BY <1>3, <1>4 DEF CacheOf

\* A string that is not in the text is in it once when it is appended.
LEMMA AppendedOnce ==
    ASSUME NEW t \in Seq(Unit), t # <<>>, t[Len(t)].end, Separated(t), Once(t),
           NEW k \in Keys, \A p \in DOMAIN t : ~ Reads(t, k, p),
           NEW u, u = <<HeadOf(k), EndOf(k)>>
    PROVE  /\ Separated(t \o u) /\ Once(t \o u)
           /\ \A j \in Keys, p \in DOMAIN (t \o u) :
                 Reads(t \o u, j, p) => \/ p \in DOMAIN t /\ Reads(t, j, p)
                                        \/ j = k /\ p = Len(t) + 1
<1>1. u \in Seq(Unit) /\ Len(u) = 2 /\ u[1] = HeadOf(k) /\ u[2] = EndOf(k)
  BY UnitType
<1>2. Len(t) \in Nat /\ DOMAIN t = 1 .. Len(t) /\ Len(t) # 0
  OBVIOUS
<1>3. DOMAIN (t \o u) = 1 .. Len(t) + 2 /\ \A i \in DOMAIN t : (t \o u)[i] = t[i]
  BY <1>1, <1>2, Appended
<1>4. (t \o u)[Len(t) + 1] = HeadOf(k) /\ (t \o u)[Len(t) + 2] = EndOf(k)
  <2>1. \A i \in 1 .. Len(t) + Len(u) : (t \o u)[i] = IF i <= Len(t) THEN t[i] ELSE u[i - Len(t)]
    BY <1>1, ConcatProperties
  <2>2. /\ Len(t) + 1 \in 1 .. Len(t) + Len(u) /\ Len(t) + 2 \in 1 .. Len(t) + Len(u)
        /\ Len(t) + 1 - Len(t) = 1 /\ Len(t) + 2 - Len(t) = 2
        /\ ~ (Len(t) + 1 <= Len(t)) /\ ~ (Len(t) + 2 <= Len(t))
    BY <1>1, <1>2
  <2>. QED BY <1>1, <2>1, <2>2
<1>. DEFINE v == t \o u
<1>5. /\ DOMAIN v = 1 .. Len(t) + 2 /\ v[Len(t)].end
      /\ v[Len(t) + 1] = HeadOf(k) /\ v[Len(t) + 2].end
      /\ \A i \in DOMAIN t : v[i] = t[i]
  BY <1>2, <1>3, <1>4 DEF EndOf
<1>. HIDE DEF v
<1>6. Separated(v)
  <2>. SUFFICES ASSUME NEW p \in DOMAIN v, ~ v[p].end
                PROVE  p - 1 \in DOMAIN v /\ v[p - 1].end
    BY DEF Separated
  <2>1. CASE p \in DOMAIN t
    <3>1. p - 1 \in DOMAIN t /\ t[p - 1].end
      BY <1>5, <2>1 DEF Separated
    <3>. QED BY <1>2, <1>5, <3>1
  <2>2. CASE p = Len(t) + 1
    BY <1>2, <1>5, <2>2
  <2>3. CASE p = Len(t) + 2
    BY <1>5, <2>3
  <2>. QED BY <1>2, <1>5, <2>1, <2>2, <2>3
<1>7. ASSUME NEW j \in Keys, NEW p \in DOMAIN v, Reads(v, j, p)
      PROVE  \/ p \in DOMAIN t /\ Reads(t, j, p)
             \/ j = k /\ p = Len(t) + 1
  <2>1. p + 1 \in DOMAIN v /\ v[p] = HeadOf(j) /\ v[p + 1] = EndOf(j) /\ ~ v[p].end
    BY <1>7 DEF Reads, HeadOf
  <2>2. CASE p + 1 <= Len(t)
    <3>1. p \in DOMAIN t /\ p + 1 \in DOMAIN t
      BY <1>2, <1>5, <2>2
    <3>. QED BY <1>5, <2>1, <3>1 DEF Reads
  <2>3. CASE p = Len(t) + 1
    BY <1>5, <2>1, <2>3 DEF HeadOf
  <2>. QED BY <1>2, <1>5, <2>1, <2>2, <2>3
<1>8. Once(v)
  <2>. SUFFICES ASSUME NEW j \in Keys, NEW p \in DOMAIN v, NEW q \in DOMAIN v,
                       Reads(v, j, p), Reads(v, j, q)
                PROVE  p = q
    BY DEF Once
  <2>. QED BY <1>7 DEF Once
<1>. QED BY <1>6, <1>7, <1>8 DEF v

\* What holds of a text holds of its beginning.
LEMMA BeginningOnce ==
    ASSUME NEW t \in Seq(Unit), NEW u \in Seq(Unit), Separated(t \o u), Once(t \o u)
    PROVE  Separated(t) /\ Once(t)
<1>. DEFINE v == t \o u
<1>1. \A i \in DOMAIN t : i \in DOMAIN v /\ v[i] = t[i]
  BY Appended
<1>2. DOMAIN t = 1 .. Len(t) /\ Len(t) \in Nat /\ DOMAIN v = 1 .. Len(v) /\ Len(v) \in Nat
  BY Appended
<1>. HIDE DEF v
<1>3. Separated(t)
  <2>. SUFFICES ASSUME NEW p \in DOMAIN t, ~ t[p].end
                PROVE  p - 1 \in DOMAIN t /\ t[p - 1].end
    BY DEF Separated
  <2>1. p - 1 \in DOMAIN v /\ v[p - 1].end
    BY <1>1 DEF Separated, v
  <2>2. p - 1 \in DOMAIN t
    BY <1>2, <2>1
  <2>. QED BY <1>1, <2>1, <2>2
<1>4. Once(t)
  <2>. SUFFICES ASSUME NEW k \in Keys, NEW p \in DOMAIN t, NEW q \in DOMAIN t,
                       Reads(t, k, p), Reads(t, k, q)
                PROVE  p = q
    BY DEF Once
  <2>1. Reads(v, k, p) /\ Reads(v, k, q) /\ p \in DOMAIN v /\ q \in DOMAIN v
    BY <1>1 DEF Reads
  <2>. QED BY <2>1 DEF Once, v
<1>. QED BY <1>3, <1>4

\* The split that an insertion has read stays within the index, also within a new one.
LEMMA LoadStep ==
    ASSUME TypeInv, LoadInv, CoverInv, [Next]_vars
    PROVE  LoadInv'
<1>0. /\ split \in Nat /\ idx.cover \in Nat /\ bd \in Builds /\ bd.index.cover \in Nat /\ ap \in Insertions
      /\ ap.split \in Nat /\ Len(text) \in Nat /\ Len(text') \in Int
  <2>1. TypeInv'
    BY TypeStep
  <2>2. text \in Seq(Unit) /\ text' \in Seq(Unit)
    BY <2>1 DEF TypeInv
  <2>. QED BY <2>2, IndexType DEF TypeInv, Builds, Insertions
<1>1. Len(text) <= Len(text')
  BY TextGrows
<1>. USE DEF LoadInv, CoverInv, Within, stridx, history, bounds
<1>2. CASE ReadSplit
  BY <1>0, <1>2 DEF ReadSplit, Closed
<1>3. CASE OpenIndex
  BY <1>0, <1>3 DEF OpenIndex, Closed, Insertions
<1>4. CASE /\ Insertion /\ ~ ReadSplit /\ ~ OpenIndex
  <2>1. ap'.pc # "split"
    <3>1. CASE CreateStrings \/ Close \/ Killed \/ ExitFailed
      <4>1. ap' = Closed \/ ap' = [Closed EXCEPT !.pc = "create", !.pend = <<Separator>>]
        BY <3>1 DEF CreateStrings, Close, Killed, ExitFailed, Dropped
      <4>2. Closed.pc = "idle" /\ [Closed EXCEPT !.pc = "create", !.pend = <<Separator>>].pc = "create"
        BY ClosedType DEF Closed, Insertions
      <4>. QED BY <4>1, <4>2
    <3>2. CASE CreateSplit \/ CreateType \/ Publish
      BY <1>0, <3>2 DEF CreateSplit, CreateType, Publish, Closed, Insertions
    <3>3. CASE WriteFails
      <4>1. PICK n \in 0 .. Len(ap.pend) - 1 :
               ap' = [Closed EXCEPT !.pc = "failed", !.pend = SubSeq(ap.pend, n + 1, Len(ap.pend))]
        BY <3>3 DEF WriteFails
      <4>. QED BY <4>1 DEF Closed
    <3>4. ASSUME NEW k \in Keys, AppendCached(k) \/ AppendIndexed(k) \/ AppendNew(k)
          PROVE  ap'.pc # "split"
      BY <1>0, <3>4 DEF AppendCached, AppendIndexed, AppendNew, ApAt, Insertions
    <3>. QED BY <1>4, <3>1, <3>2, <3>3, <3>4 DEF Insertion
  <2>. QED BY <2>1
<1>5. CASE Build \/ BuildKilled \/ Client \/ UNCHANGED vars
  <2>1. UNCHANGED <<text, ap>>
    BY <1>5, OthersLeaveText
  <2>2. CASE BuildOpen
    BY <1>0, <2>1, <2>2 DEF BuildOpen
  <2>3. CASE BuildText
    <3>1. bd'.pc = "build" /\ idx' = idx
      BY <1>0, <2>3 DEF BuildText, BdAt, Builds
    <3>. QED BY <1>0, <2>1, <3>1
  <2>9. CASE BuildFails
    BY <1>0, <2>1, <2>9 DEF BuildFails, NoBuild
  <2>10. CASE BuildIndex
    BY <1>0, <2>1, <2>10 DEF BuildIndex, BdAt, Builds
  <2>4. CASE Install
    BY <1>0, <2>1, <2>4 DEF Install, BdAt, Builds
  <2>5. CASE TruncateSplit
    BY <1>0, <2>1, <2>5 DEF TruncateSplit, BdAt, Builds
  <2>6. CASE WriteSplit
    BY <1>0, <2>1, <2>6 DEF WriteSplit, NoBuild
  <2>7. CASE BuildKilled
    BY <1>0, <2>1, <2>7 DEF BuildKilled, NoBuild
  <2>8. CASE Client \/ UNCHANGED vars
    BY <1>0, <2>1, <2>8 DEF Client, OpenSearch, MapText, CloseSearch, vars
  <2>. QED BY <1>5, <2>2, <2>3, <2>4, <2>5, <2>6, <2>7, <2>8, <2>9, <2>10 DEF Build
<1>. QED BY <1>2, <1>3, <1>4, <1>5 DEF Next

\* Once there are files, the text with its buffer has its first separator.
LEMMA FlushedStarts ==
    ASSUME TypeInv, OnceInv, ~ torn, ~ blind, files # "none"
    PROVE  Flushed # <<>>
<1>0. text \in Seq(Unit) /\ ap.pend \in Seq(Unit)
  BY BufferType
<1>1. CASE text # <<>>
  BY <1>0, <1>1 DEF Flushed
<1>2. CASE text = <<>> /\ ap.pend = <<Separator>>
  BY <1>2, UnitType, ConcatEmptySeq DEF Flushed
<1>. QED BY <1>1, <1>2 DEF OnceInv

\* The text with its buffer stays, or is left without it, and the insertion neither
\* opens nor comes to a split.
LEMMA OnceKept ==
    ASSUME TypeInv, TypeInv', OnceInv, ~ torn, ~ blind, Flushed' = Flushed \/ Flushed' = text,
           files' # "none" => text' # <<>> \/ ap'.pend = <<Separator>>,
           ap'.pc \notin {"split", "open"}
    PROVE  OnceInv'
<1>1. text \in Seq(Unit) /\ ap.pend \in Seq(Unit)
  BY BufferType
<1>2. Separated(Flushed) /\ Once(Flushed)
  BY DEF OnceInv
<1>3. Separated(text) /\ Once(text)
  BY <1>1, <1>2, BeginningOnce DEF Flushed
<1>4. Separated(Flushed') /\ Once(Flushed')
  BY <1>2, <1>3
<1>5. Separated(Flushed)' /\ Once(Flushed)'
  BY <1>4 DEF Separated, Once
<1>. QED BY <1>5 DEF OnceInv

\* Once an insertion has opened an index that is not exact, it has.
LEMMA BlindStays ==
    ASSUME [Next]_vars, ~ blind'
    PROVE  ~ blind
<1>1. Insertion => blind' = blind \/ (blind' = (blind \/ ~ idx.exact))
  BY DEF Insertion, CreateStrings, CreateSplit, CreateType, ReadSplit, OpenIndex, AppendCached,
         AppendIndexed, AppendNew, Publish, Close, Killed, WriteFails, ExitFailed, history
<1>. QED BY <1>1, OthersLeaveText DEF Next

\* Every step that tears no string and opens an exact index leaves every string in
\* the text once.
LEMMA OnceStep ==
    ASSUME TypeInv, InsertionInv, CoverInv, BoundaryInv, LoadInv, OnceInv, [Next]_vars, ~ torn', ~ blind'
    PROVE  OnceInv'
<1>0. /\ text \in Seq(Unit) /\ ap.pend \in Seq(Unit) /\ Flushed \in Seq(Unit) /\ ap \in Insertions
      /\ ap.split \in Nat /\ idx.cover \in Nat /\ split \in Nat /\ ap.index.cover \in Nat
      /\ Flushed \o <<>> = Flushed /\ text \o <<>> = text /\ TypeInv'
  BY BufferType, InsertionTypes, IndexType, Unbuffered, TypeStep DEF TypeInv
<1>15. ~ blind
  BY BlindStays
<1>. USE DEF ApAt
<1>1. CASE CreateStrings
  <2>1. /\ text' = <<>> /\ ap'.pend = <<Separator>> /\ ap'.pc = "create"
    BY <1>1 DEF CreateStrings, InsertionInv, Closed
  <2>2. Flushed' = <<Separator>>
    BY <2>1, UnitType, ConcatEmptySeq DEF Flushed
  <2>3. Separated(<<Separator>>) /\ Once(<<Separator>>)
    BY DEF Separated, Once, Reads, Separator, EndOf
  <2>4. Separated(Flushed') /\ Once(Flushed')
    BY <2>2, <2>3
  <2>5. Separated(Flushed)' /\ Once(Flushed)'
    BY <2>4 DEF Separated, Once
  <2>. QED BY <1>15, <2>1, <2>5 DEF OnceInv
<1>16. CASE CreateSplit
  <2>1. /\ UNCHANGED <<text, torn, files>> /\ ap'.pend = ap.pend /\ ap'.pc = "type"
    BY <1>0, <1>16 DEF CreateSplit, history, Insertions
  <2>2. Flushed' = Flushed
    BY <2>1 DEF Flushed
  <2>. QED BY <1>0, <1>15, <2>1, <2>2, OnceKept DEF OnceInv
<1>2. CASE CreateType
  <2>1. /\ text' = <<>> /\ text = <<>> /\ ap'.pend = <<Separator>> /\ ap.pend = <<Separator>>
        /\ ap'.pc = "open" /\ UNCHANGED torn /\ ap'.index = ap.index /\ ap.index = NoIndex
    BY <1>0, <1>2 DEF CreateType, InsertionInv, history, Insertions
  <2>2. Flushed' = Flushed /\ Flushed = <<Separator>>
    BY <2>1, UnitType, ConcatEmptySeq DEF Flushed
  <2>3. \A k \in Keys, p \in DOMAIN <<Separator>> : ~ Reads(<<Separator>>, k, p)
    BY DEF Reads
  <2>4. \A k \in Keys, p \in DOMAIN Flushed' : ~ Reads(Flushed', k, p)
    BY <2>2, <2>3
  <2>5. Separated(Flushed') /\ Once(Flushed')
    BY <1>15, <2>1, <2>2 DEF OnceInv
  <2>6. Separated(Flushed)' /\ Once(Flushed)'
    BY <2>5 DEF Separated, Once
  <2>7. ap'.index.exact
    BY <2>1 DEF NoIndex
  <2>. QED BY <1>15, <2>1, <2>4, <2>6, <2>7 DEF OnceInv
<1>3. CASE ReadSplit
  <2>1. /\ ap.pend = <<>> /\ ap'.pend = <<>> /\ ap'.pc \in {"idle", "split"}
        /\ (ap'.pc = "split" => ap'.split = split /\ split # 0)
        /\ UNCHANGED <<text, torn, files>> /\ files = "all"
    BY <1>3 DEF ReadSplit, Closed, history, stridx, InsertionInv
  <2>2. Flushed' = Flushed
    BY <2>1 DEF Flushed
  <2>3. Separated(Flushed') /\ Once(Flushed') /\ text # <<>>
    BY <1>15, <2>1, <2>2 DEF OnceInv
  <2>4. Separated(Flushed)' /\ Once(Flushed)'
    BY <2>3 DEF Separated, Once
  <2>5. split # 0 => split \in DOMAIN text /\ text[split].end
    BY <2>1 DEF BoundaryInv, Between
  <2>. QED BY <1>15, <2>1, <2>3, <2>4, <2>5 DEF OnceInv
<1>4. CASE OpenIndex
  <2>1. UNCHANGED <<text, torn, files>> /\ ap.pend = <<>> /\ files # "none" /\ ap.pc = "split"
    BY <1>4 DEF OpenIndex, history, stridx, InsertionInv
  <2>2. Flushed = text /\ Separated(text) /\ Once(text) /\ text # <<>>
    BY <1>15, <1>0, <2>1 DEF OnceInv, Flushed
  <2>3. CASE ap' = Closed
    <3>1. Flushed' = text /\ ap'.pc = "idle"
      BY <1>0, <2>1, <2>3 DEF Flushed, Closed
    <3>. QED BY <1>15, <1>0, <2>1, <2>2, <3>1, OnceKept
  <2>4. CASE ap' = [ap EXCEPT !.pc = "open", !.index = idx, !.cache = CacheOf(text, ap.split),
                              !.next = FirstOffset]
    <3>1. /\ ap'.pc = "open" /\ ap'.pend = <<>> /\ ap'.cache = CacheOf(text, ap.split)
          /\ ap'.index = idx
      BY <1>0, <2>1, <2>4 DEF Insertions
    <3>2. Flushed' = text
      BY <1>0, <2>1, <3>1 DEF Flushed
    <3>3. ASSUME NEW k \in Keys, NEW p \in DOMAIN text, Reads(text, k, p)
          PROVE  p < idx.cover \/ <<k, p>> \in CacheOf(text, ap.split)
      <4>1. p >= 2 /\ ~ text[p].end
        BY <1>0, <2>2, <3>3, ReadsSeparated
      <4>2. p # ap.split
        BY <1>15, <2>1, <4>1 DEF OnceInv
      <4>3. Within(ap.split, idx.cover)
        BY <2>1 DEF LoadInv
      <4>4. CASE p > ap.split
        BY <1>0, <2>2, <3>3, <4>4, LoadedAll
      <4>. QED BY <1>0, <4>1, <4>2, <4>3, <4>4 DEF Within
    <3>4. Separated(Flushed') /\ Once(Flushed')
      BY <2>2, <3>2
    <3>5. Separated(Flushed)' /\ Once(Flushed)'
      BY <3>4 DEF Separated, Once
    <3>6. idx.exact
      BY <1>4 DEF OpenIndex
    <3>. QED BY <1>15, <2>1, <2>2, <3>1, <3>2, <3>3, <3>5, <3>6 DEF OnceInv
  <2>. QED BY <1>4, <2>3, <2>4 DEF OpenIndex
<1>5. ASSUME NEW k \in Keys, AppendCached(k)
      PROVE  OnceInv'
  <2>1. PICK kp \in ap.cache : ap' = [ap EXCEPT !.made = ap.made \cup {kp}]
    BY <1>5 DEF AppendCached
  <2>2. /\ ap'.pc = "open" /\ ap.pc = "open" /\ ap'.pend = ap.pend /\ ap'.cache = ap.cache
        /\ ap'.index = ap.index /\ UNCHANGED <<text, torn, files>>
    BY <1>0, <1>5, <2>1 DEF AppendCached, history, stridx, Insertions
  <2>3. Flushed' = Flushed
    BY <2>2 DEF Flushed
  <2>. QED BY <1>15, <2>2, <2>3 DEF OnceInv, Separated, Once
<1>6. ASSUME NEW k \in Keys, AppendIndexed(k)
      PROVE  OnceInv'
  <2>1. PICK p \in MayFind(Flushed, k, ap.index) :
           ap' = [ap EXCEPT !.made = ap.made \cup {<<k, p>>}, !.pend = <<>>]
    BY <1>6 DEF AppendIndexed
  <2>2. /\ ap'.pc = "open" /\ ap.pc = "open" /\ ap'.pend = <<>> /\ ap'.cache = ap.cache
        /\ ap'.index = ap.index /\ text' = Flushed /\ UNCHANGED <<torn, files>>
    BY <1>0, <1>6, <2>1 DEF AppendIndexed, history, Insertions
  <2>3. Flushed' = Flushed
    BY <1>0, <2>2 DEF Flushed
  <2>4. Flushed # <<>>
    <3>1. Reads(Flushed, k, p)
      BY <2>1, FoundReads
    <3>. QED BY <3>1 DEF Reads
  <2>. QED BY <1>15, <2>2, <2>3, <2>4 DEF OnceInv, Separated, Once
<1>7. ASSUME NEW k \in Keys, AppendNew(k)
      PROVE  OnceInv'
  <2>. DEFINE u == <<HeadOf(k), EndOf(k)>>
  <2>1. /\ ap'.pc = "open" /\ ap.pc = "open" /\ ap'.pend = u /\ ap'.index = ap.index
        /\ ap'.cache = ap.cache \cup {<<k, ap.next>>}
        /\ text' = Flushed /\ UNCHANGED <<torn, files>> /\ files # "none"
    BY <1>0, <1>7 DEF AppendNew, history, Insertions, InsertionInv
  <2>2. ap.next = Len(Flushed) + 1 /\ Buffered
    BY <2>1 DEF InsertionInv
  <2>3. Flushed # <<>>
    BY <1>15, <2>1, FlushedStarts
  <2>4. Flushed[Len(Flushed)].end
    BY <2>1, <2>2, <2>3, FlushedEnds DEF BoundaryInv
  <2>5. Separated(Flushed) /\ Once(Flushed)
    BY <1>15, <2>1 DEF OnceInv
  <2>6. ASSUME NEW p \in DOMAIN Flushed, Reads(Flushed, k, p)
        PROVE  FALSE
    <3>1. p < ap.index.cover
      <4>1. <<k, p>> \notin ap.cache
        BY <1>7 DEF AppendNew, NotCached
      <4>. QED BY <1>15, <2>1, <2>6, <4>1 DEF OnceInv
    <3>2. p \in Hits(Flushed, k, ap.index.cover)
      BY <1>0, <2>5, <2>6, <3>1, ReadsSeparated DEF Hits
    <3>3. ap.index.exact
      BY <1>15, <2>1 DEF OnceInv
    <3>. QED BY <1>7, <3>2, <3>3 DEF AppendNew, MayMiss
  <2>. HIDE DEF u
  <2>7. /\ Separated(Flushed \o u) /\ Once(Flushed \o u)
        /\ \A j \in Keys, p \in DOMAIN (Flushed \o u) :
              Reads(Flushed \o u, j, p) => \/ p \in DOMAIN Flushed /\ Reads(Flushed, j, p)
                                           \/ j = k /\ p = Len(Flushed) + 1
    BY <1>0, <2>3, <2>4, <2>5, <2>6, AppendedOnce DEF u
  <2>8. Flushed' = Flushed \o u
    BY <2>1 DEF Flushed
  <2>9. Separated(Flushed') /\ Once(Flushed')
    BY <2>7, <2>8
  <2>10. Separated(Flushed)' /\ Once(Flushed)'
    BY <2>9 DEF Separated, Once
  <2>11. ASSUME NEW j \in Keys, NEW p \in DOMAIN Flushed', Reads(Flushed', j, p)
         PROVE  p < ap'.index.cover \/ <<j, p>> \in ap'.cache
    <3>1. \/ p \in DOMAIN Flushed /\ Reads(Flushed, j, p)
          \/ j = k /\ p = Len(Flushed) + 1
      BY <2>7, <2>8, <2>11
    <3>. QED BY <1>15, <2>1, <2>2, <3>1 DEF OnceInv
  <2>. QED BY <1>15, <2>1, <2>3, <2>10, <2>11 DEF OnceInv
<1>8. CASE Publish
  <2>1. /\ ap'.pc = "close" /\ ap'.pend = ap.pend /\ UNCHANGED <<text, torn, files>>
    BY <1>0, <1>8 DEF Publish, stridx, Insertions
  <2>2. Flushed' = Flushed
    BY <2>1 DEF Flushed
  <2>. QED BY <1>15, <1>0, <2>1, <2>2, OnceKept DEF OnceInv
<1>9. CASE Close
  <2>1. /\ text' = Flushed /\ ap' = Closed /\ UNCHANGED <<torn, files>>
    BY <1>9 DEF Close, history
  <2>2. ap'.pend = <<>> /\ ap'.pc = "idle"
    BY <2>1 DEF Closed
  <2>3. Flushed' = Flushed
    BY <1>0, <2>1, <2>2 DEF Flushed
  <2>4. files # "none" => Flushed # <<>>
    BY <1>15, <1>0, <2>1, FlushedStarts
  <2>. QED BY <1>15, <1>0, <2>1, <2>2, <2>3, <2>4, OnceKept
<1>10. ASSUME NEW n \in 0 .. Len(ap.pend), Dropped(n), UNCHANGED files
       PROVE  OnceInv'
  <2>1. /\ ~ torn
        /\ \/ text' = text /\ (ap.pend = <<Separator>> => ap'.pend = ap.pend)
           \/ text' = Flushed
    BY <1>10, DroppedWhole
  <2>2. ap'.pend = <<>> /\ ap'.pc = "idle"
    BY <1>10 DEF Dropped, Closed
  <2>3. Flushed' = text' /\ text' \in Seq(Unit)
    <3>1. text' \in Seq(Unit)
      BY <1>0 DEF TypeInv
    <3>. QED BY <2>2, <3>1, Unbuffered DEF Flushed
  <2>4. files' # "none" => text' # <<>>
    <3>1. CASE text' = text /\ (ap.pend = <<Separator>> => ap'.pend = ap.pend)
      <4>1. <<>> # <<Separator>>
        OBVIOUS
      <4>2. ap.pend # <<Separator>>
        BY <2>2, <3>1, <4>1
      <4>. QED BY <1>15, <1>10, <2>1, <3>1, <4>2 DEF OnceInv
    <3>2. CASE text' = Flushed
      BY <1>15, <1>0, <1>10, <2>1, <3>2, FlushedStarts
    <3>. QED BY <2>1, <3>1, <3>2
  <2>. QED BY <1>15, <1>0, <2>1, <2>2, <2>3, <2>4, OnceKept
<1>11. CASE Killed
  BY <1>10, <1>11 DEF Killed
<1>12. CASE WriteFails
  <2>1. PICK n \in 0 .. Len(ap.pend) - 1 :
           /\ text' = text \o SubSeq(ap.pend, 1, n)
           /\ ap' = [Closed EXCEPT !.pc = "failed", !.pend = SubSeq(ap.pend, n + 1, Len(ap.pend))]
           /\ torn' = (torn \/ n # 0)
    BY <1>12 DEF WriteFails
  <2>2. n = 0 /\ ~ torn /\ UNCHANGED files
    BY <1>12, <2>1 DEF WriteFails
  <2>3. SubSeq(ap.pend, 1, 0) = <<>> /\ SubSeq(ap.pend, 0 + 1, Len(ap.pend)) = ap.pend
    BY <1>0, SubSeqEmpty, SubSeqFull
  <2>4. text' = text
    BY <1>0, <2>1, <2>2, <2>3
  <2>5. ap' = [Closed EXCEPT !.pc = "failed", !.pend = ap.pend]
    BY <2>1, <2>2, <2>3
  <2>6. ap'.pc = "failed" /\ ap'.pend = ap.pend
    BY <1>0, <2>5 DEF Insertions
  <2>7. Flushed' = Flushed
    BY <2>4, <2>6 DEF Flushed
  <2>. QED BY <1>15, <1>0, <2>2, <2>4, <2>6, <2>7, OnceKept DEF OnceInv
<1>13. CASE ExitFailed
  <2>1. PICK n \in {0, Len(ap.pend)} : Dropped(n)
    BY <1>13 DEF ExitFailed
  <2>2. n \in 0 .. Len(ap.pend) /\ UNCHANGED files
    BY <1>0, <1>13, <2>1 DEF ExitFailed
  <2>. QED BY <1>10, <2>1, <2>2
<1>14. CASE Build \/ BuildKilled \/ Client \/ UNCHANGED vars
  <2>1. UNCHANGED <<files, text, ap, torn>>
    BY <1>14, OthersLeaveText
  <2>2. Flushed' = Flushed
    BY <2>1 DEF Flushed
  <2>. QED BY <1>15, <2>1, <2>2 DEF OnceInv, Separated, Once
<1>. QED BY <1>1, <1>2, <1>3, <1>4, <1>5, <1>6, <1>7, <1>8, <1>9, <1>11, <1>12, <1>13, <1>14,
            <1>16 DEF Next, Insertion
-----------------------------------------------------------------------------
\* The inductive invariant.
LEMMA StringsInvariance == Spec => [](TypeInv /\ IInv)
<1>1. Init => IInv
  BY InsertionStart DEF IInv
<1>2. TypeInv /\ TypeInv' /\ IInv /\ [Next]_vars => IInv'
  <2>. SUFFICES ASSUME TypeInv, IInv, [Next]_vars
                PROVE  IInv'
    OBVIOUS
  <2>1. InsertionInv' /\ OffsetsHold'
    BY InsertionStep DEF IInv
  <2>2. CoverInv'
    BY CoverStep DEF IInv
  <2>3. BoundaryInv'
    <3>1. CASE torn'
      BY <3>1 DEF BoundaryInv
    <3>2. CASE ~ torn'
      BY <3>2, BoundaryStep DEF IInv
    <3>. QED BY <3>1, <3>2
  <2>4. LoadInv'
    BY LoadStep DEF IInv
  <2>5. OnceInv'
    <3>1. CASE torn' \/ blind'
      BY <3>1 DEF OnceInv
    <3>2. CASE ~ torn' /\ ~ blind'
      BY <3>2, OnceStep DEF IInv
    <3>. QED BY <3>1, <3>2
  <2>. QED BY <2>1, <2>2, <2>3, <2>4, <2>5 DEF IInv
<1>. QED BY <1>1, <1>2, StringsTypes, PTL DEF Spec

\* archAppendKey, archGetString: an offset that was published names its string,
\* whatever was appended, indexed or cut short since, unless a kill has dropped
\* the string from the memory of the very insertion that published it.
THEOREM StringsOffsetsHold == Spec => []OffsetsHold
BY StringsInvariance, PTL DEF IInv

\* open_search: the index that a client opens covers the text up to the split it
\* reads, so that, if no string was appended while that index was built, it finds
\* every string in the one or behind the other.
THEOREM StringsSearchFinds == Spec => []SearchFinds
<1>1. TypeInv /\ IInv => SearchFinds
  <2>. SUFFICES ASSUME TypeInv, IInv, SeAt("search"), NEW k \in Keys, NEW p \in 2 .. se.len - 1,
                       Matches(text, k, p)
                PROVE  \/ p \in Hits(text, k, se.index.cover)
                       \/ p > se.split
                       \/ torn /\ p = se.split
    BY DEF SearchFinds
  <2>1. se.split \in Nat /\ se.index.cover \in Nat /\ p \in Nat /\ p >= 2
    BY IndexType DEF TypeInv, Searches
  <2>2. se.split <= se.index.cover \/ se.split <= 1
    BY <2>1 DEF IInv, CoverInv, Within, SeAt
  <2>3. CASE p <= se.index.cover - 1
    BY <2>1, <2>3 DEF Hits
  <2>4. CASE p > se.index.cover - 1 /\ p <= se.split
    <3>1. p = se.split
      BY <2>1, <2>2, <2>4
    <3>2. p \in DOMAIN text /\ text[p] = HeadOf(k)
      BY DEF Matches, Reads
    <3>3. ~ text[p].end
      BY <3>2 DEF HeadOf
    <3>4. ~ Between(se.split)
      BY <2>1, <3>1, <3>3 DEF Between
    <3>. QED BY <3>1, <3>4 DEF IInv, BoundaryInv
  <2>5. CASE p > se.split
    BY <2>5
  <2>. QED BY <2>1, <2>3, <2>4, <2>5
<1>. QED BY <1>1, StringsInvariance, PTL

\* archAppendKey: as long as no write has stopped inside a string and no insertion
\* has worked with an index built over a text that grew, a string has one offset,
\* whoever asks for it, and whatever is being indexed meanwhile.
THEOREM StringsOneOffset == Spec => []OneOffset
<1>1. TypeInv /\ IInv => OneOffset
  <2>. SUFFICES ASSUME TypeInv, IInv, ~ torn, ~ blind,
                       NEW kp \in (published \ lost) \cup ap.made,
                       NEW lp \in (published \ lost) \cup ap.made, kp[1] = lp[1]
                PROVE  kp[2] = lp[2]
    BY DEF OneOffset
  <2>1. ap \in Insertions /\ ap.made \subseteq Keys \X Nat /\ published \subseteq Keys \X Nat
    BY InsertionTypes DEF TypeInv
  <2>2. \A mp \in (published \ lost) \cup ap.made : Reads(Flushed, mp[1], mp[2])
    BY <2>1 DEF IInv, OffsetsHold, InsertionInv, Insertions
  <2>3. kp[1] \in Keys /\ kp[2] \in DOMAIN Flushed /\ lp[2] \in DOMAIN Flushed
    BY <2>1, <2>2 DEF Reads
  <2>4. Once(Flushed)
    BY DEF IInv, OnceInv
  <2>. QED BY <2>2, <2>3, <2>4 DEF Once
<1>. QED BY <1>1, StringsInvariance, PTL
=============================================================================
