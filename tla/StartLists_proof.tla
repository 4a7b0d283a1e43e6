-------------------------- MODULE StartLists_proof --------------------------
(***************************************************************************)
(* What the operators of StartLists return, for lists and tables of any    *)
(* length.                                                                 *)
(***************************************************************************)
EXTENDS StartLists, LeastNumber

\* host_table_find answers NotFound exactly if no entry matches, and otherwise
\* an entry that does.
LEMMA FindProperties ==
    ASSUME NEW T, NEW tab \in Seq(T), NEW a, NEW n
    PROVE  /\ HostTableFind(tab, a, n) = NotFound <=> Matches(tab, a, n) = {}
           /\ HostTableFind(tab, a, n) # NotFound =>
                 /\ HostTableFind(tab, a, n) \in DOMAIN tab
                 /\ HostTableFind(tab, a, n) \in Matches(tab, a, n)
<1>1. CASE Matches(tab, a, n) = {}
  BY <1>1 DEF HostTableFind
<1>2. CASE Matches(tab, a, n) # {}
  <2>1. Matches(tab, a, n) \in SUBSET Nat
    BY DEF Matches
  <2>2. \E i \in Matches(tab, a, n) : \A j \in Matches(tab, a, n) : i <= j
    BY <1>2, <2>1, LeastExists
  <2>3. HostTableFind(tab, a, n) \in Matches(tab, a, n)
    BY <1>2, <2>2 DEF HostTableFind
  <2>4. HostTableFind(tab, a, n) \in DOMAIN tab /\ 0 \notin DOMAIN tab
    BY <2>3 DEF Matches
  <2>. QED BY <1>2, <2>3, <2>4 DEF NotFound
<1>. QED BY <1>1, <1>2

\* The insertion point: everything before it has a priority that is not
\* greater, the entry at it (if there is one) a greater one.
LEMMA InsertPosProperties ==
    ASSUME NEW I, NEW list \in Seq(I), NEW i \in I, NEW prio
    PROVE  /\ InsertPos(list, i, prio) \in 1 .. Len(list) + 1
           /\ \A k \in 1 .. InsertPos(list, i, prio) - 1 : ~ (prio[i] < prio[list[k]])
           /\ InsertPos(list, i, prio) <= Len(list) =>
                 prio[i] < prio[list[InsertPos(list, i, prio)]]
<1>. DEFINE later == {k \in DOMAIN list : prio[i] < prio[list[k]]}
<1>1. CASE later = {}
  <2>1. InsertPos(list, i, prio) = Len(list) + 1
    BY <1>1 DEF InsertPos
  <2>. QED BY <1>1, <2>1
<1>2. CASE later # {}
  <2>1. later \in SUBSET Nat
    OBVIOUS
  <2>2. \E k \in later : \A m \in later : k <= m
    BY <1>2, <2>1, LeastExists
  <2>3. /\ InsertPos(list, i, prio) \in later
        /\ \A m \in later : InsertPos(list, i, prio) <= m
    BY <1>2, <2>2 DEF InsertPos
  <2>. QED BY <2>3
<1>. QED BY <1>1, <1>2

\* insert_in_list keeps every entry, in its order, and adds the new one.
LEMMA InsertProperties ==
    ASSUME NEW I, NEW list \in Seq(I), NEW i \in I, NEW prio
    PROVE  LET p == InsertPos(list, i, prio)
               new == InsertInList(list, i, prio)
           IN  /\ new \in Seq(I)
               /\ Len(new) = Len(list) + 1
               /\ \A k \in 1 .. Len(list) + 1 :
                     new[k] = IF k < p THEN list[k]
                              ELSE IF k = p THEN i ELSE list[k - 1]
<1>. DEFINE p == InsertPos(list, i, prio)
            new == InsertInList(list, i, prio)
<1>1. p \in 1 .. Len(list) + 1
  BY InsertPosProperties
<1>2. new = [k \in 1 .. Len(list) + 1 |->
                IF k < p THEN list[k] ELSE IF k = p THEN i ELSE list[k - 1]]
  BY DEF InsertInList
<1>. HIDE DEF p, new
<1>3. \A k \in 1 .. Len(list) + 1 : new[k] \in I
  BY <1>1, <1>2
<1>4. Len(list) + 1 \in Nat
  OBVIOUS
<1>5. new \in [1 .. Len(list) + 1 -> I]
  BY <1>2, <1>3
<1>6. new \in Seq(I) /\ Len(new) = Len(list) + 1
  BY <1>4, <1>5
<1>. QED BY <1>2, <1>6 DEF p, new

\* ADD_SITE: the list holds the index afterwards, and no other entry came or
\* went; an index is not entered twice.
LEMMA AddSiteProperties ==
    ASSUME NEW I, NEW list \in Seq(I), NEW i \in I, NEW prio
    PROVE  /\ AddSite(list, i, prio) \in Seq(I)
           /\ \A x : InList(AddSite(list, i, prio), x) <=> InList(list, x) \/ x = i
           /\ Distinct(list) => Distinct(AddSite(list, i, prio))
<1>. DEFINE p == InsertPos(list, i, prio)
            new == InsertInList(list, i, prio)
<1>1. CASE InList(list, i)
  BY <1>1 DEF AddSite
<1>2. CASE ~ InList(list, i)
  <2>1. AddSite(list, i, prio) = new
    BY <1>2 DEF AddSite
  <2>2. p \in 1 .. Len(list) + 1
    BY InsertPosProperties
  <2>3. /\ new \in Seq(I)
        /\ Len(new) = Len(list) + 1
        /\ \A k \in 1 .. Len(list) + 1 :
              new[k] = IF k < p THEN list[k] ELSE IF k = p THEN i ELSE list[k - 1]
    BY InsertProperties
  <2>. HIDE DEF p, new
  <2>4. ASSUME NEW x, InList(new, x) PROVE InList(list, x) \/ x = i
    <3>1. PICK k \in 1 .. Len(list) + 1 : new[k] = x
      BY <2>3, <2>4 DEF InList
    <3>2. CASE k < p
      BY <2>2, <2>3, <3>1, <3>2 DEF InList
    <3>3. CASE k = p
      BY <2>2, <2>3, <3>1, <3>3
    <3>4. CASE k > p
      <4>1. k - 1 \in DOMAIN list /\ list[k - 1] = x
        BY <2>2, <2>3, <3>1, <3>4
      <4>. QED BY <4>1 DEF InList
    <3>. QED BY <2>2, <3>2, <3>3, <3>4
  <2>5. ASSUME NEW x, InList(list, x) PROVE InList(new, x)
    <3>1. PICK k \in 1 .. Len(list) : list[k] = x
      BY <2>5 DEF InList
    <3>2. CASE k < p
      BY <2>2, <2>3, <3>1, <3>2 DEF InList
    <3>3. CASE k >= p
      <4>1. k + 1 \in DOMAIN new /\ new[k + 1] = x
        BY <2>2, <2>3, <3>1, <3>3
      <4>. QED BY <4>1 DEF InList
    <3>. QED BY <2>2, <3>2, <3>3
  <2>6. InList(new, i)
    BY <2>2, <2>3 DEF InList
  <2>7. ASSUME Distinct(list) PROVE Distinct(new)
    <3>1. SUFFICES ASSUME NEW j \in 1 .. Len(list) + 1, NEW k \in 1 .. Len(list) + 1,
                          j < k, new[j] = new[k]
                   PROVE  FALSE
      BY <2>3 DEF Distinct
    <3>2. \A m \in 1 .. Len(list) : list[m] # i
      BY <1>2 DEF InList
    <3>3. \A m, q \in 1 .. Len(list) : list[m] = list[q] => m = q
      BY <2>7 DEF Distinct
    <3>4. CASE k <= p
      <4>1. j \in 1 .. Len(list) /\ new[j] = list[j]
        BY <2>2, <2>3, <3>1, <3>4
      <4>2. CASE k = p
        <5>1. new[k] = i
          BY <2>2, <2>3, <4>2
        <5>2. list[j] # i
          BY <3>2, <4>1
        <5>. QED BY <3>1, <4>1, <5>1, <5>2
      <4>3. CASE k < p
        <5>1. k \in 1 .. Len(list) /\ new[k] = list[k] /\ j # k
          BY <2>2, <2>3, <3>1, <4>3
        <5>2. list[j] # list[k]
          BY <3>3, <4>1, <5>1
        <5>. QED BY <3>1, <4>1, <5>1, <5>2
      <4>. QED BY <2>2, <3>4, <4>2, <4>3
    <3>5. CASE k > p
      <4>1. k - 1 \in 1 .. Len(list) /\ new[k] = list[k - 1]
        BY <2>2, <2>3, <3>1, <3>5
      <4>2. CASE j = p
        BY <2>2, <2>3, <3>1, <3>2, <4>1, <4>2
      <4>3. CASE j < p
        <5>1. j \in 1 .. Len(list) /\ new[j] = list[j] /\ j # k - 1
          BY <2>2, <2>3, <3>5, <4>3
        <5>. QED BY <3>1, <3>3, <4>1, <5>1
      <4>4. CASE j > p
        <5>1. j - 1 \in 1 .. Len(list) /\ new[j] = list[j - 1] /\ j - 1 # k - 1
          BY <2>2, <2>3, <3>1, <4>4
        <5>. QED BY <3>1, <3>3, <4>1, <5>1
      <4>. QED BY <2>2, <4>2, <4>3, <4>4
    <3>. QED BY <2>2, <3>4, <3>5
  <2>. QED BY <2>1, <2>3, <2>4, <2>5, <2>6, <2>7
<1>. QED BY <1>1, <1>2

\* insert_in_list keeps a list in ascending order of priority.
LEMMA AddSiteAscending ==
    ASSUME NEW I, NEW list \in Seq(I), NEW i \in I, NEW prio \in [I -> Int],
           Ascending(list, prio)
    PROVE  Ascending(AddSite(list, i, prio), prio)
<1>. DEFINE p == InsertPos(list, i, prio)
            new == InsertInList(list, i, prio)
<1>1. CASE InList(list, i)
  BY <1>1 DEF AddSite
<1>2. CASE ~ InList(list, i)
  <2>1. AddSite(list, i, prio) = new
    BY <1>2 DEF AddSite
  <2>2. /\ p \in 1 .. Len(list) + 1
        /\ \A k \in 1 .. p - 1 : ~ (prio[i] < prio[list[k]])
        /\ p <= Len(list) => prio[i] < prio[list[p]]
    BY InsertPosProperties
  <2>3. /\ new \in Seq(I)
        /\ Len(new) = Len(list) + 1
        /\ \A k \in 1 .. Len(list) + 1 :
              new[k] = IF k < p THEN list[k] ELSE IF k = p THEN i ELSE list[k - 1]
    BY InsertProperties
  <2>. HIDE DEF p, new
  <2>4. \A m \in 1 .. Len(list) : list[m] \in I /\ prio[list[m]] \in Int
    OBVIOUS
  <2>5. \A j, k \in 1 .. Len(list) : j < k => prio[list[j]] <= prio[list[k]]
    BY DEF Ascending
  <2>6. \A m \in 1 .. Len(list) : m < p => prio[list[m]] <= prio[i]
    BY <2>2, <2>4
  <2>7. \A m \in 1 .. Len(list) : m >= p => prio[i] <= prio[list[m]]
    BY <2>2, <2>4, <2>5
  <2>8. SUFFICES ASSUME NEW j \in 1 .. Len(list) + 1, NEW k \in 1 .. Len(list) + 1, j < k
                 PROVE  prio[new[j]] <= prio[new[k]]
    BY <2>1, <2>3 DEF Ascending
  <2>9. CASE k < p
    <3>1. j \in 1 .. Len(list) /\ k \in 1 .. Len(list) /\ j < p
      BY <2>2, <2>8, <2>9
    <3>2. new[j] = list[j]
      BY <2>3, <2>8, <3>1
    <3>3. new[k] = list[k]
      BY <2>3, <2>8, <2>9
    <3>. QED BY <2>5, <2>8, <3>1, <3>2, <3>3
  <2>10. CASE k = p
    <3>1. j \in 1 .. Len(list) /\ j < p /\ new[j] = list[j] /\ new[k] = i
      BY <2>2, <2>3, <2>8, <2>10
    <3>. QED BY <2>6, <3>1
  <2>11. CASE k > p /\ j < p
    <3>1. /\ j \in 1 .. Len(list) /\ k - 1 \in 1 .. Len(list) /\ j < k - 1
          /\ new[j] = list[j] /\ new[k] = list[k - 1]
      BY <2>2, <2>3, <2>8, <2>11
    <3>. QED BY <2>5, <3>1
  <2>12. CASE k > p /\ j = p
    <3>1. k - 1 \in 1 .. Len(list) /\ k - 1 >= p /\ new[j] = i /\ new[k] = list[k - 1]
      BY <2>2, <2>3, <2>8, <2>12
    <3>. QED BY <2>7, <3>1
  <2>13. CASE k > p /\ j > p
    <3>1. /\ j - 1 \in 1 .. Len(list) /\ k - 1 \in 1 .. Len(list) /\ j - 1 < k - 1
          /\ new[j] = list[j - 1] /\ new[k] = list[k - 1]
      BY <2>2, <2>3, <2>8, <2>13
    <3>. QED BY <2>5, <3>1
  <2>. QED BY <2>2, <2>9, <2>10, <2>11, <2>12, <2>13
<1>. QED BY <1>1, <1>2

\* DELETE_SITE: the index is gone, every other entry is still there and in its
\* place in the order.
LEMMA DeleteSiteProperties ==
    ASSUME NEW I, NEW list \in Seq(I), NEW i \in I, Distinct(list)
    PROVE  /\ DeleteSite(list, i) \in Seq(I)
           /\ \A x : InList(DeleteSite(list, i), x) <=> InList(list, x) /\ x # i
           /\ Distinct(DeleteSite(list, i))
           /\ \A prio : Ascending(list, prio) => Ascending(DeleteSite(list, i), prio)
<1>. DEFINE p == PosInList(list, i)
            new == DeleteSite(list, i)
<1>1. CASE ~ InList(list, i)
  BY <1>1 DEF DeleteSite
<1>2. CASE InList(list, i)
  <2>1. \A j, k \in 1 .. Len(list) : list[j] = list[k] => j = k
    BY DEF Distinct
  <2>2. \E k \in DOMAIN list : list[k] = i /\ \A m \in 1 .. k - 1 : list[m] # i
    <3>1. PICK k \in 1 .. Len(list) : list[k] = i
      BY <1>2 DEF InList
    <3>2. \A m \in 1 .. k - 1 : list[m] # i
      BY <2>1, <3>1
    <3>. QED BY <3>1, <3>2
  <2>3. p \in 1 .. Len(list) /\ list[p] = i
    BY <2>2 DEF PosInList
  <2>4. new = [k \in 1 .. Len(list) - 1 |-> IF k < p THEN list[k] ELSE list[k + 1]]
    BY <1>2 DEF DeleteSite
  <2>. HIDE DEF p, new
  <2>5. \A k \in 1 .. Len(list) - 1 : new[k] \in I
    BY <2>3, <2>4
  <2>6. Len(list) - 1 \in Nat
    BY <2>3
  <2>7. new \in Seq(I) /\ Len(new) = Len(list) - 1
    BY <2>4, <2>5, <2>6
  <2>8. ASSUME NEW x, InList(new, x) PROVE InList(list, x) /\ x # i
    <3>1. PICK k \in 1 .. Len(list) - 1 : new[k] = x
      BY <2>7, <2>8 DEF InList
    <3>2. CASE k < p
      BY <2>1, <2>3, <2>4, <3>1, <3>2 DEF InList
    <3>3. CASE k >= p
      <4>1. k + 1 \in DOMAIN list /\ list[k + 1] = x /\ k + 1 # p
        BY <2>3, <2>4, <3>1, <3>3
      <4>. QED BY <2>1, <2>3, <4>1 DEF InList
    <3>. QED BY <2>3, <3>2, <3>3
  <2>9. ASSUME NEW x, InList(list, x), x # i PROVE InList(new, x)
    <3>1. PICK k \in 1 .. Len(list) : list[k] = x
      BY <2>9 DEF InList
    <3>2. CASE k < p
      BY <2>3, <2>4, <2>7, <3>1, <3>2 DEF InList
    <3>3. CASE k > p
      <4>1. k - 1 \in DOMAIN new /\ new[k - 1] = x
        BY <2>3, <2>4, <2>7, <3>1, <3>3
      <4>. QED BY <4>1 DEF InList
    <3>. QED BY <2>3, <2>9, <3>1, <3>2, <3>3
  <2>10. Distinct(new)
    BY <2>1, <2>3, <2>4, <2>7 DEF Distinct
  <2>11. ASSUME NEW prio, Ascending(list, prio) PROVE Ascending(new, prio)
    <3>1. \A j, k \in 1 .. Len(list) : j < k => prio[list[j]] <= prio[list[k]]
      BY <2>11 DEF Ascending
    <3>2. SUFFICES ASSUME NEW j \in 1 .. Len(list) - 1, NEW k \in 1 .. Len(list) - 1, j < k
                   PROVE  prio[new[j]] <= prio[new[k]]
      BY <2>7 DEF Ascending
    <3>. QED BY <2>3, <2>4, <3>1, <3>2
  <2>. QED BY <2>7, <2>8, <2>9, <2>10, <2>11 DEF new
<1>. QED BY <1>1, <1>2

\* db_reorder permutes a list.
LEMMA SortingsProperties ==
    ASSUME NEW I, NEW list \in Seq(I), NEW prio, NEW l \in Sortings(list, prio)
    PROVE  /\ l \in Seq(I)
           /\ \A x : InList(l, x) <=> InList(list, x)
           /\ Distinct(list) => Distinct(l)
           /\ Ascending(l, prio)
<1>1. l \in [1 .. Len(list) -> I]
  BY DEF Sortings
<1>2. l \in Seq(I)
  BY <1>1
<1>3. \A x : InList(l, x) <=> InList(list, x)
  BY DEF Sortings, SameEntries, InList
<1>. QED BY <1>2, <1>3 DEF Sortings
=============================================================================
