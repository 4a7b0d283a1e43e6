--------------------------- MODULE Exchange_proof ---------------------------
(***************************************************************************)
(* The exchange keeps its types, moves its date forward only, passes no     *)
(* listing without a trace and calls no port opened for another site, for   *)
(* any number of sites, faults and changes.                                 *)
(***************************************************************************)
EXTENDS Exchange, FiniteSetTheorems, LeastNumber

Runs == [pc : {"idle", "list", "ask", "answer", "dial", "receive", "save"}, now : Times,
         todo : Seq(Tuples), next : Times, port : Nat, tries : 0 .. MAX_RETRY_SEQ,
         lost : SUBSET (Sites \X Times)]
Conns == [up : BOOLEAN, toServer : Seq(Requests), toClient : Seq(Answers)]
Servers == [pc : {"off", "ready", "waiting", "sending"}, ports : Seq(Ports)]
Records == [status : Statuses, time : Times]
-----------------------------------------------------------------------------
(***************************************************************************)
(* Facts about finite sets and lists                                       *)
(***************************************************************************)
\* A bounded set of numbers has a greatest element.
LEMMA GreatestExists ==
    ASSUME NEW b \in Nat, NEW S \in SUBSET (0 .. b), S # {}
    PROVE  \E t \in S : \A u \in S : u <= t
<1>. DEFINE D == {d \in Nat : b - d \in S}
<1>1. D # {}
  <2>1. PICK t \in S : TRUE
    OBVIOUS
  <2>2. b - t \in Nat /\ b - (b - t) = t
    OBVIOUS
  <2>. QED BY <2>1, <2>2
<1>2. D \in SUBSET Nat
  OBVIOUS
<1>3. PICK d \in D : \A e \in D : d <= e
  <2>. HIDE DEF D
  <2>. QED BY <1>1, <1>2, LeastExists
<1>4. ASSUME NEW u \in S  PROVE u <= b - d
  <2>1. b - u \in Nat /\ b - (b - u) = u /\ u \in Nat
    OBVIOUS
  <2>2. d <= b - u /\ d \in Nat
    BY <1>3, <2>1
  <2>. QED BY <2>1, <2>2
<1>. QED BY <1>3, <1>4

\* As many different elements as the set has are all of them.
LEMMA Enumerates ==
    ASSUME NEW S, IsFiniteSet(S), NEW q \in [1 .. Cardinality(S) -> S],
           \A i, j \in 1 .. Cardinality(S) : i < j => q[i] # q[j]
    PROVE  \A x \in S : \E i \in 1 .. Cardinality(S) : q[i] = x
<1>. DEFINE n == Cardinality(S)
            I == 1 .. n
<1>1. n \in Nat
  BY FS_CardinalityType
<1>2. IsFiniteSet(I) /\ Cardinality(I) = n
  <2>1. IsFiniteSet(1 .. n) /\ Cardinality(1 .. n) = IF 1 > n THEN 0 ELSE n - 1 + 1
    <3>. HIDE DEF n
    <3>. QED BY <1>1, FS_Interval
  <2>. QED BY <1>1, <2>1
<1>3. \A i, j \in I : q[i] = q[j] => i = j
  BY <1>1
<1>4. q \in Injection(I, S)
  <2>1. q \in [I -> S]
    OBVIOUS
  <2>. HIDE DEF I
  <2>. QED BY <1>3, <2>1 DEF Injection, IsInjective
<1>5. q \in Surjection(I, S)
  <2>. HIDE DEF I
  <2>. QED BY <1>2, <1>4, FS_Injection
<1>. QED BY <1>5 DEF Surjection

\* Two queues with one element between them.
LEMMA AtMostOne ==
    ASSUME NEW A, NEW B, NEW a \in Seq(A), NEW b \in Seq(B), Len(a) + Len(b) <= 1, b # <<>>
    PROVE  a = <<>> /\ Tail(b) = <<>>
<1>1. Len(a) \in Nat /\ Len(b) \in Nat /\ Len(b) # 0
  OBVIOUS
<1>2. Len(a) = 0 /\ Len(b) = 1
  <2>1. \A m, n \in Nat : m + n <= 1 /\ n # 0 => m = 0 /\ n = 1
    OBVIOUS
  <2>. QED BY <1>1, <2>1, Zenon
<1>3. a = <<>>
  BY <1>2
<1>4. Tail(b) \in Seq(B) /\ Len(Tail(b)) = 0
  BY <1>2
<1>5. Tail(b) = <<>>
  BY <1>4
<1>. QED BY <1>3, <1>5
-----------------------------------------------------------------------------
(***************************************************************************)
(* The arithmetic of the dates                                             *)
(***************************************************************************)
LEMMA NumberFacts ==
    /\ Freq \in Nat /\ MaxClock \in Nat /\ MaxEvents \in Nat
    /\ MaxNos \subseteq Nat
    /\ MaxClock > 0
    /\ Times \subseteq Nat /\ {0, 1} \subseteq Times
    /\ \A t \in Times : t >= 0 /\ t <= MaxClock
    /\ \A a, b \in Times : Larger(a, b) \in Times /\ Larger(a, b) >= a /\ Larger(a, b) >= b
BY NumbersAssumption DEF Times, Larger

\* What max_date returns: a time, at least that of every tuple, and the time of one of them (or zero).
LEMMA Max_dateFacts ==
    ASSUME NEW list \in Seq(Tuples)
    PROVE  /\ Max_date(list) \in Times
           /\ \A i \in DOMAIN list : list[i].time <= Max_date(list)
           /\ Max_date(list) = 0 \/ \E i \in DOMAIN list : Max_date(list) = list[i].time
<1>. DEFINE ts == {list[i].time : i \in DOMAIN list} \cup {0}
<1>1. \A i \in DOMAIN list : list[i] \in Tuples
  OBVIOUS
<1>2. ts \in SUBSET (0 .. MaxClock) /\ ts # {}
  BY <1>1, NumberFacts DEF Times, Tuples
<1>3. \E t \in ts : \A u \in ts : u <= t
  <2>. HIDE DEF ts
  <2>. QED BY <1>2, GreatestExists, NumberFacts
<1>4. Max_date(list) \in ts /\ \A u \in ts : u <= Max_date(list)
  <2>1. Max_date(list) = CHOOSE t \in ts : \A u \in ts : u <= t
    BY DEF Max_date
  <2>. HIDE DEF ts
  <2>. QED BY <1>3, <2>1
<1>. QED BY <1>2, <1>4 DEF Times

\* The list that truncate_list leaves is a prefix of the one it was given.
LEMMA CutFacts ==
    ASSUME maxno \in Nat, NEW list \in Seq(Tuples)
    PROVE  /\ Cut(list) \in Seq(Tuples)
           /\ Len(Cut(list)) = IF maxno # 0 /\ maxno < Len(list) THEN maxno ELSE Len(list)
           /\ DOMAIN Cut(list) \subseteq DOMAIN list
           /\ \A i \in DOMAIN Cut(list) : Cut(list)[i] = list[i]
<1>1. CASE maxno # 0 /\ maxno < Len(list)
  <2>1. Cut(list) = SubSeq(list, 1, maxno)
    BY <1>1 DEF Cut
  <2>. QED BY <1>1, <2>1
<1>2. CASE ~ (maxno # 0 /\ maxno < Len(list))
  BY <1>2 DEF Cut
<1>. QED BY <1>1, <1>2

\* The date of the next listing never falls behind the last one when all tuples are newer.
LEMMA NextDateFacts ==
    ASSUME maxno \in Nat, update_time \in Times,
           NEW list \in Seq(Tuples), NEW now \in Times
    PROVE  /\ NextDate(list, now) \in Times
           /\ update_time <= now /\ (\A i \in DOMAIN list : update_time < list[i].time)
                 => update_time <= NextDate(list, now)
<1>1. CASE list = <<>>
  BY <1>1, NumberFacts DEF NextDate
<1>2. CASE list # <<>> /\ ~ (Len(list) >= maxno)
  BY <1>2, NumberFacts DEF NextDate
<1>3. CASE list # <<>> /\ Len(list) >= maxno
  <2>1. NextDate(list, now) = Max_date(Cut(list))
    BY <1>3 DEF NextDate
  <2>2. Max_date(Cut(list)) \in Times /\ \A i \in DOMAIN Cut(list) : Cut(list)[i].time <= Max_date(Cut(list))
    BY CutFacts, Max_dateFacts
  <2>3. 1 \in DOMAIN Cut(list) /\ Cut(list)[1] = list[1] /\ 1 \in DOMAIN list /\ list[1] \in Tuples
    BY <1>3, CutFacts
  <2>4. list[1].time <= Max_date(Cut(list)) /\ list[1].time \in Times
    BY <2>2, <2>3 DEF Tuples
  <2>5. ASSUME \A i \in DOMAIN list : update_time < list[i].time
        PROVE  update_time <= Max_date(Cut(list))
    <3>1. update_time < list[1].time
      BY <2>3, <2>5
    <3>2. update_time \in Nat /\ list[1].time \in Nat /\ Max_date(Cut(list)) \in Nat
      BY <2>2, <2>4, NumberFacts
    <3>. QED BY <3>1, <3>2, <2>4
  <2>. QED BY <2>1, <2>2, <2>5
<1>. QED BY <1>1, <1>2, <1>3

\* What compose_tuples lists.
LEMMA ListingsFacts ==
    ASSUME remote \in [Sites -> Records], NEW date \in Times, NEW list \in Listings(date)
    PROVE  /\ list \in Seq(Tuples)
           /\ \A i \in DOMAIN list : date < list[i].time
           /\ \A i, j \in DOMAIN list : i <= j => list[i].time <= list[j].time
           /\ \A s \in Listed(date) : \E i \in DOMAIN list : list[i] = [site |-> s, time |-> remote[s].time]
<1>. DEFINE L == Listed(date)
            n == Cardinality(L)
            Order(q) == \A i, j \in 1 .. n : i < j => q[i] # q[j] /\ remote[q[i]].time <= remote[q[j]].time
            Tuple(s) == [site |-> s, time |-> remote[s].time]
<1>1. L \subseteq Sites /\ (\A s \in L : date < remote[s].time)
  BY DEF Listed
<1>2. IsFiniteSet(L) /\ n \in Nat
  <2>1. IsFiniteSet(L)
    BY <1>1, SitesAssumption, FS_Subset
  <2>. QED BY <2>1, FS_CardinalityType
<1>3. PICK q \in [1 .. n -> L] : Order(q) /\ list = [i \in 1 .. n |-> Tuple(q[i])]
  <2>1. Listings(date) = {[i \in 1 .. n |-> Tuple(r[i])] : r \in {p \in [1 .. n -> L] : Order(p)}}
    BY DEF Listings
  <2>. HIDE DEF L, n, Order, Tuple
  <2>. QED BY <2>1
<1>4. \A s \in Sites : Tuple(s) \in Tuples /\ Tuple(s).time = remote[s].time
  BY DEF Tuples, Records
<1>5. DOMAIN list = 1 .. n /\ \A i \in 1 .. n : list[i] = Tuple(q[i]) /\ q[i] \in L
  BY <1>3
<1>6. list \in Seq(Tuples)
  <2>1. \A i \in 1 .. n : Tuple(q[i]) \in Tuples
    BY <1>1, <1>4, <1>5
  <2>. HIDE DEF L, n, Order, Tuple
  <2>. QED BY <1>2, <1>3, <2>1
<1>7. \A i \in DOMAIN list : date < list[i].time
  BY <1>1, <1>4, <1>5
<1>8. \A i, j \in DOMAIN list : i <= j => list[i].time <= list[j].time
  <2>. SUFFICES ASSUME NEW i \in 1 .. n, NEW j \in 1 .. n, i <= j
                PROVE  list[i].time <= list[j].time
    BY <1>5
  <2>1. list[i].time = remote[q[i]].time /\ list[j].time = remote[q[j]].time /\ remote[q[i]].time \in Nat
    BY <1>1, <1>4, <1>5, NumberFacts DEF Records
  <2>2. CASE i = j
    BY <2>1, <2>2
  <2>3. CASE i < j
    BY <1>3, <2>1, <2>3
  <2>. QED BY <1>2, <2>2, <2>3
<1>9. \A s \in L : \E i \in 1 .. n : q[i] = s
  <2>1. \A i, j \in 1 .. n : i < j => q[i] # q[j]
    BY <1>3
  <2>. HIDE DEF L, Order, Tuple
  <2>. QED BY <1>2, <1>3, <2>1, Enumerates
<1>. QED BY <1>5, <1>6, <1>7, <1>8, <1>9

\* What process_tuples takes.
LEMMA TakenFacts ==
    ASSUME NEW list \in Seq(Tuples), NEW todo \in Taken(list)
    PROVE  /\ todo \in Seq(Tuples)
           /\ \A i \in DOMAIN list : Wanted(list[i]) => \E j \in DOMAIN todo : todo[j] = list[i]
<1>. DEFINE W == {i \in DOMAIN list : Wanted(list[i])}
            n == Cardinality(W)
            Order(q) == \A i, j \in 1 .. n : i < j => q[i] < q[j]
<1>1. W \subseteq 1 .. Len(list)
  OBVIOUS
<1>2. IsFiniteSet(W) /\ n \in Nat
  <2>1. IsFiniteSet(1 .. Len(list))
    BY FS_Interval
  <2>2. IsFiniteSet(W)
    BY <1>1, <2>1, FS_Subset
  <2>. QED BY <2>2, FS_CardinalityType
<1>3. PICK q \in [1 .. n -> W] : Order(q) /\ todo = [i \in 1 .. n |-> list[q[i]]]
  <2>1. Taken(list) = {[i \in 1 .. n |-> list[r[i]]] : r \in {p \in [1 .. n -> W] : Order(p)}}
    BY DEF Taken
  <2>. HIDE DEF W, n, Order
  <2>. QED BY <2>1
<1>4. \A i \in 1 .. n : list[q[i]] \in Tuples
  BY <1>1, <1>3
<1>5. todo \in Seq(Tuples)
  <2>. HIDE DEF W, n, Order
  <2>. QED BY <1>2, <1>3, <1>4
<1>6. \A s \in W : \E i \in 1 .. n : q[i] = s
  <2>1. \A i, j \in 1 .. n : i < j => q[i] # q[j]
    <3>1. \A i \in 1 .. n : q[i] \in Int
      BY <1>1, <1>3
    <3>2. \A i, j \in 1 .. n : i < j => q[i] < q[j]
      BY <1>3
    <3>. HIDE DEF W, n
    <3>. QED BY <3>1, <3>2
  <2>. HIDE DEF W, Order
  <2>. QED BY <1>2, <1>3, <2>1, Enumerates
<1>7. \A i \in DOMAIN list : Wanted(list[i]) => \E j \in 1 .. n : todo[j] = list[i]
  <2>. SUFFICES ASSUME NEW i \in W  PROVE \E j \in 1 .. n : todo[j] = list[i]
    OBVIOUS
  <2>1. PICK j \in 1 .. n : q[j] = i
    BY <1>6
  <2>. QED BY <1>3, <2>1
<1>8. DOMAIN todo = 1 .. n
  BY <1>3
<1>. QED BY <1>5, <1>7, <1>8
-----------------------------------------------------------------------------
(***************************************************************************)
(* The types                                                               *)
(***************************************************************************)
USE DEF ClientAt

\* A list arserver may have sent for the present date.
Fresh(list) ==
    /\ \A i \in DOMAIN list : update_time < list[i].time
    /\ \A i, j \in DOMAIN list : i <= j => list[i].time <= list[j].time

\* What is under way while the client waits for the list.
Listing ==
    /\ sv.pc \in {"ready", "off"} /\ sv.ports = <<>>
    /\ Len(conn.toServer) + Len(conn.toClient) <= 1
    /\ \A i \in DOMAIN conn.toServer : conn.toServer[i] = [cmd |-> "LISTSITES", date |-> update_time]
    /\ \A i \in DOMAIN conn.toClient :
          conn.toClient[i].cmd = "TUPLELIST" /\ Fresh(conn.toClient[i].list)
    /\ update_time <= cl.now

\* The same when it has come.
Fetching ==
    /\ \A i \in DOMAIN conn.toServer : conn.toServer[i].cmd # "LISTSITES"
    /\ update_time <= cl.next

Messages ==
    /\ \A i \in DOMAIN conn.toClient :
          conn.toClient[i].cmd = "SITELIST" => conn.toClient[i].port \in DOMAIN sv.ports
    /\ cl.pc = "list" => Listing
    /\ cl.pc \notin {"idle", "list"} => Fetching

Vars ==
    /\ clock \in Times /\ update_time \in Times /\ maxno \in MaxNos /\ events \in 0 .. MaxEvents
    /\ remote \in [Sites -> Records] /\ local \in [Sites -> Records] /\ spool \subseteq Files
    /\ cl \in Runs /\ conn \in Conns /\ sv \in Servers
    /\ passed \subseteq Sites \X Times

\* Where the client and arserver are, and what they have then.
Places ==
    /\ cl.pc \in {"answer", "dial", "receive"} => cl.todo # <<>>
    /\ cl.pc \in {"dial", "receive"} <=> cl.port # 0
    /\ cl.port \in DOMAIN sv.ports \cup {0}
    /\ sv.pc \in {"waiting", "sending"} => sv.ports # <<>>
    /\ sv.pc = "waiting" => sv.ports[Last].st \in {"listening", "dialed"}
    /\ cl.pc = "receive" => sv.ports[cl.port].st \notin {"listening", "left"}

TypeInv == Vars /\ slipped \in BOOLEAN /\ Places /\ Messages

\* The invariant TypeInv contains the type correctness that the runs check.
LEMMA TypeShows == TypeInv => TypeOK
<1>. SUFFICES ASSUME TypeInv PROVE TypeOK
  OBVIOUS
<1>1. Vars /\ slipped \in BOOLEAN /\ Places
  BY DEF TypeInv
<1>. QED BY <1>1 DEF Vars, Places, TypeOK, Runs, Conns, Servers, Records

\* Nothing is connected in the initial states.
LEMMA InitType == Init => TypeInv
<1>. SUFFICES ASSUME Init PROVE TypeInv
  OBVIOUS
<1>1. remote \in [Sites -> Records]
  <2>1. remote \in [Sites -> [status : {"none", "active", "leaving", "deleted"}, time : {0, 1}]]
    BY FirstsAssumption DEF Init
  <2>. QED BY <2>1, NumberFacts DEF Records, Statuses
<1>2. local \in [Sites -> Records]
  BY NumberFacts DEF Init, NoRec, Rec, Records, Statuses
<1>3. cl \in Runs /\ conn \in Conns /\ sv \in Servers
  BY NumberFacts DEF Init, NoRun, NoConn, NoServer, Runs, Conns, Servers, MAX_RETRY_SEQ
<1>4. Vars
  BY <1>1, <1>2, <1>3, NumberFacts DEF Init, Vars
<1>5. slipped \in BOOLEAN
  BY Zenon DEF Init
<1>6. Places /\ Messages
  BY DEF Init, NoRun, NoConn, NoServer, Places, Messages
<1>. QED BY <1>4, <1>5, <1>6 DEF TypeInv

\* What a step may use.
LEMMA TypeParts ==
    ASSUME TypeInv
    PROVE  /\ clock \in Times /\ update_time \in Times /\ maxno \in Nat /\ maxno \in MaxNos
           /\ events \in 0 .. MaxEvents
           /\ remote \in [Sites -> Records] /\ local \in [Sites -> Records] /\ spool \subseteq Files
           /\ cl \in Runs /\ conn \in Conns /\ sv \in Servers
           /\ \A i \in DOMAIN cl.todo : cl.todo[i] \in Tuples
           /\ cl.todo # <<>> => Head(cl.todo) \in Tuples /\ Site \in Sites
           /\ \A p \in DOMAIN sv.ports : sv.ports[p] \in Ports
           /\ conn.toServer # <<>> => NextRequest \in Requests
           /\ conn.toClient # <<>> => Head(conn.toClient) \in Answers
           /\ passed \subseteq Sites \X Times
           /\ slipped \in BOOLEAN
<1>1. Vars /\ slipped \in BOOLEAN
  BY DEF TypeInv
<1>2. /\ cl.todo \in Seq(Tuples) /\ sv.ports \in Seq(Ports)
      /\ conn.toServer \in Seq(Requests) /\ conn.toClient \in Seq(Answers)
  BY <1>1 DEF Vars, Runs, Conns, Servers
<1>3. cl.todo # <<>> => Head(cl.todo) \in Tuples
  BY <1>2
<1>4. conn.toServer # <<>> => NextRequest \in Requests
  BY <1>2 DEF NextRequest
<1>5. conn.toClient # <<>> => Head(conn.toClient) \in Answers
  BY <1>2
<1>6. /\ \A i \in DOMAIN cl.todo : cl.todo[i] \in Tuples
      /\ \A p \in DOMAIN sv.ports : sv.ports[p] \in Ports
  BY <1>2
<1>. QED BY <1>1, <1>3, <1>4, <1>5, <1>6, NumberFacts DEF Vars, Site, Tuples

\* Steps that leave the run, the connection and arserver alone.
LEMMA Unmoved ==
    ASSUME TypeInv, UNCHANGED <<cl, conn, sv, update_time>>
    PROVE  Places' /\ Messages'
<1>1. Places'
  BY DEF TypeInv, Places, Last
<1>2. Messages'
  BY DEF TypeInv, Messages, Listing, Fetching, Fresh
<1>. QED BY <1>1, <1>2

\* A failure is counted within its bound.
LEMMA EventsType ==
    ASSUME TypeInv, MayHappen
    PROVE  events' \in 0 .. MaxEvents
BY TypeParts, NumberFacts DEF MayHappen

\* The clock and the two catalogues touch no run, no connection and no server.
LEMMA EnvironmentType == ASSUME TypeInv, Environment PROVE TypeInv'
<1>. USE TypeParts
<1>1. CASE Tick
  <2>c. clock \in 0 .. MaxClock /\ MaxClock \in Nat
    BY NumberFacts DEF Times
  <2>d. clock' \in Times
    BY <1>1, <2>c DEF Tick, Times
  <2>1. Vars'
    BY <1>1, <2>d DEF Tick, databases, Vars
  <2>2. Places' /\ Messages' /\ slipped' \in BOOLEAN
    BY <1>1, Unmoved DEF Tick
  <2>. QED BY <2>1, <2>2 DEF TypeInv
<1>2. ASSUME NEW s \in Sites, RemoteUpdate(s)  PROVE TypeInv'
  <2>1. PICK t \in {clock - 1, clock} :
          /\ remote[s].time < t
          /\ remote' = [remote EXCEPT ![s] = Rec("active", t)]
          /\ passed' = IF t <= Horizon THEN passed \cup {<<s, t>>} ELSE passed
    BY <1>2 DEF RemoteUpdate
  <2>2. t \in Times
    <3>1. clock \in 0 .. MaxClock /\ MaxClock \in Nat /\ remote[s].time \in Nat
      BY NumberFacts DEF Records, Times
    <3>. QED BY <2>1, <3>1 DEF Times
  <2>3. remote' \in [Sites -> Records] /\ passed' \subseteq Sites \X Times
    BY <2>1, <2>2 DEF Rec, Records, Statuses
  <2>e. events' \in 0 .. MaxEvents
    <3>1. MayHappen
      BY <1>2 DEF RemoteUpdate
    <3>. QED BY <3>1, EventsType
  <2>4. Vars'
    BY <1>2, <2>3, <2>e DEF RemoteUpdate, Vars
  <2>5. Places' /\ Messages' /\ slipped' \in BOOLEAN
    BY <1>2, Unmoved DEF RemoteUpdate
  <2>. QED BY <2>4, <2>5 DEF TypeInv
<1>3. ASSUME NEW s \in Sites, RemoteDeletion(s)  PROVE TypeInv'
  <2>1. remote' \in [Sites -> Records]
    <3>1. PICK r \in Records : remote' = [remote EXCEPT ![s] = r]
      <4>1. NoRec \in Records
        BY NumberFacts DEF NoRec, Rec, Records, Statuses
      <4>2. \A st \in Statuses : [remote[s] EXCEPT !.status = st] \in Records
        BY DEF Records
      <4>. QED BY <1>3, <4>1, <4>2 DEF RemoteDeletion, Statuses
    <3>. QED BY <3>1
  <2>e. events' \in 0 .. MaxEvents
    <3>1. MayHappen
      BY <1>3 DEF RemoteDeletion
    <3>. QED BY <3>1, EventsType
  <2>2. Vars'
    BY <1>3, <2>1, <2>e DEF RemoteDeletion, Vars
  <2>3. Places' /\ Messages' /\ slipped' \in BOOLEAN
    BY <1>3, Unmoved DEF RemoteDeletion
  <2>. QED BY <2>2, <2>3 DEF TypeInv
<1>4. ASSUME NEW s \in Sites, LocalDeletion(s)  PROVE TypeInv'
  <2>1. local' \in [Sites -> Records]
    BY <1>4 DEF LocalDeletion, Records, Statuses
  <2>e. events' \in 0 .. MaxEvents
    <3>1. MayHappen
      BY <1>4 DEF LocalDeletion
    <3>. QED BY <3>1, EventsType
  <2>2. Vars'
    BY <1>4, <2>1, <2>e DEF LocalDeletion, Vars
  <2>3. Places' /\ Messages' /\ slipped' \in BOOLEAN
    BY <1>4, Unmoved DEF LocalDeletion
  <2>. QED BY <2>2, <2>3 DEF TypeInv
<1>5. ASSUME NEW f \in spool, Enter(f)  PROVE TypeInv'
  <2>1. f.site \in Sites /\ f.time \in Times
    BY DEF Files
  <2>2. local' \in [Sites -> Records]
    BY <1>5, <2>1 DEF Enter, Entered, Rec, Records, Statuses
  <2>3. spool' \subseteq Files
    BY <1>5 DEF Enter
  <2>4. Vars'
    BY <1>5, <2>2, <2>3 DEF Enter, Vars
  <2>5. Places' /\ Messages' /\ slipped' \in BOOLEAN
    BY <1>5, Unmoved DEF Enter
  <2>. QED BY <2>4, <2>5 DEF TypeInv
<1>. QED BY <1>1, <1>2, <1>3, <1>4, <1>5 DEF Environment
-----------------------------------------------------------------------------
\* One more request, if the connection is up.
LEMMA RequestFacts ==
    ASSUME TypeInv, NEW m \in Requests, Request(m)
    PROVE  /\ conn' \in Conns /\ conn'.up = conn.up /\ conn'.toClient = conn.toClient
           /\ \A i \in DOMAIN conn'.toServer :
                 conn'.toServer[i] = m \/ \E j \in DOMAIN conn.toServer : conn'.toServer[i] = conn.toServer[j]
<1>1. conn \in Conns
  BY TypeParts
<1>2. CASE conn.up
  <2>1. conn' = [conn EXCEPT !.toServer = Append(@, m)]
    BY <1>2 DEF Request
  <2>2. conn.toServer \in Seq(Requests) /\ Append(conn.toServer, m) \in Seq(Requests)
    BY <1>1 DEF Conns
  <2>3. conn' \in Conns /\ conn'.up = conn.up /\ conn'.toClient = conn.toClient
        /\ conn'.toServer = Append(conn.toServer, m)
    BY <1>1, <2>1, <2>2 DEF Conns
  <2>4. \A i \in DOMAIN Append(conn.toServer, m) :
           Append(conn.toServer, m)[i] = m \/ \E j \in DOMAIN conn.toServer : Append(conn.toServer, m)[i] = conn.toServer[j]
    BY <2>2
  <2>. QED BY <2>3, <2>4
<1>3. CASE ~ conn.up
  BY <1>1, <1>3 DEF Request
<1>. QED BY <1>2, <1>3

\* One message less for the client.
LEMMA ReadFacts ==
    ASSUME TypeInv, conn.toClient # <<>>, conn' = [conn EXCEPT !.toClient = Tail(@)]
    PROVE  /\ conn' \in Conns /\ conn'.up = conn.up /\ conn'.toServer = conn.toServer
           /\ \A i \in DOMAIN conn'.toClient : \E j \in DOMAIN conn.toClient : conn'.toClient[i] = conn.toClient[j]
<1>1. conn \in Conns /\ conn.toClient \in Seq(Answers)
  BY TypeParts DEF Conns
<1>2. Tail(conn.toClient) \in Seq(Answers)
  BY <1>1
<1>3. conn' \in Conns /\ conn'.up = conn.up /\ conn'.toServer = conn.toServer /\ conn'.toClient = Tail(conn.toClient)
  BY <1>1, <1>2 DEF Conns
<1>4. \A i \in DOMAIN Tail(conn.toClient) : i + 1 \in DOMAIN conn.toClient /\ Tail(conn.toClient)[i] = conn.toClient[i + 1]
  BY <1>1
<1>. QED BY <1>3, <1>4

\* The run goes on to the next site, with a trace of this one or without.
LEMMA NextSiteFacts ==
    ASSUME TypeInv, cl.pc \in {"answer", "dial", "receive"}
    PROVE  LET given == [NextSite EXCEPT !.lost = @ \cup {<<Site, Head(cl.todo).time>>}] IN
           /\ cl.todo \in Seq(Tuples) /\ cl.todo # <<>> /\ Tail(cl.todo) \in Seq(Tuples)
           /\ NextSite \in Runs /\ NextSite.pc = "ask" /\ NextSite.port = 0 /\ NextSite.next = cl.next
           /\ NextSite.todo = Tail(cl.todo) /\ NextSite.lost = cl.lost
           /\ given \in Runs /\ given.pc = "ask" /\ given.port = 0 /\ given.next = cl.next
           /\ given.todo = Tail(cl.todo) /\ given.lost = cl.lost \cup {<<Site, Head(cl.todo).time>>}
<1>1. cl \in Runs /\ cl.todo # <<>>
  BY TypeParts DEF TypeInv, Places
<1>2. cl.todo \in Seq(Tuples) /\ Tail(cl.todo) \in Seq(Tuples)
  BY <1>1 DEF Runs
<1>3. Head(cl.todo) \in Tuples /\ Site \in Sites /\ Head(cl.todo).time \in Times
  BY <1>1, TypeParts DEF Tuples
<1>4. NextSite = [cl EXCEPT !.pc = "ask", !.todo = Tail(@), !.port = 0, !.tries = 0]
  BY DEF NextSite
<1>5. /\ NextSite \in Runs /\ NextSite.pc = "ask" /\ NextSite.port = 0 /\ NextSite.next = cl.next
      /\ NextSite.todo = Tail(cl.todo) /\ NextSite.lost = cl.lost
  <2>2. NextSite = [pc |-> "ask", now |-> cl.now, todo |-> Tail(cl.todo), next |-> cl.next, port |-> 0,
                    tries |-> 0, lost |-> cl.lost]
    BY <1>1, <1>4 DEF Runs
  <2>3. 0 \in 0 .. MAX_RETRY_SEQ /\ 0 \in Nat
    BY DEF MAX_RETRY_SEQ
  <2>4. NextSite \in Runs
    BY <1>1, <1>2, <2>2, <2>3 DEF Runs
  <2>. QED BY <2>2, <2>4
<1>6. ASSUME NEW r \in Runs, NEW L \in SUBSET (Sites \X Times),
             r.pc = "ask", r.port = 0, r.next = cl.next, r.todo = Tail(cl.todo), r.lost = cl.lost
      PROVE  LET q == [r EXCEPT !.lost = @ \cup L] IN
             /\ q \in Runs /\ q.pc = "ask" /\ q.port = 0 /\ q.next = cl.next
             /\ q.todo = Tail(cl.todo) /\ q.lost = cl.lost \cup L
  <2>. DEFINE q == [r EXCEPT !.lost = @ \cup L]
  <2>1. q.pc = r.pc /\ q.port = r.port /\ q.next = r.next /\ q.todo = r.todo /\ q.lost = r.lost \cup L
    BY DEF Runs
  <2>2. r.lost \cup L \in SUBSET (Sites \X Times)
    BY DEF Runs
  <2>3. q \in Runs
    BY <2>2 DEF Runs
  <2>. QED BY <1>6, <2>1, <2>3
<1>7. {<<Site, Head(cl.todo).time>>} \in SUBSET (Sites \X Times)
  BY <1>3
<1>8. LET given == [NextSite EXCEPT !.lost = @ \cup {<<Site, Head(cl.todo).time>>}] IN
      /\ given \in Runs /\ given.pc = "ask" /\ given.port = 0 /\ given.next = cl.next
      /\ given.todo = Tail(cl.todo) /\ given.lost = cl.lost \cup {<<Site, Head(cl.todo).time>>}
  <2>. DEFINE L == {<<Site, Head(cl.todo).time>>}
  <2>1. L \in SUBSET (Sites \X Times)
    BY <1>7
  <2>. HIDE DEF L
  <2>2. LET given == [NextSite EXCEPT !.lost = @ \cup L] IN
        /\ given \in Runs /\ given.pc = "ask" /\ given.port = 0 /\ given.next = cl.next
        /\ given.todo = Tail(cl.todo) /\ given.lost = cl.lost \cup L
    BY <1>5, <1>6, <2>1
  <2>. QED BY <2>2 DEF L
<1>. QED BY <1>1, <1>2, <1>5, <1>8

\* A site that is given up is dropped from the list and remembered as lost.
LEMMA GiveUpFacts ==
    ASSUME TypeInv, cl.pc \in {"answer", "dial", "receive"}, GiveUpSite
    PROVE  /\ cl' \in Runs /\ cl'.pc = "ask" /\ cl'.port = 0 /\ cl'.next = cl.next
           /\ cl'.todo = Tail(cl.todo) /\ cl'.lost = cl.lost \cup {<<Site, Head(cl.todo).time>>}
BY NextSiteFacts DEF GiveUpSite

\* What the places of a run need when the client goes on to its next site.
LEMMA NextSiteType ==
    ASSUME TypeInv, cl.pc \in {"answer", "dial", "receive"},
           cl'.pc = "ask", cl'.port = 0, cl'.next = cl.next, UNCHANGED <<sv, update_time>>,
           \/ conn' = conn
           \/ conn.toClient # <<>> /\ conn' = [conn EXCEPT !.toClient = Tail(@)]
    PROVE  conn' \in Conns /\ Places' /\ Messages'
<1>1. /\ conn' \in Conns /\ conn'.toServer = conn.toServer
      /\ \A i \in DOMAIN conn'.toClient : \E j \in DOMAIN conn.toClient : conn'.toClient[i] = conn.toClient[j]
  <2>1. CASE conn' = conn
    BY <2>1, TypeParts
  <2>2. CASE conn.toClient # <<>> /\ conn' = [conn EXCEPT !.toClient = Tail(@)]
    BY <2>2, ReadFacts
  <2>. QED BY <2>1, <2>2
<1>2. Places'
  BY DEF TypeInv, Places, Last
<1>3. Messages'
  BY <1>1 DEF TypeInv, Messages, Fetching
<1>. QED BY <1>1, <1>2, <1>3

\* A run that ends in the middle.
LEMMA AbandonType ==
    ASSUME TypeInv, Abandon, UNCHANGED <<clock, databases, update_time, maxno, sv, passed, slipped>>,
           events' \in 0 .. MaxEvents
    PROVE  TypeInv'
<1>. USE TypeParts
<1>1. NoRun \in Runs
  BY NumberFacts DEF NoRun, Runs, MAX_RETRY_SEQ
<1>2. cl' = NoRun /\ cl'.pc = "idle" /\ cl'.port = 0
  BY DEF Abandon, NoRun
<1>3. conn' \in Conns /\ conn'.toClient = conn.toClient /\ conn'.toServer = conn.toServer
  BY DEF Abandon, Conns
<1>4. Vars'
  BY <1>1, <1>2, <1>3 DEF Vars, databases
<1>5. Places'
  BY <1>2 DEF TypeInv, Places, Last
<1>6. Messages'
  BY <1>2, <1>3 DEF TypeInv, Messages
<1>. QED BY <1>4, <1>5, <1>6 DEF TypeInv

\* A run starts without a connection: the only messages are those it writes itself.
LEMMA StartType == ASSUME TypeInv, StartRun PROVE TypeInv'
<1>. USE TypeParts
<1>1. cl' = [NoRun EXCEPT !.pc = "list", !.now = clock] /\ update_time <= clock
  <2>1. update_time + Freq <= clock /\ update_time \in Nat /\ Freq \in Nat /\ clock \in Nat
    BY NumberFacts DEF StartRun
  <2>. QED BY <2>1 DEF StartRun
<1>2. cl' \in Runs /\ cl'.pc = "list" /\ cl'.port = 0 /\ cl'.now = clock
  <2>1. cl' = [pc |-> "list", now |-> clock, todo |-> <<>>, next |-> 0, port |-> 0, tries |-> 0, lost |-> {}]
    BY <1>1 DEF NoRun
  <2>2. 0 \in Times /\ 0 \in 0 .. MAX_RETRY_SEQ /\ <<>> \in Seq(Tuples) /\ {} \in SUBSET (Sites \X Times)
    BY NumberFacts DEF MAX_RETRY_SEQ
  <2>3. cl' \in Runs
    BY <2>1, <2>2 DEF Runs
  <2>. QED BY <2>1, <2>3
<1>. DEFINE m == [cmd |-> "LISTSITES", date |-> update_time]
<1>3. m \in Requests
  BY DEF Requests
<1>4. conn' = [up |-> TRUE, toServer |-> <<m>>, toClient |-> <<>>]
  BY DEF StartRun, NoConn
<1>5. conn' \in Conns
  BY <1>3, <1>4 DEF Conns
<1>6. sv' = [pc |-> "ready", ports |-> <<>>]
  BY DEF StartRun, NoServer
<1>7. sv' \in Servers
  BY <1>6 DEF Servers
<1>8. Vars'
  BY <1>2, <1>5, <1>7 DEF StartRun, Vars, databases
<1>9. slipped' \in BOOLEAN
  BY Zenon DEF StartRun
<1>10. Places'
  BY <1>2, <1>6 DEF Places
<1>11. Messages'
  <2>1. update_time' = update_time
    BY DEF StartRun
  <2>2. \A i \in DOMAIN conn'.toServer : conn'.toServer[i] = [cmd |-> "LISTSITES", date |-> update_time']
    BY <1>4, <2>1
  <2>3. DOMAIN conn'.toClient = {} /\ Len(conn'.toServer) + Len(conn'.toClient) <= 1
    BY <1>4
  <2>. QED BY <1>1, <1>2, <1>6, <2>1, <2>2, <2>3 DEF Messages, Listing
<1>. QED BY <1>8, <1>9, <1>10, <1>11 DEF TypeInv

\* The list at the head of what comes in.
LEMMA ListFacts ==
    ASSUME TypeInv, cl.pc = "list", conn.toClient # <<>>
    PROVE  LET list == Head(conn.toClient).list IN
           /\ Head(conn.toClient).cmd = "TUPLELIST" /\ list \in Seq(Tuples) /\ Fresh(list)
           /\ NextDate(list, cl.now) \in Times /\ update_time <= NextDate(list, cl.now)
           /\ conn.toServer = <<>> /\ Tail(conn.toClient) = <<>>
<1>. USE TypeParts
<1>. DEFINE list == Head(conn.toClient).list
<1>1. Listing
  BY DEF TypeInv, Messages
<1>2. conn.toClient \in Seq(Answers) /\ conn.toServer \in Seq(Requests) /\ Head(conn.toClient) \in Answers
  BY DEF Conns
<1>3. 1 \in DOMAIN conn.toClient /\ Head(conn.toClient) = conn.toClient[1]
  BY <1>2
<1>4. Head(conn.toClient).cmd = "TUPLELIST" /\ Fresh(list)
  BY <1>1, <1>3 DEF Listing
<1>5. list \in Seq(Tuples)
  BY <1>2, <1>4 DEF Answers
<1>6. conn.toServer = <<>> /\ Tail(conn.toClient) = <<>>
  <2>1. Len(conn.toServer) + Len(conn.toClient) <= 1
    BY <1>1 DEF Listing
  <2>. HIDE DEF list
  <2>. QED BY <1>2, <2>1, AtMostOne
<1>7. NextDate(list, cl.now) \in Times /\ update_time <= NextDate(list, cl.now)
  <2>1. cl.now \in Times /\ update_time <= cl.now
    BY <1>1 DEF Runs, Listing
  <2>2. \A i \in DOMAIN list : update_time < list[i].time
    BY <1>4 DEF Fresh
  <2>. HIDE DEF list
  <2>. QED BY <1>5, <2>1, <2>2, NextDateFacts
<1>. QED BY <1>4, <1>5, <1>6, <1>7

\* The client takes the tuple list, cuts it and fixes the date of the next listing.
LEMMA ReadTuplesType == ASSUME TypeInv, ReadTuples PROVE TypeInv'
<1>. USE TypeParts
<1>. DEFINE list == Head(conn.toClient).list
<1>1. cl.pc = "list" /\ conn.toClient # <<>>
  BY DEF ReadTuples
<1>2. /\ list \in Seq(Tuples) /\ NextDate(list, cl.now) \in Times /\ update_time <= NextDate(list, cl.now)
      /\ conn.toServer = <<>> /\ Tail(conn.toClient) = <<>>
  BY <1>1, ListFacts
<1>3. PICK todo \in Taken(Cut(list)) :
         cl' = [cl EXCEPT !.pc = "ask", !.todo = todo, !.next = NextDate(list, cl.now), !.lost = NotFetched(list)]
  BY DEF ReadTuples
<1>4. todo \in Seq(Tuples)
  BY <1>2, CutFacts, TakenFacts
<1>5. NotFetched(list) \in SUBSET (Sites \X Times)
  <2>1. \A i \in DOMAIN list : list[i].site \in Sites /\ list[i].time \in Times
    <3>1. \A i \in DOMAIN list : list[i] \in Tuples
      BY <1>2
    <3>. QED BY <3>1 DEF Tuples
  <2>2. NotFetched(list) \subseteq {<<list[i].site, list[i].time>> : i \in DOMAIN list}
    BY DEF NotFetched
  <2>. HIDE DEF list
  <2>. QED BY <2>1, <2>2
<1>6. cl' \in Runs /\ cl'.pc = "ask" /\ cl'.next = NextDate(list, cl.now) /\ cl'.port = cl.port
  <2>. HIDE DEF list
  <2>. QED BY <1>2, <1>3, <1>4, <1>5 DEF Runs
<1>7. conn' \in Conns /\ conn'.toServer = <<>> /\ conn'.toClient = <<>>
  <2>1. conn' = [conn EXCEPT !.toClient = Tail(@)]
    BY DEF ReadTuples
  <2>. HIDE DEF list
  <2>. QED BY <1>1, <1>2, <2>1, ReadFacts DEF Conns
<1>8. Vars'
  BY <1>6, <1>7 DEF ReadTuples, Vars, databases
<1>9. Places'
  BY <1>1, <1>6 DEF ReadTuples, TypeInv, Places, Last
<1>10. Messages'
  <2>1. update_time' = update_time
    BY DEF ReadTuples
  <2>. HIDE DEF list
  <2>. QED BY <1>2, <1>6, <1>7, <2>1 DEF Messages, Fetching
<1>11. slipped' \in BOOLEAN
  BY DEF ReadTuples
<1>. QED BY <1>8, <1>9, <1>10, <1>11 DEF TypeInv

\* A command is written after the list was read, so it is no LISTSITES.
LEMMA RequestType ==
    ASSUME TypeInv, NEW m \in Requests, Request(m), m.cmd # "LISTSITES",
           cl.pc \notin {"idle", "list"}, cl'.pc \notin {"idle", "list"}, cl'.next = cl.next,
           UNCHANGED <<sv, update_time>>
    PROVE  conn' \in Conns /\ Messages'
<1>1. \A i \in DOMAIN conn'.toServer : conn'.toServer[i].cmd # "LISTSITES"
  BY RequestFacts DEF TypeInv, Messages, Fetching
<1>2. Messages'
  BY <1>1, RequestFacts DEF TypeInv, Messages, Fetching
<1>. QED BY <1>2, RequestFacts

\* The client asks for a site or ends the session.
LEMMA AskType == ASSUME TypeInv, AskSite \/ Quit PROVE TypeInv'
<1>. USE TypeParts
<1>1. PICK m \in Requests : Request(m) /\ m.cmd # "LISTSITES"
  <2>1. CASE AskSite
    <3>1. [cmd |-> "SENDSITE", site |-> Site] \in Requests
      BY <2>1 DEF AskSite, Requests
    <3>. QED BY <2>1, <3>1 DEF AskSite
  <2>2. CASE Quit
    BY <2>2 DEF Quit, Requests
  <2>. QED BY <2>1, <2>2
<1>2. cl.pc = "ask" /\ UNCHANGED <<clock, databases, update_time, maxno, sv, events, passed, slipped>>
  BY DEF AskSite, Quit
<1>3. PICK pc \in {"answer", "save"} : cl' = [cl EXCEPT !.pc = pc] /\ (pc = "answer" => cl.todo # <<>>)
  BY DEF AskSite, Quit
<1>4. cl' \in Runs /\ cl'.pc = pc /\ cl'.next = cl.next /\ cl'.todo = cl.todo /\ cl'.port = cl.port
  BY <1>3 DEF Runs
<1>5. conn' \in Conns /\ Messages'
  BY <1>1, <1>2, <1>4, RequestType
<1>6. Vars'
  BY <1>2, <1>4, <1>5 DEF Vars, databases
<1>7. Places'
  BY <1>2, <1>3, <1>4 DEF TypeInv, Places, Last
<1>. QED BY <1>2, <1>5, <1>6, <1>7 DEF TypeInv

\* The client takes the port the server opened for this site.
LEMMA ReadPortType == ASSUME TypeInv, ReadPort PROVE TypeInv'
<1>. USE TypeParts
<1>. DEFINE port == Head(conn.toClient).port
<1>1. cl.pc = "answer" /\ conn.toClient # <<>> /\ Head(conn.toClient).cmd = "SITELIST"
  BY DEF ReadPort
<1>2. port \in DOMAIN sv.ports /\ port # 0 /\ port \in Nat
  <2>1. 1 \in DOMAIN conn.toClient /\ conn.toClient[1] = Head(conn.toClient)
    BY <1>1 DEF Conns
  <2>2. port \in DOMAIN sv.ports
    BY <1>1, <2>1 DEF TypeInv, Messages
  <2>3. Head(conn.toClient) \in Answers
    BY <1>1
  <2>4. port \in Nat \ {0}
    BY <1>1, <2>3 DEF Answers
  <2>. QED BY <2>2, <2>4
<1>3. cl' = [cl EXCEPT !.pc = "dial", !.port = port]
  BY DEF ReadPort
<1>4. cl' \in Runs /\ cl'.pc = "dial" /\ cl'.port = port /\ cl'.todo = cl.todo /\ cl'.next = cl.next
  <2>. HIDE DEF port
  <2>. QED BY <1>2, <1>3 DEF Runs
<1>5. UNCHANGED <<clock, databases, update_time, maxno, sv, events, passed, slipped>>
  BY DEF ReadPort
<1>6. conn' = [conn EXCEPT !.toClient = Tail(@)]
  BY DEF ReadPort
<1>. HIDE DEF port
<1>7. Vars'
  BY <1>1, <1>4, <1>5, <1>6, ReadFacts DEF Vars, databases
<1>8. Places'
  BY <1>1, <1>2, <1>4, <1>5 DEF TypeInv, Places, Last
<1>9. Messages'
  BY <1>1, <1>4, <1>5, <1>6, ReadFacts DEF TypeInv, Messages, Fetching
<1>. QED BY <1>5, <1>7, <1>8, <1>9 DEF TypeInv

\* The client connects to the port of the site it asked for.
LEMMA DialType == ASSUME TypeInv, Dial PROVE TypeInv'
<1>. USE TypeParts
<1>1. cl.pc = "dial" /\ sv.ports[cl.port].st \in {"listening", "left"}
  BY DEF Dial
<1>2. cl.port \in DOMAIN sv.ports /\ cl.port # 0 /\ cl.todo # <<>>
  BY <1>1 DEF TypeInv, Places
<1>3. cl' \in Runs /\ cl'.pc = "receive" /\ cl'.port = cl.port /\ cl'.todo = cl.todo /\ cl'.next = cl.next
  BY DEF Dial, Runs
<1>4. PICK st \in {"stale", "dialed"} :
         sv' = [sv EXCEPT !.ports = SetPort(cl.port, st)] /\ (sv.ports[cl.port].st = "listening" => st = "dialed")
  BY <1>1 DEF Dial
<1>5. /\ SetPort(cl.port, st) \in Seq(Ports) /\ DOMAIN SetPort(cl.port, st) = DOMAIN sv.ports
      /\ Len(SetPort(cl.port, st)) = Len(sv.ports)
      /\ \A p \in DOMAIN sv.ports : SetPort(cl.port, st)[p].st = IF p = cl.port THEN st ELSE sv.ports[p].st
  BY <1>2 DEF SetPort, Ports, PortStates, Servers
<1>6. sv' \in Servers /\ sv'.pc = sv.pc /\ sv'.ports = SetPort(cl.port, st)
  BY <1>4, <1>5 DEF Servers
<1>7. UNCHANGED <<clock, databases, update_time, maxno, conn, events, passed, slipped>>
  BY DEF Dial
<1>8. Vars'
  BY <1>3, <1>6, <1>7 DEF Vars, databases
<1>9. Places'
  BY <1>1, <1>2, <1>3, <1>4, <1>5, <1>6 DEF TypeInv, Places, Last, Servers
<1>10. Messages'
  BY <1>1, <1>3, <1>5, <1>6, <1>7 DEF TypeInv, Messages, Fetching
<1>. QED BY <1>7, <1>8, <1>9, <1>10 DEF TypeInv

\* The steps in which the run turns to the next site.
LEMMA GiveUpType ==
    ASSUME TypeInv, ReadError \/ ReadEnd \/ DialFails \/ ReceiveNothing \/ ReceiveDies
    PROVE  TypeInv'
<1>. USE TypeParts
<1>1. cl.pc \in {"answer", "dial", "receive"} /\ GiveUpSite
  BY DEF ReadError, ReadEnd, DialFails, ReceiveNothing, ReceiveDies
<1>2. cl' \in Runs /\ cl'.pc = "ask" /\ cl'.port = 0 /\ cl'.next = cl.next
  BY <1>1, GiveUpFacts
<1>3. UNCHANGED <<clock, databases, update_time, maxno, sv, passed>>
  BY DEF ReadError, ReadEnd, DialFails, ReceiveNothing, ReceiveDies
<1>4. slipped' \in BOOLEAN
  <2>1. UNCHANGED slipped \/ slipped' = TRUE
    BY DEF ReadError, ReadEnd, DialFails, ReceiveNothing, ReceiveDies
  <2>2. slipped \in BOOLEAN
    BY TypeParts
  <2>. QED BY <2>1, <2>2, Zenon
<1>5. events' \in 0 .. MaxEvents
  <2>1. events' = events \/ MayHappen
    BY DEF ReadError, ReadEnd, DialFails, ReceiveNothing, ReceiveDies
  <2>. QED BY <2>1, EventsType
<1>6. \/ conn' = conn
      \/ conn.toClient # <<>> /\ conn' = [conn EXCEPT !.toClient = Tail(@)]
  <2>1. ReadError => conn.toClient # <<>> /\ conn' = [conn EXCEPT !.toClient = Tail(@)]
    BY DEF ReadError
  <2>2. ReadEnd \/ DialFails \/ ReceiveNothing \/ ReceiveDies => conn' = conn
    BY DEF ReadEnd, DialFails, ReceiveNothing, ReceiveDies
  <2>. QED BY <2>1, <2>2
<1>7. conn' \in Conns /\ Places' /\ Messages'
  BY <1>1, <1>2, <1>3, <1>6, NextSiteType
<1>8. Vars'
  BY <1>2, <1>3, <1>5, <1>7 DEF Vars, databases
<1>. QED BY <1>4, <1>7, <1>8 DEF TypeInv

\* A transfer that failed is asked for again, or the site is given up.
LEMMA ReceiveFailsType == ASSUME TypeInv, ReceiveFails PROVE TypeInv'
<1>. USE TypeParts
<1>1. cl.pc = "receive" /\ UNCHANGED <<clock, databases, update_time, maxno, sv, events, passed, slipped>>
  BY DEF ReceiveFails
<1>2. CASE GiveUpSite /\ UNCHANGED conn
  <2>1. cl' \in Runs /\ cl'.pc = "ask" /\ cl'.port = 0 /\ cl'.next = cl.next
    BY <1>1, <1>2, GiveUpFacts
  <2>2. conn' \in Conns /\ Places' /\ Messages'
    BY <1>1, <1>2, <2>1, NextSiteType
  <2>3. Vars'
    BY <1>1, <2>1, <2>2 DEF Vars, databases
  <2>. QED BY <1>1, <2>2, <2>3 DEF TypeInv
<1>3. CASE /\ cl.tries < MAX_RETRY_SEQ
           /\ cl' = [cl EXCEPT !.pc = "answer", !.port = 0, !.tries = @ + 1]
           /\ Request([cmd |-> "SENDSITE", site |-> Site])
  <2>1. cl.todo # <<>>
    BY <1>1 DEF TypeInv, Places
  <2>2. cl.tries + 1 \in 0 .. MAX_RETRY_SEQ
    BY <1>3 DEF Runs, MAX_RETRY_SEQ
  <2>3. cl' \in Runs /\ cl'.pc = "answer" /\ cl'.port = 0 /\ cl'.next = cl.next /\ cl'.todo = cl.todo
    BY <1>3, <2>2 DEF Runs
  <2>4. [cmd |-> "SENDSITE", site |-> Site] \in Requests
    BY <2>1 DEF Requests
  <2>5. conn' \in Conns /\ Messages'
    BY <1>1, <1>3, <2>3, <2>4, RequestType
  <2>6. Vars'
    BY <1>1, <2>3, <2>5 DEF Vars, databases
  <2>7. Places'
    BY <1>1, <2>1, <2>3 DEF TypeInv, Places, Last
  <2>. QED BY <1>1, <2>5, <2>6, <2>7 DEF TypeInv
<1>. QED BY <1>2, <1>3 DEF ReceiveFails

\* What comes in has the site of its header and a time.
LEMMA ReceiveFacts ==
    ASSUME TypeInv, Receive
    PROVE  \E old \in SUBSET {f \in spool : f.site = DataSite} :
              LET new == [site |-> DataSite, kind |-> Data.kind, time |-> Data.time] IN
              new \in Files /\ spool' = (spool \ old) \cup {new}
<1>1. cl.port \in DOMAIN sv.ports
  BY DEF TypeInv, Places, Receive
<1>2. sv.ports[cl.port] \in Ports
  BY <1>1, TypeParts
<1>3. DataSite \in Sites /\ Data.time \in Times /\ Data.kind \in {"listing", "deletion"}
  BY <1>2 DEF Receive, DataSite, Data, Ports, Contents
<1>. QED BY <1>3 DEF Receive, Files

\* A transfer that succeeds leaves its file in the spool directory.
LEMMA ReceiveType == ASSUME TypeInv, Receive PROVE TypeInv'
<1>. USE TypeParts
<1>1. cl.pc = "receive" /\ UNCHANGED <<clock, remote, local, update_time, maxno, conn, sv, events, passed, slipped>>
  BY DEF Receive
<1>2. cl' \in Runs /\ cl'.pc = "ask" /\ cl'.port = 0 /\ cl'.next = cl.next
  BY <1>1, NextSiteFacts DEF Receive
<1>3. spool' \subseteq Files
  BY ReceiveFacts
<1>4. conn' \in Conns /\ Places' /\ Messages'
  BY <1>1, <1>2, NextSiteType
<1>5. Vars'
  BY <1>1, <1>2, <1>3, <1>4 DEF Vars
<1>. QED BY <1>1, <1>4, <1>5 DEF TypeInv

\* The date of the next listing is saved and the run ends.
LEMMA SaveType == ASSUME TypeInv, Save PROVE TypeInv'
<1>. USE TypeParts
<1>1. cl.next \in Times /\ cl.lost \subseteq Sites \X Times
  BY DEF Runs
<1>2. cl' = NoRun /\ cl'.pc = "idle" /\ cl'.port = 0
  BY DEF Save, NoRun
<1>3. NoRun \in Runs
  BY NumberFacts DEF NoRun, Runs, MAX_RETRY_SEQ
<1>4. Vars'
  BY <1>1, <1>2, <1>3 DEF Save, Vars, databases
<1>5. Places' /\ Messages'
  BY <1>2 DEF Save, TypeInv, Places, Messages, Last
<1>. QED BY <1>4, <1>5 DEF Save, TypeInv

\* Every step of the client keeps the types and the places.
LEMMA ClientType == ASSUME TypeInv, Client \/ ReceiveDies \/ ClientDies PROVE TypeInv'
<1>1. ASSUME ListFails \/ WriteDies \/ ClientDies  PROVE TypeInv'
  <2>1. Abandon /\ UNCHANGED <<clock, databases, update_time, maxno, sv, passed, slipped>>
    BY <1>1 DEF ListFails, WriteDies, ClientDies
  <2>2. events' = events \/ MayHappen
    BY <1>1 DEF ListFails, WriteDies, ClientDies
  <2>. QED BY <2>1, <2>2, AbandonType, EventsType, TypeParts
<1>. QED
  BY <1>1, ReadTuplesType, AskType, ReadPortType, DialType, GiveUpType, ReceiveFailsType, ReceiveType, SaveType
  DEF Client
-----------------------------------------------------------------------------
\* A message to the client, if the connection is up.
LEMMA NoteFacts ==
    ASSUME TypeInv, NEW m \in Answers, conn' = Note(m)
    PROVE  /\ conn' \in Conns /\ conn'.up = conn.up /\ conn'.toServer = conn.toServer
           /\ \A i \in DOMAIN conn'.toClient :
                 conn'.toClient[i] = m \/ \E j \in DOMAIN conn.toClient : conn'.toClient[i] = conn.toClient[j]
<1>1. conn \in Conns
  BY TypeParts
<1>2. CASE conn.up
  <2>1. conn' = [conn EXCEPT !.toClient = Append(@, m)]
    BY <1>2 DEF Note
  <2>2. conn.toClient \in Seq(Answers) /\ Append(conn.toClient, m) \in Seq(Answers)
    BY <1>1 DEF Conns
  <2>3. conn' \in Conns /\ conn'.up = conn.up /\ conn'.toServer = conn.toServer
        /\ conn'.toClient = Append(conn.toClient, m)
    BY <1>1, <2>1, <2>2 DEF Conns
  <2>4. \A i \in DOMAIN Append(conn.toClient, m) :
           Append(conn.toClient, m)[i] = m \/ \E j \in DOMAIN conn.toClient : Append(conn.toClient, m)[i] = conn.toClient[j]
    BY <2>2
  <2>. QED BY <2>3, <2>4
<1>3. CASE ~ conn.up
  BY <1>1, <1>3 DEF Note
<1>. QED BY <1>2, <1>3

\* The same, in place of a request.
LEMMA AnswerFacts ==
    ASSUME TypeInv, conn.toServer # <<>>, NEW m \in Answers, conn' = Answer(m)
    PROVE  /\ conn' \in Conns /\ conn'.up = conn.up /\ conn'.toServer = Tail(conn.toServer)
           /\ conn'.toClient = IF conn.up THEN Append(conn.toClient, m) ELSE conn.toClient
           /\ \A i \in DOMAIN conn'.toServer : \E j \in DOMAIN conn.toServer : conn'.toServer[i] = conn.toServer[j]
           /\ \A i \in DOMAIN conn'.toClient :
                 conn'.toClient[i] = m \/ \E j \in DOMAIN conn.toClient : conn'.toClient[i] = conn.toClient[j]
<1>1. conn \in Conns /\ conn.toServer \in Seq(Requests) /\ conn.toClient \in Seq(Answers)
  BY TypeParts DEF Conns
<1>2. Tail(conn.toServer) \in Seq(Requests) /\ Append(conn.toClient, m) \in Seq(Answers)
  BY <1>1
<1>3. /\ conn' \in Conns /\ conn'.up = conn.up /\ conn'.toServer = Tail(conn.toServer)
      /\ conn'.toClient = IF conn.up THEN Append(conn.toClient, m) ELSE conn.toClient
  BY <1>1, <1>2 DEF Answer, Conns
<1>4. \A i \in DOMAIN Tail(conn.toServer) : i + 1 \in DOMAIN conn.toServer /\ Tail(conn.toServer)[i] = conn.toServer[i + 1]
  BY <1>1
<1>5. \A i \in DOMAIN Append(conn.toClient, m) :
         Append(conn.toClient, m)[i] = m \/ \E j \in DOMAIN conn.toClient : Append(conn.toClient, m)[i] = conn.toClient[j]
  BY <1>1
<1>. QED BY <1>3, <1>4, <1>5

\* The request arserver works on is the first one of the queue.
LEMMA AskedFacts ==
    ASSUME TypeInv, NEW cmd, Asked(cmd)
    PROVE  /\ sv.pc = "ready" /\ conn.toServer # <<>> /\ NextRequest \in Requests /\ NextRequest.cmd = cmd
           /\ 1 \in DOMAIN conn.toServer /\ conn.toServer[1] = NextRequest
<1>1. conn.toServer \in Seq(Requests)
  BY TypeParts DEF Conns
<1>. QED BY <1>1, TypeParts DEF Asked, NextRequest

\* A step of arserver that leaves the run alone.
LEMMA ServerMoves ==
    ASSUME TypeInv, UNCHANGED <<cl, update_time>>, cl.pc # "list",
           \A i \in DOMAIN conn'.toServer : \E j \in DOMAIN conn.toServer : conn'.toServer[i] = conn.toServer[j],
           \A i \in DOMAIN conn'.toClient : conn'.toClient[i].cmd = "SITELIST" => conn'.toClient[i].port \in DOMAIN sv'.ports
    PROVE  Messages'
BY DEF TypeInv, Messages, Fetching

\* The server answers LISTSITES by the tuples of its active sites.
LEMMA ListSitesType == ASSUME TypeInv, ListSites PROVE TypeInv'
<1>. USE TypeParts
<1>1. Asked("LISTSITES") /\ UNCHANGED <<clock, databases, update_time, maxno, cl, sv, events, passed, slipped>>
  BY DEF ListSites
<1>2. PICK list \in Listings(NextRequest.date) : conn' = Answer([cmd |-> "TUPLELIST", list |-> list])
  BY DEF ListSites
<1>. DEFINE m == [cmd |-> "TUPLELIST", list |-> list]
<1>3. /\ NextRequest.cmd = "LISTSITES" /\ NextRequest \in Requests /\ conn.toServer # <<>>
      /\ 1 \in DOMAIN conn.toServer /\ conn.toServer[1] = NextRequest
  BY <1>1, AskedFacts
<1>4. NextRequest.date \in Times
  BY <1>3 DEF Requests
<1>5. /\ list \in Seq(Tuples) /\ m \in Answers
      /\ \A i \in DOMAIN list : NextRequest.date < list[i].time
      /\ \A i, j \in DOMAIN list : i <= j => list[i].time <= list[j].time
  <2>1. /\ list \in Seq(Tuples)
        /\ \A i \in DOMAIN list : NextRequest.date < list[i].time
        /\ \A i, j \in DOMAIN list : i <= j => list[i].time <= list[j].time
    BY <1>4, ListingsFacts
  <2>. QED BY <2>1 DEF Answers
<1>6. /\ conn' \in Conns /\ conn'.up = conn.up /\ conn'.toServer = Tail(conn.toServer)
      /\ conn'.toClient = IF conn.up THEN Append(conn.toClient, m) ELSE conn.toClient
      /\ \A i \in DOMAIN conn'.toServer : \E j \in DOMAIN conn.toServer : conn'.toServer[i] = conn.toServer[j]
      /\ \A i \in DOMAIN conn'.toClient :
            conn'.toClient[i] = m \/ \E j \in DOMAIN conn.toClient : conn'.toClient[i] = conn.toClient[j]
  <2>. HIDE DEF m
  <2>. QED BY <1>2, <1>3, <1>5, AnswerFacts DEF m
<1>7. Vars'
  BY <1>1, <1>6 DEF Vars, databases
<1>8. Places'
  BY <1>1 DEF TypeInv, Places, Last
<1>9. CASE cl.pc = "list"
  <2>1. Listing
    BY <1>9 DEF TypeInv, Messages
  <2>2. conn.toClient = <<>> /\ Tail(conn.toServer) = <<>>
    <3>1. conn.toClient \in Seq(Answers) /\ conn.toServer \in Seq(Requests)
      BY DEF Conns
    <3>2. Len(conn.toClient) + Len(conn.toServer) <= 1
      <4>1. Len(conn.toServer) + Len(conn.toClient) <= 1
        BY <2>1 DEF Listing
      <4>2. Len(conn.toClient) \in Nat /\ Len(conn.toServer) \in Nat
        BY <3>1
      <4>3. \A a, b \in Nat : a + b <= 1 => b + a <= 1
        OBVIOUS
      <4>. QED BY <4>1, <4>2, <4>3, Zenon
    <3>. QED BY <1>3, <3>1, <3>2, AtMostOne
  <2>3. NextRequest.date = update_time
    BY <1>3, <2>1 DEF Listing
  <2>4. Fresh(list)' /\ update_time' = update_time
    BY <1>1, <1>5, <2>3 DEF Fresh
  <2>5. conn'.toServer = <<>> /\ (conn'.toClient = <<m>> \/ conn'.toClient = <<>>)
    BY <1>6, <2>2
  <2>6. Listing'
    <3>. HIDE DEF m
    <3>1. Len(conn'.toServer) = 0 /\ (Len(conn'.toClient) = 0 \/ Len(conn'.toClient) = 1)
      BY <2>5
    <3>2. \A i \in DOMAIN conn'.toClient : conn'.toClient[i] = m
      BY <2>5
    <3>3. m.cmd = "TUPLELIST" /\ m.list = list
      BY DEF m
    <3>4. \A i \in DOMAIN conn'.toClient : conn'.toClient[i].cmd = "TUPLELIST" /\ Fresh(conn.toClient[i].list)'
      BY <2>4, <3>2, <3>3 DEF Fresh
    <3>5. DOMAIN conn'.toServer = {}
      BY <2>5
    <3>6. Len(conn'.toServer) + Len(conn'.toClient) <= 1
      <4>1. \A a, b : a = 0 /\ (b = 0 \/ b = 1) => a + b <= 1
        OBVIOUS
      <4>. QED BY <3>1, <4>1, Zenon
    <3>7. sv' = sv /\ cl' = cl /\ update_time' = update_time
      BY <1>1
    <3>. QED BY <2>1, <3>4, <3>5, <3>6, <3>7 DEF Listing
  <2>7. \A i \in DOMAIN conn'.toClient : conn'.toClient[i].cmd # "SITELIST"
    BY <2>5
  <2>. QED BY <1>1, <1>7, <1>8, <1>9, <2>6, <2>7 DEF TypeInv, Messages
<1>10. CASE cl.pc # "list"
  <2>1. \A i \in DOMAIN conn'.toClient :
           conn'.toClient[i].cmd = "SITELIST" => conn'.toClient[i].port \in DOMAIN sv'.ports
    BY <1>1, <1>6 DEF TypeInv, Messages
  <2>2. Messages'
    BY <1>1, <1>6, <1>10, <2>1, ServerMoves
  <2>. QED BY <1>1, <1>7, <1>8, <2>2 DEF TypeInv
<1>. QED BY <1>9, <1>10

\* While the list is awaited arserver opens no port.
LEMMA NotListing ==
    ASSUME TypeInv,
           \/ sv.pc \in {"waiting", "sending"}
           \/ Asked("SENDSITE") \/ Asked("QUIT")
    PROVE  cl.pc # "list"
<1>. SUFFICES ASSUME cl.pc = "list" PROVE FALSE
  OBVIOUS
<1>1. Listing
  BY DEF TypeInv, Messages
<1>2. CASE sv.pc \in {"waiting", "sending"}
  BY <1>1, <1>2 DEF Listing
<1>3. ASSUME NEW cmd \in {"SENDSITE", "QUIT"}, Asked(cmd)  PROVE FALSE
  <2>1. 1 \in DOMAIN conn.toServer /\ conn.toServer[1].cmd = cmd
    BY <1>3, AskedFacts
  <2>. QED BY <1>1, <2>1 DEF Listing
<1>. QED BY <1>2, <1>3

\* The server answers SENDSITE by a new port.
LEMMA OpenPortType == ASSUME TypeInv, OpenPort PROVE TypeInv'
<1>. USE TypeParts
<1>1. Asked("SENDSITE") /\ UNCHANGED <<clock, databases, update_time, maxno, cl, events, passed, slipped>>
  BY DEF OpenPort
<1>2. NextRequest.cmd = "SENDSITE" /\ NextRequest \in Requests /\ conn.toServer # <<>>
  BY <1>1, AskedFacts
<1>. DEFINE new == Port(NextRequest.site)
            n == Len(sv.ports)
            m == [cmd |-> "SITELIST", port |-> n + 1]
<1>3. new \in Ports /\ new.st = "listening"
  <2>1. NextRequest.site \in Sites
    BY <1>2 DEF Requests
  <2>. QED BY <2>1, NumberFacts DEF Port, Nothing, Ports, PortStates, Contents
<1>4. sv' = [pc |-> "waiting", ports |-> Append(sv.ports, new)] /\ conn' = Answer(m)
  BY DEF OpenPort
<1>5. sv.ports \in Seq(Ports) /\ n \in Nat /\ m \in Answers
  BY DEF Servers, Answers
<1>6. /\ Append(sv.ports, new) \in Seq(Ports)
      /\ Len(Append(sv.ports, new)) = n + 1
      /\ DOMAIN Append(sv.ports, new) = 1 .. n + 1
      /\ DOMAIN sv.ports = 1 .. n
      /\ Append(sv.ports, new)[n + 1] = new
      /\ \A i \in DOMAIN sv.ports : Append(sv.ports, new)[i] = sv.ports[i]
  <2>. HIDE DEF new
  <2>. QED BY <1>3, <1>5
<1>7. sv' \in Servers
  <2>. HIDE DEF new
  <2>. QED BY <1>4, <1>6 DEF Servers
<1>8. /\ conn' \in Conns
      /\ \A i \in DOMAIN conn'.toServer : \E j \in DOMAIN conn.toServer : conn'.toServer[i] = conn.toServer[j]
      /\ \A i \in DOMAIN conn'.toClient :
            conn'.toClient[i] = m \/ \E j \in DOMAIN conn.toClient : conn'.toClient[i] = conn.toClient[j]
  <2>. HIDE DEF m, n, new
  <2>. QED BY <1>2, <1>4, <1>5, AnswerFacts
<1>9. Vars'
  BY <1>1, <1>7, <1>8 DEF Vars, databases
<1>10. Places'
  <2>1. sv'.pc = "waiting" /\ sv'.ports = Append(sv.ports, new) /\ Last' = n + 1
    <3>. HIDE DEF new
    <3>. QED BY <1>4, <1>6 DEF Last
  <2>2. cl.port \in DOMAIN sv.ports \cup {0}
    BY DEF TypeInv, Places
  <2>3. DOMAIN sv'.ports = 1 .. n + 1 /\ cl.port \in DOMAIN sv'.ports \cup {0} /\ sv'.ports # <<>>
    <3>. HIDE DEF new
    <3>. QED BY <1>5, <1>6, <2>1, <2>2
  <2>4. sv'.ports[Last'].st = "listening"
    BY <1>3, <1>6, <2>1
  <2>5. cl.pc = "receive" => sv'.ports[cl.port].st \notin {"listening", "left"}
    <3>. HIDE DEF new, n
    <3>. QED BY <1>6, <2>1, <2>2 DEF TypeInv, Places
  <2>. HIDE DEF new, n
  <2>. QED BY <1>1, <2>1, <2>3, <2>4, <2>5 DEF TypeInv, Places
<1>11. Messages'
  <2>1. m.port = n + 1 /\ n + 1 \in DOMAIN sv'.ports /\ DOMAIN sv.ports \subseteq DOMAIN sv'.ports
    BY <1>4, <1>5, <1>6
  <2>2. \A i \in DOMAIN conn'.toClient :
           conn'.toClient[i].cmd = "SITELIST" => conn'.toClient[i].port \in DOMAIN sv'.ports
    <3>. HIDE DEF m, n
    <3>. QED BY <1>8, <2>1 DEF TypeInv, Messages
  <2>3. cl.pc # "list"
    BY <1>1, NotListing
  <2>4. UNCHANGED <<cl, update_time>>
    BY <1>1
  <2>. QED BY <1>8, <2>2, <2>3, <2>4, ServerMoves
<1>. QED BY <1>1, <1>9, <1>10, <1>11 DEF TypeInv

\* The last port, with another state.
LEMMA SetPortFacts ==
    ASSUME TypeInv, sv.pc \in {"waiting", "sending"}, NEW st \in PortStates
    PROVE  LET r == [sv.ports[Last] EXCEPT !.st = st] IN
           /\ Last \in DOMAIN sv.ports
           /\ r \in Ports /\ r.st = st /\ r.site = sv.ports[Last].site /\ r.data = sv.ports[Last].data
           /\ SetPort(Last, st) = [sv.ports EXCEPT ![Last] = r]
<1>1. sv.ports # <<>> /\ sv.ports \in Seq(Ports)
  BY TypeParts DEF TypeInv, Places, Servers
<1>2. Last \in DOMAIN sv.ports
  BY <1>1 DEF Last
<1>3. sv.ports[Last] \in Ports
  BY <1>2, TypeParts
<1>. QED BY <1>2, <1>3 DEF Ports, SetPort

\* A step of arserver after which it is ready or sending, and the last port is
\* another one.
LEMMA PortMoves ==
    ASSUME TypeInv, sv.pc \in {"waiting", "sending"}, UNCHANGED <<cl, update_time>>,
           NEW r \in Ports, r.st # "listening", r.st = "left" => sv.ports[Last].st = "listening",
           NEW pc \in {"ready", "sending"},
           sv' = [sv EXCEPT !.pc = pc, !.ports = [sv.ports EXCEPT ![Last] = r]],
           conn' \in Conns, conn'.toServer = conn.toServer,
           \A i \in DOMAIN conn'.toClient :
              conn'.toClient[i].cmd = "ERROR" \/ \E j \in DOMAIN conn.toClient : conn'.toClient[i] = conn.toClient[j]
    PROVE  sv' \in Servers /\ Places' /\ Messages'
<1>1. sv.ports # <<>> /\ sv.ports \in Seq(Ports) /\ sv \in Servers
  BY TypeParts DEF TypeInv, Places, Servers
<1>2. Last \in DOMAIN sv.ports
  BY <1>1 DEF Last
<1>3. [sv.ports EXCEPT ![Last] = r] \in Seq(Ports)
  BY <1>1, <1>2
<1>4. sv' \in Servers /\ sv'.pc = pc /\ sv'.ports = [sv.ports EXCEPT ![Last] = r]
  BY <1>1, <1>3 DEF Servers
<1>5. DOMAIN sv'.ports = DOMAIN sv.ports /\ \A p \in DOMAIN sv.ports : sv'.ports[p] = IF p = Last THEN r ELSE sv.ports[p]
  BY <1>4
<1>6. sv'.ports # <<>>
  BY <1>2, <1>5
<1>7. Places'
  BY <1>2, <1>4, <1>5, <1>6 DEF TypeInv, Places
<1>8. \A i \in DOMAIN conn'.toClient :
         conn'.toClient[i].cmd = "SITELIST" => conn'.toClient[i].port \in DOMAIN sv'.ports
  BY <1>5 DEF TypeInv, Messages
<1>9. Messages'
  BY <1>8, NotListing, ServerMoves
<1>. QED BY <1>4, <1>7, <1>9

\* The process that serves a port moves it along its states.
LEMMA PortType ==
    ASSUME TypeInv, Accept \/ HeaderFails \/ Timeout \/ Send \/ SendBreaks
    PROVE  TypeInv'
<1>. USE TypeParts
<1>1. /\ sv.pc \in {"waiting", "sending"}
      /\ UNCHANGED <<clock, databases, update_time, maxno, cl, passed>>
  BY DEF Accept, HeaderFails, Timeout, Send, SendBreaks, Waiting
<1>2. events' \in 0 .. MaxEvents
  <2>1. UNCHANGED events \/ MayHappen
    BY DEF Accept, HeaderFails, Timeout, Send, SendBreaks
  <2>. QED BY <2>1, EventsType
<1>3. slipped' \in BOOLEAN
  <2>1. UNCHANGED slipped \/ slipped' = TRUE
    BY DEF Accept, HeaderFails, Timeout, Send, SendBreaks
  <2>2. slipped \in BOOLEAN
    BY TypeParts
  <2>. QED BY <2>1, <2>2, Zenon
<1>4. /\ conn' \in Conns /\ conn'.toServer = conn.toServer
      /\ \A i \in DOMAIN conn'.toClient :
            conn'.toClient[i].cmd = "ERROR" \/ \E j \in DOMAIN conn.toClient : conn'.toClient[i] = conn.toClient[j]
  <2>1. CASE conn' = conn
    BY <2>1
  <2>2. CASE conn' = Note([cmd |-> "ERROR"])
    <3>1. [cmd |-> "ERROR"] \in Answers
      BY DEF Answers
    <3>. QED BY <2>2, <3>1, NoteFacts
  <2>3. conn' = conn \/ conn' = Note([cmd |-> "ERROR"])
    BY DEF Accept, HeaderFails, Timeout, Send, SendBreaks
  <2>. QED BY <2>1, <2>2, <2>3
<1>5. PICK pc \in {"ready", "sending"}, r \in Ports :
         /\ r.st # "listening" /\ (r.st = "left" => sv.ports[Last].st = "listening")
         /\ sv' = [sv EXCEPT !.pc = pc, !.ports = [sv.ports EXCEPT ![Last] = r]]
  <2>1. ASSUME NEW st \in PortStates \ {"listening"}, st = "left" => sv.ports[Last].st = "listening",
               NEW pc \in {"ready", "sending"}, sv' = [sv EXCEPT !.pc = pc, !.ports = SetPort(Last, st)]
        PROVE  \E r \in Ports :
                 /\ r.st # "listening" /\ (r.st = "left" => sv.ports[Last].st = "listening")
                 /\ sv' = [sv EXCEPT !.pc = pc, !.ports = [sv.ports EXCEPT ![Last] = r]]
    <3>. DEFINE r == [sv.ports[Last] EXCEPT !.st = st]
    <3>1. r \in Ports /\ r.st = st /\ SetPort(Last, st) = [sv.ports EXCEPT ![Last] = r]
      BY <1>1, SetPortFacts
    <3>. HIDE DEF r
    <3>. QED BY <2>1, <3>1
  <2>2. CASE Accept
    <3>1. sv' = [sv EXCEPT !.pc = "sending", !.ports = SetPort(Last, "sending")]
      BY <2>2 DEF Accept
    <3>. QED BY <2>1, <3>1 DEF PortStates
  <2>3. CASE HeaderFails
    <3>1. sv' = [sv EXCEPT !.pc = "ready", !.ports = SetPort(Last, "abandoned")]
      BY <2>3 DEF HeaderFails
    <3>. QED BY <2>1, <3>1 DEF PortStates
  <2>4. CASE Timeout
    <3>1. sv' = [sv EXCEPT !.pc = "ready", !.ports = SetPort(Last, "left")] /\ sv.ports[Last].st = "listening"
      BY <2>4 DEF Timeout, Waiting
    <3>. QED BY <2>1, <3>1 DEF PortStates
  <2>5. CASE SendBreaks
    <3>1. PICK st \in {"cut", "empty"} : sv' = [sv EXCEPT !.pc = "ready", !.ports = SetPort(Last, st)]
      BY <2>5 DEF SendBreaks
    <3>. QED BY <2>1, <3>1 DEF PortStates
  <2>6. CASE Send
    <3>. DEFINE site == sv.ports[Last].site
                r == [site |-> site, st |-> "sent", data |-> ContentsFor(site)]
    <3>1. sv.ports # <<>>
      BY <1>1 DEF TypeInv, Places
    <3>2. site \in Sites
      <4>1. Last \in DOMAIN sv.ports
        BY <3>1 DEF Last, Servers
      <4>2. sv.ports[Last] \in Ports
        BY <4>1
      <4>. QED BY <4>2 DEF Ports
    <3>3. ContentsFor(site) \in Contents
      BY <3>2, NumberFacts DEF ContentsFor, Contents, Records
    <3>4. r \in Ports /\ r.st = "sent"
      BY <3>2, <3>3 DEF Ports, PortStates
    <3>5. sv' = [sv EXCEPT !.pc = "ready", !.ports[Last] = r]
      BY <2>6 DEF Send
    <3>6. sv' = [sv EXCEPT !.pc = "ready", !.ports = [sv.ports EXCEPT ![Last] = r]]
      <4>. HIDE DEF r
      <4>. QED BY <3>5
    <3>. HIDE DEF r
    <3>. QED BY <3>4, <3>6
  <2>. QED BY <2>2, <2>3, <2>4, <2>5, <2>6
<1>6. sv' \in Servers /\ Places' /\ Messages'
  BY <1>1, <1>4, <1>5, PortMoves
<1>7. Vars'
  BY <1>1, <1>2, <1>4, <1>6 DEF Vars, databases
<1>. QED BY <1>3, <1>6, <1>7 DEF TypeInv

\* The sockets that are closed at the end of an arserver.
LEMMA ClosedFacts ==
    ASSUME TypeInv
    PROVE  /\ Gone \in Servers /\ Gone.pc = "off" /\ DOMAIN Gone.ports = DOMAIN sv.ports
           /\ sv.ports = <<>> => Gone.ports = <<>>
           /\ \A p \in DOMAIN sv.ports :
                 /\ Gone.ports[p].site = sv.ports[p].site /\ Gone.ports[p].data = sv.ports[p].data
                 /\ Gone.ports[p].st = IF sv.ports[p].st \in {"sent", "cut"} THEN sv.ports[p].st ELSE "empty"
<1>1. sv \in Servers /\ sv.ports \in Seq(Ports)
  BY TypeParts DEF Servers
<1>2. ASSUME NEW p \in DOMAIN sv.ports
      PROVE  LET r == IF sv.ports[p].st \in {"sent", "cut"} THEN sv.ports[p] ELSE [sv.ports[p] EXCEPT !.st = "empty"]
             IN  /\ Closed(sv.ports)[p] = r /\ r \in Ports /\ r.site = sv.ports[p].site /\ r.data = sv.ports[p].data
                 /\ r.st = IF sv.ports[p].st \in {"sent", "cut"} THEN sv.ports[p].st ELSE "empty"
  <2>1. sv.ports[p] \in Ports
    BY TypeParts
  <2>. QED BY <2>1 DEF Closed, Ports, PortStates
<1>3. Closed(sv.ports) \in Seq(Ports) /\ DOMAIN Closed(sv.ports) = DOMAIN sv.ports
  <2>1. DOMAIN sv.ports = 1 .. Len(sv.ports) /\ Len(sv.ports) \in Nat
    BY <1>1
  <2>2. DOMAIN Closed(sv.ports) = 1 .. Len(sv.ports)
    BY <2>1 DEF Closed
  <2>3. \A p \in DOMAIN sv.ports : Closed(sv.ports)[p] \in Ports
    BY <1>2
  <2>4. Closed(sv.ports) \in [DOMAIN sv.ports -> Ports]
    <3>1. \A p \in DOMAIN sv.ports :
             (IF sv.ports[p].st \in {"sent", "cut"} THEN sv.ports[p] ELSE [sv.ports[p] EXCEPT !.st = "empty"]) \in Ports
      BY <1>2
    <3>. QED BY <3>1, Zenon DEF Closed
  <2>5. Closed(sv.ports) \in [1 .. Len(sv.ports) -> Ports]
    BY <2>1, <2>4
  <2>. QED BY <2>1, <2>2, <2>5
<1>4. Gone = [sv EXCEPT !.pc = "off", !.ports = Closed(sv.ports)]
  BY DEF Gone
<1>5. Gone \in Servers /\ Gone.pc = "off" /\ Gone.ports = Closed(sv.ports)
  BY <1>1, <1>3, <1>4 DEF Servers
<1>6. sv.ports = <<>> => Gone.ports = <<>>
  BY <1>3, <1>5
<1>7. ASSUME NEW p \in DOMAIN sv.ports
      PROVE  /\ Gone.ports[p].site = sv.ports[p].site /\ Gone.ports[p].data = sv.ports[p].data
             /\ Gone.ports[p].st = IF sv.ports[p].st \in {"sent", "cut"} THEN sv.ports[p].st ELSE "empty"
  BY <1>2, <1>5
<1>. QED BY <1>3, <1>5, <1>6, <1>7

\* The server or the link goes away.
LEMMA EndType == ASSUME TypeInv, ServerEnds \/ LinkLost PROVE TypeInv'
<1>. USE TypeParts
<1>1. /\ UNCHANGED <<clock, databases, update_time, maxno, cl, passed, slipped>>
      /\ conn' = NoConn /\ sv' \in {sv, Gone}
  BY DEF ServerEnds, LinkLost
<1>2. events' \in 0 .. MaxEvents
  <2>1. UNCHANGED events \/ MayHappen
    BY DEF ServerEnds, LinkLost
  <2>. QED BY <2>1, EventsType
<1>3. NoConn \in Conns /\ DOMAIN NoConn.toServer = {} /\ DOMAIN NoConn.toClient = {}
      /\ Len(NoConn.toServer) = 0 /\ Len(NoConn.toClient) = 0
  BY DEF NoConn, Conns
<1>4. /\ sv' \in Servers /\ DOMAIN sv'.ports = DOMAIN sv.ports /\ (sv.ports = <<>> => sv'.ports = <<>>)
      /\ sv' = sv \/ sv'.pc = "off"
      /\ \A p \in DOMAIN sv.ports : sv'.ports[p].st \in {sv.ports[p].st, "empty"}
  <2>1. CASE sv' = sv
    BY <2>1
  <2>2. CASE sv' = Gone
    BY <2>2, ClosedFacts
  <2>. QED BY <1>1, <2>1, <2>2
<1>5. Vars'
  BY <1>1, <1>2, <1>3, <1>4 DEF Vars, databases
<1>6. Places'
  <2>1. CASE sv' = sv
    BY <1>1, <2>1 DEF TypeInv, Places, Last
  <2>2. CASE sv'.pc = "off"
    BY <1>1, <1>4, <2>2 DEF TypeInv, Places
  <2>. QED BY <1>4, <2>1, <2>2
<1>7. Messages'
  <2>1. ASSUME cl.pc = "list"  PROVE Listing'
    <3>1. Listing
      BY <2>1 DEF TypeInv, Messages
    <3>2. Len(conn'.toServer) + Len(conn'.toClient) <= 1
      <4>1. 0 + 0 <= 1
        OBVIOUS
      <4>. QED BY <1>1, <1>3, <4>1, Zenon
    <3>3. sv'.pc \in {"ready", "off"} /\ sv'.ports = <<>>
      BY <1>4, <3>1 DEF Listing
    <3>. QED BY <1>1, <1>3, <3>1, <3>2, <3>3 DEF Listing
  <2>. QED BY <1>1, <1>3, <2>1 DEF TypeInv, Messages, Fetching
<1>. QED BY <1>1, <1>5, <1>6, <1>7 DEF TypeInv
-----------------------------------------------------------------------------
\* Every step keeps TypeInv.
LEMMA StepType == ASSUME TypeInv, [Next]_vars PROVE TypeInv'
<1>1. CASE UNCHANGED vars
  <2>1. UNCHANGED <<cl, conn, sv, update_time, clock, maxno, events, databases, passed, slipped>>
    BY <1>1 DEF vars
  <2>2. Vars'
    BY <2>1, TypeParts DEF Vars, databases
  <2>. QED BY <2>1, <2>2, Unmoved, TypeParts DEF TypeInv
<1>2. ASSUME Server \/ SendBreaks \/ LinkLost PROVE TypeInv'
  BY <1>2, ListSitesType, OpenPortType, PortType, EndType DEF Server
<1>. QED BY <1>1, <1>2, EnvironmentType, StartType, ClientType DEF Next

\* The exchange keeps the types of its state: the client only reads the answer it
\* expects where it takes one for granted, calls only ports that arserver has
\* opened, never works on an empty list, and retries within its limit.
THEOREM ExchangeTypeCorrect == Spec => []TypeOK
<1>1. Spec => []TypeInv
  BY InitType, StepType, PTL DEF Spec
<1>. QED BY <1>1, TypeShows, PTL

\* A step never sets the date back.
LEMMA StepForward == ASSUME TypeInv, [Next]_vars PROVE update_time <= update_time'
<1>. USE TypeParts
<1>1. update_time \in Nat
  BY NumberFacts
<1>2. CASE Save
  <2>1. Fetching
    BY <1>2 DEF Save, TypeInv, Messages
  <2>. QED BY <1>2, <2>1 DEF Save, Fetching
<1>3. ASSUME ~ Save  PROVE UNCHANGED update_time
  BY <1>3 DEF Next, vars, Environment, Tick, RemoteUpdate, RemoteDeletion, LocalDeletion, Enter, StartRun, Client,
     ReadTuples, ListFails, AskSite, WriteDies, ReadPort, ReadError, ReadEnd, Dial, DialFails, Receive,
     ReceiveNothing, ReceiveFails, Quit, ReceiveDies, ClientDies, Server, ListSites, OpenPort, Accept, HeaderFails,
     Timeout, Send, ServerEnds, SendBreaks, LinkLost
<1>. QED BY <1>1, <1>2, <1>3

\* do_client: an exchange never sets the date back, whatever list, limit and order
\* of equal times it meets.
THEOREM ExchangeDateForward == Spec => DateForward
<1>1. TypeInv /\ [Next]_vars => [update_time <= update_time']_update_time
  BY StepForward
<1>. QED BY <1>1, InitType, StepType, PTL DEF Spec, DateForward
-----------------------------------------------------------------------------
(***************************************************************************)
(* No listing is passed without a trace.  A listing of the other server     *)
(* whose time is not passed yet must be here, or among what the run will    *)
(* ask for or report as lost, all the way from the list to the new date.    *)
(***************************************************************************)
\* The other server offers a listing of the site, and no trace of it is due.
Open(s) == remote[s].status = "active" /\ <<s, remote[s].time>> \notin passed

Tuple(s) == [site |-> s, time |-> remote[s].time]

\* A listing at least as new is here or in the spool directory.
HasListing(s) ==
    \/ remote[s].time <= local[s].time
    \/ \E f \in spool : f.site = s /\ f.kind = "listing" /\ remote[s].time <= f.time

\* The date this run works for.
Bound == IF cl.pc \in {"idle", "list"} THEN update_time ELSE cl.next

Stored == \A s \in Sites : Open(s) /\ remote[s].time <= update_time => HasListing(s)

\* A list contains every listing it would let the date pass.
Offers(list) ==
    \A s \in Sites :
        Open(s) /\ update_time < remote[s].time /\ remote[s].time <= NextDate(list, cl.now)
            => \E i \in DOMAIN list : list[i] = Tuple(s)

Offered == cl.pc = "list" => \A i \in DOMAIN conn.toClient : Offers(conn.toClient[i].list)

Due(s) == <<s, remote[s].time>> \in cl.lost \/ \E i \in DOMAIN cl.todo : cl.todo[i] = Tuple(s)

Planned ==
    cl.pc \notin {"idle", "list"} =>
        \A s \in Sites : Open(s) /\ remote[s].time <= cl.next => HasListing(s) \/ Due(s)

\* What was sent is what is still offered.
Sent ==
    \A p \in DOMAIN sv.ports :
        LET s == sv.ports[p].site IN
        sv.ports[p].st = "sent" /\ Open(s) /\ remote[s].time <= Bound
            => sv.ports[p].data.kind = "listing" /\ sv.ports[p].data.time = remote[s].time

Emptied == cl.pc = "save" => cl.todo = <<>>

Accounted == Stored /\ Offered /\ Planned /\ Sent /\ Emptied

\* What NothingSkipped says follows from the stronger account of every active site.
LEMMA AccountedShows == TypeInv /\ Accounted => NothingSkipped
<1>. SUFFICES ASSUME TypeInv, Accounted, NEW s \in Sites,
                     remote[s].status = "active", remote[s].time <= update_time,
                     <<s, remote[s].time>> \notin passed
              PROVE  Has(s, remote[s].time)
  BY DEF NothingSkipped
<1>1. HasListing(s)
  BY DEF Accounted, Stored, Open
<1>2. remote[s].time \in Nat /\ local[s].time \in Nat /\ \A f \in spool : f.time \in Nat
  BY TypeParts, NumberFacts DEF Records, Files
<1>3. \A a, b \in Nat : a <= b => b >= a
  OBVIOUS
<1>. QED BY <1>1, <1>2, <1>3, Zenon DEF HasListing, Has

\* Nothing lies before the first saved date.
LEMMA InitAccounted == Init => Accounted
<1>. SUFFICES ASSUME Init PROVE Accounted
  OBVIOUS
<1>1. ASSUME NEW s \in Sites, remote[s].time <= update_time  PROVE HasListing(s)
  <2>1. local[s].time = 0 /\ update_time = 0
    BY DEF Init, NoRec, Rec
  <2>. QED BY <1>1, <2>1 DEF HasListing
<1>2. cl.pc = "idle" /\ sv.ports = <<>>
  BY DEF Init, NoRun, NoServer
<1>. QED BY <1>1, <1>2 DEF Accounted, Stored, Offered, Planned, Sent, Emptied

\* What the two databases, the spool directory and passed do not disturb.
LEMMA StoredStays ==
    ASSUME Accounted, UNCHANGED <<databases, update_time, passed>>
    PROVE  Stored' /\ \A s \in Sites : (Open(s)' <=> Open(s)) /\ (HasListing(s)' <=> HasListing(s))
BY DEF databases, Accounted, Stored, Open, HasListing

\* What was sent is still what is offered when no port sends anew.
LEMMA SentStays ==
    ASSUME Accounted, TypeInv, UNCHANGED <<remote, passed>>, Bound' \in Nat, Bound \in Nat, Bound' <= Bound,
           \A p \in DOMAIN sv'.ports :
              sv'.ports[p].st = "sent" =>
                 /\ p \in DOMAIN sv.ports /\ sv.ports[p].st = "sent"
                 /\ sv'.ports[p].site = sv.ports[p].site /\ sv'.ports[p].data = sv.ports[p].data
    PROVE  Sent'
<1>. SUFFICES ASSUME NEW p \in DOMAIN sv'.ports, sv'.ports[p].st = "sent",
                     Open(sv.ports[p].site)', remote'[sv'.ports[p].site].time <= Bound'
              PROVE  sv'.ports[p].data.kind = "listing" /\ sv'.ports[p].data.time = remote'[sv'.ports[p].site].time
  BY DEF Sent
<1>1. /\ p \in DOMAIN sv.ports /\ sv.ports[p].st = "sent"
      /\ sv'.ports[p].site = sv.ports[p].site /\ sv'.ports[p].data = sv.ports[p].data
  OBVIOUS
<1>. DEFINE s == sv.ports[p].site
<1>2. s \in Sites
  <2>1. sv.ports[p] \in Ports
    BY <1>1, TypeParts
  <2>. QED BY <2>1 DEF Ports
<1>3. Open(s)
  BY <1>1 DEF Open
<1>4. remote[s].time \in Nat
  BY <1>2, TypeParts, NumberFacts DEF Records
<1>5. remote[s].time <= Bound
  BY <1>1, <1>4
<1>. QED BY <1>1, <1>3, <1>5 DEF Accounted, Sent

\* The date of the next listing depends on the list, the time of the run and
\* what the configuration holds.
LEMMA NextDateSame ==
    ASSUME UNCHANGED <<update_time, maxno>>, cl'.now = cl.now, NEW i, NEW j,
           conn'.toClient[i].list = conn.toClient[j].list
    PROVE  NextDate(conn.toClient[i].list, cl.now)' = NextDate(conn.toClient[j].list, cl.now)
BY DEF NextDate, Cut, Max_date

\* The numbers the account compares are natural, and the saved date is at most the bound.
LEMMA BoundFacts ==
    ASSUME TypeInv
    PROVE  /\ Bound \in Nat /\ update_time \in Nat /\ cl.next \in Nat /\ update_time <= Bound
           /\ cl.pc \notin {"idle", "list"} => update_time <= cl.next
           /\ \A s \in Sites : remote[s].time \in Nat /\ local[s].time \in Nat
           /\ \A f \in spool : f.time \in Nat /\ f.site \in Sites
<1>1. cl.next \in Nat /\ update_time \in Nat
  BY TypeParts, NumberFacts DEF Runs
<1>2. cl.pc \notin {"idle", "list"} => update_time <= cl.next
  BY DEF TypeInv, Messages, Fetching
<1>3. Bound \in Nat /\ update_time <= Bound
  BY <1>1, <1>2 DEF Bound
<1>4. /\ \A s \in Sites : remote[s].time \in Nat /\ local[s].time \in Nat
      /\ \A f \in spool : f.time \in Nat /\ f.site \in Sites
  BY TypeParts, NumberFacts DEF Records, Files
<1>. QED BY <1>1, <1>2, <1>3, <1>4

\* The date a change of the other server is compared with.
LEMMA HorizonFacts ==
    ASSUME TypeInv
    PROVE  /\ Horizon \in Nat /\ Bound <= Horizon
           /\ cl.pc = "list" => \A i \in DOMAIN conn.toClient :
                 NextDate(conn.toClient[i].list, cl.now) \in Nat /\ NextDate(conn.toClient[i].list, cl.now) <= Horizon
<1>. USE TypeParts
<1>1. update_time \in Times /\ cl.next \in Times
  BY DEF Runs
<1>2. CASE cl.pc = "list" /\ conn.toClient # <<>>
  <2>. DEFINE list == Head(conn.toClient).list
              n == NextDate(list, cl.now)
  <2>1. Head(conn.toClient).cmd = "TUPLELIST" /\ n \in Times /\ Tail(conn.toClient) = <<>>
    BY <1>2, ListFacts
  <2>2. Horizon = Larger(update_time, n)
    BY <1>2, <2>1 DEF Horizon
  <2>3. Horizon \in Nat /\ update_time <= Horizon /\ n <= Horizon /\ n \in Nat
    <3>. HIDE DEF n
    <3>1. Larger(update_time, n) \in Times /\ Larger(update_time, n) >= update_time /\ Larger(update_time, n) >= n
      BY <1>1, <2>1, NumberFacts
    <3>2. \A a, b \in Nat : a >= b => b <= a
      OBVIOUS
    <3>3. Larger(update_time, n) \in Nat /\ update_time \in Nat /\ n \in Nat
      BY <3>1, <1>1, <2>1, NumberFacts
    <3>. QED BY <2>2, <3>1, <3>2, <3>3, Zenon
  <2>4. DOMAIN conn.toClient = {1} /\ conn.toClient[1].list = list
    <3>1. conn.toClient \in Seq(Answers)
      BY DEF Conns
    <3>2. DOMAIN conn.toClient = 1 .. Len(conn.toClient) /\ Len(conn.toClient) \in Nat
      BY <3>1
    <3>3. Len(conn.toClient) - 1 = 0
      <4>1. Len(Tail(conn.toClient)) = Len(conn.toClient) - 1
        BY <1>2, <3>1
      <4>2. Len(Tail(conn.toClient)) = 0
        <5>1. Len(<<>>) = 0
          OBVIOUS
        <5>. HIDE DEF n
        <5>. QED BY <2>1, <5>1, Zenon
      <4>. QED BY <4>1, <4>2
    <3>4. Len(conn.toClient) = 1
      BY <3>2, <3>3
    <3>5. 1 .. 1 = {1}
      OBVIOUS
    <3>6. Head(conn.toClient) = conn.toClient[1]
      BY <3>1, <1>2
    <3>. QED BY <3>2, <3>4, <3>5, <3>6
  <2>. HIDE DEF n, list
  <2>5. \A i \in DOMAIN conn.toClient : NextDate(conn.toClient[i].list, cl.now) = n
    BY <2>4 DEF n
  <2>. QED BY <1>2, <2>3, <2>5 DEF Bound
<1>3. CASE cl.pc = "list" /\ conn.toClient = <<>>
  <2>1. Horizon = update_time /\ DOMAIN conn.toClient = {}
    BY <1>3 DEF Horizon
  <2>. QED BY <1>1, <1>3, <2>1, NumberFacts DEF Bound
<1>4. CASE cl.pc = "idle"
  <2>1. Horizon = update_time
    BY <1>4 DEF Horizon
  <2>. QED BY <1>1, <1>4, <2>1, NumberFacts DEF Bound
<1>5. CASE cl.pc \notin {"idle", "list"}
  <2>1. Horizon = Larger(update_time, cl.next)
    BY <1>5 DEF Horizon
  <2>2. Horizon \in Times /\ Horizon >= cl.next
    BY <1>1, <2>1, NumberFacts
  <2>3. Horizon \in Nat /\ cl.next \in Nat
    BY <1>1, <2>2, NumberFacts
  <2>. QED BY <1>5, <2>2, <2>3 DEF Bound
<1>. QED BY <1>2, <1>3, <1>4, <1>5

\* The databases change, nothing else: what is open after it was open before, and
\* what was here stays.
LEMMA DatabaseStep ==
    ASSUME TypeInv, Accounted, UNCHANGED <<cl, conn, sv, update_time, maxno>>,
           \A s \in Sites :
              /\ HasListing(s) /\ Open(s)' => HasListing(s)' \/ Horizon < remote'[s].time
              /\ Open(s)' => (Open(s) /\ remote'[s].time = remote[s].time) \/ Horizon < remote'[s].time,
           \A s \in Sites : remote'[s].time \in Nat
    PROVE  Accounted'
<1>. USE BoundFacts, HorizonFacts
<1>1. Bound' = Bound
  BY DEF Bound
<1>2. ASSUME NEW s \in Sites, Open(s)', remote'[s].time <= Horizon
      PROVE  Open(s) /\ remote'[s].time = remote[s].time /\ (HasListing(s) => HasListing(s)')
  <2>1. ~ (Horizon < remote'[s].time)
    BY <1>2
  <2>. QED BY <1>2, <2>1, Zenon
<1>3. Stored'
  <2>. SUFFICES ASSUME NEW s \in Sites, Open(s)', remote'[s].time <= update_time PROVE HasListing(s)'
    BY DEF Stored
  <2>1. remote'[s].time <= Horizon
    OBVIOUS
  <2>2. Open(s) /\ remote'[s].time = remote[s].time /\ (HasListing(s) => HasListing(s)')
    BY <1>2, <2>1
  <2>. QED BY <2>2 DEF Accounted, Stored
<1>4. Offered'
  <2>. SUFFICES ASSUME cl.pc = "list", NEW i \in DOMAIN conn.toClient, NEW s \in Sites, Open(s)',
                       update_time < remote'[s].time, remote'[s].time <= NextDate(conn.toClient[i].list, cl.now)'
                PROVE  \E j \in DOMAIN conn.toClient[i].list : conn.toClient[i].list[j] = Tuple(s)'
    BY DEF Offered, Offers
  <2>. DEFINE list == conn.toClient[i].list
  <2>1. NextDate(list, cl.now)' = NextDate(list, cl.now)
    BY NextDateSame
  <2>2. NextDate(list, cl.now) \in Nat /\ NextDate(list, cl.now) <= Horizon
    BY HorizonFacts
  <2>3. remote'[s].time <= Horizon
    BY <2>1, <2>2
  <2>4. Open(s) /\ remote'[s].time = remote[s].time
    BY <1>2, <2>3
  <2>5. Tuple(s)' = Tuple(s)
    BY <2>4 DEF Tuple
  <2>. QED BY <2>1, <2>4, <2>5 DEF Accounted, Offered, Offers
<1>5. Planned'
  <2>. SUFFICES ASSUME cl.pc \notin {"idle", "list"}, NEW s \in Sites, Open(s)', remote'[s].time <= cl.next
                PROVE  HasListing(s)' \/ Due(s)'
    BY DEF Planned
  <2>1. remote'[s].time <= Horizon
    BY DEF Bound
  <2>2. Open(s) /\ remote'[s].time = remote[s].time /\ (HasListing(s) => HasListing(s)')
    BY <1>2, <2>1
  <2>3. Due(s)' <=> Due(s)
    BY <2>2 DEF Due, Tuple
  <2>. QED BY <2>2, <2>3 DEF Accounted, Planned
<1>6. Sent'
  <2>. SUFFICES ASSUME NEW p \in DOMAIN sv.ports, sv.ports[p].st = "sent",
                       Open(sv.ports[p].site)', remote'[sv.ports[p].site].time <= Bound
                PROVE  sv.ports[p].data.kind = "listing" /\ sv.ports[p].data.time = remote'[sv.ports[p].site].time
    BY <1>1 DEF Sent
  <2>. DEFINE s == sv.ports[p].site
  <2>1. s \in Sites
    <3>1. sv.ports[p] \in Ports
      BY TypeParts
    <3>. QED BY <3>1 DEF Ports
  <2>2. remote'[s].time <= Horizon
    BY <2>1
  <2>3. Open(s) /\ remote'[s].time = remote[s].time
    BY <1>2, <2>1, <2>2
  <2>. QED BY <2>3 DEF Accounted, Sent
<1>7. Emptied'
  BY DEF Accounted, Emptied
<1>. QED BY <1>3, <1>4, <1>5, <1>6, <1>7 DEF Accounted

\* A listing that appears at the other server is beyond the horizon, or noted in passed.
LEMMA EnvironmentAccounted == ASSUME TypeInv, Accounted, Environment PROVE Accounted'
<1>. USE BoundFacts
<1>0. TypeInv' /\ \A s \in Sites : remote'[s].time \in Nat
  <2>1. TypeInv'
    BY EnvironmentType
  <2>2. remote' \in [Sites -> Records]
    BY <2>1 DEF TypeInv, Vars
  <2>. QED BY <2>1, <2>2, NumberFacts DEF Records
<1>1. CASE Tick
  <2>1. UNCHANGED <<databases, cl, conn, sv, update_time, maxno, passed>>
    BY <1>1 DEF Tick
  <2>2. \A s \in Sites : (HasListing(s)' <=> HasListing(s)) /\ (Open(s)' <=> Open(s)) /\ remote'[s].time = remote[s].time
    BY <2>1 DEF databases, HasListing, Open
  <2>3. UNCHANGED <<cl, conn, sv, update_time, maxno>>
    BY <2>1
  <2>. QED BY <1>0, <2>2, <2>3, DatabaseStep
<1>2. ASSUME NEW s \in Sites, RemoteUpdate(s)  PROVE Accounted'
  <2>1. PICK t \in {clock - 1, clock} :
          /\ remote[s].time < t
          /\ remote' = [remote EXCEPT ![s] = Rec("active", t)]
          /\ passed' = IF t <= Horizon THEN passed \cup {<<s, t>>} ELSE passed
    BY <1>2 DEF RemoteUpdate
  <2>2. UNCHANGED <<local, spool, cl, conn, sv, update_time, maxno>>
    BY <1>2 DEF RemoteUpdate
  <2>3. remote'[s] = Rec("active", t) /\ remote'[s].time = t
    BY <2>1, TypeParts DEF Rec
  <2>4. t \in Nat /\ Horizon \in Nat
    BY <1>0, <2>3, HorizonFacts
  <2>5. Open(s)' => Horizon < remote'[s].time
    <3>1. CASE t <= Horizon
      BY <2>1, <2>3, <3>1 DEF Open
    <3>2. CASE ~ (t <= Horizon)
      BY <2>3, <2>4, <3>2
    <3>. QED BY <3>1, <3>2
  <2>6. ASSUME NEW r \in Sites, r # s
        PROVE  (Open(r)' => Open(r)) /\ remote'[r].time = remote[r].time /\ (HasListing(r) => HasListing(r)')
    <3>1. remote'[r] = remote[r]
      BY <2>1, <2>6, TypeParts
    <3>2. passed \subseteq passed'
      BY <2>1
    <3>. QED BY <2>2, <3>1, <3>2 DEF Open, HasListing
  <2>7. UNCHANGED <<cl, conn, sv, update_time, maxno>>
    BY <2>2
  <2>8. \A r \in Sites :
           /\ HasListing(r) /\ Open(r)' => HasListing(r)' \/ Horizon < remote'[r].time
           /\ Open(r)' => (Open(r) /\ remote'[r].time = remote[r].time) \/ Horizon < remote'[r].time
    BY <2>5, <2>6
  <2>. QED BY <1>0, <2>7, <2>8, DatabaseStep
<1>3. ASSUME NEW s \in Sites, RemoteDeletion(s)  PROVE Accounted'
  <2>1. UNCHANGED <<local, spool, passed, cl, conn, sv, update_time, maxno>>
    BY <1>3 DEF RemoteDeletion
  <2>2. remote'[s].status # "active"
    BY <1>3, TypeParts DEF RemoteDeletion, NoRec, Rec, Records
  <2>3. \A r \in Sites : r # s => remote'[r] = remote[r]
    BY <1>3, TypeParts DEF RemoteDeletion
  <2>4. ~ Open(s)'
    BY <2>2 DEF Open
  <2>5. \A r \in Sites : r # s => (Open(r)' => Open(r)) /\ (HasListing(r) => HasListing(r)')
    BY <2>1, <2>3 DEF Open, HasListing
  <2>6. \A r \in Sites :
           /\ HasListing(r) /\ Open(r)' => HasListing(r)' \/ Horizon < remote'[r].time
           /\ Open(r)' => (Open(r) /\ remote'[r].time = remote[r].time) \/ Horizon < remote'[r].time
    BY <2>3, <2>4, <2>5
  <2>7. UNCHANGED <<cl, conn, sv, update_time, maxno>>
    BY <2>1
  <2>. QED BY <1>0, <2>6, <2>7, DatabaseStep
<1>4. ASSUME UNCHANGED <<remote, cl, conn, sv, update_time, maxno, passed>>,
             \A r \in Sites : HasListing(r) => HasListing(r)'
      PROVE  Accounted'
  <2>1. \A r \in Sites : (Open(r)' => Open(r)) /\ remote'[r].time = remote[r].time
    BY <1>4 DEF Open
  <2>2. \A r \in Sites :
           /\ HasListing(r) /\ Open(r)' => HasListing(r)' \/ Horizon < remote'[r].time
           /\ Open(r)' => (Open(r) /\ remote'[r].time = remote[r].time) \/ Horizon < remote'[r].time
    BY <1>4, <2>1
  <2>3. UNCHANGED <<cl, conn, sv, update_time, maxno>>
    BY <1>4
  <2>. QED BY <1>0, <2>2, <2>3, DatabaseStep
<1>5. ASSUME NEW s \in Sites, LocalDeletion(s)  PROVE Accounted'
  <2>1. UNCHANGED <<remote, spool, cl, conn, sv, update_time, maxno, passed>>
    BY <1>5 DEF LocalDeletion
  <2>2. \A r \in Sites : local'[r].time = local[r].time
    BY <1>5, TypeParts DEF LocalDeletion, Records
  <2>3. \A r \in Sites : HasListing(r) => HasListing(r)'
    BY <2>1, <2>2 DEF HasListing
  <2>. QED BY <1>4, <2>1, <2>3
<1>6. ASSUME NEW f \in spool, Enter(f)  PROVE Accounted'
  <2>1. UNCHANGED <<remote, cl, conn, sv, update_time, maxno, passed>>
    BY <1>6 DEF Enter
  <2>2. f \in Files /\ f.site \in Sites
    BY TypeParts DEF Files
  <2>3. local' = [local EXCEPT ![f.site] = Entered(f)] /\ spool' = spool \ {f}
    BY <1>6 DEF Enter
  <2>4. /\ Entered(f).time \in Nat /\ local[f.site].time <= Entered(f).time
        /\ f.kind = "listing" => f.time <= Entered(f).time
    <3>1. local[f.site].time \in Nat /\ f.time \in Nat
      BY <2>2
    <3>2. CASE f.kind = "listing" /\ local[f.site].time <= f.time
      <4>1. Entered(f) = Rec("active", f.time)
        BY <3>2 DEF Entered
      <4>. QED BY <3>1, <3>2, <4>1 DEF Rec
    <3>3. CASE f.kind = "listing" /\ ~ (local[f.site].time <= f.time)
      <4>1. Entered(f) = local[f.site]
        BY <3>3 DEF Entered
      <4>. QED BY <3>1, <3>3, <4>1
    <3>4. CASE f.kind # "listing"
      <4>1. Entered(f).time = local[f.site].time
        BY <3>4 DEF Entered, Rec
      <4>. QED BY <3>1, <3>4, <4>1
    <3>. QED BY <3>2, <3>3, <3>4
  <2>5. \A r \in Sites : local'[r].time = IF r = f.site THEN Entered(f).time ELSE local[r].time
    BY <2>3, TypeParts
  <2>6. ASSUME NEW r \in Sites, HasListing(r)  PROVE HasListing(r)'
    <3>1. CASE remote[r].time <= local[r].time
      <4>1. local[r].time <= local'[r].time /\ local'[r].time \in Nat /\ local[r].time \in Nat /\ remote[r].time \in Nat
        BY <2>4, <2>5
      <4>2. remote[r].time <= local'[r].time
        BY <3>1, <4>1
      <4>. QED BY <2>1, <4>2 DEF HasListing
    <3>2. ASSUME NEW g \in spool, g.site = r, g.kind = "listing", remote[r].time <= g.time
          PROVE  HasListing(r)'
      <4>1. CASE g # f
        BY <2>1, <2>3, <3>2, <4>1 DEF HasListing
      <4>2. CASE g = f
        <5>1. g.time <= local'[r].time /\ local'[r].time \in Nat /\ g.time \in Nat /\ remote[r].time \in Nat
          BY <2>4, <2>5, <3>2, <4>2
        <5>2. remote[r].time <= local'[r].time
          BY <3>2, <5>1
        <5>. QED BY <2>1, <5>2 DEF HasListing
      <4>. QED BY <4>1, <4>2
    <3>. QED BY <2>6, <3>1, <3>2 DEF HasListing
  <2>. QED BY <1>4, <2>1, <2>6
<1>. QED BY <1>1, <1>2, <1>3, <1>5, <1>6 DEF Environment

\* The start and the end of a run that stores nothing.
LEMMA StartAccounted == ASSUME TypeInv, Accounted, StartRun PROVE Accounted'
<1>1. /\ UNCHANGED <<databases, update_time, passed>>
      /\ cl' = [NoRun EXCEPT !.pc = "list", !.now = clock] /\ sv' = [NoServer EXCEPT !.pc = "ready"]
      /\ conn'.toClient = <<>>
  BY DEF StartRun, NoConn
<1>2. cl'.pc = "list" /\ sv'.ports = <<>>
  BY <1>1 DEF NoRun, NoServer
<1>3. Stored'
  BY <1>1, StoredStays
<1>. QED BY <1>1, <1>2, <1>3 DEF Accounted, Offered, Planned, Sent, Emptied

\* A run that is given up leaves the saved date as it was.
LEMMA AbandonAccounted ==
    ASSUME TypeInv, Accounted, Abandon, UNCHANGED <<databases, update_time, passed, sv>>
    PROVE  Accounted'
<1>. USE BoundFacts
<1>1. cl'.pc = "idle"
  BY DEF Abandon, NoRun
<1>2. Bound' = update_time
  BY <1>1 DEF Bound
<1>3. Stored'
  BY StoredStays
<1>4. Sent'
  <2>1. UNCHANGED <<remote, passed>>
    BY DEF databases
  <2>2. Bound' \in Nat /\ Bound \in Nat /\ Bound' <= Bound
    BY <1>2
  <2>3. \A p \in DOMAIN sv'.ports :
           sv'.ports[p].st = "sent" =>
              /\ p \in DOMAIN sv.ports /\ sv.ports[p].st = "sent"
              /\ sv'.ports[p].site = sv.ports[p].site /\ sv'.ports[p].data = sv.ports[p].data
    OBVIOUS
  <2>. QED BY <2>1, <2>2, <2>3, SentStays
<1>. QED BY <1>1, <1>3, <1>4 DEF Accounted, Offered, Planned, Emptied

\* A run goes on with what is due, and what was sent stays.
LEMMA RunAccounted ==
    ASSUME TypeInv, Accounted, UNCHANGED <<databases, update_time, passed>>,
           cl.pc \notin {"idle", "list"}, cl'.pc \notin {"idle", "list"}, cl'.next = cl.next,
           cl'.pc = "save" => cl'.todo = <<>>,
           \A s \in Sites : Due(s) => Due(s)',
           \A p \in DOMAIN sv'.ports :
              sv'.ports[p].st = "sent" =>
                 /\ p \in DOMAIN sv.ports /\ sv.ports[p].st = "sent"
                 /\ sv'.ports[p].site = sv.ports[p].site /\ sv'.ports[p].data = sv.ports[p].data
    PROVE  Accounted'
<1>. USE BoundFacts
<1>1. /\ Stored' /\ \A s \in Sites : (Open(s)' <=> Open(s)) /\ (HasListing(s)' <=> HasListing(s))
      /\ UNCHANGED <<remote, passed>>
  BY StoredStays DEF databases
<1>2. Bound' = Bound /\ Bound \in Nat
  BY DEF Bound
<1>3. Sent'
  <2>1. Bound' \in Nat /\ Bound' <= Bound
    BY <1>2
  <2>. QED BY <1>1, <1>2, <2>1, SentStays
<1>4. Planned'
  BY <1>1 DEF Accounted, Planned
<1>. QED BY <1>1, <1>3, <1>4 DEF Accounted, Offered, Emptied

\* The tail of what is to be fetched, with a trace of the head.
LEMMA DueTail ==
    ASSUME cl.todo \in Seq(Tuples), cl.todo # <<>>, UNCHANGED remote, cl'.todo = Tail(cl.todo),
           cl.lost \subseteq cl'.lost, NEW s \in Sites, Due(s),
           Head(cl.todo) = Tuple(s) => <<s, remote[s].time>> \in cl'.lost
    PROVE  Due(s)'
<1>1. CASE <<s, remote[s].time>> \in cl.lost
  BY <1>1 DEF Due
<1>2. ASSUME NEW i \in DOMAIN cl.todo, cl.todo[i] = Tuple(s)  PROVE Due(s)'
  <2>1. Tuple(s)' = Tuple(s)
    BY DEF Tuple
  <2>2. CASE i = 1
    <3>1. Head(cl.todo) = cl.todo[1]
      OBVIOUS
    <3>. QED BY <1>2, <2>2, <3>1 DEF Due
  <2>3. CASE i # 1
    <3>1. i - 1 \in DOMAIN Tail(cl.todo) /\ Tail(cl.todo)[i - 1] = cl.todo[i]
      BY <2>3
    <3>. QED BY <1>2, <2>1, <3>1 DEF Due
  <2>. QED BY <2>2, <2>3
<1>. QED BY <1>1, <1>2 DEF Due

\* The tuple the client works on is that of a site of the remote server.
LEMMA HeadTuple ==
    ASSUME TypeInv, cl.todo # <<>>, NEW s \in Sites, Head(cl.todo) = Tuple(s)
    PROVE  <<Site, Head(cl.todo).time>> = <<s, remote[s].time>>
BY DEF Tuple, Site

\* A site that is given up leaves its trace.
LEMMA GiveUpAccounted ==
    ASSUME TypeInv, Accounted, cl.pc \in {"answer", "dial", "receive"}, GiveUpSite,
           UNCHANGED <<databases, update_time, passed, sv>>
    PROVE  Accounted'
<1>1. /\ cl'.pc = "ask" /\ cl'.next = cl.next /\ cl'.todo = Tail(cl.todo)
      /\ cl'.lost = cl.lost \cup {<<Site, Head(cl.todo).time>>}
  BY GiveUpFacts
<1>2. cl.todo \in Seq(Tuples) /\ cl.todo # <<>>
  BY NextSiteFacts
<1>3. UNCHANGED remote
  BY DEF databases
<1>4. ASSUME NEW s \in Sites, Due(s)  PROVE Due(s)'
  <2>1. Head(cl.todo) = Tuple(s) => <<s, remote[s].time>> \in cl'.lost
    BY <1>1, <1>2, HeadTuple
  <2>2. cl.lost \subseteq cl'.lost
    BY <1>1
  <2>. QED BY <1>1, <1>2, <1>3, <1>4, <2>1, <2>2, DueTail
<1>5. \A p \in DOMAIN sv'.ports :
         sv'.ports[p].st = "sent" =>
            /\ p \in DOMAIN sv.ports /\ sv.ports[p].st = "sent"
            /\ sv'.ports[p].site = sv.ports[p].site /\ sv'.ports[p].data = sv.ports[p].data
  OBVIOUS
<1>. QED BY <1>1, <1>4, <1>5, RunAccounted

\* What is to be fetched stays.
LEMMA GoesOnAccounted ==
    ASSUME TypeInv, Accounted,
           AskSite \/ Quit \/ ReadPort \/ Dial \/ (ReceiveFails /\ cl'.pc = "answer")
    PROVE  Accounted'
<1>1. UNCHANGED <<databases, update_time, passed>>
  BY DEF AskSite, Quit, ReadPort, Dial, ReceiveFails
<1>2. cl.pc \notin {"idle", "list"}
  BY DEF AskSite, Quit, ReadPort, Dial, ReceiveFails
<1>3. /\ cl'.next = cl.next /\ cl'.todo = cl.todo /\ cl'.lost = cl.lost
      /\ cl'.pc \notin {"idle", "list"} /\ (cl'.pc = "save" => cl'.todo = <<>>)
  <2>1. cl \in Runs
    BY TypeParts
  <2>2. CASE AskSite
    BY <2>1, <2>2 DEF AskSite, Runs
  <2>3. CASE Quit
    BY <2>1, <2>3 DEF Quit, Runs
  <2>4. CASE ReadPort
    BY <2>1, <2>4 DEF ReadPort, Runs
  <2>5. CASE Dial
    BY <2>1, <2>5 DEF Dial, Runs
  <2>6. CASE ReceiveFails /\ cl'.pc = "answer"
    <3>1. cl.pc \in {"answer", "dial", "receive"} /\ ~ GiveUpSite
      BY <2>6, GiveUpFacts DEF ReceiveFails
    <3>. QED BY <2>1, <2>6, <3>1 DEF ReceiveFails, Runs
  <2>. QED BY <2>2, <2>3, <2>4, <2>5, <2>6
<1>4. \A s \in Sites : Due(s) => Due(s)'
  BY <1>1, <1>3 DEF Due, Tuple, databases
<1>5. \A p \in DOMAIN sv'.ports :
         sv'.ports[p].st = "sent" =>
            /\ p \in DOMAIN sv.ports /\ sv.ports[p].st = "sent"
            /\ sv'.ports[p].site = sv.ports[p].site /\ sv'.ports[p].data = sv.ports[p].data
  <2>1. CASE Dial
    <3>1. PICK st \in {"stale", "dialed"} : sv' = [sv EXCEPT !.ports = SetPort(cl.port, st)]
      BY <2>1 DEF Dial
    <3>2. sv \in Servers /\ sv.ports \in Seq(Ports)
      BY TypeParts DEF Servers
    <3>3. sv'.ports = SetPort(cl.port, st)
      BY <3>1, <3>2 DEF Servers
    <3>4. DOMAIN SetPort(cl.port, st) = DOMAIN sv.ports
      BY <3>2 DEF SetPort
    <3>5. ASSUME NEW p \in DOMAIN sv.ports
          PROVE  /\ SetPort(cl.port, st)[p].st = IF p = cl.port THEN st ELSE sv.ports[p].st
                 /\ SetPort(cl.port, st)[p].site = sv.ports[p].site
                 /\ SetPort(cl.port, st)[p].data = sv.ports[p].data
      <4>1. sv.ports[p] \in Ports
        BY TypeParts
      <4>. QED BY <3>2, <4>1 DEF SetPort, Ports
    <3>. QED BY <3>3, <3>4, <3>5
  <2>2. CASE ~ Dial
    BY <2>2 DEF AskSite, Quit, ReadPort, ReceiveFails
  <2>. QED BY <2>1, <2>2
<1>. QED BY <1>1, <1>2, <1>3, <1>4, <1>5, RunAccounted

\* What arrives is what is still offered, and a file it replaces is of that site.
LEMMA ReceiveAccounted == ASSUME TypeInv, Accounted, Receive PROVE Accounted'
<1>. USE BoundFacts
<1>1. /\ cl.pc = "receive" /\ sv.ports[cl.port].st = "sent"
      /\ UNCHANGED <<remote, local, update_time, sv, passed>>
  BY DEF Receive
<1>2. PICK old \in SUBSET {f \in spool : f.site = DataSite} :
         spool' = (spool \ old) \cup {[site |-> DataSite, kind |-> Data.kind, time |-> Data.time]}
  BY ReceiveFacts
<1>3. /\ cl'.pc = "ask" /\ cl'.next = cl.next /\ cl'.todo = Tail(cl.todo)
      /\ cl.todo \in Seq(Tuples) /\ cl.todo # <<>>
      /\ cl'.lost = IF DataSite = Site THEN cl.lost ELSE cl.lost \cup {<<Site, Head(cl.todo).time>>}
  BY <1>1, NextSiteFacts DEF Receive
<1>4. Bound = cl.next /\ Bound' = cl.next
  BY <1>1, <1>3 DEF Bound
<1>5. \A s \in Sites : Open(s)' <=> Open(s)
  BY <1>1 DEF Open
<1>6. cl.port \in DOMAIN sv.ports
  BY <1>1 DEF TypeInv, Places
<1>7. ASSUME NEW s \in Sites, Open(s), remote[s].time <= Bound, s = DataSite  PROVE HasListing(s)'
  <2>1. Data.kind = "listing" /\ Data.time = remote[s].time
    BY <1>1, <1>6, <1>7 DEF Accounted, Sent, DataSite, Data
  <2>. DEFINE f == [site |-> DataSite, kind |-> Data.kind, time |-> Data.time]
  <2>2. f \in spool' /\ f.site = s /\ f.kind = "listing" /\ remote[s].time <= f.time
    BY <1>2, <1>7, <2>1
  <2>. QED BY <1>1, <2>2 DEF HasListing
<1>8. ASSUME NEW s \in Sites, HasListing(s), s # DataSite  PROVE HasListing(s)'
  <2>1. \A f \in spool : f.site = s => f \in spool'
    BY <1>2, <1>8
  <2>. QED BY <1>1, <1>8, <2>1 DEF HasListing
<1>9. Stored'
  <2>. SUFFICES ASSUME NEW s \in Sites, Open(s), remote[s].time <= update_time PROVE HasListing(s)'
    BY <1>1, <1>5 DEF Stored
  <2>1. remote[s].time <= Bound /\ HasListing(s)
    BY DEF Accounted, Stored
  <2>. QED BY <1>7, <1>8, <2>1
<1>10. Planned'
  <2>. SUFFICES ASSUME NEW s \in Sites, Open(s), remote[s].time <= cl.next
                PROVE  HasListing(s)' \/ Due(s)'
    BY <1>1, <1>3, <1>5 DEF Planned
  <2>1. HasListing(s) \/ Due(s)
    BY <1>1 DEF Accounted, Planned
  <2>2. CASE s = DataSite
    BY <1>4, <1>7, <2>2
  <2>3. CASE s # DataSite /\ HasListing(s)
    BY <1>8, <2>3
  <2>4. CASE s # DataSite /\ Due(s)
    <3>1. cl.lost \subseteq cl'.lost
      BY <1>3
    <3>2. Head(cl.todo) = Tuple(s) => <<s, remote[s].time>> \in cl'.lost
      BY <1>3, <2>4, HeadTuple DEF Site, Tuple
    <3>. QED BY <1>1, <1>3, <2>4, <3>1, <3>2, DueTail
  <2>. QED BY <2>1, <2>2, <2>3, <2>4
<1>11. Sent'
  <2>1. \A p \in DOMAIN sv'.ports :
           sv'.ports[p].st = "sent" =>
              /\ p \in DOMAIN sv.ports /\ sv.ports[p].st = "sent"
              /\ sv'.ports[p].site = sv.ports[p].site /\ sv'.ports[p].data = sv.ports[p].data
    BY <1>1
  <2>2. UNCHANGED <<remote, passed>> /\ Bound' \in Nat /\ Bound' <= Bound
    BY <1>1, <1>4
  <2>. QED BY <2>1, <2>2, SentStays
<1>. QED BY <1>3, <1>9, <1>10, <1>11 DEF Accounted, Offered, Emptied

\* Whatever the new date passes is here, or in passed from now on.
LEMMA SaveAccounted == ASSUME TypeInv, Accounted, Save PROVE Accounted'
<1>. USE BoundFacts
<1>1. /\ cl.pc = "save" /\ update_time' = cl.next /\ passed' = passed \cup cl.lost /\ cl' = NoRun
      /\ UNCHANGED <<remote, local, spool, sv>>
  BY DEF Save, databases
<1>2. cl'.pc = "idle" /\ cl.todo = <<>>
  BY <1>1 DEF NoRun, Accounted, Emptied
<1>3. ASSUME NEW s \in Sites, Open(s)'  PROVE Open(s) /\ <<s, remote[s].time>> \notin cl.lost
  BY <1>1, <1>3 DEF Open
<1>4. Stored'
  <2>. SUFFICES ASSUME NEW s \in Sites, Open(s)', remote[s].time <= cl.next PROVE HasListing(s)
    BY <1>1 DEF Stored, HasListing
  <2>1. HasListing(s) \/ Due(s)
    BY <1>1, <1>3 DEF Accounted, Planned
  <2>. QED BY <1>2, <1>3, <2>1 DEF Due
<1>5. Sent'
  <2>1. Bound' = Bound
    BY <1>1, <1>2 DEF Bound
  <2>. SUFFICES ASSUME NEW p \in DOMAIN sv.ports, sv.ports[p].st = "sent", Open(sv.ports[p].site)',
                       remote[sv.ports[p].site].time <= Bound
                PROVE  sv.ports[p].data.kind = "listing" /\ sv.ports[p].data.time = remote[sv.ports[p].site].time
    BY <1>1, <2>1 DEF Sent
  <2>2. sv.ports[p].site \in Sites
    <3>1. sv.ports[p] \in Ports
      BY TypeParts
    <3>. QED BY <3>1 DEF Ports
  <2>3. Open(sv.ports[p].site)
    BY <1>1 DEF Open
  <2>. QED BY <2>1, <2>2, <2>3 DEF Accounted, Sent
<1>. QED BY <1>2, <1>4, <1>5 DEF Accounted, Offered, Planned, Emptied

\* What the list lets the date pass is here, due, or known to be left out.
LEMMA ReadTuplesAccounted == ASSUME TypeInv, Accounted, ReadTuples PROVE Accounted'
<1>. USE BoundFacts
<1>. DEFINE list == Head(conn.toClient).list
            seen == Cut(list)
            n == NextDate(list, cl.now)
<1>1. cl.pc = "list" /\ conn.toClient # <<>> /\ UNCHANGED <<databases, update_time, sv, passed>>
  BY DEF ReadTuples
<1>2. list \in Seq(Tuples) /\ Fresh(list) /\ n \in Times
  BY <1>1, ListFacts
<1>3. PICK todo \in Taken(seen) :
         cl' = [cl EXCEPT !.pc = "ask", !.todo = todo, !.next = n, !.lost = NotFetched(list)]
  BY DEF ReadTuples
<1>4. Offers(list)
  <2>1. 1 \in DOMAIN conn.toClient /\ conn.toClient[1] = Head(conn.toClient)
    <3>1. conn.toClient \in Seq(Answers)
      BY TypeParts DEF Conns
    <3>. QED BY <1>1, <3>1
  <2>. QED BY <1>1, <2>1 DEF Accounted, Offered
<1>5. /\ seen \in Seq(Tuples) /\ DOMAIN seen \subseteq DOMAIN list
      /\ Len(seen) = IF maxno # 0 /\ maxno < Len(list) THEN maxno ELSE Len(list)
      /\ \A i \in DOMAIN seen : seen[i] = list[i]
  <2>. HIDE DEF list
  <2>. QED BY <1>2, CutFacts, TypeParts
<1>6. \A i \in DOMAIN seen : Wanted(seen[i]) => \E j \in DOMAIN todo : todo[j] = seen[i]
  <2>. HIDE DEF seen
  <2>. QED BY <1>3, <1>5, TakenFacts
<1>7. cl'.pc = "ask" /\ cl'.todo = todo /\ cl'.next = n /\ cl'.lost = NotFetched(list)
  <2>. HIDE DEF list, seen, n
  <2>. QED BY <1>3, TypeParts DEF Runs
<1>8. \A i \in DOMAIN list : list[i] \in Tuples /\ list[i].time \in Nat
  <2>1. \A i \in DOMAIN list : list[i] \in Tuples
    BY <1>2
  <2>. QED BY <2>1, NumberFacts DEF Tuples
<1>9. \A i \in DOMAIN list :
         (IF i \in DOMAIN seen THEN local[list[i].site].status = "leaving" /\ local[list[i].site].time < list[i].time
                               ELSE list[i].time = seen[Len(seen)].time)
           => <<list[i].site, list[i].time>> \in NotFetched(list)
  BY DEF NotFetched
<1>10. Stored' /\ \A s \in Sites : (Open(s)' <=> Open(s)) /\ (HasListing(s)' <=> HasListing(s))
  BY <1>1, StoredStays
<1>11. ASSUME NEW s \in Sites, Open(s), remote[s].time <= n, ~ HasListing(s)  PROVE Due(s)'
  <2>1. n \in Nat
    BY <1>2, NumberFacts
  <2>. HIDE DEF n
  <2>2. update_time < remote[s].time
    BY <1>11 DEF Accounted, Stored
  <2>3. PICK i \in DOMAIN list : list[i] = Tuple(s)
    BY <1>4, <1>11, <2>2 DEF Offers, n
  <2>4. list[i].site = s /\ list[i].time = remote[s].time /\ Tuple(s)' = Tuple(s) /\ remote' = remote
    BY <1>1, <2>3 DEF Tuple, databases
  <2>5. CASE i \in DOMAIN seen
    <3>1. ASSUME Wanted(list[i])  PROVE Due(s)'
      <4>1. PICK j \in DOMAIN todo : todo[j] = list[i]
        BY <1>5, <1>6, <2>5, <3>1
      <4>. QED BY <1>7, <2>3, <2>4, <4>1 DEF Due
    <3>2. ASSUME ~ Wanted(list[i])  PROVE Due(s)'
      <4>1. ~ (remote[s].time <= local[s].time)
        BY <1>11 DEF HasListing
      <4>2. local[s].time < remote[s].time
        BY <4>1
      <4>3. local[s].status = "leaving"
        BY <2>4, <3>2, <4>2 DEF Wanted
      <4>4. <<s, remote[s].time>> \in NotFetched(list)
        <5>. HIDE DEF list, seen
        <5>. QED BY <1>9, <2>4, <2>5, <4>2, <4>3
      <4>. QED BY <1>7, <2>4, <4>4 DEF Due
    <3>. QED BY <3>1, <3>2
  <2>6. CASE i \notin DOMAIN seen
    <3>. DEFINE m == Len(seen)
    <3>1. m \in Nat /\ DOMAIN seen = 1 .. m /\ Len(list) \in Nat /\ DOMAIN list = 1 .. Len(list) /\ maxno \in Nat
      <4>. HIDE DEF list, seen
      <4>. QED BY <1>2, <1>5, TypeParts
    <3>. HIDE DEF list, seen, m
    <3>2. maxno # 0 /\ maxno < Len(list) /\ m = maxno /\ m < i
      BY <1>5, <2>6, <3>1 DEF m
    <3>3. n = Max_date(seen)
      <4>1. list # <<>> /\ Len(list) >= maxno
        BY <3>1, <3>2
      <4>. QED BY <4>1 DEF NextDate, n, seen
    <3>4. n = 0 \/ \E k \in DOMAIN seen : n = seen[k].time
      BY <1>5, <3>3, Max_dateFacts
    <3>5. PICK k \in DOMAIN seen : n = seen[k].time
      BY <1>11, <2>1, <2>2, <3>4
    <3>6. m \in DOMAIN seen /\ k <= m /\ m <= i
      BY <3>1, <3>2
    <3>7. seen[k] = list[k] /\ seen[m] = list[m] /\ k \in DOMAIN list /\ m \in DOMAIN list
      BY <1>5, <3>6
    <3>8. list[k].time <= list[m].time /\ list[m].time <= list[i].time
      BY <1>2, <3>6, <3>7 DEF Fresh
    <3>9. list[i].time <= list[k].time
      BY <1>11, <2>4, <3>5, <3>7
    <3>10. list[i].time = seen[m].time
      BY <1>8, <3>7, <3>8, <3>9
    <3>11. <<s, remote[s].time>> \in NotFetched(list)
      BY <1>9, <2>4, <2>6, <3>10 DEF m
    <3>. QED BY <1>7, <2>4, <3>11 DEF Due
  <2>. QED BY <2>5, <2>6
<1>12. Planned'
  BY <1>1, <1>7, <1>10, <1>11 DEF Planned, databases
<1>13. Sent'
  <2>1. DOMAIN sv'.ports = {}
    BY <1>1 DEF TypeInv, Messages, Listing
  <2>. QED BY <2>1 DEF Sent
<1>. QED BY <1>7, <1>10, <1>12, <1>13 DEF Accounted, Offered, Emptied

\* Every step of the client keeps the account.
LEMMA ClientAccounted == ASSUME TypeInv, Accounted, Client \/ ReceiveDies \/ ClientDies PROVE Accounted'
<1>1. ASSUME ListFails \/ WriteDies \/ ClientDies  PROVE Accounted'
  <2>1. Abandon /\ UNCHANGED <<databases, update_time, passed, sv>>
    BY <1>1 DEF ListFails, WriteDies, ClientDies
  <2>. QED BY <2>1, AbandonAccounted
<1>2. ASSUME ReadError \/ ReadEnd \/ DialFails \/ ReceiveNothing \/ ReceiveDies \/ (ReceiveFails /\ GiveUpSite)
      PROVE  Accounted'
  <2>1. cl.pc \in {"answer", "dial", "receive"} /\ GiveUpSite /\ UNCHANGED <<databases, update_time, passed, sv>>
    BY <1>2 DEF ReadError, ReadEnd, DialFails, ReceiveNothing, ReceiveDies, ReceiveFails
  <2>. QED BY <2>1, GiveUpAccounted
<1>3. ASSUME ReceiveFails, ~ GiveUpSite  PROVE Accounted'
  <2>1. cl'.pc = "answer"
    BY <1>3, TypeParts DEF ReceiveFails, Runs
  <2>. QED BY <1>3, <2>1, GoesOnAccounted
<1>4. ASSUME AskSite \/ Quit \/ ReadPort \/ Dial  PROVE Accounted'
  BY <1>4, GoesOnAccounted
<1>5. ReceiveFails => Accounted'
  BY <1>2, <1>3
<1>6. ReadTuples \/ Receive \/ Save => Accounted'
  BY ReadTuplesAccounted, ReceiveAccounted, SaveAccounted
<1>. QED BY <1>1, <1>2, <1>4, <1>5, <1>6 DEF Client

\* A step of arserver.
LEMMA ServerKeeps ==
    ASSUME TypeInv, Accounted, UNCHANGED <<databases, update_time, maxno, cl, passed>>, Offered',
           \A p \in DOMAIN sv'.ports :
              LET s == sv'.ports[p].site IN
              sv'.ports[p].st = "sent" =>
                 \/ /\ p \in DOMAIN sv.ports /\ sv.ports[p].st = "sent"
                    /\ s = sv.ports[p].site /\ sv'.ports[p].data = sv.ports[p].data
                 \/ /\ s \in Sites
                    /\ Open(s) => sv'.ports[p].data.kind = "listing" /\ sv'.ports[p].data.time = remote[s].time
    PROVE  Accounted'
<1>1. Stored' /\ \A s \in Sites : (Open(s)' <=> Open(s)) /\ (HasListing(s)' <=> HasListing(s))
  BY StoredStays
<1>2. Bound' = Bound /\ UNCHANGED <<remote, passed, cl>>
  BY DEF Bound, databases
<1>3. Planned' /\ Emptied'
  BY <1>1, <1>2 DEF Accounted, Planned, Emptied, Due, Tuple
<1>4. Sent'
  <2>. SUFFICES ASSUME NEW p \in DOMAIN sv'.ports, sv'.ports[p].st = "sent", Open(sv.ports[p].site)',
                       remote[sv'.ports[p].site].time <= Bound
                PROVE  sv'.ports[p].data.kind = "listing" /\ sv'.ports[p].data.time = remote[sv'.ports[p].site].time
    BY <1>2 DEF Sent
  <2>1. Open(sv'.ports[p].site)
    BY <1>2 DEF Open
  <2>2. CASE /\ p \in DOMAIN sv.ports /\ sv.ports[p].st = "sent"
             /\ sv'.ports[p].site = sv.ports[p].site /\ sv'.ports[p].data = sv.ports[p].data
    BY <2>1, <2>2 DEF Accounted, Sent
  <2>. QED BY <2>1, <2>2
<1>. QED BY <1>1, <1>3, <1>4 DEF Accounted

\* A list has every site with a later time than the date it was asked for.
LEMMA ListSitesAccounted == ASSUME TypeInv, Accounted, ListSites PROVE Accounted'
<1>. USE TypeParts
<1>1. Asked("LISTSITES") /\ UNCHANGED <<databases, update_time, maxno, cl, sv, passed>>
  BY DEF ListSites
<1>2. PICK list \in Listings(NextRequest.date) : conn' = Answer([cmd |-> "TUPLELIST", list |-> list])
  BY DEF ListSites
<1>. DEFINE m == [cmd |-> "TUPLELIST", list |-> list]
<1>3. /\ NextRequest.cmd = "LISTSITES" /\ NextRequest \in Requests /\ conn.toServer # <<>>
      /\ 1 \in DOMAIN conn.toServer /\ conn.toServer[1] = NextRequest
  BY <1>1, AskedFacts
<1>4. NextRequest.date \in Times
  BY <1>3 DEF Requests
<1>5. /\ list \in Seq(Tuples) /\ m \in Answers
      /\ \A s \in Listed(NextRequest.date) : \E i \in DOMAIN list : list[i] = [site |-> s, time |-> remote[s].time]
  <2>1. /\ list \in Seq(Tuples)
        /\ \A s \in Listed(NextRequest.date) : \E i \in DOMAIN list : list[i] = [site |-> s, time |-> remote[s].time]
    BY <1>4, ListingsFacts
  <2>. QED BY <2>1 DEF Answers
<1>6. \A i \in DOMAIN conn'.toClient :
         conn'.toClient[i] = m \/ \E j \in DOMAIN conn.toClient : conn'.toClient[i] = conn.toClient[j]
  <2>. HIDE DEF m
  <2>. QED BY <1>2, <1>3, <1>5, AnswerFacts DEF m
<1>7. Offered'
  <2>. SUFFICES ASSUME cl.pc = "list", NEW i \in DOMAIN conn'.toClient, NEW s \in Sites, Open(s)',
                       update_time < remote[s].time, (remote[s].time <= NextDate(conn.toClient[i].list, cl.now))'
                PROVE  \E k \in DOMAIN conn'.toClient[i].list : conn'.toClient[i].list[k] = Tuple(s)
    BY <1>1 DEF Offered, Offers, Tuple, databases
  <2>1. Open(s)
    BY <1>1 DEF Open, databases
  <2>2. CASE conn'.toClient[i] = m
    <3>1. NextRequest.date = update_time
      BY <1>3 DEF TypeInv, Messages, Listing
    <3>2. s \in Listed(update_time)
      BY <2>1 DEF Open, Listed
    <3>. QED BY <1>5, <2>2, <3>1, <3>2 DEF Tuple
  <2>3. ASSUME NEW j \in DOMAIN conn.toClient, conn'.toClient[i] = conn.toClient[j]
        PROVE  \E k \in DOMAIN conn'.toClient[i].list : conn'.toClient[i].list[k] = Tuple(s)
    <3>1. NextDate(conn.toClient[i].list, cl.now)' = NextDate(conn.toClient[j].list, cl.now)
      BY <1>1, <2>3, NextDateSame
    <3>2. remote[s].time <= NextDate(conn.toClient[j].list, cl.now)
      BY <1>1, <3>1 DEF databases
    <3>. QED BY <2>1, <2>3, <3>2 DEF Accounted, Offered, Offers
  <2>. QED BY <1>6, <2>2, <2>3
<1>. QED BY <1>1, <1>7, ServerKeeps

\* The server's steps for a site keep the account.
LEMMA ServerAccounted ==
    ASSUME TypeInv, Accounted, OpenPort \/ Accept \/ HeaderFails \/ Timeout \/ Send \/ SendBreaks
    PROVE  Accounted'
<1>1. /\ UNCHANGED <<databases, update_time, maxno, cl, passed>>
      /\ Asked("SENDSITE") \/ sv.pc \in {"waiting", "sending"}
  BY DEF OpenPort, Accept, HeaderFails, Timeout, Send, SendBreaks, Waiting
<1>2. cl'.pc # "list"
  BY <1>1, NotListing
<1>3. sv \in Servers /\ sv.ports \in Seq(Ports)
  BY TypeParts DEF Servers
<1>4. ASSUME OpenPort  PROVE Accounted'
  <2>. DEFINE new == Port(NextRequest.site)
  <2>1. sv'.ports = Append(sv.ports, new) /\ new.st = "listening"
    BY <1>4 DEF OpenPort, Port
  <2>. HIDE DEF new
  <2>2. \A p \in DOMAIN sv'.ports : (p \in DOMAIN sv.ports /\ sv'.ports[p] = sv.ports[p]) \/ sv'.ports[p] = new
    BY <1>3, <2>1
  <2>3. \A p \in DOMAIN sv'.ports :
           sv'.ports[p].st = "sent" =>
              /\ p \in DOMAIN sv.ports /\ sv.ports[p].st = "sent"
              /\ sv'.ports[p].site = sv.ports[p].site /\ sv'.ports[p].data = sv.ports[p].data
    BY <2>1, <2>2
  <2>. QED BY <1>1, <1>2, <2>3, ServerKeeps DEF Offered
<1>5. ASSUME NEW st \in PortStates \ {"sent"}, sv.pc \in {"waiting", "sending"},
             NEW pc \in {"ready", "sending"}, sv' = [sv EXCEPT !.pc = pc, !.ports = SetPort(Last, st)]
      PROVE  Accounted'
  <2>1. sv'.ports = SetPort(Last, st)
    BY <1>3, <1>5 DEF Servers
  <2>. DEFINE r == [sv.ports[Last] EXCEPT !.st = st]
  <2>2. r.st = st /\ SetPort(Last, st) = [sv.ports EXCEPT ![Last] = r]
    BY <1>5, SetPortFacts
  <2>. HIDE DEF r
  <2>3. \A p \in DOMAIN sv'.ports :
           sv'.ports[p].st = "sent" =>
              /\ p \in DOMAIN sv.ports /\ sv.ports[p].st = "sent"
              /\ sv'.ports[p].site = sv.ports[p].site /\ sv'.ports[p].data = sv.ports[p].data
    BY <2>1, <2>2
  <2>. QED BY <1>1, <1>2, <2>3, ServerKeeps DEF Offered
<1>6. ASSUME Send  PROVE Accounted'
  <2>. DEFINE site == sv.ports[Last].site
              r == [site |-> site, st |-> "sent", data |-> ContentsFor(site)]
  <2>1. sv' = [sv EXCEPT !.pc = "ready", !.ports[Last] = r] /\ sv.pc = "sending"
    BY <1>6 DEF Send
  <2>2. Last \in DOMAIN sv.ports /\ site \in Sites
    <3>1. sv.ports # <<>>
      BY <2>1 DEF TypeInv, Places
    <3>2. Last \in DOMAIN sv.ports
      BY <1>3, <3>1 DEF Last
    <3>3. sv.ports[Last] \in Ports
      BY <3>2, TypeParts
    <3>. QED BY <3>2, <3>3 DEF Ports
  <2>3. r.site = site /\ (Open(site) => r.data.kind = "listing" /\ r.data.time = remote[site].time)
    BY DEF Open, ContentsFor
  <2>. HIDE DEF r
  <2>4. sv'.ports = [sv.ports EXCEPT ![Last] = r]
    BY <1>3, <2>1 DEF Servers
  <2>5. \A p \in DOMAIN sv'.ports : p \in DOMAIN sv.ports /\ sv'.ports[p] = IF p = Last THEN r ELSE sv.ports[p]
    BY <2>4
  <2>6. \A p \in DOMAIN sv'.ports :
           LET s == sv'.ports[p].site IN
           sv'.ports[p].st = "sent" =>
              \/ /\ p \in DOMAIN sv.ports /\ sv.ports[p].st = "sent"
                 /\ s = sv.ports[p].site /\ sv'.ports[p].data = sv.ports[p].data
              \/ /\ s \in Sites
                 /\ Open(s) => sv'.ports[p].data.kind = "listing" /\ sv'.ports[p].data.time = remote[s].time
    BY <2>2, <2>3, <2>5
  <2>. QED BY <1>1, <1>2, <2>6, ServerKeeps DEF Offered
<1>7. ASSUME Accept \/ HeaderFails \/ Timeout \/ SendBreaks  PROVE Accounted'
  <2>1. \E st \in PortStates \ {"sent"}, pc \in {"ready", "sending"} :
           sv' = [sv EXCEPT !.pc = pc, !.ports = SetPort(Last, st)]
    BY <1>7 DEF Accept, HeaderFails, Timeout, SendBreaks, PortStates
  <2>2. sv.pc \in {"waiting", "sending"}
    BY <1>7 DEF Accept, HeaderFails, Timeout, SendBreaks, Waiting
  <2>. QED BY <1>5, <2>1, <2>2
<1>. QED BY <1>4, <1>6, <1>7

\* The end of an arserver or of the connection: what was sent stays.
LEMMA EndAccounted == ASSUME TypeInv, Accounted, ServerEnds \/ LinkLost PROVE Accounted'
<1>1. /\ UNCHANGED <<databases, update_time, maxno, cl, passed>>
      /\ conn' = NoConn /\ sv' \in {sv, Gone}
  BY DEF ServerEnds, LinkLost
<1>2. Offered'
  <2>1. DOMAIN conn'.toClient = {}
    BY <1>1 DEF NoConn
  <2>. QED BY <2>1 DEF Offered
<1>3. \A p \in DOMAIN sv'.ports :
         sv'.ports[p].st = "sent" =>
            /\ p \in DOMAIN sv.ports /\ sv.ports[p].st = "sent"
            /\ sv'.ports[p].site = sv.ports[p].site /\ sv'.ports[p].data = sv.ports[p].data
  <2>1. CASE sv' = sv
    BY <2>1
  <2>2. CASE sv' = Gone
    BY <2>2, ClosedFacts
  <2>. QED BY <1>1, <2>1, <2>2
<1>. QED BY <1>1, <1>2, <1>3, ServerKeeps

\* Every step keeps the account.
LEMMA StepAccounted == ASSUME TypeInv, Accounted, [Next]_vars PROVE Accounted'
<1>1. CASE UNCHANGED vars
  <2>1. UNCHANGED <<databases, update_time, maxno, cl, conn, sv, passed>>
    BY <1>1 DEF vars
  <2>2. Offered'
    <3>1. ASSUME cl.pc = "list", NEW i \in DOMAIN conn.toClient, NEW s \in Sites, Open(s), update_time < remote[s].time,
                 remote[s].time <= NextDate(conn.toClient[i].list, cl.now)'
          PROVE  \E k \in DOMAIN conn.toClient[i].list : conn.toClient[i].list[k] = Tuple(s)
      <4>1. NextDate(conn.toClient[i].list, cl.now)' = NextDate(conn.toClient[i].list, cl.now)
        BY <2>1 DEF NextDate, Cut, Max_date
      <4>. QED BY <3>1, <4>1 DEF Accounted, Offered, Offers
    <3>2. \A s \in Sites : (Open(s)' <=> Open(s)) /\ Tuple(s)' = Tuple(s)
      BY <2>1 DEF Open, Tuple, databases
    <3>. QED BY <2>1, <3>1, <3>2 DEF Offered, Offers, databases
  <2>. QED BY <2>1, <2>2, ServerKeeps
<1>2. ASSUME Server \/ SendBreaks \/ LinkLost  PROVE Accounted'
  BY <1>2, ListSitesAccounted, ServerAccounted, EndAccounted DEF Server
<1>3. ASSUME Client \/ ReceiveDies \/ ClientDies  PROVE Accounted'
  BY <1>3, ClientAccounted
<1>. QED BY <1>1, <1>2, <1>3, EnvironmentAccounted, StartAccounted DEF Next

\* do_client, compose_tuples and arupdate.cf: whatever fails or is killed, and
\* whatever both servers do meanwhile, the date passes no listing that is neither
\* here, nor in the spool directory, nor known to have been passed.
THEOREM ExchangeSkipsNothing == Spec => []NothingSkipped
<1>1. Init => TypeInv /\ Accounted
  BY InitType, InitAccounted
<1>2. TypeInv /\ Accounted /\ [Next]_vars => TypeInv' /\ Accounted'
  BY StepType, StepAccounted
<1>3. TypeInv /\ Accounted => NothingSkipped
  BY AccountedShows
<1>. QED BY <1>1, <1>2, <1>3, PTL DEF Spec
-----------------------------------------------------------------------------
(***************************************************************************)
(* The answers and the sites they are for                                  *)
(***************************************************************************)
\* Nothing is under way; the request for the present site is; its answer is.
Quiet == conn.toServer = <<>> /\ conn.toClient = <<>>
Asking == conn.up /\ conn.toServer = <<[cmd |-> "SENDSITE", site |-> Site]>> /\ conn.toClient = <<>>
Answered ==
    /\ conn.toServer = <<>>
    /\ \E p \in DOMAIN sv.ports :
          sv.ports[p].site = Site /\ conn.toClient = <<[cmd |-> "SITELIST", port |-> p]>>

\* One request at a time: the inductive form of InStep.
InSync ==
    ~ slipped =>
        /\ cl.pc \in {"ask", "dial", "receive"} => Quiet
        /\ cl.pc \in {"dial", "receive"} => sv.ports[cl.port].site = Site
        /\ cl.pc = "answer" => Quiet \/ Asking \/ Answered

\* Ports are added and change their state, but not their site.
SitesKept ==
    \A p \in DOMAIN sv.ports : p \in DOMAIN sv'.ports /\ sv'.ports[p].site = sv.ports[p].site

\* Steps after which the run is not at a site, or which spoil the order.
LEMMA NoClaim ==
    ASSUME slipped' \/ cl'.pc \in {"idle", "list", "save"}
    PROVE  InSync'
BY DEF InSync

\* The run goes on to a site, or to its end, and nothing is under way.
LEMMA SiteBegins ==
    ASSUME cl'.pc = "ask", ~ slipped' => Quiet'
    PROVE  InSync'
BY DEF InSync

\* The run stays where it is; the connection stays or is lost.
LEMMA SiteKept ==
    ASSUME TypeInv, InSync, UNCHANGED <<cl, slipped>>, SitesKept, conn' \in {conn, NoConn}
    PROVE  InSync'
<1>. SUFFICES ASSUME ~ slipped PROVE InSync'
  BY DEF InSync
<1>1. Site' = Site
  BY DEF Site
<1>2. Quiet => Quiet'
  BY DEF Quiet, NoConn
<1>3. cl.pc \in {"dial", "receive"} => cl.port \in DOMAIN sv.ports
  BY DEF TypeInv, Places
<1>4. cl.pc \in {"dial", "receive"} => sv'.ports[cl.port].site = Site
  BY <1>3 DEF InSync, SitesKept
<1>5. Asking \/ Answered => Quiet' \/ Asking' \/ Answered'
  <2>1. CASE conn' = NoConn
    BY <2>1 DEF Quiet, NoConn
  <2>2. ASSUME conn' = conn, Asking  PROVE Asking'
    BY <1>1, <2>2 DEF Asking
  <2>3. ASSUME conn' = conn, Answered  PROVE Answered'
    BY <1>1, <2>3 DEF Answered, SitesKept
  <2>. QED BY <2>1, <2>2, <2>3
<1>6. /\ cl'.pc \in {"ask", "dial", "receive"} => Quiet'
      /\ cl'.pc = "answer" => Quiet' \/ Asking' \/ Answered'
  BY <1>2, <1>5 DEF InSync
<1>. QED BY <1>1, <1>4, <1>6 DEF InSync

\* SENDSITE is written when nothing is under way.
LEMMA AskInSync ==
    ASSUME TypeInv, InSync, cl.pc \in {"ask", "receive"}, cl'.pc = "answer", cl'.todo = cl.todo,
           cl.todo # <<>>, slipped' = slipped, Request([cmd |-> "SENDSITE", site |-> Site])
    PROVE  InSync'
<1>. SUFFICES ASSUME ~ slipped PROVE Quiet' \/ Asking'
  BY DEF InSync
<1>. DEFINE m == [cmd |-> "SENDSITE", site |-> Site]
<1>1. Quiet /\ Site' = Site /\ conn \in Conns /\ Request(m)
  BY TypeParts DEF InSync, Site
<1>2. m \in Requests /\ m = [cmd |-> "SENDSITE", site |-> Site']
  BY <1>1, TypeParts DEF Requests
<1>3. CASE conn.up
  <2>. HIDE DEF m
  <2>1. conn' = [conn EXCEPT !.toServer = Append(@, m)] /\ conn.toServer = <<>> /\ conn.toClient = <<>>
    BY <1>1, <1>3 DEF Request, Quiet
  <2>2. conn'.toServer = Append(<<>>, m) /\ conn'.toClient = <<>> /\ conn'.up
    BY <1>1, <1>3, <2>1 DEF Conns
  <2>3. Append(<<>>, m) = <<m>>
    OBVIOUS
  <2>. QED BY <1>2, <2>2, <2>3 DEF Asking
<1>4. CASE ~ conn.up
  BY <1>1, <1>4 DEF Request, Quiet
<1>. QED BY <1>3, <1>4

\* When the list is read, the control connection is silent.
LEMMA ReadTuplesInSync == ASSUME TypeInv, ReadTuples PROVE InSync'
<1>1. cl.pc = "list" /\ conn.toClient # <<>> /\ conn' = [conn EXCEPT !.toClient = Tail(@)]
  BY DEF ReadTuples
<1>2. conn.toServer = <<>> /\ Tail(conn.toClient) = <<>> /\ conn \in Conns
  BY <1>1, ListFacts, TypeParts
<1>3. Quiet'
  BY <1>1, <1>2 DEF Quiet, Conns
<1>4. cl'.pc = "ask"
  BY TypeParts DEF ReadTuples, Runs
<1>. QED BY <1>3, <1>4, SiteBegins

\* The port that is read was opened for the site that was asked for.
LEMMA ReadPortInSync == ASSUME TypeInv, InSync, ReadPort PROVE InSync'
<1>. SUFFICES ASSUME ~ slipped PROVE InSync'
  BY NoClaim DEF ReadPort
<1>1. /\ cl.pc = "answer" /\ conn.toClient # <<>> /\ UNCHANGED <<sv, slipped>>
      /\ cl' = [cl EXCEPT !.pc = "dial", !.port = Head(conn.toClient).port]
      /\ conn' = [conn EXCEPT !.toClient = Tail(@)]
  BY DEF ReadPort
<1>2. Answered
  BY <1>1 DEF InSync, Quiet, Asking
<1>3. PICK p \in DOMAIN sv.ports :
         sv.ports[p].site = Site /\ conn.toClient = <<[cmd |-> "SITELIST", port |-> p]>>
  BY <1>2 DEF Answered
<1>4. Head(conn.toClient).port = p /\ Tail(conn.toClient) = <<>> /\ conn.toServer = <<>>
  BY <1>2, <1>3 DEF Answered
<1>5. cl'.pc = "dial" /\ cl'.port = p /\ cl'.todo = cl.todo
  BY <1>1, <1>4, TypeParts DEF Runs
<1>6. Quiet'
  BY <1>1, <1>4, TypeParts DEF Quiet, Conns
<1>. QED BY <1>1, <1>3, <1>5, <1>6 DEF InSync, Site

\* The steps after which the run is at the next site.
LEMMA GiveUpInSync ==
    ASSUME TypeInv, InSync,
           \/ ReadError \/ ReadEnd \/ DialFails \/ Receive \/ ReceiveNothing \/ ReceiveDies
           \/ ReceiveFails /\ GiveUpSite /\ UNCHANGED conn
    PROVE  InSync'
<1>1. cl'.pc = "ask"
  <2>1. cl.pc \in {"answer", "dial", "receive"} /\ (GiveUpSite \/ Receive)
    BY DEF ReadError, ReadEnd, DialFails, Receive, ReceiveNothing, ReceiveDies, ReceiveFails
  <2>2. GiveUpSite => cl'.pc = "ask"
    BY <2>1, GiveUpFacts
  <2>3. Receive => cl'.pc = "ask"
    BY <2>1, NextSiteFacts DEF Receive
  <2>. QED BY <2>1, <2>2, <2>3
<1>2. ASSUME ~ slipped'  PROVE Quiet'
  <2>1. ~ slipped
    BY <1>2 DEF ReadError, ReadEnd, DialFails, Receive, ReceiveNothing, ReceiveDies, ReceiveFails
  <2>2. ~ ReadError
    <3>. SUFFICES ASSUME ReadError PROVE FALSE
      OBVIOUS
    <3>1. cl.pc = "answer" /\ conn.toClient # <<>> /\ Head(conn.toClient).cmd = "ERROR"
      BY DEF ReadError
    <3>2. PICK p \in DOMAIN sv.ports : conn.toClient = <<[cmd |-> "SITELIST", port |-> p]>>
      BY <2>1, <3>1 DEF InSync, Quiet, Asking, Answered
    <3>3. Head(conn.toClient).cmd = "SITELIST"
      BY <3>2
    <3>. QED BY <3>1, <3>3
  <2>3. CASE ReadEnd
    <3>1. cl.pc = "answer" /\ ~ conn.up /\ conn.toClient = <<>> /\ conn' = conn
      BY <2>3 DEF ReadEnd
    <3>2. ~ Asking /\ ~ Answered
      BY <3>1 DEF Asking, Answered
    <3>. QED BY <2>1, <3>1, <3>2 DEF InSync, Quiet
  <2>4. ~ DialFails
    BY <1>2 DEF DialFails
  <2>5. CASE Receive \/ ReceiveNothing \/ ReceiveDies \/ (ReceiveFails /\ GiveUpSite /\ UNCHANGED conn)
    <3>1. cl.pc = "receive" /\ conn' = conn
      BY <2>5 DEF Receive, ReceiveNothing, ReceiveDies, ReceiveFails
    <3>. QED BY <2>1, <3>1 DEF InSync, Quiet
  <2>. QED BY <2>2, <2>3, <2>4, <2>5
<1>. QED BY <1>1, <1>2, SiteBegins

\* Dialling takes the client to the port of the site it asked for.
LEMMA DialInSync == ASSUME TypeInv, InSync, Dial PROVE InSync'
<1>1. /\ cl.pc = "dial" /\ UNCHANGED <<conn, slipped>>
      /\ cl' = [cl EXCEPT !.pc = "receive"]
  BY DEF Dial
<1>2. cl'.pc = "receive" /\ cl'.port = cl.port /\ cl'.todo = cl.todo
  BY <1>1, TypeParts DEF Runs
<1>3. cl.port \in DOMAIN sv.ports
  BY <1>1 DEF TypeInv, Places
<1>4. sv'.ports[cl.port].site = sv.ports[cl.port].site
  <2>1. PICK st : sv' = [sv EXCEPT !.ports = SetPort(cl.port, st)]
    BY DEF Dial
  <2>2. sv'.ports = SetPort(cl.port, st)
    BY <2>1, TypeParts DEF Servers
  <2>3. sv.ports[cl.port] \in Ports
    BY <1>3, TypeParts
  <2>4. SetPort(cl.port, st)[cl.port].site = sv.ports[cl.port].site
    BY <1>3, <2>3 DEF SetPort, Ports
  <2>. QED BY <2>2, <2>4
<1>. QED BY <1>1, <1>2, <1>4 DEF InSync, Quiet, Site

\* Every step of the client keeps the two sides in step.
LEMMA ClientInSync == ASSUME TypeInv, InSync, Client \/ ReceiveDies \/ ClientDies PROVE InSync'
<1>1. ASSUME ListFails \/ WriteDies \/ ClientDies \/ Save \/ Quit  PROVE InSync'
  <2>1. cl' = NoRun \/ cl' = [cl EXCEPT !.pc = "save"]
    BY <1>1 DEF ListFails, WriteDies, ClientDies, Save, Quit, Abandon
  <2>2. cl'.pc \in {"idle", "save"}
    BY <2>1, TypeParts DEF NoRun, Runs
  <2>. QED BY <2>2, NoClaim
<1>2. ASSUME AskSite  PROVE InSync'
  <2>1. cl.pc = "ask" /\ cl.todo # <<>> /\ slipped' = slipped /\ cl' = [cl EXCEPT !.pc = "answer"]
    BY <1>2 DEF AskSite
  <2>2. cl'.pc = "answer" /\ cl'.todo = cl.todo
    BY <2>1, TypeParts DEF Runs
  <2>. QED BY <1>2, <2>1, <2>2, AskInSync DEF AskSite
<1>3. ASSUME ReceiveFails, ~ (GiveUpSite /\ UNCHANGED conn)  PROVE InSync'
  <2>1. /\ cl.pc = "receive" /\ slipped' = slipped
        /\ cl' = [cl EXCEPT !.pc = "answer", !.port = 0, !.tries = @ + 1]
        /\ Request([cmd |-> "SENDSITE", site |-> Site])
    BY <1>3 DEF ReceiveFails
  <2>2. cl'.pc = "answer" /\ cl'.todo = cl.todo /\ cl.todo # <<>>
    BY <2>1, TypeParts DEF Runs, TypeInv, Places
  <2>. QED BY <2>1, <2>2, AskInSync
<1>4. ASSUME \/ ReadError \/ ReadEnd \/ DialFails \/ Receive \/ ReceiveNothing \/ ReceiveDies
             \/ ReceiveFails /\ GiveUpSite /\ UNCHANGED conn
      PROVE  InSync'
  BY <1>4, GiveUpInSync
<1>. QED BY <1>1, <1>2, <1>3, <1>4, ReadTuplesInSync, ReadPortInSync, DialInSync DEF Client
-----------------------------------------------------------------------------
\* arserver works on a request only where the run awaits its answer.
LEMMA AskedInSync ==
    ASSUME TypeInv, InSync, NEW cmd, Asked(cmd), ~ slipped
    PROVE  cl.pc \in {"idle", "list", "save"} \/ (cl.pc = "answer" /\ Asking /\ cmd = "SENDSITE")
<1>1. conn.toServer # <<>> /\ NextRequest.cmd = cmd /\ conn.toServer[1] = NextRequest
  BY AskedFacts
<1>2. ~ Quiet /\ ~ Answered
  BY <1>1 DEF Quiet, Answered
<1>3. Asking => cmd = "SENDSITE"
  BY <1>1 DEF Asking
<1>. QED BY <1>2, <1>3, TypeParts DEF InSync, Runs

\* The answer on its way names the port opened for the site asked for.
LEMMA OpenPortInSync == ASSUME TypeInv, InSync, OpenPort PROVE InSync'
<1>. DEFINE n == Len(sv.ports)
            m == [cmd |-> "SITELIST", port |-> n + 1]
            new == Port(NextRequest.site)
<1>1. /\ Asked("SENDSITE") /\ UNCHANGED <<cl, slipped>>
      /\ sv' = [pc |-> "waiting", ports |-> Append(sv.ports, new)] /\ conn' = Answer(m)
  BY DEF OpenPort
<1>2. CASE slipped \/ cl.pc \in {"idle", "list", "save"}
  BY <1>1, <1>2, NoClaim
<1>3. CASE ~ slipped /\ cl.pc = "answer" /\ Asking
  <2>1. conn.up /\ conn.toServer = <<[cmd |-> "SENDSITE", site |-> Site]>> /\ conn.toClient = <<>>
    BY <1>3 DEF Asking
  <2>2. n \in Nat /\ m \in Answers /\ sv.ports \in Seq(Ports)
    BY TypeParts DEF Servers, Answers
  <2>3. new.site = Site
    BY <2>1 DEF NextRequest, Port
  <2>4. n + 1 \in DOMAIN sv'.ports /\ sv'.ports[n + 1] = new
    <3>. HIDE DEF new
    <3>. QED BY <1>1, <2>2
  <2>5. conn'.toServer = Tail(conn.toServer) /\ conn'.toClient = Append(conn.toClient, m)
    <3>1. conn.toServer # <<>>
      BY <2>1
    <3>. HIDE DEF m, n, new
    <3>. QED BY <1>1, <2>1, <2>2, <3>1, AnswerFacts
  <2>6. conn'.toServer = <<>> /\ conn'.toClient = <<m>>
    <3>1. Tail(conn.toServer) = <<>>
      BY <2>1
    <3>2. Append(conn.toClient, m) = <<m>>
      <4>. HIDE DEF m
      <4>. QED BY <2>1
    <3>. QED BY <2>5, <3>1, <3>2
  <2>7. Answered'
    <3>1. sv'.ports[n + 1].site = Site'
      BY <1>1, <2>3, <2>4 DEF Site
    <3>. HIDE DEF n
    <3>. QED BY <2>4, <2>6, <3>1 DEF Answered
  <2>. QED BY <1>1, <1>3, <2>7 DEF InSync
<1>. QED BY <1>1, <1>2, <1>3, AskedInSync

\* Every step of the server keeps the two sides in step.
LEMMA ServerInSync == ASSUME TypeInv, InSync, Server \/ SendBreaks \/ LinkLost PROVE InSync'
<1>1. ASSUME ListSites  PROVE InSync'
  <2>1. Asked("LISTSITES") /\ UNCHANGED <<cl, slipped>>
    BY <1>1 DEF ListSites
  <2>. QED BY <2>1, AskedInSync, NoClaim
<1>2. ASSUME HeaderFails \/ Timeout  PROVE InSync'
  BY <1>2, NoClaim DEF HeaderFails, Timeout
<1>3. ASSUME Accept \/ Send \/ SendBreaks  PROVE InSync'
  <2>1. sv.pc \in {"waiting", "sending"} /\ UNCHANGED <<cl, conn, slipped>>
    BY <1>3 DEF Accept, Send, SendBreaks, Waiting
  <2>2. PICK r, pc : r.site = sv.ports[Last].site /\ sv' = [sv EXCEPT !.pc = pc, !.ports = [sv.ports EXCEPT ![Last] = r]]
    <3>1. ASSUME NEW st \in PortStates, NEW pc, sv' = [sv EXCEPT !.pc = pc, !.ports = SetPort(Last, st)]
          PROVE  \E r : r.site = sv.ports[Last].site /\ sv' = [sv EXCEPT !.pc = pc, !.ports = [sv.ports EXCEPT ![Last] = r]]
      <4>. DEFINE r == [sv.ports[Last] EXCEPT !.st = st]
      <4>1. r.site = sv.ports[Last].site /\ SetPort(Last, st) = [sv.ports EXCEPT ![Last] = r]
        BY <2>1, SetPortFacts
      <4>. HIDE DEF r
      <4>. QED BY <3>1, <4>1
    <3>2. Accept \/ SendBreaks => \E st \in PortStates : \E pc : sv' = [sv EXCEPT !.pc = pc, !.ports = SetPort(Last, st)]
      BY DEF Accept, SendBreaks, PortStates
    <3>3. ASSUME Send
          PROVE  \E r, pc : r.site = sv.ports[Last].site /\ sv' = [sv EXCEPT !.pc = pc, !.ports = [sv.ports EXCEPT ![Last] = r]]
      <4>. DEFINE site == sv.ports[Last].site
                  r == [site |-> site, st |-> "sent", data |-> ContentsFor(site)]
      <4>1. sv' = [sv EXCEPT !.pc = "ready", !.ports[Last] = r] /\ r.site = site
        BY <3>3 DEF Send
      <4>. HIDE DEF r
      <4>. QED BY <4>1
    <3>. QED BY <1>3, <3>1, <3>2, <3>3
  <2>3. sv'.ports = [sv.ports EXCEPT ![Last] = r]
    BY <2>2, TypeParts DEF Servers
  <2>4. SitesKept
    BY <2>2, <2>3 DEF SitesKept
  <2>. QED BY <2>1, <2>4, SiteKept
<1>4. ASSUME ServerEnds \/ LinkLost  PROVE InSync'
  <2>1. conn' = NoConn /\ UNCHANGED <<cl, slipped>> /\ sv' \in {sv, Gone}
    BY <1>4 DEF ServerEnds, LinkLost
  <2>2. SitesKept
    BY <2>1, ClosedFacts DEF SitesKept
  <2>. QED BY <2>1, <2>2, SiteKept
<1>. QED BY <1>1, <1>2, <1>3, <1>4, OpenPortInSync DEF Server

\* Every step keeps the two sides in step.
LEMMA StepInSync == ASSUME TypeInv, InSync, [Next]_vars PROVE InSync'
<1>1. CASE Environment \/ UNCHANGED vars
  <2>1. UNCHANGED <<cl, conn, sv, slipped>>
    BY <1>1 DEF Environment, Tick, RemoteUpdate, RemoteDeletion, LocalDeletion, Enter, vars
  <2>. QED BY <2>1, SiteKept DEF SitesKept
<1>2. ASSUME StartRun  PROVE InSync'
  <2>1. cl'.pc = "list"
    BY <1>2 DEF StartRun, NoRun
  <2>. QED BY <2>1, NoClaim
<1>. QED BY <1>1, <1>2, ClientInSync, ServerInSync DEF Next

\* get_info and do_server: between two errors that arserver puts on the command
\* connection out of turn, the client calls only ports opened for its own site,
\* however often a transfer is repeated and wherever either side breaks off.
THEOREM ExchangeInStep == Spec => []InStep
<1>1. Init => TypeInv /\ InSync
  <2>1. Init => InSync
    BY DEF Init, InSync, NoRun
  <2>. QED BY <2>1, InitType
<1>2. TypeInv /\ InSync /\ [Next]_vars => TypeInv' /\ InSync'
  BY StepType, StepInSync
<1>3. InSync => InStep
  BY DEF InSync, InStep
<1>. QED BY <1>1, <1>2, <1>3, PTL DEF Spec
=============================================================================
