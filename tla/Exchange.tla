------------------------------ MODULE Exchange ------------------------------
(***************************************************************************)
(* The exchange of sites between two Archie servers, for one catalog:       *)
(* arexchange (do_client) asks the arserver of the other host (do_server)   *)
(* which sites have changed since the date in its configuration file, takes *)
(* those it does not have, one after the other, and moves the date.         *)
(*                                                                         *)
(* Commands and answers go over one connection.  A site goes over a second  *)
(* one: arserver opens a port for it, tells its number, waits a while for   *)
(* the client, and lets net_anonftp -O write; the client lets net_anonftp -I *)
(* read.  Either side may fail to reach the other, break off, or die; the    *)
(* databases of both change meanwhile.                                      *)
(*                                                                         *)
(* One step is the code between two reads or writes of a connection, or of  *)
(* a database.  Times are readings of one clock; a listing is known by the   *)
(* time at which it was retrieved.                                          *)
(***************************************************************************)
EXTENDS Integers, Sequences, FiniteSets

CONSTANTS
    Sites,          \* the sites either server may know
    MaxNos,         \* the values of <max no> the configuration file may have; 0 takes all
    Firsts,         \* host databases the arserver may have at first
    Freq,           \* <freq>: readings of the clock between two exchanges
    MaxClock,       \* bound: the last reading of the clock
    MaxEvents       \* bound: changes of the host databases, lost connections, kills, late
                    \* clients and broken transfers, in all

ASSUME SitesAssumption == IsFiniteSet(Sites)

ASSUME NumbersAssumption ==
    /\ {Freq, MaxClock, MaxEvents} \subseteq Nat
    /\ MaxNos \subseteq Nat
    /\ MaxClock # 0

ASSUME FirstsAssumption ==
    Firsts \subseteq [Sites -> [status : {"none", "active", "leaving", "deleted"}, time : {0, 1}]]

VARIABLES
    clock,
    remote,         \* the host databases of the arserver
    local,          \* the host databases of the arexchange
    spool,          \* what arexchange has put into the holding directory (*.update)
    update_time,    \* the date in arupdate.cf
    maxno,          \* <max no> in arupdate.cf
    cl,             \* the arexchange run, with the net_anonftp -I it waits for
    conn,           \* the command connection: is it up, what is under way
    sv,             \* the arserver of that connection, with its net_anonftp -O
    events,         \* so far
    passed,         \* history: <<site, time>> that the date has passed without being fetched
    slipped         \* history: answers and requests of this connection may be out of step

databases == <<remote, local, spool>>
vars == <<clock, databases, update_time, maxno, cl, conn, sv, events, passed, slipped>>

Times == 0 .. MaxClock

\* "leaving" is DEL_BY_ADMIN and DEL_BY_ARCHIE, "deleted" is DELETED; DISABLED
\* and NOT_SUPPORTED sites are left out.
Statuses == {"none", "active", "leaving", "deleted"}
Rec(status, time) == [status |-> status, time |-> time]
NoRec == Rec("none", 0)

Tuples == [site : Sites, time : Times]
Files == [site : Sites, kind : {"listing", "deletion"}, time : Times]
Contents == [kind : {"nothing", "listing", "deletion", "failure"}, time : Times]
Nothing == [kind |-> "nothing", time |-> 0]

Requests == [cmd : {"LISTSITES"}, date : Times] \cup [cmd : {"SENDSITE"}, site : Sites] \cup [cmd : {"QUIT"}]
Answers == [cmd : {"TUPLELIST"}, list : Seq(Tuples)] \cup [cmd : {"SITELIST"}, port : Nat \ {0}]
           \cup [cmd : {"ERROR"}]

\* The port of one transfer.  "dialed": the client has connected, arserver has
\* not accepted; "left": arserver has given up waiting, the socket still listens;
\* "stale": the client has connected to such a one; "abandoned": accepted, but
\* nothing will be written and nothing closed; "cut": closed after the header;
\* "empty": closed before it.
PortStates == {"listening", "dialed", "left", "stale", "abandoned", "sending", "sent", "cut", "empty"}
Ports == [site : Sites, st : PortStates, data : Contents]
Port(s) == [site |-> s, st |-> "listening", data |-> Nothing]

NoRun == [pc |-> "idle", now |-> 0, todo |-> <<>>, next |-> 0, port |-> 0, tries |-> 0, lost |-> {}]
NoConn == [up |-> FALSE, toServer |-> <<>>, toClient |-> <<>>]
NoServer == [pc |-> "off", ports |-> <<>>]

Init ==
    /\ clock = 1
    /\ remote \in Firsts
    /\ local = [s \in Sites |-> NoRec]
    /\ spool = {}
    /\ update_time = 0
    /\ maxno \in MaxNos
    /\ cl = NoRun /\ conn = NoConn /\ sv = NoServer
    /\ events = 0
    /\ passed = {} /\ slipped = FALSE

Larger(a, b) == IF a < b THEN b ELSE a
MayHappen == events < MaxEvents /\ events' = events + 1

MAX_RETRY_SEQ == 2

ClientAt(pc) == cl.pc = pc
Site == Head(cl.todo).site
Request(msg) == conn' = IF conn.up THEN [conn EXCEPT !.toServer = Append(@, msg)] ELSE conn
Answer(msg) == IF conn.up THEN [conn EXCEPT !.toServer = Tail(@), !.toClient = Append(@, msg)]
                          ELSE [conn EXCEPT !.toServer = Tail(@)]
Note(msg) == IF conn.up THEN [conn EXCEPT !.toClient = Append(@, msg)] ELSE conn
Last == Len(sv.ports)
SetPort(p, st) == [sv.ports EXCEPT ![p].st = st]
-----------------------------------------------------------------------------
(***************************************************************************)
(* Which sites: the arithmetic of the dates                                *)
(***************************************************************************)
\* compose_tuples: the sites listed for a date.
Listed(date) == {s \in Sites : remote[s].status # "none" /\ date < remote[s].time}

\* In order of their times; qsort puts equal ones in any order.
Listings(date) ==
    LET L == Listed(date) IN
    {[i \in 1 .. Cardinality(L) |-> [site |-> p[i], time |-> remote[p[i]].time]] :
        p \in {q \in [1 .. Cardinality(L) -> L] :
                 \A i, j \in 1 .. Cardinality(L) :
                    i < j => q[i] # q[j] /\ remote[q[i]].time <= remote[q[j]].time}}

\* tuple_num: how much of the list is looked at.
Cut(list) == IF maxno # 0 /\ maxno < Len(list) THEN SubSeq(list, 1, maxno) ELSE list

\* Mutant: only the tuples that are taken count for max_date.
Max_date_Taken(list) ==
    LET ts == {list[i].time : i \in {j \in DOMAIN list : local[list[j].site].time < list[j].time}} \cup {0}
    IN  CHOOSE t \in ts : \A u \in ts : u <= t

\* process_tuples: max_date is over all tuples, taken or not.
Max_date(list) ==
    LET ts == {list[i].time : i \in DOMAIN list} \cup {0} IN CHOOSE t \in ts : \A u \in ts : u <= t

\* Mutant: with more tuples than it asked for, the client goes on from now.
NextDate_Now(list, now) == IF list = <<>> THEN update_time ELSE now

\* The date after the exchange.
NextDate(list, now) ==
    IF list = <<>> THEN update_time
    ELSE IF Len(list) >= maxno THEN Max_date(Cut(list)) ELSE now

\* Mutant: only sites that are new here are taken.
Wanted_New(tuple) == local[tuple.site].status = "none"

\* process_tuples: is this tuple's site to be fetched?
Wanted(tuple) ==
    \/ local[tuple.site].status = "none"
    \/ local[tuple.site].time < tuple.time /\ local[tuple.site].status # "leaving"

\* process_tuples: the sites to be fetched, in the order of the list.
Taken(list) ==
    LET W == {i \in DOMAIN list : Wanted(list[i])} IN
    {[i \in 1 .. Cardinality(W) |-> list[q[i]]] :
        q \in {r \in [1 .. Cardinality(W) -> W] :
                 \A i, j \in 1 .. Cardinality(W) : i < j => r[i] < r[j]}}

\* What the run does not even ask for although its date passes it: sites that are
\* being deleted here, and those beyond maxno that were retrieved at the very
\* time of the last one looked at.
NotFetched(list) ==
    LET seen == Cut(list) IN
    {<<list[i].site, list[i].time>> :
        i \in {j \in DOMAIN list :
                 IF j \in DOMAIN seen
                 THEN local[list[j].site].status = "leaving" /\ local[list[j].site].time < list[j].time
                 ELSE list[j].time = seen[Len(seen)].time}}
-----------------------------------------------------------------------------
(***************************************************************************)
(* The host databases of the two servers, changed by their own updates      *)
(***************************************************************************)
\* The date that is, or is about to be, stored.
Horizon ==
    IF ClientAt("list") /\ conn.toClient # <<>> /\ Head(conn.toClient).cmd = "TUPLELIST"
    THEN Larger(update_time, NextDate(Head(conn.toClient).list, cl.now))
    ELSE IF cl.pc \in {"idle", "list"} THEN update_time ELSE Larger(update_time, cl.next)

Tick ==
    /\ clock < MaxClock
    /\ clock' = clock + 1
    /\ UNCHANGED <<databases, update_time, maxno, cl, conn, sv, events, passed, slipped>>

\* An update at the other server.  The listing was retrieved then or, since it
\* passed through the Update Cycle, a while ago; never before the one it replaces.
RemoteUpdate(s) ==
    /\ MayHappen
    /\ \E t \in {clock - 1, clock} :
          /\ remote[s].time < t
          /\ remote' = [remote EXCEPT ![s] = Rec("active", t)]
          /\ passed' = IF t <= Horizon THEN passed \cup {<<s, t>>} ELSE passed
    /\ UNCHANGED <<clock, local, spool, update_time, maxno, cl, conn, sv, slipped>>

\* A site is given up: by its status first, then by delete_anonftp, which leaves
\* the time; host_manage removes records altogether.
RemoteDeletion(s) ==
    /\ MayHappen
    /\ \/ remote[s].status = "active" /\ remote' = [remote EXCEPT ![s].status = "leaving"]
       \/ remote[s].status = "leaving" /\ remote' = [remote EXCEPT ![s].status = "deleted"]
       \/ remote[s].status = "deleted" /\ remote' = [remote EXCEPT ![s] = NoRec]
    /\ UNCHANGED <<clock, local, spool, update_time, maxno, cl, conn, sv, passed, slipped>>

LocalDeletion(s) ==
    /\ MayHappen
    /\ local[s].status = "active"
    /\ local' = [local EXCEPT ![s].status = "leaving"]
    /\ UNCHANGED <<clock, remote, spool, update_time, maxno, cl, conn, sv, passed, slipped>>

\* update_anonftp with a file of the spool directory: older data is ignored,
\* deletions are not.
Entered(f) ==
    CASE f.kind = "listing" /\ local[f.site].time <= f.time -> Rec("active", f.time)
      [] f.kind = "deletion" /\ local[f.site].status # "none" -> Rec("deleted", local[f.site].time)
      [] OTHER -> local[f.site]

Enter(f) ==
    /\ spool' = spool \ {f}
    /\ local' = [local EXCEPT ![f.site] = Entered(f)]
    /\ UNCHANGED <<clock, remote, update_time, maxno, cl, conn, sv, events, passed, slipped>>

Environment ==
    \/ Tick
    \/ \E s \in Sites : RemoteUpdate(s) \/ RemoteDeletion(s) \/ LocalDeletion(s)
    \/ \E f \in spool : Enter(f)
-----------------------------------------------------------------------------
(***************************************************************************)
(* arexchange                                                              *)
(***************************************************************************)
\* cron starts it; the server answers and the catalog is due.  A run that finds
\* neither changes nothing.
StartRun ==
    /\ ClientAt("idle")
    /\ update_time + Freq <= clock
    /\ cl' = [NoRun EXCEPT !.pc = "list", !.now = clock]
    /\ conn' = [NoConn EXCEPT !.up = TRUE, !.toServer = <<[cmd |-> "LISTSITES", date |-> update_time]>>]
    /\ sv' = [NoServer EXCEPT !.pc = "ready"]
    /\ slipped' = FALSE
    /\ UNCHANGED <<clock, databases, update_time, maxno, events, passed>>

\* The run ends without having come to a new date, or by a signal: nothing is stored.
Abandon == cl' = NoRun /\ conn' = [conn EXCEPT !.up = FALSE]

\* TUPLELIST: which sites to fetch, and what the date will be.
ReadTuples ==
    /\ ClientAt("list")
    /\ conn.toClient # <<>>
    /\ LET list == Head(conn.toClient).list IN
       \E todo \in Taken(Cut(list)) :
          cl' = [cl EXCEPT !.pc = "ask", !.todo = todo, !.next = NextDate(list, cl.now), !.lost = NotFetched(list)]
    /\ conn' = [conn EXCEPT !.toClient = Tail(@)]
    /\ UNCHANGED <<clock, databases, update_time, maxno, sv, events, passed, slipped>>

\* proto_err: no list came.
ListFails ==
    /\ ClientAt("list")
    /\ ~ conn.up /\ conn.toClient = <<>>
    /\ Abandon
    /\ UNCHANGED <<clock, databases, update_time, maxno, sv, events, passed, slipped>>

\* get_sites: SENDSITE for the next site.
AskSite ==
    /\ ClientAt("ask")
    /\ cl.todo # <<>>
    /\ cl' = [cl EXCEPT !.pc = "answer"]
    /\ Request([cmd |-> "SENDSITE", site |-> Site])
    /\ UNCHANGED <<clock, databases, update_time, maxno, sv, events, passed, slipped>>

\* A second write to a connection whose other end is gone ends the program (SIGPIPE);
\* SENDSITE, first or again, and QUIT are written.
WriteDies ==
    /\ ~ conn.up
    /\ \/ ClientAt("ask")
       \/ ClientAt("receive") /\ sv.ports[cl.port].st \in {"cut", "empty"} /\ cl.tries < MAX_RETRY_SEQ
    /\ Abandon
    /\ UNCHANGED <<clock, databases, update_time, maxno, sv, events, passed, slipped>>

\* Mutant: the port of the last site is kept.
NextSite_SamePort == [cl EXCEPT !.pc = "ask", !.todo = Tail(@), !.tries = 0]

\* get_info returned; get_sites goes on to the next site.
NextSite == [cl EXCEPT !.pc = "ask", !.todo = Tail(@), !.port = 0, !.tries = 0]

\* Mutant: a site that failed is asked for until it comes.
GiveUpSite_Again == cl' = [cl EXCEPT !.pc = "ask", !.port = 0, !.tries = 0]

\* The same, without the site: nobody looks at what get_info returns.
GiveUpSite == cl' = [NextSite EXCEPT !.lost = @ \cup {<<Site, Head(cl.todo).time>>}]

\* The answer is SITELIST with a port, or an error, or the end of the connection.
ReadPort ==
    /\ ClientAt("answer")
    /\ conn.toClient # <<>> /\ Head(conn.toClient).cmd = "SITELIST"
    /\ cl' = [cl EXCEPT !.pc = "dial", !.port = Head(conn.toClient).port]
    /\ conn' = [conn EXCEPT !.toClient = Tail(@)]
    /\ UNCHANGED <<clock, databases, update_time, maxno, sv, events, passed, slipped>>

ReadError ==
    /\ ClientAt("answer")
    /\ conn.toClient # <<>> /\ Head(conn.toClient).cmd = "ERROR"
    /\ GiveUpSite
    /\ conn' = [conn EXCEPT !.toClient = Tail(@)]
    /\ UNCHANGED <<clock, databases, update_time, maxno, sv, events, passed, slipped>>

ReadEnd ==
    /\ ClientAt("answer")
    /\ ~ conn.up /\ conn.toClient = <<>>
    /\ GiveUpSite
    /\ UNCHANGED <<clock, databases, update_time, maxno, conn, sv, events, passed, slipped>>

\* cliconnect to the port.  It succeeds while somebody holds the socket.
Dial ==
    /\ ClientAt("dial")
    /\ sv.ports[cl.port].st \in {"listening", "left"}
    /\ cl' = [cl EXCEPT !.pc = "receive"]
    /\ sv' = [sv EXCEPT !.ports =
                 SetPort(cl.port, IF sv.ports[cl.port].st = "left" THEN "stale" ELSE "dialed")]
    /\ UNCHANGED <<clock, databases, update_time, maxno, conn, events, passed, slipped>>

\* It fails: the client turns to the next site and does not tell the server.
DialFails ==
    /\ ClientAt("dial")
    /\ \/ sv.ports[cl.port].st = "empty" /\ UNCHANGED events
       \/ sv.ports[cl.port].st # "empty" /\ MayHappen
    /\ GiveUpSite
    /\ slipped' = TRUE
    /\ UNCHANGED <<clock, databases, update_time, maxno, conn, sv, passed>>
-----------------------------------------------------------------------------
(***************************************************************************)
(* net_anonftp -I                                                          *)
(***************************************************************************)
Data == sv.ports[cl.port].data
DataSite == sv.ports[cl.port].site

\* The file is named after the site of its header.  The number is chosen among
\* the free temporary names: a file the final name already has is replaced.
Receive ==
    /\ ClientAt("receive")
    /\ sv.ports[cl.port].st = "sent" /\ Data.kind \in {"listing", "deletion"}
    /\ \E old \in SUBSET {f \in spool : f.site = DataSite} :
          /\ Cardinality(old) <= 1
          /\ spool' = (spool \ old) \cup {[site |-> DataSite, kind |-> Data.kind, time |-> Data.time]}
    /\ cl' = IF DataSite = Site THEN NextSite
             ELSE [NextSite EXCEPT !.lost = @ \cup {<<Site, Head(cl.todo).time>>}]
    /\ UNCHANGED <<clock, remote, local, update_time, maxno, conn, sv, events, passed, slipped>>

\* Successful, but without a file: the header says FAIL, or a broken listing was unlinked.
ReceiveNothing ==
    /\ ClientAt("receive")
    /\ \/ sv.ports[cl.port].st = "sent" /\ Data.kind = "failure"
       \/ sv.ports[cl.port].st = "cut"
    /\ GiveUpSite
    /\ UNCHANGED <<clock, databases, update_time, maxno, conn, sv, events, passed, slipped>>

\* It exits with an error (no header, or a listing that stands still): the same site
\* is asked for again, MAX_RETRY_SEQ times.  exit(errno) may also be exit(0).
ReceiveFails ==
    /\ ClientAt("receive")
    /\ sv.ports[cl.port].st \in {"cut", "empty"}
    /\ \/ /\ cl.tries < MAX_RETRY_SEQ
          /\ cl' = [cl EXCEPT !.pc = "answer", !.port = 0, !.tries = @ + 1]
          /\ Request([cmd |-> "SENDSITE", site |-> Site])
       \/ /\ GiveUpSite
          /\ UNCHANGED conn
    /\ UNCHANGED <<clock, databases, update_time, maxno, sv, events, passed, slipped>>

\* It is killed.  That is not taken for a failure.
ReceiveDies ==
    /\ ClientAt("receive")
    /\ MayHappen
    /\ GiveUpSite
    /\ UNCHANGED <<clock, databases, update_time, maxno, conn, sv, passed, slipped>>
-----------------------------------------------------------------------------
\* All sites were asked for: the date, and QUIT.
Quit ==
    /\ ClientAt("ask")
    /\ cl.todo = <<>>
    /\ cl' = [cl EXCEPT !.pc = "save"]
    /\ Request([cmd |-> "QUIT"])
    /\ UNCHANGED <<clock, databases, update_time, maxno, sv, events, passed, slipped>>

\* write_arupdate_config writes a copy and renames it.
Save ==
    /\ ClientAt("save")
    /\ update_time' = cl.next
    /\ passed' = passed \cup cl.lost
    /\ cl' = NoRun
    /\ UNCHANGED <<clock, databases, maxno, conn, sv, events, slipped>>

\* A kill at any place.
ClientDies ==
    /\ ~ ClientAt("idle")
    /\ MayHappen
    /\ Abandon
    /\ UNCHANGED <<clock, databases, update_time, maxno, sv, passed, slipped>>

Client ==
    \/ ReadTuples \/ ListFails \/ AskSite \/ WriteDies \/ ReadPort \/ ReadError \/ ReadEnd \/ Dial
    \/ DialFails \/ Receive \/ ReceiveNothing \/ ReceiveFails \/ Quit \/ Save
-----------------------------------------------------------------------------
(***************************************************************************)
(* arserver                                                                *)
(***************************************************************************)
NextRequest == Head(conn.toServer)
Asked(cmd) == sv.pc = "ready" /\ conn.toServer # <<>> /\ NextRequest.cmd = cmd

ListSites ==
    /\ Asked("LISTSITES")
    /\ \E list \in Listings(NextRequest.date) : conn' = Answer([cmd |-> "TUPLELIST", list |-> list])
    /\ UNCHANGED <<clock, databases, update_time, maxno, cl, sv, events, passed, slipped>>

\* sendinfo: a new port, whose number goes to the client.
OpenPort ==
    /\ Asked("SENDSITE")
    /\ sv' = [pc |-> "waiting", ports |-> Append(sv.ports, Port(NextRequest.site))]
    /\ conn' = Answer([cmd |-> "SITELIST", port |-> Len(sv.ports) + 1])
    /\ UNCHANGED <<clock, databases, update_time, maxno, cl, events, passed, slipped>>

Waiting(st) == sv.pc = "waiting" /\ sv.ports[Last].st = st

Accept ==
    /\ Waiting("dialed")
    /\ remote[sv.ports[Last].site].status # "none"
    /\ sv' = [sv EXCEPT !.pc = "sending", !.ports = SetPort(Last, "sending")]
    /\ UNCHANGED <<clock, databases, update_time, maxno, cl, conn, events, passed, slipped>>

\* send_header finds no record: an error on the command connection, and the data
\* connection stays as it is.
HeaderFails ==
    /\ Waiting("dialed")
    /\ remote[sv.ports[Last].site].status = "none"
    /\ sv' = [sv EXCEPT !.pc = "ready", !.ports = SetPort(Last, "abandoned")]
    /\ conn' = Note([cmd |-> "ERROR"])
    /\ slipped' = TRUE
    /\ UNCHANGED <<clock, databases, update_time, maxno, cl, events, passed>>

\* The client may still come: it has the number, or will read it.
Coming(p) ==
    /\ conn.up
    /\ \/ ClientAt("dial") /\ cl.port = p
       \/ \E i \in DOMAIN conn.toClient :
             conn.toClient[i].cmd = "SITELIST" /\ conn.toClient[i].port = p

\* select: nobody came in time.  The socket is not closed.
Timeout ==
    /\ Waiting("listening")
    /\ IF Coming(Last) THEN MayHappen ELSE UNCHANGED events
    /\ sv' = [sv EXCEPT !.pc = "ready", !.ports = SetPort(Last, "left")]
    /\ conn' = Note([cmd |-> "ERROR"])
    /\ slipped' = TRUE
    /\ UNCHANGED <<clock, databases, update_time, maxno, cl, passed>>

\* net_anonftp -O reads the record again.  The file of a deleted site is gone, so
\* its header says FAIL.
ContentsFor(s) ==
    CASE remote[s].status = "active" -> [kind |-> "listing", time |-> remote[s].time]
      [] remote[s].status = "leaving" -> [kind |-> "deletion", time |-> remote[s].time]
      [] OTHER -> [kind |-> "failure", time |-> 0]

Send ==
    /\ sv.pc = "sending"
    /\ sv' = [sv EXCEPT !.pc = "ready", !.ports[Last] = [site |-> sv.ports[Last].site, st |-> "sent",
                                                       data |-> ContentsFor(sv.ports[Last].site)]]
    /\ UNCHANGED <<clock, databases, update_time, maxno, cl, conn, events, passed, slipped>>

\* Mutant: a failing net_anonftp is reported on the command connection.
SendBreaks_Told ==
    /\ sv.pc = "sending"
    /\ MayHappen
    /\ \E st \in {"cut", "empty"} : sv' = [sv EXCEPT !.pc = "ready", !.ports = SetPort(Last, st)]
    /\ conn' = Note([cmd |-> "ERROR"])
    /\ UNCHANGED <<clock, databases, update_time, maxno, cl, passed, slipped>>

\* It fails or the connection breaks; sendinfo succeeds all the same.
SendBreaks ==
    /\ sv.pc = "sending"
    /\ MayHappen
    /\ \E st \in {"cut", "empty"} : sv' = [sv EXCEPT !.pc = "ready", !.ports = SetPort(Last, st)]
    /\ UNCHANGED <<clock, databases, update_time, maxno, cl, conn, passed, slipped>>

\* The end of an arserver closes the sockets that were left open.
Closed(ports) ==
    [p \in DOMAIN ports |->
        IF ports[p].st \in {"sent", "cut"} THEN ports[p] ELSE [ports[p] EXCEPT !.st = "empty"]]
Gone == [sv EXCEPT !.pc = "off", !.ports = Closed(@)]

\* QUIT, or the end of the connection.
ServerEnds ==
    /\ \/ Asked("QUIT")
       \/ sv.pc = "ready" /\ conn.toServer = <<>> /\ ~ conn.up
    /\ sv' = Gone
    /\ conn' = NoConn
    /\ UNCHANGED <<clock, databases, update_time, maxno, cl, events, passed, slipped>>

Server == ListSites \/ OpenPort \/ Accept \/ HeaderFails \/ Timeout \/ Send \/ ServerEnds

\* The command connection breaks, with what is under way; arserver may die of it
\* or with it.
LinkLost ==
    /\ conn.up
    /\ MayHappen
    /\ conn' = NoConn
    /\ sv' \in {sv, Gone}
    /\ UNCHANGED <<clock, databases, update_time, maxno, cl, passed, slipped>>

Next == Environment \/ StartRun \/ Client \/ ReceiveDies \/ ClientDies \/ Server \/ SendBreaks \/ LinkLost

Fairness == WF_vars(StartRun) /\ WF_vars(Client) /\ WF_vars(Server)

Spec == Init /\ [][Next]_vars /\ Fairness
-----------------------------------------------------------------------------
TypeOK ==
    /\ clock \in Times /\ update_time \in Times
    /\ {remote, local} \subseteq [Sites -> [status : Statuses, time : Times]]
    /\ spool \subseteq Files
    /\ maxno \in MaxNos
    /\ cl \in [pc : {"idle", "list", "ask", "answer", "dial", "receive", "save"}, now : Times,
               todo : Seq(Tuples), next : Times, port : Nat, tries : 0 .. MAX_RETRY_SEQ,
               lost : SUBSET (Sites \X Times)]
    /\ cl.pc \in {"answer", "dial", "receive"} => cl.todo # <<>>
    /\ cl.pc \in {"dial", "receive"} <=> cl.port # 0
    /\ cl.port \in DOMAIN sv.ports \cup {0}
    /\ conn \in [up : BOOLEAN, toServer : Seq(Requests), toClient : Seq(Answers)]
    /\ sv \in [pc : {"off", "ready", "waiting", "sending"}, ports : Seq(Ports)]
    /\ sv.pc = "waiting" => sv.ports[Last].st \in {"listening", "dialed"}
    /\ cl.pc = "receive" => sv.ports[cl.port].st \notin {"listening", "left"}
    /\ events \in 0 .. MaxEvents
    /\ passed \subseteq Sites \X Times
    /\ slipped \in BOOLEAN

\* The listing of that time, or a later one, is here or on its way in.
Has(s, t) == local[s].time >= t \/ \E f \in spool : f.site = s /\ f.time >= t

\* The date in arupdate.cf (do_client, compose_tuples): every listing the other
\* server offers and whose time the date has passed has been received, or it was
\* given up by a run that ended regularly, or it was entered after a run had
\* already passed its time.  No kill and no broken connection loses anything else.
NothingSkipped ==
    \A s \in Sites :
        remote[s].status = "active" /\ remote[s].time <= update_time
            => Has(s, remote[s].time) \/ <<s, remote[s].time>> \in passed

\* get_info and do_server: as long as no error was put between an answer and the
\* next one, the port the client calls was opened for the site it asked for.
InStep ==
    ClientAt("dial") /\ ~ slipped => sv.ports[cl.port].site = Site

\* do_client: an exchange never sets the date back.
DateForward == [][update_time <= update_time']_update_time

\* The two ways in which net_anonftp -I waits for a header nobody will write:
\* it has no timeout before its first record.
Hung == ClientAt("receive") /\ sv.ports[cl.port].st \in {"stale", "abandoned"}

\* do_client and do_server: an exchange ends, unless it hangs like that.
RunsEnd == ~ ClientAt("idle") ~> (ClientAt("idle") \/ Hung)

\* do_client and the cron: whatever the other server offers is fetched in the end,
\* or passed, or replaced; the list's limit starves nobody.
Fetched ==
    \A s \in Sites : \A t \in Times \ {0} :
        remote[s] = Rec("active", t) ~>
            \/ remote[s] # Rec("active", t)
            \/ Has(s, t) \/ <<s, t>> \in passed
            \/ local[s].status = "leaving"
            \/ Hung
=============================================================================
