------------------------------- MODULE Exchange ------------------------------
(***************************************************************************)
(* The database exchange of ospf6d between two routers on one link: the    *)
(* Database Description packets, the Link State Requests and the updates   *)
(* that answer them (ospf6_message.c), the neighbor events they cause      *)
(* (ospf6_neighbor.c), and the thread scheduler that decides in which      *)
(* order events, timers and packets are handled (lib/thread.c).            *)
(*                                                                         *)
(* The router with the larger router-id becomes the master, so the two     *)
(* ends are called "master" and "slave".  Each end is a record:            *)
(*   state    the neighbor state of the other end                          *)
(*   bits     dbdesc_bits, a subset of {"MS", "M", "I"}                    *)
(*   seq      dbdesc_seqnum                                                *)
(*   last     dbdesc_last: bits and sequence number of the last packet     *)
(*   db       the LSAs in the LSDB                                         *)
(*   summary, dblist, request, lsupdate    the lists of the neighbor       *)
(*   asked    the LSAs of request that have been requested                 *)
(*   wait     request_retrans_wait                                         *)
(*   timers   the pending timers, {"dbdesc_send", "lsreq_timer"}           *)
(*   ready, event   the queues of the scheduler                            *)
(*   read     what select has found readable: "packet", a Hello "twoway"   *)
(*            or "oneway", or "none"                                       *)
(*   out      the packet that the handler has sent, moved to the link by   *)
(*            the action that runs the handler                             *)
(*                                                                         *)
(* An LSA is present or absent, as the order of instances is the subject   *)
(* of FloodOps.  The link is a point-to-point link: need_adjacency holds,  *)
(* MTU and options agree.                                                  *)
(***************************************************************************)
EXTENDS Integers, Sequences, SequencesExt, FiniteSets

CONSTANTS
    Key,            \* the LSAs
    PerPacket,      \* number of LSA headers that fit into a packet
    DbOf,           \* the initial databases, [Ends -> SUBSET Key]
    FastRestart,    \* an exchange may start again within the seconds that the
                    \* sequence numbers of the last one are ahead of the clock
    MaxOneway,      \* bound on the number of one-way Hellos
    MaxLosses,      \* bound on the number of lost packets
    MaxFlushes,     \* bound on the number of LSAs that are flushed
    MaxTransit      \* a retransmission timer expires when fewer packets than
                    \* this are on their way

Ends == {"master", "slave"}

Other(r) == IF r = "master" THEN "slave" ELSE "master"

ASSUME ExchangeAssumption ==
    /\ DbOf \in [Ends -> SUBSET Key]
    /\ PerPacket \in Nat \ {0} /\ MaxTransit \in Nat \ {0}
    /\ FastRestart \in BOOLEAN /\ MaxOneway \in Nat /\ MaxLosses \in Nat /\ MaxFlushes \in Nat

VARIABLES
    on,             \* [Ends -> the record above]
    link,           \* [Ends -> Seq of packets], sent by the end
    clock,          \* the last value read from the monotonic clock, in seconds
    oneways, losses, \* counters for the bounds
    flushed,        \* the LSAs that have been flushed
    reused,         \* history: an exchange has started with a number that may
                    \* be in use
    taken,          \* history: the LSAs that exchange_done has taken from the
                    \* description that the slave sent last
    emptied         \* history: those of taken that the master had not read when
                    \* the slave sent the description again, without them

history == <<reused, taken, emptied>>

vars == <<on, link, clock, oneways, losses, flushed, history>>

Init ==
    /\ on = [r \in Ends |->
               [state |-> "Init", bits |-> {}, seq |-> 0,
                last |-> [bits |-> {}, seq |-> 0], db |-> DbOf[r],
                summary |-> {}, dblist |-> {}, request |-> {}, asked |-> {},
                lsupdate |-> {}, wait |-> FALSE, timers |-> {},
                ready |-> <<>>, event |-> <<>>, read |-> "none", out |-> <<>>]]
    /\ link = [r \in Ends |-> <<>>]
    /\ clock = 1 /\ oneways = 0 /\ losses = 0 /\ flushed = {}
    /\ reused = FALSE /\ taken = {} /\ emptied = {}

(* The sequence numbers that the ends and the packets have, and a time     *)
(* that is beyond all of them.                                             *)
InUse ==
    UNION {{on[r].seq, on[r].last.seq} : r \in Ends}
    \cup UNION {{link[r][i].seq : i \in DOMAIN link[r]} : r \in Ends}

Fresh == Max({clock, 1 + Max(InUse)})

(* ospf6_neighbor_exstart reads the clock.  It counts seconds, and the     *)
(* master adds one for every round of an exchange.                         *)
ReadClock ==
    /\ clock' \in IF FastRestart THEN clock .. Fresh ELSE {Fresh}
    /\ reused' = (reused \/ clock' < Fresh)

-----------------------------------------------------------------------------
(* The scheduler, as operators on an end n.                                *)

(* thread_add_event *)
Event(n, e) == [n EXCEPT !.event = Append(@, e)]

Queue(n) == Range(n.ready) \cup Range(n.event)

Pending(n, S) == S \cap (Queue(n) \cup n.timers) # {}

(* THREAD_OFF of the thread that may run one of the handlers in S.         *)
Off(n, S) ==
    LET other(e) == e \notin S IN
    [n EXCEPT !.ready = SelectSeq(@, other), !.event = SelectSeq(@, other),
              !.timers = @ \ S]

Dbdesc == {"dbdesc_send", "dbdesc_send_newone"}

(* The thread that sends requests, as an event and as a timer.             *)
Lsreq == {"lsreq_send", "lsreq_timer"}

Send(n, type, bits, seq, lsas) ==
    [n EXCEPT !.out = <<[type |-> type, bits |-> bits, seq |-> seq, lsas |-> lsas]>>]

-----------------------------------------------------------------------------
(* Neighbor events.                                                        *)

Exchanging == {"Exchange", "Loading", "Full"}

(* __ospf6_neighbor_exstart *)
ExStart(n, seq) ==
    Event(Off([n EXCEPT !.state = "ExStart", !.bits = {"MS", "M", "I"}, !.seq = seq],
              Dbdesc),
          "dbdesc_send")

(* Mutant: what the last packet described is not described again.          *)
NegotiationDoneMutant(n) ==
    [n EXCEPT !.summary = n.db \ n.dblist, !.request = {}, !.asked = {},
              !.bits = @ \ {"I"}, !.state = "Exchange"]

NegotiationDone(n) ==
    [n EXCEPT !.summary = n.db, !.request = {}, !.asked = {},
              !.bits = @ \ {"I"}, !.state = "Exchange"]

(* Mutant: the lists are not looked at.                                    *)
ExchangeDoneMutant(n) ==
    IF n.state # "Exchange" THEN n
    ELSE [Off(n, Dbdesc) EXCEPT !.dblist = {}, !.state = "Full"]

ExchangeDone(n) ==
    IF n.state # "Exchange" THEN n
    ELSE [Off(n, Dbdesc) EXCEPT
            !.dblist = {}, !.state = IF n.request = {} THEN "Full" ELSE "Loading"]

LoadingDone(n) == IF n.state # "Loading" THEN n ELSE [n EXCEPT !.state = "Full"]

(* Mutant: an adjacency that is Full is not taken back.                    *)
SeqnumberMismatchMutant(n) ==
    IF n.state \notin {"Exchange", "Loading"} THEN n
    ELSE ExStart([n EXCEPT !.summary = {}, !.request = {}, !.asked = {}], n.seq + 1)

(* seqnumber_mismatch and bad_lsreq                                        *)
SeqnumberMismatch(n) ==
    IF n.state \notin Exchanging THEN n
    ELSE ExStart([n EXCEPT !.summary = {}, !.request = {}, !.asked = {}], n.seq + 1)

OnewayReceived(n) ==
    IF n.state = "Init" THEN n
    ELSE Off([n EXCEPT !.state = "Init", !.summary = {}, !.request = {}, !.asked = {}],
             Dbdesc \cup Lsreq \cup {"lsupdate_send_neighbor"})

(* twoway_received at time t                                               *)
TwowayReceived(n, t) == IF n.state = "Init" THEN ExStart(n, t) ELSE n

-----------------------------------------------------------------------------
(* Packets that are sent.                                                  *)

(* Mutant: the initial packet carries headers.                             *)
DbdescSendMutant(n) ==
    IF n.state = "Init" THEN n
    ELSE Send([n EXCEPT !.timers = IF "MS" \in n.bits THEN @ \cup {"dbdesc_send"} ELSE @],
              "dbdesc", n.bits, n.seq, n.dblist)

(* ospf6_dbdesc_send: the end that takes itself for the master sends again *)
(* after RxmtInterval.                                                     *)
DbdescSend(n) ==
    IF n.state = "Init" THEN n
    ELSE Send([n EXCEPT !.timers = IF "MS" \in n.bits THEN @ \cup {"dbdesc_send"} ELSE @],
              "dbdesc", n.bits, n.seq, IF "I" \in n.bits THEN {} ELSE n.dblist)

(* The LSAs of S that fit into a packet, in the order of the LSDB.         *)
Fitting(S) ==
    LET listed(k) == k \in S
        ordered   == SelectSeq(SetToSeq(Key), listed)
    IN  {ordered[i] : i \in 1 .. Min({PerPacket, Len(ordered)})}

(* ospf6_dbdesc_send_newone *)
DbdescSendNewone(n) ==
    LET P    == Fitting(n.summary)
        rest == n.summary \ P
        m    == [n EXCEPT !.dblist = P, !.summary = rest,
                          !.bits = IF rest = {} THEN @ \ {"M"} ELSE @]
        done == {"MS", "M"} \cap m.bits = {} /\ "M" \notin m.last.bits
    IN  DbdescSend(IF done THEN Event(m, "exchange_done") ELSE m)

(* Mutant: Loading is over when everything has been requested.             *)
LsreqSendMutant(n, due) ==
    LET now == n.request \ n.asked IN
    IF n.state \notin {"Exchange", "Loading"} THEN n
    ELSE IF now = {} THEN Event(n, "loading_done")
    ELSE Send([n EXCEPT !.wait = FALSE, !.asked = @ \cup now,
                        !.timers = @ \cup {"lsreq_timer"}], "lsreq", {}, 0, now)

(* ospf6_lsreq_send: LSAs that have not been requested, and when `due' the *)
(* ones that have been requested long enough ago.                          *)
LsreqSend(n, due) ==
    LET now == n.request \ (IF due THEN {} ELSE n.asked) IN
    IF n.state \notin {"Exchange", "Loading"} THEN n
    ELSE IF n.request = {} THEN Event(n, "loading_done")
    ELSE IF now = {} THEN [n EXCEPT !.wait = TRUE, !.timers = @ \cup {"lsreq_timer"}]
    ELSE Send([n EXCEPT !.wait = FALSE, !.asked = @ \cup now,
                        !.timers = @ \cup {"lsreq_timer"}], "lsreq", {}, 0, now)

LsupdateSendNeighbor(n) ==
    IF n.state \notin Exchanging \/ n.lsupdate = {} THEN n
    ELSE Send([n EXCEPT !.lsupdate = {}], "lsupdate", {}, 0, n.lsupdate)

-----------------------------------------------------------------------------
(* Packets that are received.                                              *)

(* The header loop: request what the LSDB lacks; what both have need not   *)
(* be described.                                                           *)
Headers(n, lsas) ==
    [n EXCEPT !.request = @ \cup (lsas \ n.db), !.asked = @ \ (lsas \ n.db),
              !.summary = @ \ (lsas \cap n.db)]

ScheduleLsreq(n) ==
    LET m == IF n.wait THEN Off(n, Lsreq) ELSE n IN
    IF Pending(m, Lsreq) THEN m ELSE Event(m, "lsreq_send")

Duplicate(n, p) == n.last = [bits |-> p.bits, seq |-> p.seq]

Saved(n, p) == [n EXCEPT !.last = [bits |-> p.bits, seq |-> p.seq]]

(* ospf6_dbdesc_recv_master from ExStart on: a packet of an obedient slave *)
(* ends the negotiation and is then handled as in Exchange.                *)
DbdescRecvMaster(n, p) ==
    LET obeys == n.state = "ExStart" /\ {"MS", "I"} \cap p.bits = {} /\ p.seq = n.seq
        m     == IF obeys THEN NegotiationDone(n) ELSE n
        h     == Off(ScheduleLsreq([Headers(m, p.lsas) EXCEPT !.seq = @ + 1]), Dbdesc)
    IN  IF m.state = "ExStart" \/ Duplicate(m, p) THEN m
        ELSE IF m.state # "Exchange" \/ {"MS", "I"} \cap p.bits # {} \/ p.seq # m.seq
             THEN Event(m, "seqnumber_mismatch")
        ELSE Saved(Event(h, IF "M" \in p.bits \cup m.bits THEN "dbdesc_send_newone"
                            ELSE "exchange_done"), p)

(* The rest of ospf6_dbdesc_recv_slave, for a packet that is in order.     *)
SlaveAccepts(n, p) ==
    LET h == ScheduleLsreq([Headers(n, p.lsas) EXCEPT !.seq = p.seq]) IN
    Saved(Event(Off(h, Dbdesc), "dbdesc_send_newone"), p)

(* Mutant: a duplicate is not answered.                                    *)
DbdescRecvSlaveMutant(n, p) ==
    IF n.state = "ExStart"
    THEN IF p.bits = {"MS", "M", "I"} /\ p.lsas = {}
         THEN SlaveAccepts(NegotiationDone([n EXCEPT !.bits = @ \ {"MS"}, !.seq = p.seq]), p)
         ELSE n
    ELSE IF Duplicate(n, p) THEN n
    ELSE IF \/ n.state # "Exchange" \/ "MS" \notin p.bits \/ "I" \in p.bits
            \/ p.seq # n.seq + 1
         THEN Event(n, "seqnumber_mismatch")
    ELSE SlaveAccepts(n, p)

(* ospf6_dbdesc_recv_slave from ExStart on.                                *)
DbdescRecvSlave(n, p) ==
    IF n.state = "ExStart"
    THEN IF p.bits = {"MS", "M", "I"} /\ p.lsas = {}
         THEN SlaveAccepts(NegotiationDone([n EXCEPT !.bits = @ \ {"MS"}, !.seq = p.seq]), p)
         ELSE n
    ELSE IF Duplicate(n, p) THEN Event(Off(n, Dbdesc), "dbdesc_send")
    ELSE IF \/ n.state # "Exchange" \/ "MS" \notin p.bits \/ "I" \in p.bits
            \/ p.seq # n.seq + 1
         THEN Event(n, "seqnumber_mismatch")
    ELSE SlaveAccepts(n, p)

(* ospf6_dbdesc_recv at end r and time t: in state Init, twoway_received   *)
(* comes first.                                                            *)
DbdescRecv(r, n, p, t) ==
    IF r = "master" THEN DbdescRecvMaster(TwowayReceived(n, t), p)
    ELSE DbdescRecvSlave(TwowayReceived(n, t), p)

(* ospf6_lsreq_recv: `before' are the entries that precede the first one   *)
(* that is not found.                                                      *)
LsreqRecv(n, lsas, before) ==
    IF n.state \notin Exchanging THEN n
    ELSE IF lsas \subseteq n.db
         THEN Event(Off([n EXCEPT !.lsupdate = @ \cup lsas], {"lsupdate_send_neighbor"}),
                    "lsupdate_send_neighbor")
         ELSE Event([n EXCEPT !.lsupdate = @ \cup before], "bad_lsreq")

(* Mutant: the next request waits for the timer.                           *)
LsupdateRecvMutant(n, lsas) ==
    LET i == [n EXCEPT !.db = @ \cup lsas, !.request = @ \ lsas, !.asked = @ \ lsas] IN
    IF n.state \notin Exchanging THEN n
    ELSE IF n.state = "Full" THEN i ELSE Off(i, Lsreq)

(* ospf6_lsupdate_recv of an update that is sent to this router alone.     *)
LsupdateRecv(n, lsas) ==
    LET i == [n EXCEPT !.db = @ \cup lsas, !.request = @ \ lsas, !.asked = @ \ lsas] IN
    IF n.state \notin Exchanging THEN n
    ELSE IF n.state = "Full" THEN i
    ELSE Event(Off(i, Lsreq), "lsreq_send")

-----------------------------------------------------------------------------
(* The steps of an end.  A step runs one handler; the packet it sends goes *)
(* to the link or is lost.                                                 *)

Step(r, n) ==
    /\ on' = [on EXCEPT ![r] = [n EXCEPT !.out = <<>>]]
    /\ \/ link' = [link EXCEPT ![r] = @ \o n.out] /\ UNCHANGED losses
       \/ n.out # <<>> /\ losses < MaxLosses /\ losses' = losses + 1 /\ UNCHANGED link

(* thread_fetch, when the ready list is drained: the events, then the      *)
(* timers T that have expired, then one packet if there is one.  A Hello   *)
(* may be ahead of the other packets.                                      *)
thread_fetch(r, T, read) ==
    LET n == on[r] IN
    /\ n.ready = <<>> /\ n.read = "none"
    /\ T \subseteq n.timers
    /\ T # {} => Len(link["master"]) + Len(link["slave"]) < MaxTransit
    /\ \/ read = "packet" /\ link[Other(r)] # <<>>
       \/ read = "none" /\ link[Other(r)] = <<>>
       \/ read = "twoway" /\ n.state = "Init"
       \/ read = "oneway" /\ oneways < MaxOneway
    /\ n.event # <<>> \/ T # {} \/ read # "none"
    /\ on' = [on EXCEPT ![r] = [n EXCEPT
                 !.ready = n.event \o SetToSeq(T), !.event = <<>>,
                 !.timers = @ \ T, !.read = read]]
    /\ oneways' = IF read = "oneway" THEN oneways + 1 ELSE oneways
    /\ UNCHANGED <<link, clock, losses, flushed, history>>

(* thread_call of the event or timer at the head of the ready list.        *)
Runs(r, e) == on[r].ready # <<>> /\ Head(on[r].ready) = e

Called(r) == [on[r] EXCEPT !.ready = Tail(@)]

thread_call(r) ==
    LET n == Called(r) IN
    /\ \/ Runs(r, "dbdesc_send") /\ Step(r, DbdescSend(n))
       \/ Runs(r, "dbdesc_send_newone") /\ Step(r, DbdescSendNewone(n))
       \/ Runs(r, "lsreq_send") /\ \E due \in BOOLEAN : Step(r, LsreqSend(n, due))
       \/ Runs(r, "lsreq_timer") /\ Step(r, LsreqSend(n, TRUE))
       \/ Runs(r, "lsupdate_send_neighbor") /\ Step(r, LsupdateSendNeighbor(n))
       \/ Runs(r, "exchange_done") /\ Step(r, ExchangeDone(n))
       \/ Runs(r, "loading_done") /\ Step(r, LoadingDone(n))
       \/ Runs(r, "seqnumber_mismatch") /\ Step(r, SeqnumberMismatch(n))
       \/ Runs(r, "bad_lsreq") /\ Step(r, SeqnumberMismatch(n))
    /\ taken' = IF r = "slave" /\ Runs(r, "exchange_done") /\ n.state = "Exchange"
                THEN taken \cup n.dblist ELSE taken
    /\ emptied' = IF r = "slave" /\ Runs(r, "dbdesc_send") /\ n.state \in {"Loading", "Full"}
                  THEN emptied \cup (taken \ (on["master"].request \cup on["master"].db))
                  ELSE emptied
    /\ UNCHANGED <<clock, oneways, flushed, reused>>

(* ospf6_receive of a packet of the exchange.                              *)
ospf6_receive(r) ==
    LET s == Other(r)  p == Head(link[s])  n == [on[r] EXCEPT !.read = "none"] IN
    /\ on[r].ready = <<>> /\ on[r].read = "packet"
    /\ link' = [link EXCEPT ![s] = Tail(@)]
    /\ UNCHANGED <<losses, oneways, flushed, taken, emptied>>
    /\ \/ /\ p.type = "dbdesc"
          /\ IF n.state = "Init" THEN ReadClock ELSE UNCHANGED <<clock, reused>>
          /\ on' = [on EXCEPT ![r] = DbdescRecv(r, n, p, clock')]
       \/ /\ p.type = "lsreq"
          /\ \E before \in SUBSET (p.lsas \cap n.db) :
                on' = [on EXCEPT ![r] = LsreqRecv(n, p.lsas, before)]
          /\ UNCHANGED <<clock, reused>>
       \/ /\ p.type = "lsupdate"
          /\ on' = [on EXCEPT ![r] = LsupdateRecv(n, p.lsas)]
          /\ UNCHANGED <<clock, reused>>

(* ospf6_hello_recv of a Hello that lists this router, or of one that does *)
(* not.                                                                    *)
ospf6_hello_recv(r) ==
    LET n == [on[r] EXCEPT !.read = "none"] IN
    /\ on[r].ready = <<>>
    /\ \/ /\ on[r].read = "twoway"
          /\ IF n.state = "Init" THEN ReadClock ELSE UNCHANGED <<clock, reused>>
          /\ on' = [on EXCEPT ![r] = TwowayReceived(n, clock')]
       \/ /\ on[r].read = "oneway"
          /\ on' = [on EXCEPT ![r] = OnewayReceived(n)]
          /\ UNCHANGED <<clock, reused>>
    /\ UNCHANGED <<link, oneways, losses, flushed, taken, emptied>>

(* ospf6_maxage_remover takes an LSA that has been flushed out of the LSDB *)
(* of r; the other end does not hold it.                                   *)
ospf6_maxage_remover(r, k) ==
    /\ Cardinality(flushed) < MaxFlushes
    /\ k \in on[r].db \ on[Other(r)].db /\ on[r].state \notin {"Exchange", "Loading"}
    /\ on' = [on EXCEPT ![r].db = @ \ {k}]
    /\ flushed' = flushed \cup {k}
    /\ UNCHANGED <<link, clock, oneways, losses, history>>

Next ==
    \E r \in Ends :
       \/ \E T \in SUBSET on[r].timers, read \in {"none", "packet", "twoway", "oneway"} :
             thread_fetch(r, T, read)
       \/ thread_call(r)
       \/ ospf6_receive(r)
       \/ ospf6_hello_recv(r)
       \/ \E k \in Key : ospf6_maxage_remover(r, k)

Spec == Init /\ [][Next]_vars

(* The scheduler goes on, a timer that is pending expires, and Hellos that *)
(* list the router keep arriving.                                          *)
Fairness ==
    \A r \in Ends :
       /\ WF_vars(\E T \in SUBSET on[r].timers, read \in {"none", "packet"} :
                     thread_fetch(r, T, read))
       /\ \A t \in {"dbdesc_send", "lsreq_timer"} :
             SF_vars(\E T \in SUBSET on[r].timers, read \in {"none", "packet"} :
                        t \in T /\ thread_fetch(r, T, read))
       /\ SF_vars(thread_fetch(r, {}, "twoway"))
       /\ WF_vars(thread_call(r))
       /\ WF_vars(ospf6_receive(r))
       /\ WF_vars(ospf6_hello_recv(r))

FairSpec == Spec /\ Fairness

-----------------------------------------------------------------------------

(* Every end and every packet on the link has its type; an initial packet  *)
(* has no LSA headers, as ospf6_dbdesc_recv_slave requires.                *)
TypeOK ==
    /\ \A r \in Ends : LET n == on[r] IN
          /\ n.state \in {"Init", "ExStart", "Exchange", "Loading", "Full"}
          /\ n.bits \subseteq {"MS", "M", "I"}
          /\ UNION {n.db, n.summary, n.dblist, n.request, n.lsupdate} \subseteq Key
          /\ n.asked \subseteq n.request
          /\ n.timers \subseteq {"dbdesc_send", "lsreq_timer"}
    /\ \A r \in Ends : \A i \in DOMAIN link[r] : LET p == link[r][i] IN
          p.lsas \subseteq IF "I" \in p.bits THEN {} ELSE Key

(* When an end takes the adjacency for Full it has every LSA that the      *)
(* other end had to describe: the purpose of the exchange that             *)
(* exchange_done and loading_done declare finished, whichever packets are  *)
(* lost.  There are two exceptions.  It is said of exchanges whose numbers *)
(* were not in use: an old packet that fits would be taken for one of this *)
(* exchange.  And the master may lack what was in the last description of  *)
(* the slave, if that was lost and the slave had to send it again after    *)
(* exchange_done had emptied dbdesc_list (see DuplicatesAreIdentical), but *)
(* nothing else.                                                           *)
FullIsSynchronized ==
    ~reused => \A r \in Ends :
       on[r].state = "Full" => DbOf[Other(r)] \ (flushed \cup emptied) \subseteq on[r].db

(* The assertion of loading_done: nothing is left to request.  The event   *)
(* is queued when the list is empty and runs later.                        *)
LoadingDoneAssertion ==
    \A r \in Ends :
       Runs(r, "loading_done") /\ on[r].state = "Loading" => on[r].request = {}

(* Nothing is waited for in vain.  A neighbor in Loading has a request     *)
(* thread or is about to leave Loading; an end that takes itself for the   *)
(* master retransmits its description or is about to leave Exchange.       *)
SomethingPending ==
    \A r \in Ends : LET n == on[r] IN
       /\ n.state = "Loading" =>
             \/ Pending(n, Lsreq)
             \/ {"loading_done", "seqnumber_mismatch", "bad_lsreq"} \cap Queue(n) # {}
       /\ n.state \in {"ExStart", "Exchange"} /\ "MS" \in n.bits =>
             \/ Pending(n, Dbdesc)
             \/ {"exchange_done", "seqnumber_mismatch", "bad_lsreq"} \cap Queue(n) # {}

(* "Duplicated dbdesc causes retransmit": what the slave sends in answer   *)
(* to a duplicate is the packet that it sent before.  Two packets with the *)
(* same bits and sequence number, one after the other, have the same LSA   *)
(* headers.                                                                *)
DuplicatesAreIdentical ==
    \A r \in Ends : \A i \in 1 .. Len(link[r]) - 1 :
       LET p == link[r][i]  q == link[r][i + 1] IN
       p.type = "dbdesc" /\ q.type = "dbdesc" /\ p.bits = q.bits /\ p.seq = q.seq
       => p.lsas = q.lsas

(* Both ends are Full from some time on.                                   *)
AdjacencyForms == <>[](\A r \in Ends : on[r].state = "Full")

=============================================================================
