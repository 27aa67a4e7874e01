--------------------------- MODULE FloodingNetwork ---------------------------
(***************************************************************************)
(* Routers of ospf6d that run the flooding procedure of FloodOps against   *)
(* each other over point-to-point links, for one LSA that Owner            *)
(* originates.  Every router runs the same operators as the router of      *)
(* Flooding, so here the neighbors are no free environment.                *)
(*                                                                         *)
(* Between two routers the network holds at most one message of each kind  *)
(* in each direction.  A message that is sent while one of its kind is     *)
(* under way replaces it, and updates, acknowledgements and requests may   *)
(* be lost; messages of different kinds overtake each other.  Duplicates   *)
(* come from retransmission.  lsupdate_list and lsack_list are part of the *)
(* network.                                                                *)
(*                                                                         *)
(* Of the database exchange there is what flooding depends on.  One end    *)
(* enters Exchange first and describes its LSDB; the other follows when    *)
(* the description arrives.  An end that falls back below Exchange is      *)
(* followed by the other when that notices (seqnumber_mismatch).  A        *)
(* description is sent again until it has been read and is not lost here.  *)
(* The one case in which the code goes on without it, the last packet of   *)
(* the slave after exchange_done has emptied dbdesc_list, is the subject   *)
(* of Exchange and excluded here.                                          *)
(***************************************************************************)
EXTENDS FloodOps

CONSTANTS
    Router,         \* the routers
    Link,           \* the links: sets of two routers
    Owner,          \* the router that originates the LSA
    Start,          \* the neighbor state that all adjacencies start in: "Below"
                    \* or "Full"
    Scenarios,      \* what to start with: purges, Owner may flush the LSA, and
                    \* prior, the sequence number of the instance that the
                    \* others hold from before Owner restarted, 0 for none
    MaxBreaks,      \* bound: how often a neighbor is lost
    MaxLosses       \* bound: how often a message is lost on the way

ASSUME NetworkAssumption ==
    /\ IsFiniteSet(Router) /\ Owner \in Router
    /\ \A l \in Link : l \subseteq Router /\ Cardinality(l) = 2
    /\ Start \in {"Below", "Full"}
    /\ Scenarios \subseteq [purges : BOOLEAN, prior : 0..MaxSeq]
    /\ Start = "Full" => \A s \in Scenarios : s.prior = 0
    /\ MaxBreaks \in Nat /\ MaxLosses \in Nat

VARIABLES
    rtr,                \* [Router -> states of FloodOps]
    lsu, ack, dd, req,  \* [Pairs -> Slot or Empty]: the message of each kind
                        \* on its way from p[1] to p[2]
    purges,             \* of the scenario
    breaks, losses      \* counters for the bounds

net == <<lsu, ack, dd, req>>

bounds == <<purges, breaks, losses>>

vars == <<rtr, net, bounds>>

Empty == [seq |-> -1, maxage |-> FALSE]

Peers(r) == {s \in Router : {r, s} \in Link}

Pairs == {p \in Router \X Router : p[2] \in Peers(p[1])}

Quiet == [p \in Pairs |-> Empty]

Put(chan, r, T, lsa) == [p \in Pairs |-> IF p[1] = r /\ p[2] \in T THEN lsa ELSE chan[p]]

Take(chan, s, r) == [chan EXCEPT ![<<s, r>>] = Empty]

(* What the LSDB of r holds at the start of a scenario.                    *)
InitialDb(r, prior) ==
    IF r = Owner \/ prior = 0 THEN NoLsa ELSE [seq |-> prior, maxage |-> FALSE]

Init ==
    /\ \E s \in Scenarios :
          /\ purges = s.purges
          /\ rtr = [r \in Router |->
                [db |-> InitialDb(r, s.prior), count |-> 0,
                 expire |-> InitialDb(r, s.prior) # NoLsa,
                 refresh |-> FALSE, self |-> FALSE, remover |-> FALSE,
                 state   |-> [n \in Peers(r) |-> Start],
                 retrans |-> [n \in Peers(r) |-> NoLsa],
                 request |-> [n \in Peers(r) |-> NoLsa],
                 armed   |-> [n \in Peers(r) |-> FALSE]]]
    /\ lsu = Quiet /\ ack = Quiet /\ dd = Quiet /\ req = Quiet
    /\ breaks = 0 /\ losses = 0

Set(r, R) == rtr' = [rtr EXCEPT ![r] = R]

Adjacent(r, s) == rtr[r].state[s] # "Below"

-----------------------------------------------------------------------------
(* What ospf6_receive_lsa sends.  FloodedTo: the neighbors that a newer    *)
(* instance is flooded to.  SentBack: the sender gets the database copy,   *)
(* which is more recent.  Acknowledged (ospf6_acknowledge_lsa_allother): a *)
(* newer instance, one that is dropped at MaxAge, and a duplicate that is  *)
(* no implied acknowledgement.  BadLsReq: it is on the request list of the *)
(* sender and not newer.                                                   *)
NotNewer(R, lsa) == ~IsMaxageLsaDrop(R, lsa) /\ ~MoreRecent(R, lsa)

BadLsReq(R, from, lsa) == NotNewer(R, lsa) /\ R.request[from] # NoLsa

FloodedTo(r, from, lsa) ==
    LET R == rtr[r] IN
    IF r = Owner \/ IsMaxageLsaDrop(R, lsa) \/ ~MoreRecent(R, lsa) THEN {}
    ELSE FloodTargets(IF R.db = NoLsa THEN R ELSE FloodClear(R, R.db), {from}, lsa)

SentBack(R, from, lsa) ==
    NotNewer(R, lsa) /\ R.request[from] = NoLsa /\ Compare(lsa, R.db) > 0

(* Mutant: a duplicate is not acknowledged.                                *)
AcknowledgedMutant(R, from, lsa) == IsMaxageLsaDrop(R, lsa) \/ MoreRecent(R, lsa)

Acknowledged(R, from, lsa) ==
    \/ IsMaxageLsaDrop(R, lsa)
    \/ MoreRecent(R, lsa)
    \/ R.request[from] = NoLsa /\ Compare(lsa, R.db) = 0 /\ from \notin Listed(R)

(* ospf6_lsupdate_recv: an update from a neighbor below Exchange is        *)
(* ignored, any other goes to ospf6_receive_lsa.                           *)
ospf6_lsupdate_recv(r, s) ==
    LET R == rtr[r]  lsa == lsu[<<s, r>>]  rest == Take(lsu, s, r) IN
    /\ lsa # Empty
    /\ UNCHANGED <<dd, req, bounds>>
    /\ \/ /\ ~Adjacent(r, s)
          /\ lsu' = rest /\ UNCHANGED <<rtr, ack>>
       \/ /\ Adjacent(r, s) /\ ~BadLsReq(R, s, lsa)
          /\ Set(r, ReceiveLsa(R, s, lsa, r = Owner))
          /\ lsu' = IF SentBack(R, s, lsa) THEN Put(rest, r, {s}, R.db)
                    ELSE Put(rest, r, FloodedTo(r, s, lsa), lsa)
          /\ ack' = IF Acknowledged(R, s, lsa) THEN Put(ack, r, {s}, lsa) ELSE ack

ospf6_lsack_recv(r, s) ==
    /\ ack[<<s, r>>] # Empty
    /\ Set(r, IF Adjacent(r, s) THEN LsackRecv(rtr[r], s, ack[<<s, r>>]) ELSE rtr[r])
    /\ ack' = Take(ack, s, r)
    /\ UNCHANGED <<lsu, dd, req, bounds>>

ospf6_lsupdate_send_neighbor(r, s) ==
    /\ rtr[r].armed[s]
    /\ Set(r, LsupdateSendNeighbor(rtr[r], s, FALSE))
    /\ lsu' = IF Adjacent(r, s) /\ s \in Listed(rtr[r])
              THEN Put(lsu, r, {s}, rtr[r].retrans[s]) ELSE lsu
    /\ UNCHANGED <<ack, dd, req, bounds>>

(* The send thread of a neighbor serves all LSAs: another one arms it.  It *)
(* makes a difference when this LSA is on the list.                        *)
other_lsa_sent(r, s) ==
    /\ s \in Listed(rtr[r]) /\ ~rtr[r].armed[s]
    /\ Set(r, ArmLsupdate(rtr[r], s))
    /\ UNCHANGED <<net, bounds>>

-----------------------------------------------------------------------------
(* The database exchange.  A MaxAge instance is not described.             *)

Summary(R) == IF R.db.maxage THEN NoLsa ELSE R.db

negotiation_done(r, s) ==
    /\ ~Adjacent(r, s)
    /\ ~Adjacent(s, r) \/ dd[<<s, r>>] # Empty
    /\ Set(r, NegotiationDone(rtr[r], s))
    /\ dd' = [dd EXCEPT ![<<r, s>>] = Summary(rtr[r])]
    /\ UNCHANGED <<lsu, ack, req, bounds>>

ospf6_dbdesc_recv(r, s) ==
    LET lsa == dd[<<s, r>>] IN
    /\ lsa # Empty /\ rtr[r].state[s] = "Exchange"
    /\ Set(r, IF lsa = NoLsa THEN rtr[r] ELSE DbdescHeader(rtr[r], s, lsa))
    /\ dd' = Take(dd, s, r)
    /\ UNCHANGED <<lsu, ack, req, bounds>>

exchange_done(r, s) ==
    /\ rtr[r].state[s] = "Exchange" /\ Adjacent(s, r) /\ dd[<<s, r>>] = Empty
    /\ Set(r, ExchangeDone(rtr[r], s))
    /\ UNCHANGED <<net, bounds>>

loading_done(r, s) ==
    /\ rtr[r].state[s] = "Loading" /\ rtr[r].request[s] = NoLsa
    /\ Set(r, StateChange(rtr[r], s, "Full"))
    /\ UNCHANGED <<net, bounds>>

ospf6_lsreq_send(r, s) ==
    /\ rtr[r].state[s] \in Synchronizing /\ rtr[r].request[s] # NoLsa
    /\ req' = [req EXCEPT ![<<r, s>>] = rtr[r].request[s]]
    /\ UNCHANGED <<rtr, lsu, ack, dd, bounds>>

(* Mutant: the result of the lookup is not checked.                        *)
ospf6_lsreq_recvMutant(r, s) ==
    /\ req[<<s, r>>] # Empty
    /\ Set(r, IF Adjacent(r, s) THEN LsreqRecv(rtr[r], s) ELSE rtr[r])
    /\ lsu' = IF Adjacent(r, s) THEN Put(lsu, r, {s}, rtr[r].db) ELSE lsu
    /\ req' = Take(req, s, r)
    /\ UNCHANGED <<ack, dd, bounds>>

(* A request is answered with the database copy.                           *)
ospf6_lsreq_recv(r, s) ==
    /\ req[<<s, r>>] # Empty
    /\ Adjacent(r, s) => rtr[r].db # NoLsa
    /\ Set(r, IF Adjacent(r, s) THEN LsreqRecv(rtr[r], s) ELSE rtr[r])
    /\ lsu' = IF Adjacent(r, s) THEN Put(lsu, r, {s}, rtr[r].db) ELSE lsu
    /\ req' = Take(req, s, r)
    /\ UNCHANGED <<ack, dd, bounds>>

(* One end falls back below Exchange; the descriptions under way are of no *)
(* use any more.                                                           *)
FallBack(r, s, R) ==
    /\ Set(r, R)
    /\ dd' = Take(Take(dd, s, r), r, s)

bad_lsreq(r, s) ==
    /\ Adjacent(r, s)
    /\ FallBack(r, s, RestartExchange(rtr[r], s))
    /\ UNCHANGED <<ack, bounds>>
    /\ \/ /\ lsu[<<s, r>>] # Empty /\ BadLsReq(rtr[r], s, lsu[<<s, r>>])
          /\ lsu' = Take(lsu, s, r) /\ UNCHANGED req
       \/ /\ req[<<s, r>>] # Empty /\ rtr[r].db = NoLsa
          /\ req' = Take(req, s, r) /\ UNCHANGED lsu

(* Mutant: a neighbor that is Full is not reset.                           *)
seqnumber_mismatchMutant(r, s) ==
    /\ rtr[r].state[s] \in Synchronizing /\ ~Adjacent(s, r) /\ dd[<<r, s>>] = Empty
    /\ FallBack(r, s, RestartExchange(rtr[r], s))
    /\ UNCHANGED <<lsu, ack, req, bounds>>

(* The other end answers with a description that does not fit: it has      *)
(* fallen back, and is not waiting for the description of this exchange.   *)
seqnumber_mismatch(r, s) ==
    /\ Adjacent(r, s) /\ ~Adjacent(s, r) /\ dd[<<r, s>>] = Empty
    /\ FallBack(r, s, RestartExchange(rtr[r], s))
    /\ UNCHANGED <<lsu, ack, req, bounds>>

(* inactivity_timer and oneway_received                                    *)
neighbor_lost(r, s) ==
    /\ breaks < MaxBreaks /\ Adjacent(r, s)
    /\ FallBack(r, s, NeighborLost(rtr[r], s))
    /\ breaks' = breaks + 1
    /\ UNCHANGED <<lsu, ack, req, purges, losses>>

(* An update, an acknowledgement or a request is lost.                     *)
lose(r, s) ==
    /\ losses < MaxLosses
    /\ \/ lsu[<<s, r>>] # Empty /\ lsu' = Take(lsu, s, r) /\ UNCHANGED <<ack, req>>
       \/ ack[<<s, r>>] # Empty /\ ack' = Take(ack, s, r) /\ UNCHANGED <<lsu, req>>
       \/ req[<<s, r>>] # Empty /\ req' = Take(req, s, r) /\ UNCHANGED <<lsu, ack>>
    /\ losses' = losses + 1
    /\ UNCHANGED <<rtr, dd, purges, breaks>>

ospf6_maxage_remover(r) ==
    /\ rtr[r].remover
    /\ Set(r, MaxageRemover(rtr[r], r = Owner))
    /\ UNCHANGED <<net, bounds>>

-----------------------------------------------------------------------------
(* The operations of the owner.  R is its state after one of them: what    *)
(* the LSDB then holds has been flooded.                                   *)

OwnerStep(R) ==
    LET O == rtr[Owner]
        B == [O EXCEPT !.db = IF R.db.seq = @.seq THEN R.db ELSE @]
        C == IF O.db = NoLsa THEN O ELSE FloodClear(O, B.db)
    IN  /\ Set(Owner, R)
        /\ lsu' = IF R.db = O.db THEN lsu
                  ELSE Put(lsu, Owner, FloodTargets(C, {}, R.db), R.db)
        /\ UNCHANGED <<ack, dd, req, bounds>>

ospf6_lsa_originate ==
    /\ NewLsSeqnum(rtr[Owner].db) <= MaxSeq
    /\ OwnerStep(LsaOriginate(rtr[Owner]))

ospf6_lsa_refresh ==
    LET O == rtr[Owner] IN
    /\ O.db # NoLsa /\ O.refresh
    /\ O.self => NewLsSeqnum(O.db) <= MaxSeq
    /\ OwnerStep(LsaRefresh(O))

ospf6_lsa_purge ==
    /\ purges /\ rtr[Owner].db # NoLsa /\ rtr[Owner].self
    /\ OwnerStep(LsaPurge(rtr[Owner]))

(* The steps that the network and the timers of the routers bring about.   *)
Receive(r, s) ==
    \/ ospf6_lsupdate_recv(r, s)
    \/ ospf6_lsack_recv(r, s)
    \/ ospf6_dbdesc_recv(r, s)
    \/ ospf6_lsreq_recv(r, s)
    \/ bad_lsreq(r, s)

Next ==
    \/ \E p \in Pairs : LET r == p[1]  s == p[2] IN
          \/ Receive(r, s)
          \/ ospf6_lsupdate_send_neighbor(r, s)
          \/ other_lsa_sent(r, s)
          \/ negotiation_done(r, s)
          \/ exchange_done(r, s)
          \/ loading_done(r, s)
          \/ ospf6_lsreq_send(r, s)
          \/ seqnumber_mismatch(r, s)
          \/ neighbor_lost(r, s)
          \/ lose(r, s)
    \/ \E r \in Router : ospf6_maxage_remover(r)
    \/ ospf6_lsa_originate
    \/ ospf6_lsa_refresh
    \/ ospf6_lsa_purge

Spec == Init /\ [][Next]_vars

(* A packet that is not lost is handled, and a thread that is pending is   *)
(* run.  other_lsa_sent is fair because every router refreshes its LSAs    *)
(* every LS_REFRESH_TIME, which arms the send thread of every neighbor.    *)
(* Nothing is assumed of origination, flushing, lost neighbors and losses. *)
Fairness ==
    /\ \A p \in Pairs : LET r == p[1]  s == p[2] IN
          /\ WF_vars(ospf6_lsupdate_recv(r, s))
          /\ WF_vars(ospf6_lsack_recv(r, s))
          /\ WF_vars(ospf6_dbdesc_recv(r, s))
          /\ WF_vars(ospf6_lsreq_recv(r, s))
          /\ WF_vars(bad_lsreq(r, s))
          /\ WF_vars(ospf6_lsupdate_send_neighbor(r, s))
          /\ WF_vars(other_lsa_sent(r, s))
          /\ WF_vars(negotiation_done(r, s))
          /\ WF_vars(exchange_done(r, s))
          /\ WF_vars(loading_done(r, s))
          /\ WF_vars(ospf6_lsreq_send(r, s))
          /\ WF_vars(seqnumber_mismatch(r, s))
    /\ \A r \in Router : WF_vars(ospf6_maxage_remover(r))
    /\ WF_vars(ospf6_lsa_refresh)

FairSpec == Spec /\ Fairness

-----------------------------------------------------------------------------

(* Every router state and every message has its type; in particular an     *)
(* update, an acknowledgement and a request are about an instance: the     *)
(* handlers never send what a lookup has not found.                        *)
TypeOK ==
    /\ \A r \in Router : rtr[r] \in RouterState(Peers(r))
    /\ \A chan \in {lsu, ack, req} : chan \in [Pairs -> Instances \cup {Empty}]
    /\ dd \in [Pairs -> Slot \cup {Empty}]
    /\ purges \in BOOLEAN /\ breaks \in 0..MaxBreaks /\ losses \in 0..MaxLosses

(* The assertion of ospf6_decrement_retrans_count, in every router.        *)
RetransCountNonNegative == \A r \in Router : rtr[r].count >= 0

(* A difference between two routers that are Full with each other is being *)
(* dealt with: when r holds a more recent instance than s, r retransmits   *)
(* it to s, or s retransmits its own, which r answers.  For an instance at *)
(* MaxAge this is said of its owner: the others may have removed it.       *)
(* Whichever updates, acknowledgements and requests are lost, reordered or *)
(* replaced, no difference is forgotten.                                   *)
GapIsCovered ==
    \A p \in Pairs : LET R == rtr[p[1]]  S == rtr[p[2]] IN
        /\ R.state[p[2]] = "Full" /\ S.state[p[1]] = "Full"
        /\ R.db # NoLsa /\ MoreRecent(S, R.db)
        /\ R.db.maxage => p[1] = Owner /\ S.db # NoLsa
        => R.retrans[p[2]] = R.db \/ (S.db # NoLsa /\ S.retrans[p[1]] = S.db)

(* All adjacencies are Full, nothing waits for an acknowledgement, and the *)
(* routers hold the same instance; one at MaxAge counts as none.           *)
Live(R) == IF R.db.maxage THEN NoLsa ELSE R.db

Agreement ==
    \A p \in Pairs : LET R == rtr[p[1]] IN
        /\ R.state[p[2]] = "Full" /\ p[2] \notin Listed(R)
        /\ Live(R) = Live(rtr[p[2]])

(* When neighbors are no longer lost and the owner originates no more, the *)
(* routers agree for good: resets, requests, retransmissions and           *)
(* acknowledgements lead there and not into a cycle or a standstill.       *)
Converges == <>[]Agreement

(* An instance from before the owner restarted does not stay: in the end   *)
(* the LSA is in an LSDB only if the owner originates it, because the      *)
(* owner takes over or flushes what it receives (ospf6_receive_lsa (f),    *)
(* ospf6_lsa_refresh).                                                     *)
PriorIsReplaced ==
    <>[](\A r \in Router : Live(rtr[r]) # NoLsa => rtr[Owner].self)

=============================================================================
