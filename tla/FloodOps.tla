------------------------------- MODULE FloodOps ------------------------------
(***************************************************************************)
(* The flooding procedure of ospf6d for one LSA in one router, as          *)
(* operators on the state of the router (ospf6_flood.c, and the parts of   *)
(* ospf6_lsa.c, ospf6_top.c, ospf6_neighbor.c and ospf6_message.c that     *)
(* change the same state).                                                 *)
(*                                                                         *)
(* The state of a router is a record R.  With N the neighbors of R:        *)
(*   db       the instance in the LSDB, or NoLsa                           *)
(*   count    retrans_count of that instance                               *)
(*   expire   its thread `expire' is pending                               *)
(*   refresh  its thread `refresh' is queued as an event (a newer instance *)
(*            of the router's own LSA was received)                        *)
(*   self     the LSDB of self-originated LSAs holds the LSA               *)
(*   remover  the thread maxage_remover is pending (event or 2 s timer)    *)
(*   state    [N -> States], the neighbor state                            *)
(*   retrans  [N -> Slot], retrans_list                                    *)
(*   request  [N -> Slot], request_list                                    *)
(*   armed    [N -> BOOLEAN], thread_send_lsupdate is pending              *)
(*                                                                         *)
(* Flooding only asks whether a neighbor state is below Exchange, is       *)
(* Exchange or Loading, or is Full, so "Below" stands for Down, Attempt,   *)
(* Init, Twoway and ExStart.  The lists lsupdate_list and lsack_list of    *)
(* neighbors and interfaces hold copies on their way out, of which no      *)
(* count is kept: they belong to the network, which may delay and drop.    *)
(***************************************************************************)
EXTENDS LsaInstance, FiniteSets

States == {"Below", "Exchange", "Loading", "Full"}

Synchronizing == {"Exchange", "Loading"}

(* The states of a router with the set N of neighbors.                     *)
RouterState(N) ==
    [db : Slot, count : Int, expire : BOOLEAN, refresh : BOOLEAN,
     self : BOOLEAN, remover : BOOLEAN, state : [N -> States],
     retrans : [N -> Slot], request : [N -> Slot], armed : [N -> BOOLEAN]]

NobodySynchronizing(R) == \A n \in DOMAIN R.state : R.state[n] \notin Synchronizing

Listed(R) == {n \in DOMAIN R.state : R.retrans[n] # NoLsa}

(* ospf6_maxage_remove: queue the remover unless it is pending.            *)
MaxageRemove(R) == [R EXCEPT !.remover = TRUE]

(* ospf6_decrement_retrans_count for the copies of the neighbors in S: the *)
(* count of whatever instance the LSDB holds goes down.  The code asserts  *)
(* that it does not become negative.                                       *)
DecrementRetransCount(R, S) ==
    IF R.db = NoLsa THEN R ELSE [R EXCEPT !.count = @ - Cardinality(S)]

(* The entries of the neighbors in S leave the retransmission lists.       *)
Unlist(R, S) ==
    [DecrementRetransCount(R, S) EXCEPT
        !.retrans = [n \in DOMAIN @ |-> IF n \in S THEN NoLsa ELSE @[n]]]

(* ospf6_flood_clear: drop the copies that are the same instance as lsa.   *)
FloodClear(R, lsa) ==
    Unlist(R, {n \in Listed(R) : Compare(R.retrans[n], lsa) = 0})

(* ospf6_flood_interface (1)(b): a neighbor that is not yet Full and whose *)
(* requested instance is at least as recent as lsa is passed over.         *)
Requesting(R, n) == R.state[n] \in Synchronizing /\ R.request[n] # NoLsa

PassedOver(R, n, lsa) == Requesting(R, n) /\ Compare(lsa, R.request[n]) >= 0

Satisfied(R, n, lsa) == Requesting(R, n) /\ Compare(lsa, R.request[n]) <= 0

(* Mutant: a neighbor below Exchange is flooded to.                        *)
FloodTargetsMutant(R, from, lsa) ==
    {n \in DOMAIN R.state : ~PassedOver(R, n, lsa) /\ n \notin from}

(* The neighbors whose retransmission list receives a copy.  `from' is the *)
(* set that holds the neighbor that sent the LSA, empty when there is none.*)
FloodTargets(R, from, lsa) ==
    {n \in DOMAIN R.state : /\ R.state[n] # "Below"
                            /\ ~PassedOver(R, n, lsa)
                            /\ n \notin from}

(* Mutants: the send thread is not armed; no copy is kept for              *)
(* retransmission.                                                         *)
FloodUnarmed(R, from, lsa) ==
    LET T == FloodTargets(R, from, lsa) IN
    [R EXCEPT
        !.request = [n \in DOMAIN @ |-> IF Satisfied(R, n, lsa) THEN NoLsa ELSE @[n]],
        !.retrans = [n \in DOMAIN @ |-> IF n \in T THEN lsa ELSE @[n]]]

FloodUnlisted(R, from, lsa) ==
    [R EXCEPT
        !.request = [n \in DOMAIN @ |-> IF Satisfied(R, n, lsa) THEN NoLsa ELSE @[n]]]

(* ospf6_flood: put a copy on the lists and arm the retransmission.        *)
Flood(R, from, lsa) ==
    LET T == FloodTargets(R, from, lsa) IN
    [R EXCEPT
        !.request = [n \in DOMAIN @ |-> IF Satisfied(R, n, lsa) THEN NoLsa ELSE @[n]],
        !.retrans = [n \in DOMAIN @ |-> IF n \in T THEN lsa ELSE @[n]],
        !.armed   = [n \in DOMAIN @ |-> @[n] \/ n \in T]]

(* ospf6_install_lsa of an object whose retrans_count is c.  A new object  *)
(* replaces the old one together with the threads that hang on it.         *)
InstallLsa(R, lsa, c) ==
    [R EXCEPT !.db = lsa, !.count = c, !.expire = ~lsa.maxage,
              !.refresh = FALSE, !.remover = @ \/ lsa.maxage]

(* Mutants: the old copies stay on the lists; the new object forgets the   *)
(* increments that flooding made.                                          *)
ReplaceUncleared(R, from, lsa) ==
    InstallLsa(Flood(R, from, lsa), lsa, Cardinality(FloodTargets(R, from, lsa)))

ReplaceUncounted(R, from, lsa) ==
    LET C == IF R.db = NoLsa THEN R ELSE FloodClear(R, R.db) IN
    InstallLsa(Flood(C, from, lsa), lsa, 0)

(* ospf6_flood_clear (old), ospf6_flood (from, lsa), ospf6_install_lsa     *)
(* (lsa) for a new object, in the order all callers use.                   *)
Replace(R, from, lsa) ==
    LET C == IF R.db = NoLsa THEN R ELSE FloodClear(R, R.db) IN
    InstallLsa(Flood(C, from, lsa), lsa, Cardinality(FloodTargets(C, from, lsa)))

(* ospf6_is_maxage_lsa_drop                                                *)
IsMaxageLsaDrop(R, lsa) == lsa.maxage /\ R.db = NoLsa /\ NobodySynchronizing(R)

(* Mutant: the arguments of ospf6_lsa_compare are swapped.                 *)
MoreRecentMutant(R, lsa) == R.db = NoLsa \/ Compare(R.db, lsa) < 0

MoreRecent(R, lsa) == R.db = NoLsa \/ Compare(lsa, R.db) < 0

(* ospf6_receive_lsa (5): flood, install, possibly acknowledge.  A newer   *)
(* instance of the router's own LSA (own) is installed without flooding,   *)
(* and a refresh is queued.                                                *)
ReceiveNewer(R, from, lsa, own) ==
    IF own
    THEN LET C == IF R.db = NoLsa THEN R ELSE FloodClear(R, R.db) IN
         [InstallLsa(C, lsa, 0) EXCEPT !.refresh = TRUE]
    ELSE Replace(R, {from}, lsa)

(* ospf6_send_lsupdate_delayed_msec and thread_add_event: the thread that  *)
(* sends lsupdate_list and retrans_list to n is pending.                   *)
ArmLsupdate(R, n) == [R EXCEPT !.armed[n] = TRUE]

(* ospf6_receive_lsa: the checks in the order of the code.  Step (6) only  *)
(* queues the event bad_lsreq; step (8) sends the database copy.           *)
ReceiveLsa(R, from, lsa, own) ==
    IF IsMaxageLsaDrop(R, lsa) THEN R
    ELSE IF MoreRecent(R, lsa) THEN ReceiveNewer(R, from, lsa, own)
    ELSE IF R.request[from] # NoLsa THEN R
    ELSE IF Compare(lsa, R.db) = 0 THEN Unlist(R, Listed(R) \cap {from})
    ELSE ArmLsupdate(R, from)

(* ospf6_lsreq_recv: a request for an LSA that is not in the LSDB only     *)
(* queues the event bad_lsreq.                                             *)
LsreqRecv(R, n) == IF R.db = NoLsa THEN R ELSE ArmLsupdate(R, n)

(* Mutants: an acknowledgement of any instance counts; an acknowledgement  *)
(* counts when nothing is on the list.                                     *)
LsackRecvAny(R, from, lsa) ==
    IF R.db = NoLsa \/ R.retrans[from] = NoLsa THEN R ELSE Unlist(R, {from})

LsackRecvUnlisted(R, from, lsa) == Unlist(R, {from})

(* ospf6_lsack_recv                                                        *)
LsackRecv(R, from, lsa) ==
    IF \/ R.db = NoLsa \/ R.retrans[from] = NoLsa
       \/ Compare(lsa, R.retrans[from]) # 0
    THEN R
    ELSE LET A == Unlist(R, {from}) IN
         IF R.retrans[from].maxage THEN MaxageRemove(A) ELSE A

(* ospf6_lsa_expire: the object stays the same, so its count goes on from  *)
(* what ospf6_flood_clear left.                                            *)
LsaExpire(R) ==
    LET C == FloodClear(R, R.db) IN
    InstallLsa(Flood(C, {}, C.db), C.db,
               C.count + Cardinality(FloodTargets(C, {}, C.db)))

(* ospf6_lsa_premature_aging: sets the age of the database copy in place.  *)
PrematureAging(R) ==
    IF R.db.maxage THEN R
    ELSE LsaExpire([R EXCEPT !.db.maxage = TRUE, !.refresh = FALSE])

(* Mutant: what is no longer originated is left alone.                     *)
LsaRefreshMutant(R) ==
    IF R.self
    THEN Replace(R, {}, [seq |-> NewLsSeqnum(R.db), maxage |-> FALSE])
    ELSE [R EXCEPT !.refresh = FALSE]

(* ospf6_lsa_refresh: a new instance when the LSA is still self-originated,*)
(* else the instance that was received is flushed.                         *)
LsaRefresh(R) ==
    IF R.self
    THEN Replace(R, {}, [seq |-> NewLsSeqnum(R.db), maxage |-> FALSE])
    ELSE PrematureAging([R EXCEPT !.refresh = FALSE])

(* ospf6_lsa_originate of an instance that differs from the previous one.  *)
LsaOriginate(R) ==
    [Replace(R, {}, [seq |-> NewLsSeqnum(R.db), maxage |-> FALSE])
        EXCEPT !.self = TRUE]

(* ospf6_lsa_purge                                                         *)
LsaPurge(R) == PrematureAging([R EXCEPT !.self = FALSE])

(* ospf6_neighbor_state_change, as far as flooding sees it.                *)
StateChange(R, n, s) ==
    [R EXCEPT !.state[n] = s,
              !.remover = @ \/ (R.state[n] \in Synchronizing /\ s \notin Synchronizing)]

ClearLists(R, n) ==
    [Unlist(R, Listed(R) \cap {n}) EXCEPT !.request[n] = NoLsa]

(* negotiation_done: a MaxAge instance is not described to the neighbor    *)
(* but put on its retransmission list; the send thread is not armed.       *)
NegotiationDone(R, n) ==
    LET C == ClearLists(R, n)
        M == IF C.db = NoLsa \/ ~C.db.maxage THEN C
             ELSE [C EXCEPT !.count = @ + 1, !.retrans[n] = C.db]
    IN  StateChange(M, n, "Exchange")

(* The header loop of ospf6_dbdesc_recv_master and _slave.                 *)
DbdescHeader(R, n, lsa) ==
    IF MoreRecent(R, lsa) THEN [R EXCEPT !.request[n] = lsa] ELSE R

(* exchange_done *)
ExchangeDone(R, n) ==
    StateChange(R, n, IF R.request[n] = NoLsa THEN "Full" ELSE "Loading")

(* Mutant: the lists keep their entries.                                   *)
RestartExchangeMutant(R, n) == StateChange(R, n, "Below")

(* seqnumber_mismatch, bad_lsreq, adj_ok, ospf6_update_adjacencies: back   *)
(* below Exchange with empty lists; the send thread stays as it is.        *)
RestartExchange(R, n) == StateChange(ClearLists(R, n), n, "Below")

(* oneway_received, inactivity_timer with ospf6_neighbor_delete: the same, *)
(* and the send thread is cancelled.                                       *)
NeighborLost(R, n) == [RestartExchange(R, n) EXCEPT !.armed[n] = FALSE]

(* Mutant: sent once.                                                      *)
LsupdateSendNeighborMutant(R, n, stick) == [R EXCEPT !.armed[n] = FALSE]

(* ospf6_lsupdate_send_neighbor: re-armed while the list is not empty.     *)
(* `stick' tells that adding InfTransDelay takes the copy to MaxAge        *)
(* (ospf6_lsa_age_update_to_send), which the copy then keeps.              *)
LsupdateSendNeighbor(R, n, stick) ==
    [R EXCEPT !.armed[n] = R.state[n] # "Below" /\ R.retrans[n] # NoLsa,
              !.retrans[n] = IF R.state[n] # "Below" /\ @ # NoLsa /\ stick
                             THEN [@ EXCEPT !.maxage = TRUE] ELSE @]

(* Mutants: the thread of the removed LSA is not cancelled; the count is   *)
(* not looked at; neither are the neighbor states.                         *)
MaxageRemoverDangling(R, own) ==
    IF ~NobodySynchronizing(R) THEN R
    ELSE IF R.db # NoLsa /\ R.db.maxage /\ R.count = 0 /\ ~own
         THEN [R EXCEPT !.remover = FALSE, !.db = NoLsa]
         ELSE [R EXCEPT !.remover = FALSE]

MaxageRemoverUncounted(R, own) ==
    IF ~NobodySynchronizing(R) THEN R
    ELSE IF R.db # NoLsa /\ R.db.maxage /\ ~own
         THEN [R EXCEPT !.remover = FALSE, !.db = NoLsa, !.expire = FALSE]
         ELSE [R EXCEPT !.remover = FALSE]

MaxageRemoverEager(R, own) ==
    IF R.db # NoLsa /\ R.db.maxage /\ R.count = 0 /\ ~own
    THEN [R EXCEPT !.remover = FALSE, !.db = NoLsa, !.expire = FALSE]
    ELSE [R EXCEPT !.remover = FALSE]

(* ospf6_maxage_remover and OSPF6_LSDB_MAXAGE_REMOVER: tries again later   *)
(* while a neighbor is synchronizing; an own LSA stays in the LSDB.  An    *)
(* LSA that is removed takes its threads along (ospf6_lsa_delete).         *)
MaxageRemover(R, own) ==
    IF ~NobodySynchronizing(R) THEN R
    ELSE IF R.db # NoLsa /\ R.db.maxage /\ R.count = 0 /\ ~own
         THEN [R EXCEPT !.remover = FALSE, !.db = NoLsa, !.expire = FALSE]
         ELSE [R EXCEPT !.remover = FALSE]

=============================================================================
