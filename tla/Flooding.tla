------------------------------- MODULE Flooding ------------------------------
(***************************************************************************)
(* One router of ospf6d that floods one LSA to its neighbors over          *)
(* interfaces that are not of type MDR.  The neighbors are the             *)
(* environment: they send any instance they can hold, acknowledge any      *)
(* instance, describe it in database description packets, and come and go. *)
(* Messages are lost, duplicated, delayed and reordered by that freedom.   *)
(***************************************************************************)
EXTENDS FloodOps

CONSTANTS
    Nbr,            \* the neighbors of the router
    Own,            \* the LSA is originated by this router
    Restarted,      \* neighbors may hold newer instances of the own LSA,
                    \* originated before the router restarted
    NearExpiry      \* a copy may be sent in the last InfTransDelay seconds
                    \* before its original reaches MaxAge

ASSUME FloodingAssumption ==
    /\ IsFiniteSet(Nbr)
    /\ Own \in BOOLEAN /\ Restarted \in BOOLEAN /\ NearExpiry \in BOOLEAN

VARIABLE rtr        \* the state of the router, a record of FloodOps

(* The assumption on the environment: what a neighbor can hold.  Of an own *)
(* LSA these are the instances that the router has originated since it     *)
(* started, unless it restarted.                                           *)
CanHold(lsa) == Own /\ ~Restarted => lsa.seq <= rtr.db.seq

Init ==
    rtr = [db      |-> NoLsa,
           count   |-> 0,
           expire  |-> FALSE,
           refresh |-> FALSE,
           self    |-> FALSE,
           remover |-> FALSE,
           state   |-> [n \in Nbr |-> "Below"],
           retrans |-> [n \in Nbr |-> NoLsa],
           request |-> [n \in Nbr |-> NoLsa],
           armed   |-> [n \in Nbr |-> FALSE]]

(* ospf6_lsupdate_recv and ospf6_lsack_recv ignore neighbors below         *)
(* Exchange.  A newer instance that violates MinLSArrival is discarded:    *)
(* the same as a lost message.                                             *)
ospf6_receive_lsa(n, lsa) ==
    /\ rtr.state[n] # "Below" /\ CanHold(lsa)
    /\ rtr' = ReceiveLsa(rtr, n, lsa, Own)

ospf6_lsack_recv(n, lsa) ==
    /\ rtr.state[n] # "Below" /\ CanHold(lsa)
    /\ rtr' = LsackRecv(rtr, n, lsa)

ospf6_lsreq_recv(n) ==
    /\ rtr.state[n] # "Below"
    /\ rtr' = LsreqRecv(rtr, n)

(* The send thread of a neighbor serves all LSAs: another one may arm it.  *)
other_lsa_sent(n) ==
    /\ rtr.state[n] # "Below"
    /\ rtr' = ArmLsupdate(rtr, n)

ospf6_lsupdate_send_neighbor(n, stick) ==
    /\ rtr.armed[n]
    /\ stick => NearExpiry /\ ~Own
    /\ rtr' = LsupdateSendNeighbor(rtr, n, stick)

negotiation_done(n) ==
    /\ rtr.state[n] = "Below"
    /\ rtr' = NegotiationDone(rtr, n)

ospf6_dbdesc_recv(n, lsa) ==
    /\ rtr.state[n] = "Exchange" /\ CanHold(lsa)
    /\ rtr' = DbdescHeader(rtr, n, lsa)

exchange_done(n) ==
    /\ rtr.state[n] = "Exchange"
    /\ rtr' = ExchangeDone(rtr, n)

loading_done(n) ==
    /\ rtr.state[n] = "Loading" /\ rtr.request[n] = NoLsa
    /\ rtr' = StateChange(rtr, n, "Full")

restart_exchange(n) ==
    /\ rtr.state[n] # "Below"
    /\ rtr' = RestartExchange(rtr, n)

neighbor_lost(n) == rtr' = NeighborLost(rtr, n)

(* Time passes: every copy of an instance reaches MaxAge with it.  An own  *)
(* LSA is refreshed long before (LS_REFRESH_TIME < MAXAGE).                *)
age(s) ==
    /\ Own => s # rtr.db.seq
    /\ rtr' = [rtr EXCEPT
                 !.db      = AgeCurrent(@, s),
                 !.retrans = [n \in Nbr |-> AgeCurrent(@[n], s)],
                 !.request = [n \in Nbr |-> AgeCurrent(@[n], s)]]

ospf6_lsa_expire ==
    /\ rtr.expire /\ rtr.db.maxage
    /\ rtr' = LsaExpire(rtr)

ospf6_maxage_remover ==
    /\ rtr.remover
    /\ rtr' = MaxageRemover(rtr, Own)

(* The operations on the own LSA.                                          *)
ospf6_lsa_originate ==
    /\ Own /\ NewLsSeqnum(rtr.db) <= MaxSeq
    /\ rtr' = LsaOriginate(rtr)

ospf6_lsa_refresh ==
    /\ Own /\ rtr.db # NoLsa /\ (rtr.self \/ rtr.refresh)
    /\ rtr.self => NewLsSeqnum(rtr.db) <= MaxSeq
    /\ rtr' = LsaRefresh(rtr)

ospf6_lsa_purge ==
    /\ Own /\ rtr.db # NoLsa
    /\ rtr' = LsaPurge(rtr)

Next ==
    \/ \E n \in Nbr :
          \/ \E lsa \in Instances : \/ ospf6_receive_lsa(n, lsa)
                                    \/ ospf6_lsack_recv(n, lsa)
                                    \/ ospf6_dbdesc_recv(n, lsa)
          \/ \E stick \in BOOLEAN : ospf6_lsupdate_send_neighbor(n, stick)
          \/ ospf6_lsreq_recv(n)
          \/ other_lsa_sent(n)
          \/ negotiation_done(n)
          \/ exchange_done(n)
          \/ loading_done(n)
          \/ restart_exchange(n)
          \/ neighbor_lost(n)
    \/ \E s \in Seqs : age(s)
    \/ ospf6_lsa_expire
    \/ ospf6_maxage_remover
    \/ ospf6_lsa_originate
    \/ ospf6_lsa_refresh
    \/ ospf6_lsa_purge

Spec == Init /\ [][Next]_rtr

-----------------------------------------------------------------------------

(* Every field of the router state holds a value of its type.  The count   *)
(* is an integer: that it is not negative is a property of its own.        *)
TypeOK == rtr \in RouterState(Nbr)

(* The threads of the LSA follow the database copy.  None outlives the     *)
(* object it works on, although ospf6_maxage_remover may remove an LSA     *)
(* whose expire timer has not run yet; and a copy that has not reached     *)
(* MaxAge has an expire timer, however it came into the LSDB and whatever  *)
(* it replaced, so that it will not stay there for ever.                   *)
ThreadsFollowDatabase ==
    /\ rtr.db = NoLsa => ~rtr.expire /\ ~rtr.refresh
    /\ rtr.db # NoLsa /\ ~rtr.db.maxage => rtr.expire

(* The assertion of ospf6_decrement_retrans_count: the retransmission      *)
(* count of the database copy never becomes negative, whatever the order   *)
(* of acknowledgements, replacements and resets.                           *)
RetransCountNonNegative == rtr.count >= 0

(* retrans_count counts the neighbors whose retransmission list holds the  *)
(* LSA: the count and the lists, which are changed at different places of  *)
(* the code, agree between any two handlers.                               *)
RetransCountExact == rtr.count = Cardinality(Listed(rtr))

(* The count never falls below the number of lists that hold the LSA, so   *)
(* ospf6_maxage_remover cannot remove an LSA that a neighbor has still to  *)
(* acknowledge.                                                            *)
RetransCountCovers == rtr.count >= Cardinality(Listed(rtr))

(* What is retransmitted is the database copy: no neighbor is sent an      *)
(* instance that has been superseded or removed.                           *)
RetransIsDatabaseCopy == \A n \in Listed(rtr) : rtr.retrans[n] = rtr.db

(* A neighbor below Exchange has no retransmission or request entry (the   *)
(* error message "2-way nbr has nonempty retrans list" of                  *)
(* ospf6_update_adjacencies is never printed), and a Full neighbor no      *)
(* request entry.                                                          *)
ListsFollowState ==
    \A n \in Nbr : /\ rtr.state[n] = "Below" => n \notin Listed(rtr)
                   /\ rtr.state[n] \in {"Below", "Full"} => rtr.request[n] = NoLsa

(* A copy that has not reached MaxAge is retransmitted until it is         *)
(* acknowledged: while it is on a list, the send thread of the neighbor is *)
(* pending.  (For MaxAge copies this does not hold: negotiation_done puts  *)
(* them on the list without arming the thread.)                            *)
RetransmissionScheduled ==
    \A n \in Listed(rtr) : rtr.armed[n] \/ rtr.retrans[n].maxage

(* The database copy is only replaced by a more recent instance.           *)
DatabaseMovesForward ==
    [][rtr.db # NoLsa /\ rtr'.db # NoLsa => Compare(rtr'.db, rtr.db) <= 0]_rtr

(* An LSA leaves the LSDB only at MaxAge, when no neighbor has still to    *)
(* acknowledge it and no database exchange is going on, so that no         *)
(* neighbor can hand back an older instance as new (ospf6_maxage_remover). *)
RemovedWhenUnneeded ==
    [][rtr.db # NoLsa /\ rtr'.db = NoLsa =>
          rtr.db.maxage /\ Listed(rtr) = {} /\ NobodySynchronizing(rtr)]_rtr

-----------------------------------------------------------------------------
(* The inductive invariant.  An entry of a retransmission list is a copy   *)
(* of the database copy, except that premature aging of an own LSA leaves  *)
(* the younger copy on the list of a neighbor that flooding passes over.   *)
(* Such a neighbor requests no instance with a larger sequence number, so  *)
(* the next instance of the own LSA is flooded to it.                      *)

CopyOfDatabase(R) ==
    \A n \in Listed(R) :
        \/ R.retrans[n] = R.db
        \/ Own /\ R.db.maxage /\ R.retrans[n].seq = R.db.seq

ListsOnlyWhenAdjacent(R) ==
    \A n \in Nbr : /\ n \in Listed(R) => R.state[n] # "Below"
                   /\ R.request[n] # NoLsa => R.state[n] \in Synchronizing

NoNewerOwnRequest(R) == Own => \A n \in Nbr : R.request[n].seq <= R.db.seq

CountCovers(R) == /\ R.count >= Cardinality(Listed(R))
                  /\ ~Own => R.count = Cardinality(Listed(R))

Consistent(R) == /\ R \in RouterState(Nbr)
                 /\ CopyOfDatabase(R)
                 /\ ListsOnlyWhenAdjacent(R)
                 /\ NoNewerOwnRequest(R)
                 /\ CountCovers(R)

IInv == Consistent(rtr)

=============================================================================
