------------------------------ MODULE MdrNetwork -----------------------------
(***************************************************************************)
(* The routers of a MANET that select MDRs and form adjacencies.  A Hello  *)
(* or the first Database Description packet is received when it is sent,   *)
(* by some of the neighbors, and is lost to the others.  The rest of the   *)
(* database exchange succeeds, see Exchange.                               *)
(***************************************************************************)
EXTENDS MdrSelection

CONSTANTS
    Topologies,     \* the sets of links to start with
    MaxFaults       \* bound on the number of links and receptions that fail

VARIABLES
    links,          \* the links of the network
    oi,             \* [Node -> the record of MdrSelection]
    faults          \* number of links and receptions that have failed

vars == <<links, oi, faults>>

Ends(n, E) == {k \in Node : k # n /\ {n, k} \in E}

(* All neighbors are two-way, and a full Hello of each has been received:  *)
(* until then ospf6_calculate_mdr returns at once.                         *)
Init ==
    /\ links \in Topologies
    /\ faults = 0
    /\ oi = [r \in Node |->
               [id |-> r, level |-> OSPF6_OTHER, parent |-> 0, bparent |-> 0,
                nonflooding |-> FALSE, nbrs |-> SetToSeq(Ends(r, links)),
                dependent |-> {}, adj |-> {}, full |-> {},
                seen |-> [n \in Ends(r, links) |->
                           [level |-> OSPF6_OTHER, child |-> FALSE, selector |-> FALSE,
                            rnl |-> Ends(n, links)]]]]

-----------------------------------------------------------------------------

(* Mutant: the dependent neighbors are not looked at.                      *)
NeedAdjacencyMutant(m, n) ==
    \/ m.level >= OSPF6_BMDR /\ m.seen[n].child
    \/ m.seen[n].level >= OSPF6_BMDR /\ n \in {m.parent, m.bparent}

(* ospf6_mdr_neighbor_need_adjacency *)
NeedAdjacency(m, n) ==
    LET s == m.seen[n] IN
    \/ /\ m.level >= OSPF6_BMDR /\ s.level >= OSPF6_BMDR
       /\ n \in m.dependent \/ s.selector
    \/ m.level >= OSPF6_BMDR /\ s.child
    \/ s.level >= OSPF6_BMDR /\ n \in {m.parent, m.bparent}

(* Mutant: both routers must be MDRs or Backup MDRs.                       *)
KeepAdjacencyMutant(m, n) == m.level > OSPF6_OTHER /\ Level(m, n) > OSPF6_OTHER

KeepAdjacency(m, n) == m.level > OSPF6_OTHER \/ Level(m, n) > OSPF6_OTHER

(* ospf6_update_adjacencies *)
UpdateAdjacencies(m) ==
    LET adj  == m.adj \cup {n \in Nbrs(m) : NeedAdjacency(m, n)}
        keep == {n \in adj : KeepAdjacency(m, n)}
    IN  [m EXCEPT !.adj = keep, !.full = @ \cap keep]

(* The fields drouter and bdrouter of Hellos and of the DD TLV.            *)
DrFields(m) ==
    <<IF m.level = OSPF6_MDR THEN m.id ELSE m.parent,
      IF m.level = OSPF6_BMDR THEN m.id ELSE m.bparent>>

(* Mutant: the neighbor is never taken for a child.                        *)
SetMdrLevelMutant(m, n, dr) ==
    LET l == IF n = dr[1] THEN OSPF6_MDR ELSE IF n = dr[2] THEN OSPF6_BMDR ELSE OSPF6_OTHER
    IN  [m EXCEPT !.seen[n].level = l, !.seen[n].child = FALSE,
                  !.dependent = IF l = OSPF6_OTHER THEN @ \ {n} ELSE @]

(* ospf6_mdr_set_mdr_level *)
SetMdrLevel(m, n, dr) ==
    LET l == IF n = dr[1] THEN OSPF6_MDR ELSE IF n = dr[2] THEN OSPF6_BMDR ELSE OSPF6_OTHER
    IN  [m EXCEPT !.seen[n].level = l,
                  !.seen[n].child = m.id \in {dr[1], dr[2]},
                  !.dependent = IF l = OSPF6_OTHER THEN @ \ {n} ELSE @]

(* ospf6_neighbor_exstart if the neighbor is two-way and needed.           *)
CheckAdjacency(m, n) ==
    IF NeedAdjacency(m, n) THEN [m EXCEPT !.adj = @ \cup {n}] ELSE m

(* ospf6_mdr_hello_recv at m of the Hello of the neighbor s.               *)
HelloRecv(m, s) ==
    LET h == SetMdrLevel([m EXCEPT !.seen[s.id].rnl = Nbrs(s),
                                   !.seen[s.id].selector = m.id \in s.dependent],
                         s.id, DrFields(s))
    IN  CheckAdjacency(h, s.id)

(* ospf6_mdr_process_dd_tlv and the rest of ospf6_dbdesc_recv.             *)
DbdescRecv(m, s) ==
    LET d == SetMdrLevel(m, s.id, DrFields(s)) IN
    CheckAdjacency([d EXCEPT !.seen[s.id].selector = @ \/ Level(d, s.id) > OSPF6_OTHER],
                   s.id)

-----------------------------------------------------------------------------

Listeners(r) == {n \in Ends(r, links) : r \in Nbrs(oi[n])}

(* ospf6_mdr_hello_send at r, not received by the routers in missed.       *)
ospf6_mdr_hello_send(r, missed) ==
    /\ faults' = faults + Cardinality(missed) /\ faults' <= MaxFaults
    /\ \E s \in {UpdateAdjacencies(ospf6_calculate_mdr(oi[r]))}, D \in {Listeners(r) \ missed} :
          oi' = [n \in Node |-> IF n = r THEN s
                                ELSE IF n \in D THEN HelloRecv(oi[n], s) ELSE oi[n]]
    /\ UNCHANGED links

(* The neighbor, in state m once it has read the initial packet of r and   *)
(* agreed, answers with an initial packet of its own: as the master, or    *)
(* because it has fallen back from an exchange that r has forgotten        *)
(* (seqnumber_mismatch).  A slave in ExStart sends no initial packet.      *)
AnswersInitial(m, r) == r < m.id \/ r \in m.full

(* ospf6_dbdesc_send to a neighbor n in state ExStart: the initial packet. *)
(* A neighbor that agrees answers, and the exchange takes place.  Only     *)
(* packets with the I-bit carry the MDR TLV.                               *)
ospf6_dbdesc_send(r, n) ==
    /\ n \in oi[r].adj \ oi[r].full
    /\ {r, n} \in links /\ r \in Nbrs(oi[n])
    /\ LET m == DbdescRecv(oi[n], oi[r])
           q == IF AnswersInitial(m, r) THEN DbdescRecv(oi[r], m) ELSE oi[r]
       IN  oi' = IF r \in m.adj
                 THEN [oi EXCEPT ![n] = [m EXCEPT !.full = @ \cup {r}],
                                 ![r] = [q EXCEPT !.full = @ \cup {n}]]
                 ELSE [oi EXCEPT ![n] = m]
    /\ UNCHANGED <<links, faults>>

Gone(r, n) == n \in Nbrs(oi[r]) /\ {r, n} \notin links

(* A link fails.                                                           *)
Fail(e) ==
    /\ faults < MaxFaults
    /\ links' = links \ {e}
    /\ faults' = faults + 1
    /\ UNCHANGED oi

(* Mutant: the MDRs are not calculated again.                              *)
inactivity_timerMutant(r, n) ==
    /\ Gone(r, n)
    /\ LET stay(k) == k # n IN
       oi' = [oi EXCEPT ![r] = [@ EXCEPT
                !.nbrs = SelectSeq(@, stay), !.adj = @ \ {n}, !.full = @ \ {n},
                !.seen = [k \in DOMAIN @ \ {n} |-> @[k]]]]
    /\ UNCHANGED <<links, faults>>

(* inactivity_timer of r for a neighbor n that is gone.                    *)
inactivity_timer(r, n) ==
    /\ Gone(r, n)
    /\ LET stay(k) == k # n
           m == [oi[r] EXCEPT !.nbrs = SelectSeq(@, stay), !.adj = @ \ {n}, !.full = @ \ {n},
                              !.seen = [k \in DOMAIN @ \ {n} |-> @[k]]]
       IN  oi' = [oi EXCEPT ![r] = UpdateAdjacencies(ospf6_calculate_mdr(m))]
    /\ UNCHANGED <<links, faults>>

Next ==
    \/ \E r \in Node : \E missed \in SUBSET Listeners(r) : ospf6_mdr_hello_send(r, missed)
    \/ \E r \in Node : \E n \in Nbrs(oi[r]) : ospf6_dbdesc_send(r, n) \/ inactivity_timer(r, n)
    \/ \E e \in links : Fail(e)

Spec == Init /\ [][Next]_vars

-----------------------------------------------------------------------------
(* The fairness.  Hellos are sent every hello_interval and some of them    *)
(* reach every neighbor, a Database Description packet is sent again until *)
(* the neighbor answers, and a router that is gone is noticed.  Each       *)
(* conjunct is weak fairness of its action, with the states in which the   *)
(* action changes nothing spelled out.                                     *)

HelloIdle(r) ==
    \E s \in {UpdateAdjacencies(ospf6_calculate_mdr(oi[r]))} :
       s = oi[r] /\ \A n \in Listeners(r) : HelloRecv(oi[n], s) = oi[n]

DbdescIdle(r, n) ==
    \/ n \notin oi[r].adj \ oi[r].full
    \/ n \notin Listeners(r)
    \/ \E m \in {DbdescRecv(oi[n], oi[r])} : r \notin m.adj /\ m = oi[n]

Fairness ==
    /\ \A r \in Node :
          []<>HelloIdle(r) \/ []<><<ospf6_mdr_hello_send(r, {})>>_vars
    /\ \A r, n \in Node :
          []<>DbdescIdle(r, n) \/ []<><<ospf6_dbdesc_send(r, n)>>_vars
    /\ \A r, n \in Node :
          []<>~Gone(r, n) \/ []<><<inactivity_timer(r, n)>>_vars

FairSpec == Spec /\ Fairness

-----------------------------------------------------------------------------

Connected(N, E) ==
    \A T \in SUBSET N : T # {} /\ T # N => \E x \in T, y \in N \ T : {x, y} \in E

Biconnected(N, E) == Connected(N, E) /\ \A n \in N : Connected(N \ {n}, E)

(* Every router of N is in S or has a neighbor in S, and S is connected.   *)
Dominates(S, N) ==
    /\ \A r \in N : r \in S \/ Ends(r, links) \cap S # {}
    /\ Connected(S, links)

Routers(level) == {r \in Node : oi[r].level >= level}

(* The links whose two routers have exchanged their databases.             *)
Adjacencies == {e \in links : \A r, n \in e : r # n => n \in oi[r].full}

(* Nothing changes any more.                                               *)
Settled ==
    /\ \A r, n \in Node : DbdescIdle(r, n) /\ ~Gone(r, n)
    /\ \A r \in Node : HelloIdle(r)

(* The pointers and flags of an interface are about neighbors it has: no   *)
(* parent, dependent or adjacent neighbor outlives its entry in the        *)
(* neighbor_list, and a dependent neighbor is an MDR or a Backup MDR.      *)
TypeOK ==
    \A r \in Node : LET m == oi[r] IN
       /\ m.level \in {OSPF6_OTHER, OSPF6_BMDR, OSPF6_MDR}
       /\ DOMAIN m.seen = Nbrs(m)
       /\ {m.parent, m.bparent} \subseteq Nbrs(m) \cup {0}
       /\ m.full \subseteq m.adj /\ m.adj \subseteq Nbrs(m)
       /\ m.dependent \subseteq {n \in Nbrs(m) : Level(m, n) > OSPF6_OTHER}
       /\ m.nonflooding => m.level = OSPF6_MDR

(* The calculations of the routers, each from what it has last heard of    *)
(* the others, come to rest.                                               *)
Settles == <>[]Settled

(* The parts of the network: more than one router, connected with each     *)
(* other and with no other router.                                         *)
Partitions ==
    {N \in SUBSET Node :
       /\ Cardinality(N) > 1 /\ Connected(N, links)
       /\ \A e \in links : e \subseteq N \/ e \cap N = {}}

(* The MDRs of each partition are a connected dominating set, "CDS" in     *)
(* ospf6_mdr.c: every router has one as a neighbor, and they reach each    *)
(* other.                                                                  *)
MdrsDominate ==
    Settled => \A N \in Partitions : Dominates(Routers(OSPF6_MDR) \cap N, N)

(* The MDRs that flood (not nonflooding_mdr) are enough.                   *)
FloodersDominate ==
    Settled => \A N \in Partitions :
       Dominates({r \in Routers(OSPF6_MDR) \cap N : ~oi[r].nonflooding}, N)

(* The partitions that the loss of any one router leaves connected.        *)
Redundant == {N \in Partitions : Cardinality(N) > 2 /\ Biconnected(N, links)}

(* In such a partition the MDRs and Backup MDRs still dominate when any    *)
(* one router is gone.                                                     *)
BackupsDominate ==
    Settled => \A N \in Redundant : \A n \in N :
       Dominates((Routers(OSPF6_BMDR) \cap N) \ {n}, N \ {n})

(* The adjacencies connect all routers of a partition, so that flooding    *)
(* reaches all of them.                                                    *)
AdjacenciesConnect ==
    Settled => \A N \in Partitions : Connected(N, Adjacencies)

(* With AdjConnectivity 2 they connect a redundant partition even when any *)
(* one router is gone.                                                     *)
AdjacenciesBiconnect ==
    Settled => \A N \in Redundant : Biconnected(N, Adjacencies)

(* Two routers agree on whether they are adjacent and on whether they need *)
(* to be: "The condition must be symmetric: child and parent must agree"   *)
(* in ospf6_mdr_neighbor_need_adjacency.                                   *)
AdjacenciesAgree ==
    Settled => \A r \in Node : \A n \in Nbrs(oi[r]) :
       /\ n \in oi[r].full <=> r \in oi[n].full
       /\ NeedAdjacency(oi[r], n) <=> NeedAdjacency(oi[n], r)

=============================================================================
