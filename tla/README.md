# Verification of ospf6d with MANET designated routers

This directory holds TLA+ models of `ospf6d`, the OSPFv3 daemon of this
repository, which extends the Quagga daemon by an interface type for mobile ad
hoc networks (OSPF-MDR, RFC 5614). The models follow the C code under
`src/ospf6d/` and `src/lib/thread.c`. TLC checks them on small instances; TLAPS
proves the main invariants of flooding for every instance.

## The system

`ospf6d` is one process with one event loop. All concurrency is between
routers, and between the events, timers and packets of one router. Its parts:

| part | state | operations | interacts with |
|---|---|---|---|
| scheduler (`lib/thread.c`) | ready, event, timer and read queues | add, cancel, fetch, call | everything: handlers run to completion, one at a time |
| LSAs and LSDB (`ospf6_lsa.c`, `ospf6_lsdb.c`) | instances with sequence number, age, threads `expire` and `refresh`; databases | add, remove, compare, age, expire, refresh | flooding, exchange, SPF |
| flooding (`ospf6_flood.c`) | `retrans_count`, `retrans_list`, `request_list`, update and acknowledgement lists | originate, purge, receive, flood, clear, install, acknowledge | neighbors, LSDB |
| MaxAge removal (`ospf6_top.c`) | thread `maxage_remover` | schedule, remove | flooding, neighbor states |
| neighbor state machine (`ospf6_neighbor.c`) | state, Database Description bits and sequence number, lists, threads | the events of RFC 2328 10.3 | all packets |
| packets (`ospf6_message.c`) | lists of what is to be sent | receive and send of the five packet types | neighbors, flooding |
| MDR selection (`ospf6_mdr.c`) | MDR level, parents, dependent neighbors, cost matrix | `ospf6_calculate_mdr`, set level of a neighbor | Hellos, adjacencies |
| MDR Hellos and adjacencies (`ospf6_mdr_message.c`, `_neighbor.c`, `_interface.c`) | reported neighbors, selectors, children, Hello sequence numbers | Hello send and receive, DD TLV, need and keep adjacency | selection, neighbor states |
| MDR flooding (`ospf6_mdr_flood.c`) | backup-wait list and timer, acknowledgement cache | flood, backup wait, acknowledge | selection, flooding |
| interface and DR election (`ospf6_interface.c`) | interface state, DR, BDR | up, wait timer, backup seen, neighbor change | Hellos, adjacencies |
| LSA origination (`ospf6_intra.c`, second half of `ospf6_mdr.c`) | scheduled threads per LSA type | schedule, originate | neighbor states |
| SPF and routes (`ospf6_spf.c`, `ospf6_route.c`, `ospf6_abr.c`, `ospf6_asbr.c`) | candidate queue, tables with flags | calculate, merge, redistribute | LSDB, zebra |

The hard behaviours are lost, late and reordered packets; neighbors that come
and go in the middle of an exchange; a router that restarts; copies of one LSA
on many lists whose number is kept in a counter elsewhere; events that are
queued under a condition and run later; and distributed selection from stale
information. `PROJECT.json` lists them as hazards at the line where they bite,
with the properties that would notice.

The other daemons of the repository (zebra, bgpd, ospfd, isisd, ripd, ripngd,
babeld, xpimd) and the library's containers, parsers and I/O are not modelled:
they are separate programs inherited from Quagga, or have no protocol of their
own.

## Modules

### Flooding: `LsaInstance`, `FloodOps`, `Flooding`, `FloodingProofs`

`LsaInstance` reduces an LSA to one key, since every list is a map from keys to
instances and every operation works on one key. An instance is its sequence
number and whether it has reached MaxAge, which is what `ospf6_lsa_compare`
tells apart (checksums and `MAX_AGE_DIFF` aside).

`FloodOps` states the flooding procedure as operators from router state to
router state, named after the C functions: `Flood` is `ospf6_flood`,
`FloodClear` is `ospf6_flood_clear`, `ReceiveLsa` is `ospf6_receive_lsa`, and so
on. The states Down to ExStart are one state "Below", because flooding only asks
whether a neighbor has reached Exchange. Lists of packets on their way out
(`lsupdate_list`, `lsack_list`) belong to the network, which delays and loses.

`Flooding` runs these operators in one router against neighbors that may send,
acknowledge or describe any instance they can hold, at any time. This covers
loss, duplication and reordering. Three constants select the environment:
`Own` (the LSA is the router's own), `Restarted` (neighbors hold newer
instances of it from an earlier life) and `NearExpiry` (a copy may be sent
within InfTransDelay of MaxAge, when `ospf6_lsa_age_update_to_send` makes the
copy MaxAge before its original). A newer instance that MinLSArrival rejects
is a lost message. Sequence number wrap-around is not reached.

### Routers together: `FloodingNetwork`

Routers that run `FloodOps` against each other over links that hold one message
of each kind per direction. A later message replaces an earlier one, which
stands for a loss, and updates, acknowledgements and requests may also be lost
outright. Descriptions are not: they are sent again until they have been read,
and `exchange_done` waits for that. In the one case in which the code goes on
without a description (finding 3) `GapIsCovered` need not hold;
that case is left to `Exchange`. The database exchange is reduced to what flooding depends on:
who describes which instance, requests it and falls back; `Exchange` models it
in full. `other_lsa_sent` stands for the other LSAs that share a send thread.

### Database exchange: `Exchange`

Two routers that form an adjacency: negotiation, description in several packets,
requests, updates, and the fall-back events. The scheduler is explicit, because
some of the code is right only by its order: `thread_fetch` moves the events,
then the expired timers, then one packet to the ready list, and a new batch is
not taken before the list is drained. The router with the larger id is the
master. The records of the two ends hold the fields of `struct ospf6_neighbor`
that take part. LSAs do not change while they are exchanged, but may be flushed.
Three history variables say what the properties have to tell apart: `reused` (the
exchange started with a sequence number that old packets have), `taken` (what
`exchange_done` has removed from the slave's last description) and `emptied`
(those that the master had not read when that description was sent again).

### MDR selection: `MdrSelection`, `MdrCalculation`, `MdrNetwork`

`MdrSelection` is `ospf6_calculate_mdr` with its five phases: the greatest
neighbor, breadth-first search, labeling for disjoint paths, parents, and
non-flooding MDRs. `MdrCalculation` calls it once for every neighborhood.
`MdrNetwork` lets routers call it on what they have heard, send Hellos that some
neighbors miss, form and drop adjacencies, and lose links. A Hello is received
when it is sent. So is the first Database Description packet; the answer carries
the MDR TLV only if it has the I-bit (`AnswersInitial`): a neighbor that turns
slave in ExStart has its own initial packet cancelled and answers without, and
the initiator learns nothing of its level. The configuration is the default one: every Hello is full
(`TwoHopRefresh` 1), `MDRConstraint` 3, equal priorities; `AdjConnectivity` is
1 or 2. The wait after start-up is over. The rest of the exchange succeeds once
both ends have agreed to be adjacent.

## Runs

Flooding, one router (two neighbors, so that entries of one neighbor can be
stale while the other is served; sequence numbers to 2 or 3, so that an instance
can be superseded, and an own one re-originated after a flush):

* `foreign`: another router's LSA. Count and lists agree exactly, entries are
  the database copy, lists follow the neighbor state, a live copy is always
  scheduled for retransmission, the database copy never goes back, and removal
  happens only when nobody needs the LSA. `ThreadsFollowDatabase`: no expire or
  refresh thread outlives the database copy it points to, and a copy that is not
  MaxAge has its expire timer, whatever replaced or aged it. MaxAge copies are excepted from the
  scheduling: `negotiation_done` lists them without arming the send thread.
* `own`: the router's own LSA. The count covers the lists, and the inductive
  invariant of the proofs holds.
* `near_expiry`, `restart` (violations): two ways in which the assertion
  `retrans_count >= 0` of `ospf6_decrement_retrans_count` fails. See findings.

Several routers:

* `pair`: two routers, one loss of the neighbor at one end. Either the owner may
  flush the LSA, or it has restarted and the neighbor has an instance from
  before. `GapIsCovered` says that two Full routers with different instances have
  a retransmission pending that will repair it; `Converges` that they agree in
  the end; `PriorIsReplaced` that the old instance is replaced or flushed.
  `Converges` does not say how soon: a MaxAge copy that `negotiation_done` has
  listed waits until another LSA arms the thread, which is assumed to happen.
* `triangle`: three routers in a cycle, one lost update, acknowledgement or
  request; the first two of these.

Exchange:

* `exchange_loss`: each router has an LSA that the other lacks and both have a
  third, one LSA per packet, so that the slave's last packet describes something.
  One packet of any kind is lost and one LSA is flushed. Both ends become Full,
  and the assertion of `loading_done` holds. Full means synchronized, except for
  what `exchange_done` took from the slave's description before the master had
  read it (`emptied`, finding 3): without that exception TLC finds the property
  violated within these bounds, so the case happens, and with it nothing else is
  ever missing.
* `exchange_reset`: one LSA per packet, three LSAs with an overlap, and a one-way
  Hello at any time. The clock may stand still between two exchanges
  (`FastRestart`), so that old packets fit. Nothing is waited for without a
  pending thread, and the adjacency forms. `FullIsSynchronized` is claimed for
  exchanges that started with numbers not in use (`~reused`); with an old packet
  that fits it does not hold, as the first number is a clock in seconds: without
  that condition TLC finds a counterexample within the same bounds.
* `last_packet` (violation): see findings.

MDR selection:

* `mdr_calculation`: all levels and links of four neighbors (31,104 states). The
  labeling of Phase 3 agrees with a reference by cuts (Menger): a router that is
  no MDR becomes a Backup MDR exactly if some neighbor has no two disjoint paths
  from the greatest one. The two error messages of Phase 3 cannot occur. The same
  run with five neighbors (1.5 million states) also passes, but is too long to
  keep.
* `mdr_selection`: four routers in lines, a star, or a triangle with one router
  apart; one reception or one link fails. The network may fall into parts, and
  the properties are about each.
* `mdr_backup`: `AdjConnectivity` 2; a cycle of four routers, four routers that
  are all neighbors, and a network of five routers, the smallest found in which
  an MDR does not flood.

The network properties are about settled states, in which no Hello or Database
Description packet changes anything; `Settles` (checked in `mdr_selection`)
says that they are reached. `Connected` and `Biconnected` are
defined by cuts, independently of the code's searches.

| run | distinct states |
|---|---|
| `foreign`, `own` | 3,984 and 3,666 (neighbors are symmetric) |
| `pair`, `triangle` | 307,482 and 30,681 |
| `exchange_loss`, `exchange_reset` | 123,919 and 187,841 |
| `mdr_calculation` | 31,104 |
| `mdr_selection`, `mdr_backup` | 71,881 and 160,119 |

Runs larger than these that were made once and passed: `pair` with a lost message
as well as a lost neighbor and flushing after a restart (624,829 states, one
fault of either kind), `exchange_loss` with two lost packets (390,413), and
`mdr_backup` on a cycle of four routers with a chord (61,184).

### Fairness

`FloodingNetwork`: a packet that is not lost is handled and a pending thread
runs (weak fairness), as the event loop guarantees. `other_lsa_sent` is fair
because every router refreshes its LSAs every `LS_REFRESH_TIME`, which arms the
send thread. Origination, flushing, losses and lost neighbors are not fair; the
last two are bounded. `Exchange`: the scheduler is weakly fair; a timer that is
pending again and again expires, and two-way Hellos keep coming (strong
fairness, since the guard of `thread_fetch` comes and goes with the queues).
`MdrNetwork`: Hellos are periodic and reach every neighbor again and again,
`ospf6_dbdesc_send` repeats itself, the inactivity timer expires. These are weak
fairness conditions written as "infinitely often idle, or infinitely often
taken".

### Deadlock

It is checked in `Flooding` and `MdrNetwork`. In `FloodingNetwork` and
`Exchange` routers that agree are at rest; the liveness properties exclude any
other standstill. `MdrCalculation` makes one call.

## What is proved

`FloodingProofs` proves, for every finite set of neighbors and every `MaxSeq`,
assuming `~NearExpiry` and that an own LSA does not meet newer instances from
before a restart (`Own => ~Restarted`):

* `Invariance`: `Spec => []IInv`;
* `ForeignLsaCounts` (`~Own`): the count is exactly the number of lists that hold
  the LSA, and every entry is the database copy;
* `RetransCountSafe`: the count covers the lists and is never negative, so the
  assertion cannot fail;
* `ListsAndTypes`: types, and lists follow the neighbor state.

The two assumptions are necessary: without either, TLC finds the assertion
violated (`near_expiry`, `restart`).

None of the three is inductive. That a decrement keeps the count non-negative
needs that the count covers the lists. That a new object may start its own count
needs that no entry of the old instance is left which flooding does not
overwrite; `ospf6_flood_clear` removes only entries equal to the old copy, so
one must know what the lists hold: the database copy, or, after premature
aging of an own LSA, its younger twin on the list of a neighbor that flooding
passes over (`CopyOfDatabase`). Such a neighbor is in Exchange or Loading
(`ListsOnlyWhenAdjacent`) and requests no larger sequence number
(`NoNewerOwnRequest`), hence the next instance is flooded to it and overwrites
the entry. `IInv` is the conjunction with `CountCovers`; run `own` checks it. The
proof goes bottom-up: effects of the operators on the fields, preservation of
`Consistent` by each operator, one step per action.

Only model-checked: the action properties, everything about several routers,
`Exchange` and the MDR modules. Liveness is out of the prover's reach, and so is
`MdrSelection`, which is recursive.

## Findings

1. `restart`: `src/ospf6d/ospf6_flood.c:214` asserts that the count is not
   negative. After a restart the own LSA is flooded in Exchange, found older than
   the neighbor's, and flushed. Premature aging changes the database copy in
   place, so `ospf6_flood_clear` does not recognise the copy on the list; the
   neighbor is passed over by flooding because it is asked for a newer instance.
   The next instance starts a count without that entry, and losing the neighbor
   takes it to -1.
2. `near_expiry`: sending a copy in the last InfTransDelay before MaxAge makes
   the copy MaxAge first; the entry survives `ospf6_flood_clear` in the same way.
3. `last_packet`: `exchange_done` empties `dbdesc_list` at once
   (`src/ospf6d/ospf6_neighbor.c:664`). If the slave's last packet is lost, the
   answer to the master's duplicate has no LSA headers, so the master completes
   the exchange without them. `src/ospf6d/ospf6_message.c:745` says that the slave
   retransmits; the timer that would keep the list is commented out.
   `FullIsSynchronized` excepts exactly these LSAs.

One remark without a run: `src/doc/ospf6d-manet.texi:63` says that the optional
non-flooding MDR check is not performed; Phase 5 of `ospf6_calculate_mdr`
performs it, and `MdrSelection` models it.

## Bounds

All bounds are constants of the modules (`MaxSeq`, `MaxBreaks`, `MaxLosses`,
`MaxOneway`, `MaxFlushes`, `MaxTransit`, `MaxFaults`). Two
neighbors suffice for one to be stale while the other proceeds; three routers
for a flooding cycle; four routers for a path longer than the neighborhood that
an MDR sees, and five for an MDR that others make redundant. Each property fails
for the mutant of the code that `PROJECT.json` names, within the same bounds.
`MaxTransit` says how many packets may be under way when a retransmission timer
expires: with 1, a timer fires only after a loss or in a standstill.

## Not modelled, and the plan

In this order:

1. `AdjacencyFormation`: `adjacency_formation_limit` with its deferred neighbors,
   which `seqnumber_mismatch` and `bad_lsreq` bypass, against the limit that
   `doc/ospf6d.texi` documents; every deferred adjacency forms in the end.
2. `DrElection`: interface states, wait timer, `dr_election` and ordinary Hellos
   on a broadcast link; agreement on DR and BDR, no preemption, termination.
3. `DifferentialHello`: 16-bit Hello sequence numbers, `HelloRepeatCount`,
   `TwoHopRefresh`; the receiver's lists equal the sender's, or it knows that they
   may not; the start-up wait of `ospf6_calculate_mdr`.
4. `MdrFlooding`: multicast flooding by MDRs, backup wait, acknowledgement cache,
   composed with `FloodOps`; abstract specification: every adjacent router
   eventually holds the instance.
5. `Origination`: scheduled LSAs and LSAFullness; what is advertised follows the
   neighbor states in the end.
6. `Spf` and `RouteTable`: Dijkstra against shortest paths, routes follow the
   LSDB after the last scheduled run.
7. An abstract exchange (two databases are merged in one step) that `Exchange`
   refines, and abstract flooding that `FloodingNetwork` refines.
8. Proofs: `RemovedWhenUnneeded` and `DatabaseMovesForward`; type correctness and
   `LoadingDoneAssertion` of `Exchange`; the DR election's safety.

Encodings, packet validation, sockets, command line, display, SNMP, the zebra
protocol and link metrics stay out: they are I/O or arithmetic without protocol
state.
