--------------------------- MODULE FloodingProofs ----------------------------
(***************************************************************************)
(* Proofs about module Flooding, for every finite set of neighbors and     *)
(* every number of instances.                                              *)
(*                                                                         *)
(* The count of the database copy and the retransmission lists are changed *)
(* at different places of the code, so neither of the two invariants that  *)
(* matter is inductive by itself: that a decrement never goes below zero   *)
(* needs that the count covers the lists; that replacing the database copy *)
(* may start a new count needs that ospf6_flood_clear, which removes only  *)
(* entries equal to the old copy, leaves no entry that flooding the new    *)
(* one does not overwrite; and that needs to know what is on the lists     *)
(* (CopyOfDatabase), which neighbors flooding skips                        *)
(* (ListsOnlyWhenAdjacent) and which it passes over (NoNewerOwnRequest).   *)
(* IInv is the conjunction.  First come the effects of the operators on    *)
(* the fields, then that each operator preserves Consistent, then one step *)
(* per action.                                                             *)
(***************************************************************************)
EXTENDS Flooding, FiniteSetTheorems, TLAPS

(* ospf6_lsa_compare returns 0 for the same instance only, and orders      *)
(* instances by sequence number first; with equal sequence numbers only    *)
(* the MaxAge instance is more recent.                                     *)
LEMMA CompareIsEquality ==
    ASSUME NEW a \in Slot, NEW b \in Slot
    PROVE  /\ Compare(a, b) = 0 <=> a = b
           /\ Compare(a, b) \in {-1, 0, 1}
           /\ Compare(a, b) < 0 => a.seq >= b.seq
           /\ Compare(a, b) >= 0 => a.seq <= b.seq
           /\ Compare(a, b) < 0 /\ a.seq <= b.seq => ~b.maxage
BY MaxSeqAssumption DEF Compare, Slot, Instances, NoLsa, Seqs

(* The absent LSA is not an instance; its sequence number is below all     *)
(* others.                                                                 *)
LEMMA SlotFacts ==
    /\ NoLsa \in Slot /\ NoLsa \notin Instances /\ Instances \subseteq Slot
    /\ NoLsa.seq = 0 /\ NoLsa.maxage = FALSE
    /\ \A a \in Slot : a.seq \in Nat /\ a.maxage \in BOOLEAN
<1>1. NoLsa \in Slot /\ Instances \subseteq Slot
  BY DEF Slot
<1>2. NoLsa.seq = 0 /\ NoLsa.maxage = FALSE
  BY DEF NoLsa
<1>3. NoLsa \notin Instances
  BY MaxSeqAssumption DEF Instances, NoLsa, Seqs
<1>4. \A a \in Slot : a.seq \in Nat
  BY MaxSeqAssumption DEF Slot, Instances, NoLsa, Seqs
<1>5. \A a \in Instances : a.maxage \in BOOLEAN
  BY DEF Instances
<1>6. \A a \in Slot : a.maxage \in BOOLEAN
  BY <1>2, <1>5, Zenon DEF Slot
<1> QED
  BY <1>1, <1>2, <1>3, <1>4, <1>6

(* Sets of neighbors are finite, so a retransmission count can count them. *)
LEMMA FiniteNeighborSets ==
    ASSUME NEW S \in SUBSET Nbr
    PROVE  IsFiniteSet(S) /\ Cardinality(S) \in Nat
BY FloodingAssumption, FS_Subset, FS_CardinalityType

(* How the number of lists that hold the LSA changes when entries are      *)
(* removed from S and copies are put on the lists of T.                    *)
LEMMA NeighborCounts ==
    ASSUME NEW L \in SUBSET Nbr, NEW S \in SUBSET L, NEW T \in SUBSET Nbr
    PROVE  /\ Cardinality(L \ S) = Cardinality(L) - Cardinality(S)
           /\ Cardinality(L \cup T) <= Cardinality(L) + Cardinality(T)
           /\ Cardinality({}) = 0
<1>1. /\ IsFiniteSet(L) /\ Cardinality(L) \in Nat
      /\ IsFiniteSet(S) /\ Cardinality(S) \in Nat
      /\ IsFiniteSet(T) /\ Cardinality(T) \in Nat
      /\ IsFiniteSet(L \cap T) /\ Cardinality(L \cap T) \in Nat
  BY FiniteNeighborSets
<1>2. L \cap S = S
  OBVIOUS
<1>3. Cardinality(L \ S) = Cardinality(L) - Cardinality(L \cap S)
  BY <1>1, FS_Difference
<1>4. Cardinality(L \cup T) = Cardinality(L) + Cardinality(T) - Cardinality(L \cap T)
  BY <1>1, FS_Union
<1>5. Cardinality(L \ S) = Cardinality(L) - Cardinality(S)
  BY <1>2, <1>3
<1>6. Cardinality(L \cup T) <= Cardinality(L) + Cardinality(T)
  BY <1>1, <1>4
<1>7. Cardinality({}) = 0
  BY FS_EmptySet
<1> QED
  BY <1>5, <1>6, <1>7

(* ospf6_decrement_retrans_count with the removal from the lists of S: the *)
(* count of a database copy goes down by as many entries as leave the      *)
(* lists; nothing else changes.                                            *)
LEMMA UnlistFields ==
    ASSUME NEW R \in RouterState(Nbr), NEW S \in SUBSET Listed(R)
    PROVE  /\ Unlist(R, S) \in RouterState(Nbr)
           /\ Listed(Unlist(R, S)) = Listed(R) \ S
           /\ Unlist(R, S).db = R.db
           /\ R.db # NoLsa => Unlist(R, S).count = R.count - Cardinality(S)
           /\ Unlist(R, S).retrans = [n \in Nbr |-> IF n \in S THEN NoLsa ELSE R.retrans[n]]
           /\ Unlist(R, S).request = R.request
           /\ Unlist(R, S).state = R.state
<1>1. IsFiniteSet(S) /\ Cardinality(S) \in Nat
  BY FiniteNeighborSets DEF Listed, RouterState
<1>2. DecrementRetransCount(R, S) \in RouterState(Nbr)
  BY <1>1 DEF DecrementRetransCount, RouterState
<1> QED
  BY <1>1, <1>2 DEF Unlist, DecrementRetransCount, RouterState, Listed, Slot

(* ospf6_flood puts copies of lsa on the lists of its targets only, and    *)
(* request entries can only disappear.                                     *)
LEMMA FloodFields ==
    ASSUME NEW R \in RouterState(Nbr), NEW F, NEW lsa \in Instances
    PROVE  LET T == FloodTargets(R, F, lsa)
               D == Flood(R, F, lsa)
           IN  /\ D \in RouterState(Nbr)
               /\ T \in SUBSET Nbr
               /\ Listed(D) = Listed(R) \cup T
               /\ \A n \in Nbr : D.retrans[n] = IF n \in T THEN lsa ELSE R.retrans[n]
               /\ \A n \in Nbr : D.request[n] \in {R.request[n], NoLsa}
               /\ D.state = R.state /\ D.db = R.db /\ D.count = R.count
<1>1. FloodTargets(R, F, lsa) \in SUBSET Nbr
  BY DEF FloodTargets, RouterState
<1>2. Flood(R, F, lsa) \in RouterState(Nbr)
  BY <1>1, SlotFacts DEF Flood, RouterState
<1> QED
  BY <1>1, <1>2, SlotFacts DEF Flood, RouterState, Listed

(* ospf6_install_lsa changes the database copy and its count, but no list. *)
LEMMA InstallFields ==
    ASSUME NEW R \in RouterState(Nbr), NEW lsa \in Instances, NEW c \in Int
    PROVE  LET I == InstallLsa(R, lsa, c)
           IN  /\ I \in RouterState(Nbr)
               /\ I.db = lsa /\ I.count = c
               /\ I.state = R.state /\ I.retrans = R.retrans /\ I.request = R.request
               /\ Listed(I) = Listed(R)
BY SlotFacts DEF InstallLsa, RouterState, Listed

(* The entries that ospf6_flood_clear(db) removes: all that equal db.      *)
LEMMA FloodClearFields ==
    ASSUME NEW R \in RouterState(Nbr), R.db # NoLsa
    PROVE  LET C == FloodClear(R, R.db)
           IN  /\ C \in RouterState(Nbr)
               /\ C.db = R.db /\ C.state = R.state /\ C.request = R.request
               /\ Listed(C) = {n \in Listed(R) : R.retrans[n] # R.db}
               /\ \A n \in Listed(C) : C.retrans[n] = R.retrans[n]
               /\ C.count - Cardinality(Listed(C)) = R.count - Cardinality(Listed(R))
<1> DEFINE S == {n \in Listed(R) : Compare(R.retrans[n], R.db) = 0}
<1>1. S = {n \in Listed(R) : R.retrans[n] = R.db}
  BY CompareIsEquality DEF RouterState, Listed
<1>2. S \in SUBSET Listed(R) /\ Listed(R) \in SUBSET Nbr
  BY DEF Listed, RouterState
<1>3. /\ IsFiniteSet(S) /\ Cardinality(S) \in Nat
      /\ IsFiniteSet(Listed(R)) /\ Cardinality(Listed(R)) \in Nat
  BY <1>2, FiniteNeighborSets
<1>4. Cardinality(Listed(R) \ S) = Cardinality(Listed(R)) - Cardinality(S)
  BY <1>2, NeighborCounts
<1>5. FloodClear(R, R.db) = Unlist(R, S)
  BY DEF FloodClear
<1> HIDE DEF S
<1>6. R.count \in Int
  BY DEF RouterState
<1>7. /\ Listed(Unlist(R, S)) = Listed(R) \ S
      /\ Unlist(R, S).count = R.count - Cardinality(S)
      /\ Unlist(R, S) \in RouterState(Nbr)
      /\ Unlist(R, S).db = R.db /\ Unlist(R, S).state = R.state
      /\ Unlist(R, S).request = R.request
      /\ Unlist(R, S).retrans = [n \in Nbr |-> IF n \in S THEN NoLsa ELSE R.retrans[n]]
  BY <1>2, UnlistFields
<1>8. Listed(R) \ S = {n \in Listed(R) : R.retrans[n] # R.db}
  BY <1>1
<1>9. \A n \in Listed(R) \ S : Unlist(R, S).retrans[n] = R.retrans[n]
  BY <1>2, <1>7
<1>10. R.count - Cardinality(S) - Cardinality(Listed(R) \ S) = R.count - Cardinality(Listed(R))
  BY <1>3, <1>4, <1>6
<1> QED
  BY <1>5, <1>7, <1>8, <1>9, <1>10

-----------------------------------------------------------------------------
(* Preservation of the invariant by the operators.                         *)

(* In a consistent state with the LSA on some list, the LSDB holds an      *)
(* instance: ospf6_decrement_retrans_count finds the copy it counts for.   *)
LEMMA ListedNeighbors ==
    ASSUME NEW R, Consistent(R)
    PROVE  /\ R \in RouterState(Nbr) /\ R.db \in Slot /\ R.count \in Int
           /\ Listed(R) \in SUBSET Nbr
           /\ Cardinality(Listed(R)) \in Nat
           /\ R.db = NoLsa => Listed(R) = {}
<1>1. R \in RouterState(Nbr) /\ R.db \in Slot /\ R.count \in Int
  BY DEF Consistent, RouterState
<1>2. Listed(R) \in SUBSET Nbr
  BY <1>1 DEF Listed, RouterState
<1>3. R.db = NoLsa => Listed(R) = {}
  BY SlotFacts DEF Consistent, CopyOfDatabase, Listed
<1> QED
  BY <1>1, <1>2, <1>3, FiniteNeighborSets

(* An acknowledgement, an implied acknowledgement or a reset takes entries *)
(* off the lists (ospf6_lsack_recv, ospf6_receive_lsa step 7): count and   *)
(* lists stay in step.                                                     *)
LEMMA UnlistConsistent ==
    ASSUME NEW R, Consistent(R), NEW S \in SUBSET Listed(R)
    PROVE  Consistent(Unlist(R, S))
<1> DEFINE U == Unlist(R, S)
<1>1. /\ R \in RouterState(Nbr) /\ R.db \in Slot /\ R.count \in Int
      /\ Listed(R) \in SUBSET Nbr /\ Cardinality(Listed(R)) \in Nat
      /\ R.db = NoLsa => Listed(R) = {}
  BY ListedNeighbors
<1>2. /\ U \in RouterState(Nbr)
      /\ Listed(U) = Listed(R) \ S
      /\ U.db = R.db
      /\ R.db # NoLsa => U.count = R.count - Cardinality(S)
      /\ U.retrans = [n \in Nbr |-> IF n \in S THEN NoLsa ELSE R.retrans[n]]
      /\ U.request = R.request
      /\ U.state = R.state
  BY <1>1, UnlistFields
<1>3. R.db = NoLsa => U.count = R.count /\ Listed(U) = Listed(R)
  BY <1>1, <1>2 DEF Unlist, DecrementRetransCount, RouterState
<1> HIDE DEF U
<1>4. CopyOfDatabase(U)
  BY <1>1, <1>2 DEF Consistent, CopyOfDatabase
<1>5. ListsOnlyWhenAdjacent(U) /\ NoNewerOwnRequest(U)
  BY <1>2 DEF Consistent, ListsOnlyWhenAdjacent, NoNewerOwnRequest
<1>6. CountCovers(U)
  <2>1. Cardinality(Listed(R) \ S) = Cardinality(Listed(R)) - Cardinality(S)
    BY <1>1, NeighborCounts
  <2>2. Cardinality(S) \in Nat
    BY <1>1, FiniteNeighborSets
  <2> QED
    BY <1>1, <1>2, <1>3, <2>1, <2>2 DEF Consistent, CountCovers
<1> QED
  BY <1>2, <1>4, <1>5, <1>6 DEF Consistent, U

(* A new object in the LSDB: after ospf6_flood_clear no entry is left that *)
(* the flooding of the new instance does not overwrite.                    *)
LEMMA ReplaceConsistent ==
    ASSUME NEW R, Consistent(R), NEW F, NEW lsa \in Instances,
           Own => F = {} /\ lsa.seq > R.db.seq
    PROVE  Consistent(Replace(R, F, lsa))
<1> DEFINE C == IF R.db = NoLsa THEN R ELSE FloodClear(R, R.db)
           T == FloodTargets(C, F, lsa)
           D == Flood(C, F, lsa)
           I == InstallLsa(D, lsa, Cardinality(T))
<1>1. /\ R \in RouterState(Nbr) /\ R.db \in Slot
      /\ R.db = NoLsa => Listed(R) = {}
  BY ListedNeighbors
<1>2. /\ C \in RouterState(Nbr) /\ C.state = R.state /\ C.request = R.request
      /\ \A n \in Listed(C) : n \in Listed(R) /\ R.retrans[n] # R.db
  BY <1>1, FloodClearFields
<1> HIDE DEF C
<1>3. /\ D \in RouterState(Nbr)
      /\ T \in SUBSET Nbr
      /\ Listed(D) = Listed(C) \cup T
      /\ \A n \in Nbr : D.retrans[n] = IF n \in T THEN lsa ELSE C.retrans[n]
      /\ \A n \in Nbr : D.request[n] \in {C.request[n], NoLsa}
      /\ D.state = C.state
  BY <1>2, FloodFields
<1>4. Cardinality(T) \in Nat
  BY <1>3, FiniteNeighborSets
<1>5. Listed(C) \subseteq T
  <2>1. CASE ~Own
    BY <1>2, <2>1 DEF Consistent, CopyOfDatabase
  <2>2. CASE Own
    <3> SUFFICES ASSUME NEW n \in Listed(C) PROVE n \in T
      OBVIOUS
    <3>1. n \in Nbr /\ R.state[n] # "Below" /\ R.request[n].seq <= R.db.seq
      BY <1>1, <1>2, <2>2 DEF Consistent, ListsOnlyWhenAdjacent, NoNewerOwnRequest, Listed, RouterState
    <3>2. ~PassedOver(C, n, lsa)
      <4>1. R.request[n] \in Slot /\ lsa \in Slot
        BY <1>1, <3>1, SlotFacts DEF RouterState
      <4> QED
        BY <1>1, <1>2, <2>2, <3>1, <4>1, CompareIsEquality, SlotFacts DEF PassedOver, Requesting
    <3> QED
      BY <1>2, <2>2, <3>1, <3>2 DEF FloodTargets, Listed, RouterState
  <2> QED
    BY <2>1, <2>2
<1> HIDE DEF T, D
<1>6. /\ I \in RouterState(Nbr)
      /\ I.db = lsa /\ I.count = Cardinality(T)
      /\ I.state = D.state /\ I.retrans = D.retrans /\ I.request = D.request
      /\ Listed(I) = T
  <2>1. Listed(D) = T
    BY <1>3, <1>5
  <2>2. Cardinality(T) \in Int
    BY <1>4
  <2> QED
    BY <1>3, <2>1, <2>2, InstallFields
<1> HIDE DEF I
<1>7. CopyOfDatabase(I)
  BY <1>3, <1>6 DEF CopyOfDatabase
<1>8. ListsOnlyWhenAdjacent(I)
  <2>1. \A n \in T : R.state[n] # "Below"
    BY <1>2 DEF T, FloodTargets
  <2> QED
    BY <1>2, <1>3, <1>6, <2>1 DEF Consistent, ListsOnlyWhenAdjacent
<1>9. NoNewerOwnRequest(I)
  <2> SUFFICES ASSUME Own, NEW n \in Nbr PROVE I.request[n].seq <= lsa.seq
    BY <1>6 DEF NoNewerOwnRequest
  <2>1. R.request[n].seq <= R.db.seq
    BY DEF Consistent, NoNewerOwnRequest
  <2>2. R.request[n] \in Slot
    BY <1>1 DEF RouterState
  <2>3. R.request[n].seq \in Nat /\ R.db.seq \in Nat /\ lsa.seq \in Nat
    BY <1>1, <2>2, SlotFacts
  <2>4. I.request[n] = R.request[n] \/ I.request[n] = NoLsa
    BY <1>2, <1>3, <1>6
  <2> QED
    BY <2>1, <2>3, <2>4, SlotFacts
<1>10. CountCovers(I)
  BY <1>4, <1>6 DEF CountCovers
<1>11. Replace(R, F, lsa) = I
  BY DEF Replace, I, D, T, C
<1> QED
  BY <1>6, <1>7, <1>8, <1>9, <1>10, <1>11 DEF Consistent

(* The object stays in the LSDB and keeps its count.                       *)
LEMMA ExpireConsistent ==
    ASSUME NEW R, Consistent(R), R.db # NoLsa
    PROVE  Consistent(LsaExpire(R))
<1> DEFINE C == FloodClear(R, R.db)
           T == FloodTargets(C, {}, C.db)
           D == Flood(C, {}, C.db)
           I == InstallLsa(D, C.db, C.count + Cardinality(T))
<1>1. R \in RouterState(Nbr) /\ R.db \in Instances /\ R.count \in Int
  BY ListedNeighbors DEF Slot
<1>2. /\ C \in RouterState(Nbr) /\ C.state = R.state /\ C.request = R.request
      /\ C.db = R.db
      /\ Listed(C) = {n \in Listed(R) : R.retrans[n] # R.db}
      /\ \A n \in Listed(C) : C.retrans[n] = R.retrans[n]
      /\ C.count - Cardinality(Listed(C)) = R.count - Cardinality(Listed(R))
  BY <1>1, FloodClearFields
<1>3. C.count \in Int /\ Listed(C) \in SUBSET Nbr /\ Cardinality(Listed(C)) \in Nat
  <2>1. C.count \in Int /\ Listed(C) \in SUBSET Nbr
    BY <1>2 DEF RouterState, Listed
  <2> QED
    BY <2>1, FiniteNeighborSets
<1> HIDE DEF C
<1>4. /\ D \in RouterState(Nbr)
      /\ T \in SUBSET Nbr
      /\ Listed(D) = Listed(C) \cup T
      /\ \A n \in Nbr : D.retrans[n] = IF n \in T THEN R.db ELSE C.retrans[n]
      /\ \A n \in Nbr : D.request[n] \in {C.request[n], NoLsa}
      /\ D.state = C.state
  BY <1>1, <1>2, FloodFields
<1>5. Cardinality(T) \in Nat
  BY <1>4, FiniteNeighborSets
<1>6. \A n \in T : R.state[n] # "Below"
  BY <1>2 DEF FloodTargets
<1> HIDE DEF T, D
<1>7. /\ I \in RouterState(Nbr)
      /\ I.db = R.db /\ I.count = C.count + Cardinality(T)
      /\ I.state = D.state /\ I.retrans = D.retrans /\ I.request = D.request
      /\ Listed(I) = Listed(C) \cup T
  <2>1. C.count + Cardinality(T) \in Int
    BY <1>3, <1>5
  <2> QED
    BY <1>1, <1>2, <1>4, <2>1, InstallFields
<1> HIDE DEF I
<1>8. CopyOfDatabase(I)
  BY <1>2, <1>3, <1>4, <1>7 DEF Consistent, CopyOfDatabase
<1>9. ListsOnlyWhenAdjacent(I)
  BY <1>2, <1>4, <1>6, <1>7 DEF Consistent, ListsOnlyWhenAdjacent
<1>10. NoNewerOwnRequest(I)
  <2> SUFFICES ASSUME Own, NEW n \in Nbr PROVE I.request[n].seq <= R.db.seq
    BY <1>7 DEF NoNewerOwnRequest
  <2>1. R.request[n].seq <= R.db.seq
    BY DEF Consistent, NoNewerOwnRequest
  <2>2. R.db.seq \in Nat
    BY <1>1, SlotFacts
  <2>3. I.request[n] = R.request[n] \/ I.request[n] = NoLsa
    BY <1>2, <1>4, <1>7
  <2> QED
    BY <2>1, <2>2, <2>3, SlotFacts
<1>11. CountCovers(I)
  <2>1. Cardinality(Listed(C) \cup T) <= Cardinality(Listed(C)) + Cardinality(T)
    BY <1>3, <1>4, NeighborCounts
  <2>2. R.count >= Cardinality(Listed(R)) /\ Cardinality(Listed(R)) \in Nat
    BY ListedNeighbors DEF Consistent, CountCovers
  <2>3. Cardinality(Listed(C) \cup T) \in Nat
    BY <1>3, <1>4, FiniteNeighborSets
  <2>4. I.count >= Cardinality(Listed(I))
    BY <1>1, <1>2, <1>3, <1>5, <1>7, <2>1, <2>2, <2>3
  <2>5. ASSUME ~Own PROVE I.count = Cardinality(Listed(I))
    <3>1. Listed(C) = {}
      BY <1>2, <2>5 DEF Consistent, CopyOfDatabase
    <3>2. Listed(C) \cup T = T /\ Cardinality(Listed(C)) = 0
      BY <3>1, FS_EmptySet
    <3>3. R.count = Cardinality(Listed(R))
      BY <2>5 DEF Consistent, CountCovers
    <3>4. C.count = 0
      BY <1>1, <1>2, <1>3, <2>2, <3>2, <3>3
    <3>5. Listed(I) = T
      BY <1>7, <3>2
    <3>6. I.count = Cardinality(T)
      BY <1>5, <1>7, <3>4
    <3> QED
      BY <3>5, <3>6
  <2> QED
    BY <2>4, <2>5 DEF CountCovers
<1>12. LsaExpire(R) = I
  BY DEF LsaExpire, I, D, T, C
<1> QED
  BY <1>7, <1>8, <1>9, <1>10, <1>11, <1>12 DEF Consistent

(* ospf6_lsa_premature_aging of the own LSA preserves the invariant: the   *)
(* copy that stays on the list of a neighbor that is passed over has the   *)
(* sequence number of the MaxAge database copy, as the invariant allows.   *)
LEMMA PrematureAgingConsistent ==
    ASSUME NEW R, Consistent(R), R.db # NoLsa, Own
    PROVE  Consistent(PrematureAging(R))
<1>1. CASE R.db.maxage
  BY <1>1 DEF PrematureAging
<1>2. CASE ~R.db.maxage
  <2> DEFINE A == [R EXCEPT !.db.maxage = TRUE, !.refresh = FALSE]
  <2>1. R \in RouterState(Nbr) /\ R.db \in Instances
    BY ListedNeighbors DEF Slot
  <2>2. A \in RouterState(Nbr) /\ A.db # NoLsa
    BY <2>1, SlotFacts DEF RouterState, Slot, Instances
  <2>3. /\ Listed(A) = Listed(R) /\ A.retrans = R.retrans /\ A.request = R.request
        /\ A.state = R.state /\ A.count = R.count
        /\ A.db.seq = R.db.seq /\ A.db.maxage = TRUE
    BY <2>1 DEF RouterState, Listed, Instances
  <2> HIDE DEF A
  <2>4. CopyOfDatabase(A)
    BY <2>3 DEF Consistent, CopyOfDatabase
  <2>5. ListsOnlyWhenAdjacent(A) /\ NoNewerOwnRequest(A) /\ CountCovers(A)
    BY <2>3 DEF Consistent, ListsOnlyWhenAdjacent, NoNewerOwnRequest, CountCovers
  <2>6. Consistent(A)
    BY <2>2, <2>4, <2>5 DEF Consistent
  <2>7. Consistent(LsaExpire(A))
    BY <2>2, <2>6, ExpireConsistent
  <2> QED
    BY <1>2, <2>7 DEF PrematureAging, A
<1> QED
  BY <1>1, <1>2

(* Fields that no part of the invariant reads may take any value.          *)
LEMMA SameLists ==
    ASSUME NEW R, Consistent(R), NEW Q \in RouterState(Nbr),
           Q.db = R.db, Q.count = R.count, Q.state = R.state,
           Q.retrans = R.retrans, Q.request = R.request
    PROVE  Consistent(Q)
BY DEF Consistent, CopyOfDatabase, ListsOnlyWhenAdjacent, NoNewerOwnRequest,
       CountCovers, Listed

(* Arming a send thread (ospf6_send_lsupdate_delayed_msec) preserves the   *)
(* invariant.                                                              *)
LEMMA ArmConsistent ==
    ASSUME NEW R, Consistent(R), NEW n \in Nbr
    PROVE  Consistent(ArmLsupdate(R, n))
<1>1. R \in RouterState(Nbr)
  BY DEF Consistent
<1> QED
  BY <1>1, SameLists DEF ArmLsupdate, RouterState

(* ospf6_receive_lsa preserves the invariant, whatever instance a neighbor *)
(* sends.  A newer instance of the own LSA that a neighbor can hold is the *)
(* database copy that has reached MaxAge elsewhere.                        *)
LEMMA ReceiveConsistent ==
    ASSUME NEW R, Consistent(R), NEW n \in Nbr, NEW lsa \in Instances,
           Own => lsa.seq <= R.db.seq
    PROVE  Consistent(ReceiveLsa(R, n, lsa, Own))
<1>1. R \in RouterState(Nbr) /\ R.db \in Slot
  BY ListedNeighbors
<1>2. ASSUME MoreRecent(R, lsa), ~Own PROVE Consistent(ReceiveNewer(R, n, lsa, Own))
  BY <1>2, ReplaceConsistent DEF ReceiveNewer
<1>3. ASSUME MoreRecent(R, lsa), Own PROVE Consistent(ReceiveNewer(R, n, lsa, Own))
  <2> DEFINE C == FloodClear(R, R.db)
             I == InstallLsa(C, lsa, 0)
             J == [I EXCEPT !.refresh = TRUE]
  <2>1. lsa.seq \in Nat /\ lsa.seq # 0 /\ lsa \in Slot
    BY MaxSeqAssumption DEF Instances, Seqs, Slot
  <2>2. R.db # NoLsa
    BY <1>3, <2>1, SlotFacts
  <2>3. Compare(lsa, R.db) < 0
    BY <1>3, <2>2 DEF MoreRecent
  <2>4. ~R.db.maxage /\ lsa.seq >= R.db.seq
    BY <1>1, <1>3, <2>1, <2>3, CompareIsEquality
  <2>5. /\ C \in RouterState(Nbr) /\ C.state = R.state /\ C.request = R.request
        /\ Listed(C) = {k \in Listed(R) : R.retrans[k] # R.db}
    BY <1>1, <2>2, FloodClearFields
  <2>6. Listed(C) = {}
    BY <2>4, <2>5 DEF Consistent, CopyOfDatabase
  <2> HIDE DEF C
  <2>7. /\ I \in RouterState(Nbr) /\ I.db = lsa /\ I.count = 0
        /\ I.state = R.state /\ I.request = R.request /\ Listed(I) = {}
    BY <2>5, <2>6, InstallFields
  <2> HIDE DEF I
  <2>8. /\ J \in RouterState(Nbr) /\ J.db = lsa /\ J.count = 0
        /\ J.state = R.state /\ J.request = R.request /\ Listed(J) = {}
    BY <2>7 DEF RouterState, Listed
  <2> HIDE DEF J
  <2>9. CopyOfDatabase(J) /\ CountCovers(J)
    BY <2>8, FS_EmptySet DEF CopyOfDatabase, CountCovers
  <2>10. ListsOnlyWhenAdjacent(J)
    BY <2>8 DEF Consistent, ListsOnlyWhenAdjacent
  <2>11. NoNewerOwnRequest(J)
    <3> SUFFICES ASSUME NEW k \in Nbr PROVE R.request[k].seq <= lsa.seq
      BY <2>8 DEF NoNewerOwnRequest
    <3>1. R.request[k].seq <= R.db.seq
      BY <1>3 DEF Consistent, NoNewerOwnRequest
    <3>2. R.request[k] \in Slot
      BY <1>1 DEF RouterState
    <3> QED
      BY <1>1, <2>1, <2>4, <3>1, <3>2, SlotFacts
  <2>12. ReceiveNewer(R, n, lsa, Own) = J
    BY <1>3, <2>2 DEF ReceiveNewer, J, I, C
  <2> QED
    BY <2>8, <2>9, <2>10, <2>11, <2>12 DEF Consistent
<1>4. Consistent(Unlist(R, Listed(R) \cap {n}))
  BY UnlistConsistent
<1> QED
  BY <1>2, <1>3, <1>4, ArmConsistent DEF ReceiveLsa

(* ospf6_lsack_recv preserves the invariant, whatever instance is          *)
(* acknowledged.                                                           *)
LEMMA LsackConsistent ==
    ASSUME NEW R, Consistent(R), NEW n \in Nbr, NEW lsa \in Instances
    PROVE  Consistent(LsackRecv(R, n, lsa))
<1>1. ASSUME R.retrans[n] # NoLsa PROVE Consistent(Unlist(R, {n}))
  <2>1. {n} \in SUBSET Listed(R)
    BY <1>1 DEF Listed, Consistent, RouterState
  <2> QED
    BY <2>1, UnlistConsistent
<1>2. ASSUME NEW Q, Consistent(Q) PROVE Consistent(MaxageRemove(Q))
  <2>1. Q \in RouterState(Nbr)
    BY <1>2 DEF Consistent
  <2> QED
    BY <1>2, <2>1, SameLists DEF MaxageRemove, RouterState
<1> QED
  BY <1>1, <1>2 DEF LsackRecv

(* Emptying the lists of one neighbor, as seqnumber_mismatch, bad_lsreq,   *)
(* oneway_received and ospf6_neighbor_delete do, preserves the invariant.  *)
LEMMA ClearListsConsistent ==
    ASSUME NEW R, Consistent(R), NEW n \in Nbr
    PROVE  LET C == ClearLists(R, n)
           IN  /\ Consistent(C) /\ C.db = R.db /\ C.state = R.state
               /\ n \notin Listed(C) /\ C.request[n] = NoLsa
<1> DEFINE U == Unlist(R, Listed(R) \cap {n})
           C == [U EXCEPT !.request[n] = NoLsa]
<1>1. Consistent(U)
  BY UnlistConsistent
<1>2. R \in RouterState(Nbr)
  BY DEF Consistent
<1>3. /\ U \in RouterState(Nbr) /\ n \notin Listed(U)
      /\ U.db = R.db /\ U.state = R.state
  <2>1. Listed(R) \cap {n} \in SUBSET Listed(R)
    OBVIOUS
  <2>2. /\ U \in RouterState(Nbr) /\ Listed(U) = Listed(R) \ (Listed(R) \cap {n})
        /\ U.db = R.db /\ U.state = R.state
    BY <1>2, <2>1, UnlistFields
  <2> QED
    BY <2>2
<1> HIDE DEF U
<1>4. /\ C \in RouterState(Nbr) /\ C.db = U.db /\ C.state = U.state
      /\ C.count = U.count /\ C.retrans = U.retrans
      /\ C.request = [U.request EXCEPT ![n] = NoLsa]
      /\ U.request \in [Nbr -> Slot]
  BY <1>3, SlotFacts DEF RouterState
<1> HIDE DEF C
<1>5. Listed(C) = Listed(U)
  BY <1>4 DEF Listed
<1>6. CopyOfDatabase(C) /\ ListsOnlyWhenAdjacent(C) /\ CountCovers(C)
  BY <1>1, <1>4, <1>5 DEF Consistent, CopyOfDatabase, ListsOnlyWhenAdjacent, CountCovers
<1>7. NoNewerOwnRequest(C)
  <2>1. U.db.seq \in Nat
    BY <1>1, ListedNeighbors, SlotFacts
  <2> QED
    BY <1>1, <1>4, <2>1, SlotFacts DEF Consistent, NoNewerOwnRequest
<1>8. Consistent(C) /\ C.db = R.db /\ C.state = R.state /\ n \notin Listed(C) /\ C.request[n] = NoLsa
  BY <1>3, <1>4, <1>5, <1>6, <1>7 DEF Consistent
<1> QED
  BY <1>8 DEF ClearLists, C, U

(* A neighbor may enter a state that allows the lists it has.              *)
LEMMA StateChangeConsistent ==
    ASSUME NEW R, Consistent(R), NEW n \in Nbr, NEW s \in States,
           s = "Below" => n \notin Listed(R),
           s \in {"Below", "Full"} => R.request[n] = NoLsa
    PROVE  Consistent(StateChange(R, n, s))
<1> DEFINE Q == StateChange(R, n, s)
<1>1. R \in RouterState(Nbr)
  BY DEF Consistent
<1>2. /\ Q \in RouterState(Nbr) /\ Q.db = R.db /\ Q.count = R.count
      /\ Q.retrans = R.retrans /\ Q.request = R.request
      /\ Q.state = [R.state EXCEPT ![n] = s] /\ R.state \in [Nbr -> States]
  BY <1>1 DEF StateChange, RouterState
<1>3. Listed(Q) = Listed(R)
  BY <1>2 DEF Listed
<1> HIDE DEF Q
<1>4. ListsOnlyWhenAdjacent(Q)
  BY <1>2, <1>3 DEF Consistent, ListsOnlyWhenAdjacent, States, Synchronizing
<1> QED
  BY <1>2, <1>3, <1>4 DEF Consistent, CopyOfDatabase, NoNewerOwnRequest, CountCovers, Q

(* A neighbor that falls back below Exchange with its lists emptied        *)
(* preserves the invariant.                                                *)
LEMMA RestartConsistent ==
    ASSUME NEW R, Consistent(R), NEW n \in Nbr
    PROVE  Consistent(RestartExchange(R, n)) /\ Consistent(NeighborLost(R, n))
<1>1. Consistent(RestartExchange(R, n))
  BY ClearListsConsistent, StateChangeConsistent DEF RestartExchange, States
<1> DEFINE Q == RestartExchange(R, n)
<1>2. Q \in RouterState(Nbr)
  BY <1>1 DEF Consistent
<1>3. NeighborLost(R, n) = [Q EXCEPT !.armed[n] = FALSE]
  BY DEF NeighborLost
<1> HIDE DEF Q
<1> QED
  BY <1>1, <1>2, <1>3, SameLists DEF RouterState, Q

(* The MaxAge instance goes onto one more list and is counted once more.   *)
LEMMA NegotiationConsistent ==
    ASSUME NEW R, Consistent(R), NEW n \in Nbr
    PROVE  Consistent(NegotiationDone(R, n))
<1> DEFINE C == ClearLists(R, n)
           M == [C EXCEPT !.count = @ + 1, !.retrans[n] = C.db]
           Q == StateChange(M, n, "Exchange")
<1>1. Consistent(C) /\ n \notin Listed(C) /\ C.request[n] = NoLsa
  BY ClearListsConsistent
<1> HIDE DEF C
<1>2. Consistent(StateChange(C, n, "Exchange"))
  BY <1>1, StateChangeConsistent DEF States
<1>3. ASSUME C.db # NoLsa PROVE Consistent(Q)
  <2>1. /\ C \in RouterState(Nbr) /\ C.db \in Slot /\ C.count \in Int
        /\ Listed(C) \in SUBSET Nbr /\ Cardinality(Listed(C)) \in Nat
    BY <1>1, ListedNeighbors
  <2>2. /\ M \in RouterState(Nbr) /\ M.db = C.db /\ M.count = C.count + 1
        /\ M.retrans = [C.retrans EXCEPT ![n] = C.db] /\ C.retrans \in [Nbr -> Slot]
        /\ M.request = C.request /\ M.state = C.state
    <3> DEFINE c == C.count + 1
               r == [C.retrans EXCEPT ![n] = C.db]
    <3>1. c \in Int /\ C.retrans \in [Nbr -> Slot] /\ r \in [Nbr -> Slot]
      BY <2>1 DEF RouterState
    <3>2. M = [C EXCEPT !.count = c, !.retrans = r]
      BY <2>1 DEF RouterState
    <3> HIDE DEF c, r, M
    <3>3. /\ M \in RouterState(Nbr) /\ M.db = C.db /\ M.count = c
          /\ M.retrans = r /\ M.request = C.request /\ M.state = C.state
      BY <2>1, <3>1, <3>2 DEF RouterState
    <3> QED
      BY <3>1, <3>3 DEF c, r
  <2> HIDE DEF M
  <2>3. /\ Q \in RouterState(Nbr) /\ Q.db = C.db /\ Q.count = C.count + 1
        /\ Q.retrans = [C.retrans EXCEPT ![n] = C.db] /\ Q.request = C.request
        /\ Q.state = [C.state EXCEPT ![n] = "Exchange"] /\ C.state \in [Nbr -> States]
    BY <2>2 DEF StateChange, RouterState, States
  <2> HIDE DEF Q
  <2>4. Listed(Q) = Listed(C) \cup {n}
    BY <1>3, <2>1, <2>2, <2>3 DEF Listed, RouterState
  <2>5. Cardinality(Listed(Q)) = Cardinality(Listed(C)) + 1
    BY <1>1, <2>1, <2>4, FiniteNeighborSets, FS_AddElement
  <2>6. CopyOfDatabase(Q)
    BY <1>1, <2>1, <2>2, <2>3, <2>4 DEF Consistent, CopyOfDatabase
  <2>7. ListsOnlyWhenAdjacent(Q)
    BY <1>1, <2>3, <2>4 DEF Consistent, ListsOnlyWhenAdjacent, Synchronizing
  <2>8. NoNewerOwnRequest(Q)
    BY <1>1, <2>3 DEF Consistent, NoNewerOwnRequest
  <2>9. CountCovers(Q)
    BY <1>1, <2>1, <2>3, <2>5 DEF Consistent, CountCovers
  <2> QED
    BY <2>3, <2>6, <2>7, <2>8, <2>9 DEF Consistent
<1> HIDE DEF M, Q
<1> QED
  BY <1>2, <1>3 DEF NegotiationDone, C, M, Q

(* Every copy of one instance ages with its original.                      *)
LEMMA AgeConsistent ==
    ASSUME NEW R, Consistent(R), NEW s \in Seqs, Own => s # R.db.seq
    PROVE  Consistent([R EXCEPT !.db      = AgeCurrent(@, s),
                                !.retrans = [n \in Nbr |-> AgeCurrent(@[n], s)],
                                !.request = [n \in Nbr |-> AgeCurrent(@[n], s)]])
<1> DEFINE Q == [R EXCEPT !.db      = AgeCurrent(@, s),
                          !.retrans = [n \in Nbr |-> AgeCurrent(@[n], s)],
                          !.request = [n \in Nbr |-> AgeCurrent(@[n], s)]]
<1>1. R \in RouterState(Nbr) /\ R.db \in Slot
  BY ListedNeighbors
<1>2. \A i \in Slot : /\ AgeCurrent(i, s) \in Slot /\ AgeCurrent(i, s).seq = i.seq
                      /\ (i.seq # s => AgeCurrent(i, s) = i)
                      /\ (AgeCurrent(i, s) = NoLsa <=> i = NoLsa)
  <2> SUFFICES ASSUME NEW i \in Slot
               PROVE  /\ AgeCurrent(i, s) \in Slot /\ AgeCurrent(i, s).seq = i.seq
                      /\ (i.seq # s => AgeCurrent(i, s) = i)
                      /\ (AgeCurrent(i, s) = NoLsa <=> i = NoLsa)
    OBVIOUS
  <2>1. CASE i \in Instances
    <3>1. AgeCurrent(i, s) \in Instances /\ AgeCurrent(i, s).seq = i.seq
      BY <2>1 DEF AgeCurrent, Instances
    <3> QED
      BY <2>1, <3>1, SlotFacts DEF AgeCurrent
  <2>2. CASE i = NoLsa
    BY <2>2, SlotFacts, MaxSeqAssumption DEF AgeCurrent, Seqs
  <2> QED
    BY <2>1, <2>2 DEF Slot
<1>3. /\ Q \in RouterState(Nbr)
      /\ Q.db = AgeCurrent(R.db, s) /\ Q.count = R.count /\ Q.state = R.state
      /\ Q.retrans = [n \in Nbr |-> AgeCurrent(R.retrans[n], s)]
      /\ Q.request = [n \in Nbr |-> AgeCurrent(R.request[n], s)]
      /\ R.retrans \in [Nbr -> Slot] /\ R.request \in [Nbr -> Slot]
  BY <1>1, <1>2 DEF RouterState
<1> HIDE DEF Q
<1>4. Listed(Q) = Listed(R)
  BY <1>1, <1>2, <1>3 DEF Listed, RouterState
<1>5. CopyOfDatabase(Q)
  <2> SUFFICES ASSUME NEW n \in Listed(R)
               PROVE  \/ Q.retrans[n] = Q.db
                      \/ Own /\ Q.db.maxage /\ Q.retrans[n].seq = Q.db.seq
    BY <1>4 DEF CopyOfDatabase
  <2>1. n \in Nbr /\ R.retrans[n] \in Slot
    BY <1>1, <1>3 DEF Listed, RouterState
  <2>2. \/ R.retrans[n] = R.db
        \/ Own /\ R.db.maxage /\ R.retrans[n].seq = R.db.seq
    BY DEF Consistent, CopyOfDatabase
  <2>3. CASE R.retrans[n] = R.db
    BY <1>3, <2>1, <2>3
  <2>4. CASE Own /\ R.db.maxage /\ R.retrans[n].seq = R.db.seq
    BY <1>1, <1>2, <1>3, <2>1, <2>4
  <2> QED
    BY <2>2, <2>3, <2>4
<1>6. ListsOnlyWhenAdjacent(Q)
  BY <1>2, <1>3, <1>4 DEF Consistent, ListsOnlyWhenAdjacent
<1>7. NoNewerOwnRequest(Q)
  BY <1>1, <1>2, <1>3 DEF Consistent, NoNewerOwnRequest
<1>8. CountCovers(Q)
  BY <1>3, <1>4 DEF Consistent, CountCovers
<1>9. Consistent(Q)
  BY <1>3, <1>5, <1>6, <1>7, <1>8 DEF Consistent
<1> QED
  BY <1>9 DEF Q

-----------------------------------------------------------------------------

(* The router starts with empty lists and an empty LSDB: the invariant     *)
(* holds.                                                                  *)
LEMMA InitConsistent == Init => IInv
<1> SUFFICES ASSUME Init PROVE Consistent(rtr)
  BY DEF IInv
<1>1. rtr \in RouterState(Nbr)
  BY SlotFacts DEF Init, RouterState, States
<1>2. Listed(rtr) = {} /\ rtr.count = 0 /\ \A n \in Nbr : rtr.request[n] = NoLsa
  BY DEF Init, Listed
<1>3. rtr.db = NoLsa
  BY DEF Init
<1> QED
  BY <1>1, <1>2, <1>3, FS_EmptySet, SlotFacts
  DEF Consistent, CopyOfDatabase, ListsOnlyWhenAdjacent, NoNewerOwnRequest, CountCovers

(* Every handler preserves the invariant: one step per action.             *)
LEMMA NextConsistent ==
    ASSUME ~NearExpiry, Own => ~Restarted, IInv, [Next]_rtr
    PROVE  IInv'
<1> USE DEF IInv
<1>1. Consistent(rtr) /\ rtr \in RouterState(Nbr) /\ rtr.db \in Slot
  BY ListedNeighbors
<1>2. ASSUME NEW n \in Nbr, NEW lsa \in Instances, ospf6_receive_lsa(n, lsa) PROVE IInv'
  BY <1>1, <1>2, ReceiveConsistent DEF ospf6_receive_lsa, CanHold
<1>3. ASSUME NEW n \in Nbr, NEW lsa \in Instances, ospf6_lsack_recv(n, lsa) PROVE IInv'
  BY <1>1, <1>3, LsackConsistent DEF ospf6_lsack_recv
<1>4. ASSUME NEW n \in Nbr, NEW lsa \in Instances, ospf6_dbdesc_recv(n, lsa) PROVE IInv'
  <2> DEFINE Q == [rtr EXCEPT !.request[n] = lsa]
  <2>1. /\ Q \in RouterState(Nbr) /\ Q.db = rtr.db /\ Q.count = rtr.count
        /\ Q.retrans = rtr.retrans /\ Q.state = rtr.state
        /\ Q.request = [rtr.request EXCEPT ![n] = lsa] /\ rtr.request \in [Nbr -> Slot]
    BY <1>1, SlotFacts DEF RouterState
  <2> HIDE DEF Q
  <2>2. Listed(Q) = Listed(rtr)
    BY <2>1 DEF Listed
  <2>3. ListsOnlyWhenAdjacent(Q)
    BY <1>1, <1>4, <2>1, <2>2
    DEF Consistent, ListsOnlyWhenAdjacent, ospf6_dbdesc_recv, Synchronizing
  <2>4. NoNewerOwnRequest(Q)
    BY <1>1, <1>4, <2>1 DEF Consistent, NoNewerOwnRequest, ospf6_dbdesc_recv, CanHold
  <2>5. Consistent(Q)
    BY <1>1, <2>1, <2>2, <2>3, <2>4 DEF Consistent, CopyOfDatabase, CountCovers
  <2> QED
    BY <1>1, <1>4, <2>5 DEF ospf6_dbdesc_recv, DbdescHeader, Q
<1>5. ASSUME NEW n \in Nbr, NEW stick \in BOOLEAN, ospf6_lsupdate_send_neighbor(n, stick)
      PROVE  IInv'
  <2>1. ~stick
    BY <1>5 DEF ospf6_lsupdate_send_neighbor
  <2>2. /\ rtr' \in RouterState(Nbr) /\ rtr'.db = rtr.db /\ rtr'.count = rtr.count
        /\ rtr'.retrans = rtr.retrans /\ rtr'.request = rtr.request
        /\ rtr'.state = rtr.state
    BY <1>1, <1>5, <2>1 DEF ospf6_lsupdate_send_neighbor, LsupdateSendNeighbor, RouterState
  <2> QED
    BY <1>1, <2>2, SameLists
<1>6. ASSUME NEW n \in Nbr, negotiation_done(n) PROVE IInv'
  BY <1>1, <1>6, NegotiationConsistent DEF negotiation_done
<1>7. ASSUME NEW n \in Nbr, exchange_done(n) PROVE IInv'
  BY <1>1, <1>7, StateChangeConsistent DEF exchange_done, ExchangeDone, States
<1>8. ASSUME NEW n \in Nbr, loading_done(n) PROVE IInv'
  BY <1>1, <1>8, StateChangeConsistent DEF loading_done, States
<1>9. ASSUME NEW n \in Nbr, restart_exchange(n) PROVE IInv'
  BY <1>1, <1>9, RestartConsistent DEF restart_exchange
<1>10. ASSUME NEW n \in Nbr, neighbor_lost(n) PROVE IInv'
  BY <1>1, <1>10, RestartConsistent DEF neighbor_lost
<1>11. ASSUME NEW s \in Seqs, age(s) PROVE IInv'
  BY <1>1, <1>11, AgeConsistent DEF age
<1>12. ASSUME ospf6_lsa_expire PROVE IInv'
  BY <1>1, <1>12, ExpireConsistent, SlotFacts DEF ospf6_lsa_expire
<1>13. ASSUME ospf6_maxage_remover PROVE IInv'
  <2> DEFINE Q == [rtr EXCEPT !.remover = FALSE, !.db = NoLsa, !.expire = FALSE]
             P == [rtr EXCEPT !.remover = FALSE]
  <2>1. Consistent(P)
    BY <1>1, SameLists DEF RouterState
  <2>2. ASSUME ~Own, rtr.count = 0 PROVE Consistent(Q)
    <3>1. /\ Q \in RouterState(Nbr) /\ Q.db = NoLsa /\ Q.count = rtr.count
          /\ Q.retrans = rtr.retrans /\ Q.state = rtr.state /\ Q.request = rtr.request
      BY <1>1, SlotFacts DEF RouterState
    <3> HIDE DEF Q
    <3>2. Listed(Q) = Listed(rtr)
      BY <3>1 DEF Listed
    <3>3. Listed(rtr) = {}
      <4>1. Cardinality(Listed(rtr)) = 0
        BY <1>1, <2>2 DEF Consistent, CountCovers
      <4>2. IsFiniteSet(Listed(rtr))
        BY <1>1, ListedNeighbors, FiniteNeighborSets
      <4> QED
        BY <4>1, <4>2, FS_EmptySet
    <3> QED
      BY <1>1, <2>2, <3>1, <3>2, <3>3
      DEF Consistent, CopyOfDatabase, ListsOnlyWhenAdjacent, NoNewerOwnRequest, CountCovers
  <2> QED
    BY <1>1, <1>13, <2>1, <2>2 DEF ospf6_maxage_remover, MaxageRemover
<1>14. ASSUME Own, NewLsSeqnum(rtr.db) <= MaxSeq
       PROVE  Consistent(Replace(rtr, {}, [seq |-> NewLsSeqnum(rtr.db), maxage |-> FALSE]))
  <2> DEFINE lsa == [seq |-> NewLsSeqnum(rtr.db), maxage |-> FALSE]
  <2>1. rtr.db.seq \in Nat
    BY <1>1, SlotFacts
  <2>2. lsa \in Instances /\ lsa.seq > rtr.db.seq
    BY <1>14, <2>1, MaxSeqAssumption DEF Instances, Seqs, NewLsSeqnum
  <2> HIDE DEF lsa
  <2>3. Consistent(Replace(rtr, {}, lsa))
    BY <1>1, <2>2, ReplaceConsistent
  <2> QED
    BY <2>3 DEF lsa
<1>15. ASSUME ospf6_lsa_originate PROVE IInv'
  <2> DEFINE P == Replace(rtr, {}, [seq |-> NewLsSeqnum(rtr.db), maxage |-> FALSE])
  <2>1. Consistent(P)
    BY <1>14, <1>15 DEF ospf6_lsa_originate
  <2>2. rtr' = [P EXCEPT !.self = TRUE]
    BY <1>15 DEF ospf6_lsa_originate, LsaOriginate
  <2> HIDE DEF P
  <2>3. P \in RouterState(Nbr)
    BY <2>1 DEF Consistent
  <2> QED
    BY <2>1, <2>2, <2>3, SameLists DEF RouterState
<1>16. ASSUME ospf6_lsa_refresh PROVE IInv'
  <2> DEFINE P == [rtr EXCEPT !.refresh = FALSE]
  <2>1. Own /\ rtr.db # NoLsa /\ rtr' = LsaRefresh(rtr)
    BY <1>16 DEF ospf6_lsa_refresh
  <2>2. Consistent(P) /\ P.db = rtr.db
    BY <1>1, SameLists DEF RouterState
  <2>3. Consistent(PrematureAging(P))
    BY <2>1, <2>2, PrematureAgingConsistent
  <2>4. ASSUME rtr.self PROVE NewLsSeqnum(rtr.db) <= MaxSeq
    BY <1>16, <2>4 DEF ospf6_lsa_refresh
  <2>5. CASE rtr.self
    BY <1>14, <2>1, <2>4, <2>5 DEF LsaRefresh
  <2>6. CASE ~rtr.self
    BY <2>1, <2>3, <2>6 DEF LsaRefresh
  <2> QED
    BY <2>5, <2>6
<1>17. ASSUME ospf6_lsa_purge PROVE IInv'
  <2> DEFINE P == [rtr EXCEPT !.self = FALSE]
  <2>1. Own /\ rtr.db # NoLsa /\ rtr' = LsaPurge(rtr)
    BY <1>17 DEF ospf6_lsa_purge
  <2>2. Consistent(P) /\ P.db = rtr.db
    BY <1>1, SameLists DEF RouterState
  <2>3. Consistent(PrematureAging(P))
    BY <2>1, <2>2, PrematureAgingConsistent
  <2> QED
    BY <2>1, <2>3 DEF LsaPurge
<1>18. ASSUME NEW n \in Nbr, ospf6_lsreq_recv(n) \/ other_lsa_sent(n) PROVE IInv'
  BY <1>1, <1>18, ArmConsistent DEF ospf6_lsreq_recv, LsreqRecv, other_lsa_sent
<1>19. CASE UNCHANGED rtr
  BY <1>19
<1> QED
  BY <1>2, <1>3, <1>4, <1>5, <1>6, <1>7, <1>8, <1>9, <1>10, <1>11, <1>12, <1>13,
     <1>15, <1>16, <1>17, <1>18, <1>19 DEF Next

(* The invariant holds in every reachable state, for any finite set of     *)
(* neighbors and any number of instances, provided that no copy is sent in *)
(* the last InfTransDelay seconds before MaxAge and the router does not    *)
(* meet newer instances of its own LSA from before a restart.  (Without    *)
(* either the assertion of ospf6_decrement_retrans_count can fail: see the *)
(* runs near_expiry and restart.)                                          *)
THEOREM Invariance ==
    ASSUME ~NearExpiry, Own => ~Restarted
    PROVE  Spec => []IInv
<1>1. IInv /\ [Next]_rtr => IInv'
  BY NextConsistent
<1> QED
  BY <1>1, InitConsistent, PTL DEF Spec

(* For an LSA of another router the retransmission count is, between any   *)
(* two handlers, the number of neighbors whose retransmission list holds   *)
(* the LSA, and every entry of those lists is the database copy.           *)
THEOREM ForeignLsaCounts ==
    ASSUME ~NearExpiry, ~Own
    PROVE  Spec => [](RetransCountExact /\ RetransIsDatabaseCopy)
<1>1. IInv => RetransCountExact /\ RetransIsDatabaseCopy
  BY DEF IInv, Consistent, CountCovers, CopyOfDatabase, RetransCountExact, RetransIsDatabaseCopy
<1> QED
  BY <1>1, Invariance, PTL

(* For every LSA, the router's own included unless neighbors hold newer    *)
(* instances of it from before a restart, the count covers the lists and   *)
(* the assertion of ospf6_decrement_retrans_count never fails.             *)
THEOREM RetransCountSafe ==
    ASSUME ~NearExpiry, Own => ~Restarted
    PROVE  Spec => [](RetransCountCovers /\ RetransCountNonNegative)
<1>1. IInv => RetransCountCovers /\ RetransCountNonNegative
  BY ListedNeighbors DEF IInv, Consistent, CountCovers, RetransCountCovers, RetransCountNonNegative
<1> QED
  BY <1>1, Invariance, PTL

(* Every field keeps its type, and the lists follow the neighbor state.    *)
THEOREM ListsAndTypes ==
    ASSUME ~NearExpiry, Own => ~Restarted
    PROVE  Spec => [](TypeOK /\ ListsFollowState)
<1>1. IInv => TypeOK /\ ListsFollowState
  <2> SUFFICES ASSUME IInv PROVE TypeOK /\ ListsFollowState
    OBVIOUS
  <2>1. TypeOK
    BY DEF IInv, Consistent, TypeOK
  <2>2. ListsFollowState
    BY DEF IInv, Consistent, ListsOnlyWhenAdjacent, ListsFollowState, Synchronizing
  <2> QED
    BY <2>1, <2>2
<1> QED
  BY <1>1, Invariance, PTL

=============================================================================
