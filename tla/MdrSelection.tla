----------------------------- MODULE MdrSelection ----------------------------
(***************************************************************************)
(* The selection of MANET designated routers (MDRs) and backups (BMDRs) by *)
(* one router, ospf6_calculate_mdr in ospf6_mdr.c, as operators on the     *)
(* record m of the router's MANET interface:                               *)
(*   id, level                the router-id and oi->mdr.mdr_level          *)
(*   parent, bparent          router-ids, 0 for NULL                       *)
(*   nonflooding              oi->mdr.nonflooding_mdr                      *)
(*   nbrs                     the two-way neighbors, in the order of       *)
(*                            neighbor_list                                *)
(*   seen                     for every neighbor its level, the routers it *)
(*                            reports as its own neighbors (rnl), and the  *)
(*                            flags child and selector                     *)
(*   dependent                the dependent neighbors                      *)
(*   adj, full                the neighbors in a state above TWOWAY, and   *)
(*                            the ones in Exchange or beyond               *)
(* Every neighbor has sent a full Hello (Report2Hop).                      *)
(***************************************************************************)
EXTENDS Integers, Sequences, SequencesExt, FiniteSets, TLC

CONSTANTS
    Node,               \* router-ids, a set of positive integers
    Priority,           \* the router priorities, [Node -> Nat]
    MDRConstraint,      \* the hop limit, 2 or 3
    AdjConnectivity     \* 1 for uniconnected, 2 for biconnected adjacencies

ASSUME MdrAssumption ==
    /\ Node \subseteq Nat \ {0}
    /\ Priority \in [Node -> Nat]
    /\ MDRConstraint \in {2, 3}
    /\ AdjConnectivity \in {1, 2}

OSPF6_OTHER == 0
OSPF6_BMDR  == 1
OSPF6_MDR   == 2

(* ospf6_sidcds_lexicographic: a at level la is greater than b at lb.      *)
Lexicographic(a, la, b, lb) ==
    \/ Priority[a] > Priority[b]
    \/ Priority[a] = Priority[b] /\ la > lb
    \/ Priority[a] = Priority[b] /\ la = lb /\ a > b

Nbrs(m) == Range(m.nbrs)

Level(m, n) == m.seen[n].level

(* The greatest neighbor of S, 0 if there is none.  The search starts from *)
(* priority 1, so a neighbor of priority 0 is never found.                 *)
Greatest(m, S) ==
    LET C == {n \in S : Priority[n] >= 1} IN
    IF C = {} THEN 0
    ELSE CHOOSE n \in C :
            \A k \in C \ {n} : Lexicographic(n, Level(m, n), k, Level(m, k))

Rmax(m) == Greatest(m, Nbrs(m))

(* cost_matrix: two neighbors are linked when each reports the other.      *)
Linked(m, j, k) == j # k /\ k \in m.seen[j].rnl /\ j \in m.seen[k].rnl

(* ospf6_mdr_cost(j, k) = 1: j is not smaller than the router itself.      *)
Cost(m, j, k) == ~Lexicographic(m.id, m.level, j, Level(m, j)) /\ Linked(m, j, k)

-----------------------------------------------------------------------------
(* Phase 2: breadth-first search from Rmax.  The tree gives for every node *)
(* it reaches the hops, the parent and the second node of the path.        *)

RECURSIVE Search(_, _, _)
Search(m, q, tree) ==
    IF q = <<>> THEN tree
    ELSE LET k      == Head(q)
             new(u) == u \notin DOMAIN tree /\ Cost(m, k, u)
             found  == SelectSeq(m.nbrs, new)
             node(u) == [hops |-> tree[k].hops + 1, parent |-> k,
                         sec |-> IF tree[k].hops = 0 THEN u ELSE tree[k].sec]
         IN  Search(m, Tail(q) \o found, [u \in Range(found) |-> node(u)] @@ tree)

Tree(m) ==
    Search(m, <<Rmax(m)>>, Rmax(m) :> [hops |-> 0, parent |-> 0, sec |-> 0])

(* Mutant: a neighbor that is not reached at all is not counted.           *)
FarMutant(m, tree) == {n \in Nbrs(m) \cap DOMAIN tree : tree[n].hops > MDRConstraint}

(* The neighbors that are further from Rmax than the constraint allows.    *)
Far(m, tree) ==
    {n \in Nbrs(m) : n \notin DOMAIN tree \/ tree[n].hops > MDRConstraint}

-----------------------------------------------------------------------------
(* Phase 3: the neighbors that two disjoint paths lead to (hops2 = 0).     *)

(* Part (a): a link between two branches of the tree.                      *)
CrossLinked(m, tree) ==
    LET T == DOMAIN tree \ {Rmax(m)} IN
    {v \in T : \E u \in T : tree[u].sec # tree[v].sec /\ Cost(m, u, v)}

(* The root of the unlabeled subtree that holds t.                         *)
RECURSIVE SubtreeRoot(_, _, _)
SubtreeRoot(tree, labeled, t) ==
    LET p == tree[t].parent IN
    IF p = 0 \/ t \in labeled \/ tree[p].parent = 0 THEN t
    ELSE SubtreeRoot(tree, labeled, p)

(* dfs_next from root: root and what lies below it through unlabeled nodes.*)
RECURSIVE Below(_, _, _)
Below(tree, labeled, root) ==
    LET C == {n \in DOMAIN tree \ labeled : tree[n].parent = root} IN
    {root} \cup UNION {Below(tree, labeled, n) : n \in C}

(* Mutant: t is not labeled before its parent's subtree is searched.       *)
PartsMutant(tree, labeled, t) ==
    <<Below(tree, labeled, SubtreeRoot(tree, labeled, tree[t].parent)),
      Below(tree, labeled \cup {t}, t)>>

(* One round of part (b): the parent's subtree and the one of the node t.  *)
Parts(tree, labeled, t) ==
    LET L == labeled \cup {t} IN
    <<Below(tree, L, SubtreeRoot(tree, L, tree[t].parent)), Below(tree, L, t)>>

RECURSIVE Label(_, _, _, _)
Label(m, tree, two, labeled) ==
    LET next(n) == n \in two /\ n \in DOMAIN tree \ labeled
        todo    == SelectSeq(m.nbrs, next)
    IN  IF todo = <<>> THEN two
        ELSE LET t     == Head(todo)
                 parts == Parts(tree, labeled, t)
                 U     == parts[1]
                 V     == parts[2]
             IN  Label(m, tree,
                       two \cup {v \in V : \E u \in U : Cost(m, u, v)}
                           \cup {u \in U : \E v \in V : Cost(m, v, u)},
                       labeled \cup {t})

(* Mutant: part (b) is left out.                                           *)
TwoPathsMutant(m, tree) == {Rmax(m)} \cup CrossLinked(m, tree)

(* Mutant: every node of the tree is taken for doubly connected.           *)
TwoPathsAll(m, tree) == DOMAIN tree

TwoPaths(m, tree) ==
    Label(m, tree, {Rmax(m)} \cup CrossLinked(m, tree), {Rmax(m)})

-----------------------------------------------------------------------------
(* Phase 4: the parent is the greatest of the neighbors S or else Rmax.    *)
(* The comparison starts from the priority of Rmax.                        *)
Favourite(m, S) ==
    LET C == {n \in S : Priority[n] >= Priority[Rmax(m)]} IN
    IF C = {} THEN 0
    ELSE CHOOSE n \in C :
            \A k \in C \ {n} : Lexicographic(n, Level(m, n), k, Level(m, k))

Parent(m) ==
    LET p == Favourite(m, {n \in Nbrs(m) \cap m.full : Level(m, n) = OSPF6_MDR}) IN
    IF p # 0 THEN p ELSE Rmax(m)

(* Mutant: the backup parent may be the parent.                            *)
BackupParentMutant(m, parent) == Rmax(m)

BackupParent(m, parent) ==
    LET p == Favourite(m, {n \in (Nbrs(m) \cap m.full) \ {parent} : Level(m, n) >= OSPF6_BMDR}) IN
    IF p # 0 THEN p
    ELSE IF parent # Rmax(m) THEN Rmax(m)
    ELSE Greatest(m, Nbrs(m) \ {Rmax(m)})

-----------------------------------------------------------------------------
(* Mutant: no neighbor is ever out of reach.                               *)
WithinMutant(m, h) == Nbrs(m)

(* Phase 5: the neighbors within h hops of Rmax through MDRs that have a   *)
(* smaller router-id.                                                      *)
RECURSIVE Within(_, _)
Within(m, h) ==
    IF h = 0 THEN {Rmax(m)}
    ELSE LET W == Within(m, h - 1)
             I == {k \in W : k = Rmax(m) \/ (Level(m, k) = OSPF6_MDR /\ k < m.id)}
         IN  W \cup {u \in Nbrs(m) : \E k \in I : Linked(m, k, u)}

-----------------------------------------------------------------------------

(* The neighbors that may be dependent.                                    *)
Backbone(m) ==
    {n \in Nbrs(m) : Level(m, n) = OSPF6_MDR \/ (AdjConnectivity = 2 /\ Level(m, n) = OSPF6_BMDR)}

Alone(m) ==
    [m EXCEPT !.level = OSPF6_OTHER, !.nonflooding = FALSE, !.parent = 0, !.bparent = 0,
              !.dependent = {}]

Greater(m) ==
    [m EXCEPT !.level = OSPF6_MDR, !.nonflooding = FALSE, !.parent = 0, !.bparent = 0,
              !.dependent = Backbone(m)]

(* The router is not the greatest.  The level changes in Step 2.5 or 2.6,  *)
(* before the backup calculation compares with it.                         *)
Covered(m) ==
    LET tree == Tree(m)
        far  == Far(m, tree)
        dr   == far # {}
        m2   == [m EXCEPT !.level = IF dr THEN OSPF6_MDR ELSE IF @ = OSPF6_MDR THEN OSPF6_BMDR ELSE @]
        once == Nbrs(m) \ TwoPaths(m2, tree)
        bdr  == ~dr /\ once # {}
        rmax == IF Level(m, Rmax(m)) > OSPF6_OTHER THEN {Rmax(m)} ELSE {}
        p    == IF dr THEN 0 ELSE Parent(m)
    IN  [m EXCEPT
           !.level = IF dr THEN OSPF6_MDR ELSE IF bdr THEN OSPF6_BMDR ELSE OSPF6_OTHER,
           !.dependent = (far \cap Backbone(m))
                         \cup (IF dr THEN rmax ELSE {})
                         \cup (IF AdjConnectivity = 2
                               THEN (once \cap Backbone(m)) \cup (IF bdr THEN rmax ELSE {})
                               ELSE {}),
           !.parent = p,
           !.bparent = IF dr THEN Rmax(m)
                       ELSE IF bdr \/ AdjConnectivity = 1 THEN 0
                       ELSE BackupParent(m, p),
           !.nonflooding = dr /\ Nbrs(m) \subseteq Within(m, MDRConstraint)]

ospf6_calculate_mdr(m) ==
    IF Rmax(m) = 0 THEN Alone(m)
    ELSE IF Lexicographic(m.id, m.level, Rmax(m), Level(m, Rmax(m))) THEN Greater(m)
    ELSE Covered(m)

=============================================================================
