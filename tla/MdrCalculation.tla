---------------------------- MODULE MdrCalculation ---------------------------
(***************************************************************************)
(* One call of ospf6_calculate_mdr, for every neighborhood of a router:    *)
(* any levels, and any links between the neighbors.  The neighbors stand   *)
(* in neighbor_list in one order only: another order is the same as this   *)
(* order with other links.                                                 *)
(***************************************************************************)
EXTENDS MdrSelection

CONSTANT Self           \* the router

VARIABLES
    m,                  \* the interface before the call
    result              \* what the call has made of it, if there was one

vars == <<m, result>>

Neighbors == Node \ {Self}

Pairs(N) == {e \in SUBSET N : Cardinality(e) = 2}

Interface(level, level_of, links) ==
    [id |-> Self, level |-> level, parent |-> 0, bparent |-> 0, nonflooding |-> FALSE,
     nbrs |-> SetToSeq(Neighbors), dependent |-> {}, adj |-> {}, full |-> {},
     seen |-> [n \in Neighbors |->
                [level |-> level_of[n], child |-> FALSE, selector |-> FALSE,
                 rnl |-> {k \in Neighbors : {n, k} \in links}]]]

Levels == {OSPF6_OTHER, OSPF6_BMDR, OSPF6_MDR}

Init ==
    /\ \E level \in Levels, level_of \in [Neighbors -> Levels], links \in SUBSET Pairs(Neighbors) :
          m = Interface(level, level_of, links)
    /\ result = <<>>

Calculate ==
    /\ result = <<>>
    /\ result' = <<ospf6_calculate_mdr(m)>>
    /\ UNCHANGED m

Next == Calculate

Spec == Init /\ [][Next]_vars

-----------------------------------------------------------------------------
(* The reference.  A path leads from x to y within N if every set that     *)
(* holds x and not y is left by an arc.                                    *)
Reaches(arc(_, _), N, x, y) ==
    \A T \in SUBSET N :
       x \in T /\ y \notin T => \E j \in T, k \in N \ T : arc(j, k)

(* Two paths from Rmax to n that have no other node in common: besides a   *)
(* link there is a detour, and without a link no node is on every path.    *)
DisjointPaths(i, n) ==
    LET r            == Rmax(i)
        arc(j, k)    == Cost(i, j, k)
        detour(j, k) == Cost(i, j, k) /\ <<j, k>> # <<r, n>>
    IN  IF arc(r, n) THEN Reaches(detour, Nbrs(i), r, n)
        ELSE \A c \in Nbrs(i) \ {r, n} : Reaches(arc, Nbrs(i) \ {c}, r, n)

(* The labeling of Phase 3 finds exactly the neighbors that "two disjoint  *)
(* paths" lead to, through routers that are greater than this one at the   *)
(* level it has after Step 2.5: a router that is not an MDR becomes a      *)
(* Backup MDR if and only if some neighbor has no two disjoint paths.      *)
BackupsMatchDisjointPaths ==
    LET i == [m EXCEPT !.level = IF @ = OSPF6_MDR THEN OSPF6_BMDR ELSE @] IN
    result # <<>> /\ result[1].level # OSPF6_MDR =>
       (result[1].level = OSPF6_BMDR <=>
           \E n \in Nbrs(m) \ {Rmax(m)} : ~DisjointPaths(i, n))

(* The two subtrees that a round of Phase 3 links with each other have no  *)
(* node in common, whatever has been labeled: the code reports "onu should *)
(* not equal min_on" and "v should not equal u" as errors.                 *)
SubtreesAreDisjoint ==
    LET tree == Tree(m) IN
    Rmax(m) # 0 => \A labeled \in SUBSET DOMAIN tree : \A t \in DOMAIN tree \ labeled :
       Rmax(m) \in labeled =>
          Parts(tree, labeled, t)[1] \cap Parts(tree, labeled, t)[2] = {}

=============================================================================
