----------------------------- MODULE MCMdrNetwork ----------------------------
(* MdrNetwork on small topologies.                                         *)
EXTENDS MdrNetwork

Equal == [n \in Node |-> 1]

(* Four routers: two lines, a star, and a triangle with one router apart.  *)
Sparse ==
    {{{1, 2}, {2, 3}, {3, 4}}, {{1, 3}, {1, 4}, {2, 4}}, {{1, 2}, {1, 3}, {1, 4}},
     {{1, 2}, {2, 3}, {1, 3}}}

(* Five routers.  In the first network the path 5-3-1 leads around router  *)
(* 4, so that 4 need not flood: 3 is an MDR for the sake of 2.  In the     *)
(* others 5 is apart, and the rest are a cycle, or all neighbors of each   *)
(* other.                                                                  *)
Dense ==
    {{{1, 3}, {1, 4}, {3, 4}, {3, 5}, {4, 5}, {2, 3}},
     {{1, 2}, {2, 3}, {3, 4}, {1, 4}},
     {{1, 2}, {1, 3}, {1, 4}, {2, 3}, {2, 4}, {3, 4}}}

=============================================================================
