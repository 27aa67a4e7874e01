-------------------------- MODULE MCFloodingNetwork --------------------------
(* Networks for TLC.                                                       *)
EXTENDS FloodingNetwork

CONSTANTS a, b, c   \* routers

Pair == {{a, b}}

Triangle == {{a, b}, {b, c}, {a, c}}

(* The owner may flush the LSA, or it has restarted.                       *)
FlushOrReturn == {[purges |-> TRUE, prior |-> 0], [purges |-> FALSE, prior |-> 1]}

Originates == {[purges |-> FALSE, prior |-> 0]}

Returns == {[purges |-> TRUE, prior |-> 2]}

=============================================================================
