--------------------------- MODULE MCMdrCalculation --------------------------
(* MdrCalculation with equal priorities.                                   *)
EXTENDS MdrCalculation

Equal == [n \in Node |-> 1]

=============================================================================
