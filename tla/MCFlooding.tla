----------------------------- MODULE MCFlooding ------------------------------
(* Flooding for TLC: the neighbors are interchangeable.                    *)
EXTENDS Flooding, TLC

NbrSymmetry == Permutations(Nbr)

=============================================================================
