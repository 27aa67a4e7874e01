------------------------------ MODULE MCExchange -----------------------------
(* Exchange with small databases.                                          *)
EXTENDS Exchange, TLC

CONSTANTS a, b, c

Overlap == [r \in Ends |-> IF r = "master" THEN {a, c} ELSE {b, c}]

(* The slave needs two packets, so that the last one is not empty.         *)
Two == [r \in Ends |-> IF r = "master" THEN {a} ELSE {b, c}]

=============================================================================
