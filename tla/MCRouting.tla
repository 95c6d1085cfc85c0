------------------------------ MODULE MCRouting ------------------------------
(* An instance of Routing for TLC. *)
EXTENDS Routing

CONSTANTS k1, k2

MCHash == [k \in Key |-> IF k = k1 THEN 7 ELSE 4]
=============================================================================
