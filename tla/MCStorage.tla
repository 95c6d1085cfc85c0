------------------------------ MODULE MCStorage ------------------------------
(* Instances of Storage for TLC. *)
EXTENDS Storage

CONSTANTS short, long

MCSize == [v \in Value |-> IF v = short THEN 1 ELSE 2]
=============================================================================
