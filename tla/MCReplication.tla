---------------------------- MODULE MCReplication ----------------------------
(* Instances of Replication for TLC. *)
EXTENDS Replication, TLC

RequestSymmetry == Permutations(Request)
=============================================================================
