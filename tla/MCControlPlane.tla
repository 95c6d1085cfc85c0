--------------------------- MODULE MCControlPlane ---------------------------
(***************************************************************************)
(* ControlPlane for TLC.  Besides the empty cluster of Init there are two  *)
(* initial states in which the cluster was bootstrapped, stopped as a      *)
(* whole and started again (which counts as one crash), so that the orders *)
(* in which the brokers can be registered do not multiply what comes after *)
(* it.                                                                     *)
(***************************************************************************)
EXTENDS ControlPlane

InitFrom(h, crashed) ==
    /\ history = h
    /\ applied = [b \in Brokers |-> 1]
    /\ up = [b \in Brokers |-> TRUE]
    /\ raft = None
    /\ phase = [b \in Brokers |-> "idle"]
    /\ todo = [b \in Brokers |-> {}]
    /\ seen = [b \in Brokers |-> 1]
    /\ alive = [b \in Brokers |-> Unprobed]
    /\ crashes = crashed /\ losses = 0 /\ misses = 0

Registered(k) == [NewCluster EXCEPT !.known = 1..k]

Bootstrapped ==
    [num |-> NumPartitions, known |-> Brokers,
     parts |-> [p \in Partitions |-> Placement(p)], down |-> {}]

\* The bootstrap is done, and every broker has a snapshot of what it led to.
Compacted == <<Bootstrapped>>

\* The bootstrap is done, for one partition, and the log still holds all of it:
\* a restarted or lagging state machine goes through it.
Uncompacted == [k \in 1..N+2 |-> IF k = N+2 THEN Bootstrapped ELSE Registered(k-1)]
-----------------------------------------------------------------------------
(***************************************************************************)
(* What goes wrong in a behaviour, at most: one row for each way to begin. *)
(***************************************************************************)
Scenario ==
    [bootstrap |-> [start |-> <<NewCluster>>, crash |-> 0, loss |-> 1, miss |-> 0],
     crashes   |-> [start |-> Compacted,      crash |-> 3, loss |-> 0, miss |-> 0],
     misses    |-> [start |-> Uncompacted,    crash |-> 2, loss |-> 0, miss |-> 2],
     losses    |-> [start |-> Compacted,      crash |-> 2, loss |-> 1, miss |-> 0]]

VARIABLE scenario

ScenarioInit ==
    /\ scenario \in DOMAIN Scenario
    /\ InitFrom(Scenario[scenario].start, IF scenario = "bootstrap" THEN 0 ELSE 1)

ScenarioNext ==
    /\ Next
    /\ crashes' <= Scenario[scenario].crash
    /\ losses' <= Scenario[scenario].loss
    /\ misses' <= Scenario[scenario].miss
    /\ UNCHANGED scenario

ScenarioSpec == ScenarioInit /\ [][ScenarioNext]_<<vars, scenario>> /\ Fairness
=============================================================================
