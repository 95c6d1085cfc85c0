------------------------------ MODULE Metadata ------------------------------
(***************************************************************************)
(* The cluster metadata of TrixPS and the pure functions over it: the      *)
(* value that raft replicates (internal/metadata), the commands the state  *)
(* machine applies to it (internal/raftfsm) and the decisions the          *)
(* controller takes from it (internal/broker/controller.go).               *)
(*                                                                         *)
(* A broker id is a number of 1..N.  The code only compares ids and sorts  *)
(* them, so the order of the numbers stands for the order of the strings.  *)
(***************************************************************************)
EXTENDS Integers, FiniteSets

CONSTANTS
    N,              \* how many brokers the --peers flag lists
    NumPartitions   \* the --partitions flag

ASSUME NAssumption == N \in Nat \ {0}
ASSUME NumPartitionsAssumption == NumPartitions \in Nat \ {0}

Brokers == 1..N
None == 0           \* the empty string where a broker id may stand
Partitions == 0..NumPartitions-1

Assignment == [leader : Brokers \cup {None}, follower : Brokers \cup {None}]

(***************************************************************************)
(* Cluster.  "parts" is a partial function, as the Go map is; "known" is   *)
(* the key set of the map Brokers.  The rpc addresses are left out: they   *)
(* are a function of the id.                                               *)
(***************************************************************************)
Cluster ==
    [num : {0, NumPartitions},
     known : SUBSET Brokers,
     parts : UNION {[P -> Assignment] : P \in SUBSET Partitions},
     down : SUBSET Brokers]

NewCluster == [num |-> 0, known |-> {}, parts |-> [p \in {} |-> None], down |-> {}]

AliveBrokerIDs(c) == c.known \ c.down

(***************************************************************************)
(* The commands, and FSM.Apply.                                            *)
(***************************************************************************)
RegisterBroker(b) == [type |-> "register_broker", broker |-> b]
Assign(p, a)      == [type |-> "assign", partition |-> p, asg |-> a]
MarkDown(b)       == [type |-> "mark_down", broker |-> b]
MarkUp(b)         == [type |-> "mark_up", broker |-> b]
Reassign(p, a)    == [type |-> "reassign_leader", partition |-> p, asg |-> a]

PutPartition(parts, p, a) ==
    [q \in DOMAIN parts \cup {p} |-> IF q = p THEN a ELSE parts[q]]

Apply(c, cmd) ==
    CASE cmd.type = "register_broker" ->
            [c EXCEPT !.known = @ \cup {cmd.broker}, !.down = @ \ {cmd.broker}]
      [] cmd.type = "assign" ->
            [c EXCEPT !.num = NumPartitions,
                      !.parts = PutPartition(@, cmd.partition, cmd.asg)]
      [] cmd.type = "mark_down" -> [c EXCEPT !.down = @ \cup {cmd.broker}]
      [] cmd.type = "mark_up" -> [c EXCEPT !.down = @ \ {cmd.broker}]
      [] cmd.type = "reassign_leader" ->
            [c EXCEPT !.parts = PutPartition(@, cmd.partition, cmd.asg)]

(***************************************************************************)
(* What the controller decides.                                            *)
(***************************************************************************)

\* The k-th of sortedPeerIDs is k+1, so partition p goes to ids[p % n] and
\* ids[(p+1) % n].
Placement(p) == [leader |-> (p % N) + 1, follower |-> ((p + 1) % N) + 1]

\* Mutant: the excluded broker is not skipped.
PickAliveAny(ids, alive, exclude) ==
    LET S == ids \cap alive
    IN  IF S = {} THEN None ELSE CHOOSE b \in S : \A x \in S : b <= x

PickAlive(ids, alive, exclude) ==
    LET S == (ids \cap alive) \ {exclude}
    IN  IF S = {} THEN None ELSE CHOOSE b \in S : \A x \in S : b <= x

\* Mutant: repaired only when both replicas are down.
NeedsRepairBoth(asg, alive) ==
    /\ asg.leader \notin alive
    /\ asg.follower # None /\ asg.follower \notin alive

NeedsRepair(asg, alive) ==
    \/ asg.leader \notin alive
    \/ asg.follower # None /\ asg.follower \notin alive

RepairedLeader(asg, ids, alive) ==
    IF asg.leader \in alive THEN asg.leader
    ELSE IF asg.follower \in alive THEN asg.follower
    ELSE PickAlive(ids, alive, None)

\* The assignment reconcile computes for a partition; asg itself when it
\* leaves the partition alone.
Repair(asg, ids, alive) ==
    LET l == RepairedLeader(asg, ids, alive)
    IN  IF NeedsRepair(asg, alive) /\ l # None
        THEN [leader |-> l, follower |-> PickAlive(ids, alive, l)]
        ELSE asg
=============================================================================
