------------------------- MODULE ControlPlaneProofs -------------------------
(***************************************************************************)
(* The metadata that raft agrees on, for any number of brokers and of      *)
(* partitions and any bounds.                                              *)
(***************************************************************************)
EXTENDS ControlPlane, MetadataProofs, FiniteSetTheorems

-----------------------------------------------------------------------------
(***************************************************************************)
(* FSM.Apply                                                               *)
(***************************************************************************)

\* What a command of an assigning type is made of.
LEMMA CommandShape ==
    ASSUME NEW cmd \in Command
    PROVE  /\ cmd.type \in {"register_broker", "assign", "mark_down", "mark_up",
                            "reassign_leader"}
           /\ cmd.type \in Assigning =>
                cmd.partition \in Partitions /\ cmd.asg \in Assignment
           /\ cmd.type \notin Assigning => cmd.broker \in Brokers
  BY DEF Command, RegisterBroker, Assign, MarkDown, MarkUp, Reassign, Assigning

\* Setting the assignment of one partition.
LEMMA PutPartitionType ==
    ASSUME NEW P \in SUBSET Partitions, NEW parts \in [P -> Assignment],
           NEW p \in Partitions, NEW a \in Assignment
    PROVE  /\ PutPartition(parts, p, a) \in [P \cup {p} -> Assignment]
           /\ PutPartition(parts, p, a)[p] = a
           /\ \A q \in P \ {p} : PutPartition(parts, p, a)[q] = parts[q]
  BY DEF PutPartition

\* FSM.Apply leaves the metadata well formed.
LEMMA ApplyType ==
    ASSUME NEW c \in Cluster, NEW cmd \in Command
    PROVE  Apply(c, cmd) \in Cluster
<1>1. PICK P \in SUBSET Partitions : c.parts \in [P -> Assignment]
  BY DEF Cluster
<1>2. /\ c.num \in {0, NumPartitions} /\ c.known \in SUBSET Brokers
      /\ c.down \in SUBSET Brokers
      /\ c = [num |-> c.num, known |-> c.known, parts |-> c.parts, down |-> c.down]
  BY DEF Cluster
<1>3. CASE cmd.type \in Assigning
  <2>1. cmd.partition \in Partitions /\ cmd.asg \in Assignment
    BY <1>3, CommandShape
  <2>2. PutPartition(c.parts, cmd.partition, cmd.asg) \in
            [P \cup {cmd.partition} -> Assignment]
    BY <1>1, <2>1, PutPartitionType
  <2>3. PutPartition(c.parts, cmd.partition, cmd.asg) \in
            UNION {[Q -> Assignment] : Q \in SUBSET Partitions}
    BY <2>1, <2>2
  <2>4. CASE cmd.type = "assign"
    BY <1>2, <2>3, <2>4 DEF Apply, Cluster
  <2>5. CASE cmd.type = "reassign_leader"
    BY <1>2, <2>3, <2>5 DEF Apply, Cluster
  <2> QED BY <1>3, <2>4, <2>5 DEF Assigning
<1>4. CASE cmd.type \notin Assigning
  <2>1. cmd.broker \in Brokers
    BY <1>4, CommandShape
  <2>2. c.parts \in UNION {[Q -> Assignment] : Q \in SUBSET Partitions}
    BY <1>1
  <2>3. CASE cmd.type = "register_broker"
    BY <1>2, <2>1, <2>2, <2>3 DEF Apply, Cluster
  <2>4. CASE cmd.type = "mark_down"
    BY <1>2, <2>1, <2>2, <2>4 DEF Apply, Cluster
  <2>5. CASE cmd.type = "mark_up"
    BY <1>2, <2>1, <2>2, <2>5 DEF Apply, Cluster
  <2> QED BY <1>4, <2>3, <2>4, <2>5, CommandShape DEF Assigning
<1> QED BY <1>3, <1>4

\* FSM.Apply keeps two distinct replicas, if the command names distinct ones.
LEMMA ApplyDistinct ==
    ASSUME NEW c \in Cluster, NEW cmd \in Command,
           \A p \in DOMAIN c.parts : Distinct(c.parts[p]),
           cmd.type \in Assigning => Distinct(cmd.asg)
    PROVE  \A p \in DOMAIN Apply(c, cmd).parts : Distinct(Apply(c, cmd).parts[p])
<1>1. PICK P \in SUBSET Partitions : c.parts \in [P -> Assignment]
  BY DEF Cluster
<1>2. c = [num |-> c.num, known |-> c.known, parts |-> c.parts, down |-> c.down]
  BY DEF Cluster
<1>3. CASE cmd.type \in Assigning
  <2> DEFINE p0 == cmd.partition
             new == PutPartition(c.parts, p0, cmd.asg)
  <2>1. cmd.partition \in Partitions /\ cmd.asg \in Assignment
    BY <1>3, CommandShape
  <2>2. new = [q \in P \cup {p0} |-> IF q = p0 THEN cmd.asg ELSE c.parts[q]]
    BY <1>1 DEF PutPartition
  <2>3. \A p \in DOMAIN new : Distinct(new[p])
    BY <1>1, <1>3, <2>2
  <2>4. Apply(c, cmd).parts = new
    BY <1>2, <1>3 DEF Apply, Assigning
  <2> QED BY <2>3, <2>4
<1>4. CASE cmd.type \notin Assigning
  <2>1. Apply(c, cmd).parts = c.parts
    BY <1>2, <1>4, CommandShape DEF Apply, Assigning
  <2> QED BY <2>1
<1> QED BY <1>3, <1>4

-----------------------------------------------------------------------------
(***************************************************************************)
(* What the control loop computes.                                         *)
(***************************************************************************)

\* ensureBootstrap: commands, each with two distinct replicas.
LEMMA BootstrapOK ==
    ASSUME NEW c \in Cluster
    PROVE  /\ BootstrapCommands(c) \in SUBSET Command
           /\ \A cmd \in BootstrapCommands(c) :
                cmd.type \in Assigning => Distinct(cmd.asg)
<1>1. \A p \in Partitions : Placement(p) \in Assignment /\ Distinct(Placement(p))
  <2> TAKE p \in Partitions
  <2>1. p \in Nat
    BY NumPartitionsAssumption DEF Partitions
  <2>2. Placement(p) \in Assignment
    BY <2>1, PlacementType
  <2>3. Placement(p).leader # None
    BY <2>1, NAssumption DEF Placement, None
  <2>4. N > 1 => N >= 2
    BY NAssumption
  <2> QED BY <2>1, <2>2, <2>3, <2>4, PlacementDistinct DEF Distinct
<1>2. \A b \in Brokers : RegisterBroker(b) \in Command
  BY DEF Command
<1>3. \A p \in Partitions : Assign(p, Placement(p)) \in Command
  BY <1>1 DEF Command
<1>4. \A b \in Brokers : RegisterBroker(b).type \notin Assigning
  BY DEF RegisterBroker, Assigning
<1>5. \A p \in Partitions : Distinct(Assign(p, Placement(p)).asg)
  BY <1>1 DEF Assign
<1> QED BY <1>2, <1>3, <1>4, <1>5 DEF BootstrapCommands

\* The marks are commands, and assign nothing.
LEMMA MarkOK ==
    ASSUME NEW c \in Cluster, NEW live
    PROVE  /\ MarkCommands(c, live) \in SUBSET Command
           /\ \A cmd \in MarkCommands(c, live) : cmd.type \notin Assigning
<1>1. c.known \in SUBSET Brokers
  BY DEF Cluster
<1> QED BY <1>1 DEF MarkCommands, MarkDown, MarkUp, Command, Assigning

\* A repair that changes the assignment names a leader, and a follower that is
\* not the leader.
LEMMA RepairDistinct ==
    ASSUME NEW asg \in Assignment, NEW ids \in SUBSET Brokers, NEW live,
           Repair(asg, ids, live) # asg
    PROVE  Distinct(Repair(asg, ids, live))
<1> DEFINE l == RepairedLeader(asg, ids, live)
           f == PickAlive(ids, live, l)
<1>1. l # None /\ Repair(asg, ids, live) = [leader |-> l, follower |-> f]
  BY DEF Repair
<1>2. f # None => f \in (ids \cap live) \ {l}
  BY PickAliveType
<1>3. l # f
  BY <1>1, <1>2
<1> QED BY <1>1, <1>3 DEF Distinct

\* reconcile: commands, each with two distinct replicas.
LEMMA RepairOK ==
    ASSUME NEW c \in Cluster, NEW live
    PROVE  /\ RepairCommands(c, live) \in SUBSET Command
           /\ \A cmd \in RepairCommands(c, live) : Distinct(cmd.asg)
<1> DEFINE New(p) == Repair(c.parts[p], AliveBrokerIDs(c), live)
<1>1. PICK P \in SUBSET Partitions : c.parts \in [P -> Assignment]
  BY DEF Cluster
<1>2. AliveBrokerIDs(c) \in SUBSET Brokers
  BY DEF AliveBrokerIDs, Cluster
<1>3. \A p \in P : New(p) \in Assignment
  BY <1>1, <1>2, RepairType
<1>4. \A p \in P : New(p) # c.parts[p] => Distinct(New(p))
  BY <1>1, <1>2, RepairDistinct
<1>5. \A p \in P : Reassign(p, New(p)) \in Command
  BY <1>3 DEF Command
<1>6. \A p \in P : Reassign(p, New(p)).asg = New(p)
  BY DEF Reassign
<1> HIDE DEF New
<1>7. RepairCommands(c, live) =
        {Reassign(p, New(p)) : p \in {q \in P : New(q) # c.parts[q]}}
  BY <1>1 DEF RepairCommands, New
<1> QED BY <1>4, <1>5, <1>6, <1>7

-----------------------------------------------------------------------------
(***************************************************************************)
(* The invariant.                                                          *)
(***************************************************************************)
\* Whatever a broker reads from its state machine is metadata raft agreed on.
LEMMA ClusterRead ==
    ASSUME IndInv
    PROVE  /\ Latest \in Cluster
           /\ \A b \in Brokers : /\ ClusterOf(b) \in Cluster
                                 /\ history[seen[b]] \in Cluster
           /\ \A p \in DOMAIN Latest.parts : Distinct(Latest.parts[p])
  BY DEF IndInv, TypeOK, ReplicasDistinct, Latest, ClusterOf

\* The empty cluster assigns nothing, and nothing is computed yet.
LEMMA InitInv == Init => IndInv
<1> SUFFICES ASSUME Init PROVE IndInv
  OBVIOUS
<1>1. NewCluster.parts \in [{} -> Assignment] /\ DOMAIN NewCluster.parts = {}
  BY DEF NewCluster
<1>2. NewCluster \in Cluster
  <2>1. NewCluster.parts \in UNION {[P -> Assignment] : P \in SUBSET Partitions}
    BY <1>1
  <2> QED BY <2>1 DEF NewCluster, Cluster
<1>3. Unprobed \in UNION {[S -> BOOLEAN] : S \in SUBSET Brokers}
  <2>1. Unprobed \in [{} -> BOOLEAN]
    BY DEF Unprobed
  <2> QED BY <2>1
<1>4. history = <<NewCluster>> /\ Len(history) = 1 /\ history[1] = NewCluster
  BY DEF Init
<1>5. TypeOK
  BY <1>2, <1>3, <1>4 DEF Init, TypeOK
<1>6. CommandsDistinct
  BY DEF Init, CommandsDistinct
<1>7. ReplicasDistinct
  BY <1>1, <1>4 DEF ReplicasDistinct
<1> QED BY <1>5, <1>6, <1>7 DEF IndInv

\* Committing a command of a control loop, by whichever path.
LEMMA CommitStep ==
    ASSUME IndInv, NEW b \in Brokers, NEW cmd \in todo[b], Commit(cmd)
    PROVE  /\ history' \in Seq(Cluster)
           /\ Len(history') >= Len(history)
           /\ ReplicasDistinct'
<1> DEFINE c == Apply(Latest, cmd)
<1>1. cmd \in Command /\ (cmd.type \in Assigning => Distinct(cmd.asg))
  BY DEF IndInv, TypeOK, CommandsDistinct
<1>2. Latest \in Cluster /\ \A p \in DOMAIN Latest.parts : Distinct(Latest.parts[p])
  BY ClusterRead
<1>3. c \in Cluster
  BY <1>1, <1>2, ApplyType
<1>4. \A p \in DOMAIN c.parts : Distinct(c.parts[p])
  BY <1>1, <1>2, ApplyDistinct
<1> HIDE DEF c
<1>5. history' = history \/ history' = Append(history, c)
  BY DEF Commit, c
<1>6. history \in Seq(Cluster)
  BY DEF IndInv, TypeOK
<1>7. CASE history' = history
  BY <1>6, <1>7 DEF IndInv, ReplicasDistinct
<1>8. CASE history' = Append(history, c)
  <2>1. /\ history' \in Seq(Cluster)
        /\ Len(history') = Len(history) + 1
        /\ history'[Len(history) + 1] = c
        /\ \A k \in 1..Len(history) : history'[k] = history[k]
    BY <1>3, <1>6, <1>8
  <2>2. ASSUME NEW k \in 1..Len(history'), NEW p \in DOMAIN history'[k].parts
        PROVE  Distinct(history'[k].parts[p])
    <3>1. CASE k = Len(history) + 1
      BY <1>4, <2>1, <2>2, <3>1
    <3>2. CASE k # Len(history) + 1
      <4>1. k \in 1..Len(history) /\ history'[k] = history[k]
        BY <1>6, <2>1, <2>2, <3>2
      <4> QED BY <2>2, <4>1 DEF IndInv, ReplicasDistinct
    <3> QED BY <3>1, <3>2
  <2> QED BY <1>6, <2>1, <2>2 DEF ReplicasDistinct, Distinct
<1> QED BY <1>5, <1>7, <1>8

\* The steps of the loop that compute commands or probe, and never commit.
LEMMA LoopInv ==
    ASSUME IndInv, NEW b \in Brokers,
           \/ Tick(b) \/ BeginReconcile(b) \/ BeginMarking(b) \/ BeginRepair(b)
           \/ EndTick(b) \/ \E x \in Brokers : Probe(b, x)
    PROVE  IndInv'
<1> USE DEF vars, raftVars, loopVars
<1>t. TypeOK /\ CommandsDistinct /\ ReplicasDistinct
  BY DEF IndInv
<1>u. Unprobed \in UNION {[S -> BOOLEAN] : S \in SUBSET Brokers}
  <2>1. Unprobed \in [{} -> BOOLEAN]
    BY DEF Unprobed
  <2> QED BY <2>1
<1>r. UNCHANGED <<history, applied, raft, up, crashes, losses>>
  BY DEF Tick, BeginReconcile, BeginMarking, BeginRepair, EndTick, Probe
<1>p. ReplicasDistinct'
  BY <1>t, <1>r DEF ReplicasDistinct
<1>o. Up' = Up
  BY <1>r DEF Up
<1>1. CASE Tick(b)
  <2>1. /\ BootstrapCommands(ClusterOf(b)) \in SUBSET Command
        /\ \A cmd \in BootstrapCommands(ClusterOf(b)) :
              cmd.type \in Assigning => Distinct(cmd.asg)
    BY ClusterRead, BootstrapOK
  <2>2. /\ todo' = [todo EXCEPT ![b] = BootstrapCommands(ClusterOf(b))]
        /\ phase' = [phase EXCEPT ![b] = "bootstrap"]
        /\ UNCHANGED <<seen, alive, misses>>
    BY <1>1 DEF Tick
  <2> HIDE DEF BootstrapCommands
  <2>3. TypeOK'
    BY <1>t, <1>r, <1>o, <2>1, <2>2 DEF TypeOK
  <2>4. CommandsDistinct'
    BY <1>t, <2>1, <2>2 DEF TypeOK, CommandsDistinct, Distinct
  <2> QED BY <1>p, <2>3, <2>4 DEF IndInv
<1>2. CASE BeginReconcile(b)
  BY <1>t, <1>r, <1>o, <1>p, <1>2 DEF BeginReconcile, IndInv, TypeOK, CommandsDistinct
<1>3. CASE BeginMarking(b)
  <2> DEFINE new == MarkCommands(history[seen[b]], AliveSet(b))
  <2>1. new \in SUBSET Command /\ \A cmd \in new : cmd.type \notin Assigning
    BY ClusterRead, MarkOK
  <2> HIDE DEF new
  <2>2. /\ todo' = [todo EXCEPT ![b] = new]
        /\ phase' = [phase EXCEPT ![b] = "mark"]
        /\ seen' = [seen EXCEPT ![b] = 1]
        /\ UNCHANGED <<alive, misses>>
    BY <1>3 DEF BeginMarking, new
  <2>3. TypeOK'
    BY <1>t, <1>r, <1>o, <2>1, <2>2 DEF TypeOK
  <2>4. CommandsDistinct'
    BY <1>t, <2>1, <2>2 DEF TypeOK, CommandsDistinct
  <2> QED BY <1>p, <2>3, <2>4 DEF IndInv
<1>4. CASE BeginRepair(b)
  <2> DEFINE new == RepairCommands(ClusterOf(b), AliveSet(b))
  <2>1. new \in SUBSET Command /\ \A cmd \in new : Distinct(cmd.asg)
    BY ClusterRead, RepairOK
  <2> HIDE DEF new
  <2>2. /\ todo' = [todo EXCEPT ![b] = new]
        /\ phase' = [phase EXCEPT ![b] = "repair"]
        /\ alive' = [alive EXCEPT ![b] = Unprobed]
        /\ UNCHANGED <<seen, misses>>
    BY <1>4 DEF BeginRepair, new
  <2>3. TypeOK'
    BY <1>t, <1>u, <1>r, <1>o, <2>1, <2>2 DEF TypeOK
  <2>4. CommandsDistinct'
    BY <1>t, <2>1, <2>2 DEF TypeOK, CommandsDistinct
  <2> QED BY <1>p, <2>3, <2>4 DEF IndInv
<1>5. CASE EndTick(b)
  BY <1>t, <1>r, <1>o, <1>p, <1>5 DEF EndTick, IndInv, TypeOK, CommandsDistinct
<1>6. ASSUME NEW x \in Brokers, Probe(b, x) PROVE IndInv'
  <2>1. PICK answer \in BOOLEAN :
          alive' = [alive EXCEPT ![b] =
                [y \in DOMAIN @ \cup {x} |-> IF y = x THEN answer ELSE @[y]]]
    BY <1>6 DEF Probe
  <2>2. PICK S \in SUBSET Brokers : alive[b] \in [S -> BOOLEAN]
    BY <1>t DEF TypeOK
  <2> DEFINE new == [y \in S \cup {x} |-> IF y = x THEN answer ELSE alive[b][y]]
  <2>3. new \in [S \cup {x} -> BOOLEAN]
    BY <2>2
  <2>4. new \in UNION {[T -> BOOLEAN] : T \in SUBSET Brokers}
    BY <2>3
  <2>5. alive' = [alive EXCEPT ![b] = new]
    BY <2>1, <2>2
  <2> HIDE DEF new
  <2>6. misses' \in Nat /\ UNCHANGED <<phase, todo, seen>>
    BY <1>t, <1>6 DEF Probe, TypeOK
  <2>7. TypeOK'
    BY <1>t, <1>r, <1>o, <2>4, <2>5, <2>6 DEF TypeOK
  <2>8. CommandsDistinct'
    BY <1>t, <2>6 DEF CommandsDistinct
  <2> QED BY <1>p, <2>7, <2>8 DEF IndInv
<1> QED BY <1>1, <1>2, <1>3, <1>4, <1>5, <1>6

\* applyCommand: committed, committed without b learning so, or refused.
LEMMA ApplyCommandInv ==
    ASSUME IndInv, NEW b \in Brokers, NEW cmd \in todo[b],
           ApplyCommand(b, cmd) \/ ApplyCommandLost(b, cmd) \/ ApplyCommandRefused(b, cmd)
    PROVE  IndInv'
<1> USE DEF vars, raftVars, loopVars
<1>t. TypeOK /\ CommandsDistinct /\ ReplicasDistinct
  BY DEF IndInv
<1>d. /\ todo' = [todo EXCEPT ![b] = @ \ {cmd}]
      /\ UNCHANGED <<phase, seen, alive, up, crashes, misses>>
  BY DEF ApplyCommand, ApplyCommandLost, ApplyCommandRefused, Done
<1>c. CommandsDistinct'
  BY <1>t, <1>d DEF TypeOK, CommandsDistinct
<1>h. /\ history' \in Seq(Cluster) /\ Len(history') >= Len(history)
      /\ ReplicasDistinct'
  <2>1. CASE ApplyCommandRefused(b, cmd)
    BY <1>t, <2>1 DEF ApplyCommandRefused, TypeOK, ReplicasDistinct
  <2>2. CASE ApplyCommand(b, cmd) \/ ApplyCommandLost(b, cmd)
    <3>1. Commit(cmd)
      BY <2>2 DEF ApplyCommand, ApplyCommandLost
    <3> QED BY <3>1, CommitStep
  <2> QED BY <2>1, <2>2
<1>l. Len(history) \in Nat /\ Len(history) > 0 /\ Len(history') \in Nat
  BY <1>t, <1>h DEF TypeOK
<1>a. applied' \in [Brokers -> 1..Len(history')] /\ seen' \in [Brokers -> 1..Len(history')]
  <2>1. applied' = applied \/ applied' = [applied EXCEPT ![b] = Len(history')]
    BY DEF ApplyCommand, ApplyCommandLost, ApplyCommandRefused
  <2> QED BY <1>t, <1>d, <1>h, <1>l, <2>1 DEF TypeOK
<1>r. raft' \in Up' \cup {None} /\ losses' \in Nat
  BY <1>t, <1>d DEF ApplyCommand, ApplyCommandLost, ApplyCommandRefused, TypeOK, Up
<1>q. todo' \in [Brokers -> SUBSET Command]
  BY <1>t, <1>d DEF TypeOK
<1>y. TypeOK'
  <2>1. Len(history') > 0
    BY <1>h, <1>l
  <2> QED BY <1>t, <1>d, <1>h, <1>a, <1>r, <1>q, <2>1 DEF TypeOK
<1> QED BY <1>c, <1>h, <1>y DEF IndInv

\* Raft and the processes.
LEMMA RaftInv ==
    ASSUME IndInv,
           \/ StepDown \/ LoseLeadership
           \/ \E b \in Brokers : Elect(b) \/ ApplyEntry(b) \/ Crash(b) \/ Restart(b)
    PROVE  IndInv'
<1> USE DEF vars, raftVars, loopVars
<1>t. TypeOK /\ CommandsDistinct /\ ReplicasDistinct
  BY DEF IndInv
<1>u. Unprobed \in UNION {[S -> BOOLEAN] : S \in SUBSET Brokers}
  <2>1. Unprobed \in [{} -> BOOLEAN]
    BY DEF Unprobed
  <2> QED BY <2>1
<1>h. history' = history
  BY DEF StepDown, LoseLeadership, Elect, ApplyEntry, Crash, Restart
<1>p. ReplicasDistinct'
  BY <1>t, <1>h DEF ReplicasDistinct
<1>1. CASE StepDown \/ LoseLeadership
  BY <1>t, <1>p, <1>1
     DEF StepDown, LoseLeadership, IndInv, TypeOK, CommandsDistinct, Up
<1>2. ASSUME NEW b \in Brokers, Elect(b) PROVE IndInv'
  <2>1. PICK k \in applied[b]..Len(history) : applied' = [applied EXCEPT ![b] = k]
    BY <1>2 DEF Elect
  <2>2. k \in 1..Len(history)
    BY <1>t, <2>1 DEF TypeOK
  <2> QED BY <1>t, <1>p, <1>2, <2>1, <2>2
          DEF Elect, IndInv, TypeOK, CommandsDistinct, Up
<1>3. ASSUME NEW b \in Brokers, ApplyEntry(b) PROVE IndInv'
  <2>1. applied[b] + 1 \in 1..Len(history)
    BY <1>t, <1>3 DEF ApplyEntry, TypeOK
  <2> QED BY <1>t, <1>p, <1>3, <2>1
          DEF ApplyEntry, IndInv, TypeOK, CommandsDistinct, Up
<1>4. ASSUME NEW b \in Brokers, Crash(b) PROVE IndInv'
  <2>1. raft' \in Up' \cup {None}
    BY <1>t, <1>4 DEF Crash, TypeOK, Up
  <2>2. 1 \in 1..Len(history)
    BY <1>t DEF TypeOK
  <2>3. TypeOK'
    BY <1>t, <1>u, <1>4, <2>1, <2>2 DEF Crash, TypeOK
  <2>4. CommandsDistinct'
    BY <1>t, <1>4 DEF Crash, TypeOK, CommandsDistinct
  <2> QED BY <1>p, <2>3, <2>4 DEF IndInv
<1>5. ASSUME NEW b \in Brokers, Restart(b) PROVE IndInv'
  <2>1. raft' \in Up' \cup {None}
    BY <1>t, <1>5 DEF Restart, TypeOK, Up
  <2> QED BY <1>t, <1>p, <1>5, <2>1 DEF Restart, IndInv, TypeOK, CommandsDistinct
<1> QED BY <1>1, <1>2, <1>3, <1>4, <1>5

\* IndInv holds throughout: each command that a control loop has computed names
\* two distinct replicas, and raft commits no other.
THEOREM Invariance == Spec => []IndInv
<1>1. Init => IndInv
  BY InitInv
<1>2. IndInv /\ [Next]_vars => IndInv'
  <2> SUFFICES ASSUME IndInv, [Next]_vars PROVE IndInv'
    OBVIOUS
  <2>1. CASE UNCHANGED vars
    BY <2>1 DEF vars, raftVars, loopVars, IndInv, TypeOK, CommandsDistinct,
                ReplicasDistinct, Up
  <2>2. ASSUME NEW b \in Brokers,
               \/ Tick(b) \/ BeginReconcile(b) \/ BeginMarking(b) \/ BeginRepair(b)
               \/ EndTick(b) \/ \E x \in Brokers : Probe(b, x)
        PROVE  IndInv'
    BY <2>2, LoopInv
  <2>3. ASSUME NEW b \in Brokers, NEW cmd \in todo[b],
               \/ ApplyCommand(b, cmd) \/ ApplyCommandLost(b, cmd)
               \/ ApplyCommandRefused(b, cmd)
        PROVE  IndInv'
    BY <2>3, ApplyCommandInv
  <2>4. ASSUME \/ StepDown \/ LoseLeadership
               \/ \E b \in Brokers : Elect(b) \/ ApplyEntry(b) \/ Crash(b) \/ Restart(b)
        PROVE  IndInv'
    BY <2>4, RaftInv
  <2> QED BY <2>1, <2>2, <2>3, <2>4 DEF Next
<1> QED BY <1>1, <1>2, PTL DEF Spec

\* The metadata, the state machines' places in it, the commands and the probes
\* stay well formed.
THEOREM TypeCorrect == Spec => []TypeOK
<1>1. IndInv => TypeOK
  BY DEF IndInv
<1> QED BY <1>1, Invariance, PTL

\* No metadata that raft ever agrees on, for any number of brokers from two
\* and any number of partitions, gives a partition a leader that is its own
\* follower, or no leader.
THEOREM Replicas == Spec => []ReplicasDistinct
<1>1. IndInv => ReplicasDistinct
  BY DEF IndInv
<1> QED BY <1>1, Invariance, PTL

-----------------------------------------------------------------------------
(***************************************************************************)
(* A cluster that nothing happens to                                       *)
(***************************************************************************)
CalmOK ==
    /\ Up = Brokers
    /\ OneLoop
    /\ Latest.down = {}
    /\ \A b \in Brokers :
          /\ Registering(b) /\ Settled(b)
          /\ \A x \in DOMAIN alive[b] : alive[b][x]
    /\ \A p \in DOMAIN Latest.parts : Latest.parts[p] = Placement(p)

\* The bounds count up: who is calm after a step was before it, and the step is
\* no crash, no lost leadership and no failed probe.
LEMMA CalmFrom ==
    ASSUME IndInv, [Next]_vars, Calm'
    PROVE  /\ Calm
           /\ UNCHANGED <<crashes, losses, misses>>
<1>t. crashes \in Nat /\ losses \in Nat /\ misses \in Nat
  BY DEF IndInv, TypeOK
<1>1. /\ crashes' = crashes \/ crashes' = crashes + 1
      /\ losses' = losses \/ losses' = losses + 1
      /\ misses' = misses \/ misses' = misses + 1
  <2>1. CASE UNCHANGED vars
    BY <2>1 DEF vars
  <2>2. ASSUME NEW b \in Brokers,
               \/ Tick(b) \/ BeginReconcile(b) \/ BeginMarking(b) \/ BeginRepair(b)
               \/ EndTick(b) \/ \E x \in Brokers : Probe(b, x)
        PROVE  UNCHANGED <<crashes, losses>> /\ (misses' = misses \/ misses' = misses + 1)
    BY <2>2 DEF Tick, BeginReconcile, BeginMarking, BeginRepair, EndTick, Probe
  <2>3. ASSUME NEW b \in Brokers, NEW cmd \in todo[b],
               \/ ApplyCommand(b, cmd) \/ ApplyCommandLost(b, cmd)
               \/ ApplyCommandRefused(b, cmd)
        PROVE  UNCHANGED <<crashes, misses>> /\ (losses' = losses \/ losses' = losses + 1)
    BY <2>3 DEF ApplyCommand, ApplyCommandLost, ApplyCommandRefused, Done
  <2>4. ASSUME \/ StepDown \/ LoseLeadership
               \/ \E b \in Brokers : Elect(b) \/ ApplyEntry(b) \/ Crash(b) \/ Restart(b)
        PROVE  /\ crashes' = crashes \/ crashes' = crashes + 1
               /\ losses' = losses \/ losses' = losses + 1
               /\ misses' = misses
    BY <2>4 DEF StepDown, LoseLeadership, Elect, ApplyEntry, Crash, Restart
  <2> QED BY <2>1, <2>2, <2>3, <2>4 DEF Next
<1> QED BY <1>t, <1>1 DEF Calm

\* Only the raft leader's loop is under way, and its state machine is not behind.
LEMMA LoopOfLeader ==
    ASSUME IndInv, CalmOK, NEW b \in Brokers, phase[b] # "idle" \/ todo[b] # {} \/ raft = b
    PROVE  /\ raft = b /\ raft # None
           /\ applied[b] = Len(history) /\ ClusterOf(b) = Latest
<1>1. raft = b
  BY DEF CalmOK, OneLoop
<1>2. b # None
  BY NAssumption DEF Brokers, None
<1> QED BY <1>1, <1>2 DEF CalmOK, OneLoop, ClusterOf, Latest

\* Nobody is marked down or up when all are alive and none is marked.
LEMMA NothingToMark ==
    ASSUME NEW c \in Cluster, c.down = {}
    PROVE  MarkCommands(c, Brokers) = {}
<1>1. c.known \subseteq Brokers
  BY DEF Cluster
<1> QED BY <1>1 DEF MarkCommands

\* Nothing is repaired when all are alive and every partition is where the
\* placement put it.
LEMMA NothingToRepair ==
    ASSUME NEW c \in Cluster, \A p \in DOMAIN c.parts : c.parts[p] = Placement(p)
    PROVE  RepairCommands(c, Brokers) = {}
<1>1. PICK P \in SUBSET Partitions : c.parts \in [P -> Assignment]
  BY DEF Cluster
<1>2. ASSUME NEW p \in P
      PROVE  Repair(c.parts[p], AliveBrokerIDs(c), Brokers) = c.parts[p]
  <2>1. p \in Nat
    BY NumPartitionsAssumption DEF Partitions
  <2>2. Placement(p).leader \in Brokers /\ Placement(p).follower \in Brokers
    BY <2>1, NAssumption DEF Placement, Brokers
  <2>3. c.parts[p] = Placement(p)
    BY <1>1
  <2> QED BY <2>2, <2>3 DEF Repair, NeedsRepair
<1> QED BY <1>1, <1>2 DEF RepairCommands

\* The phases of a tick.
LEMMA CalmLoop ==
    ASSUME IndInv, CalmOK, Calm', [Next]_vars, NEW b \in Brokers,
           \/ Tick(b) \/ BeginReconcile(b) \/ BeginMarking(b) \/ BeginRepair(b)
           \/ EndTick(b) \/ \E x \in Brokers : Probe(b, x)
    PROVE  CalmOK'
<1>t. TypeOK
  BY DEF IndInv
<1>r. UNCHANGED <<history, applied, raft, up>>
  BY DEF Tick, BeginReconcile, BeginMarking, BeginRepair, EndTick, Probe, raftVars
<1>l. /\ raft = b /\ raft # None /\ applied[b] = Len(history) /\ ClusterOf(b) = Latest
  <2>1. phase[b] # "idle" \/ raft = b
    BY DEF Tick, BeginReconcile, BeginMarking, BeginRepair, EndTick, Probe
  <2> QED BY <2>1, LoopOfLeader
<1>c. /\ Latest \in Cluster /\ Latest.down = {} /\ Latest.known \subseteq Brokers
      /\ \A p \in DOMAIN Latest.parts : Latest.parts[p] = Placement(p)
  BY ClusterRead DEF CalmOK, Cluster
<1>s. Up' = Up /\ Latest' = Latest
  BY <1>r DEF Up, Latest
<1> DEFINE AllAlive(q) == \A x \in DOMAIN alive[q] : alive[q][x]
<1>b. Registering(b) /\ Settled(b) /\ AllAlive(b)
  BY DEF CalmOK
<1>o. ASSUME \A q \in Brokers \ {b} : UNCHANGED <<phase[q], todo[q], seen[q], alive[q]>>,
             (Registering(b) /\ Settled(b) /\ AllAlive(b))'
      PROVE  CalmOK'
  <2>1. OneLoop'
    <3>1. raft' # None
      BY <1>l, <1>r
    <3>2. applied'[raft'] = Len(history')
      BY <1>l, <1>r
    <3>3. \A q \in Brokers : raft' # q => phase'[q] = "idle" /\ todo'[q] = {}
      BY <1>l, <1>r, <1>o DEF CalmOK, OneLoop
    <3> QED BY <3>1, <3>2, <3>3 DEF OneLoop
  <2>2. ASSUME NEW q \in Brokers PROVE (Registering(q) /\ Settled(q) /\ AllAlive(q))'
    <3>1. CASE q = b
      BY <1>o, <3>1
    <3>2. CASE q # b
      BY <1>o, <1>r, <1>s, <3>2 DEF CalmOK, Registering, Settled
    <3> QED BY <3>1, <3>2
  <2>3. Brokers' = Brokers /\ \A p : (Placement(p))' = Placement(p)
    BY DEF Brokers, Placement
  <2> QED BY <1>c, <1>r, <1>s, <2>1, <2>2, <2>3 DEF CalmOK
<1> USE DEF TypeOK
<1>1. CASE Tick(b)
  <2>1. /\ phase' = [phase EXCEPT ![b] = "bootstrap"]
        /\ todo' = [todo EXCEPT ![b] = BootstrapCommands(Latest)]
        /\ UNCHANGED <<seen, alive>>
    BY <1>l, <1>1 DEF Tick
  <2>2. phase'[b] = "bootstrap" /\ todo'[b] = BootstrapCommands(Latest)
    BY <1>t, <2>1
  <2>3. Registering(b)'
    BY <1>s, <2>2 DEF Registering, BootstrapCommands
  <2>4. Settled(b)' /\ AllAlive(b)'
    BY <1>b, <2>1, <2>2 DEF Settled
  <2> QED BY <1>o, <2>1, <2>3, <2>4
<1>2. CASE BeginReconcile(b)
  <2>1. /\ phase' = [phase EXCEPT ![b] = "probe"] /\ seen' = [seen EXCEPT ![b] = applied[b]]
        /\ UNCHANGED <<todo, alive>> /\ phase[b] = "bootstrap" /\ todo[b] = {}
    BY <1>2 DEF BeginReconcile
  <2>2. Latest.known = Brokers
    BY <1>b, <1>c, <2>1 DEF Registering
  <2>3. phase'[b] = "probe" /\ seen'[b] = Len(history')
    BY <1>t, <1>l, <1>r, <2>1
  <2>4. Registering(b)' /\ Settled(b)' /\ AllAlive(b)'
    BY <1>b, <1>s, <2>1, <2>2, <2>3 DEF Registering, Settled, Brokers
  <2> QED BY <1>o, <2>1, <2>4
<1>3. CASE BeginMarking(b)
  <2>1. phase[b] = "probe" /\ DOMAIN alive[b] = history[seen[b]].known
    BY <1>3 DEF BeginMarking
  <2>2. history[seen[b]] = Latest /\ Latest.known = Brokers
    BY <1>b, <2>1 DEF Settled, Latest
  <2>3. AliveSet(b) = Brokers
    BY <1>b, <2>1, <2>2 DEF AliveSet
  <2>4. /\ phase' = [phase EXCEPT ![b] = "mark"]
        /\ todo' = [todo EXCEPT ![b] = MarkCommands(Latest, Brokers)]
        /\ seen' = [seen EXCEPT ![b] = 1] /\ alive' = alive
    BY <1>3, <2>2, <2>3 DEF BeginMarking
  <2>5. phase'[b] = "mark" /\ todo'[b] = {}
    BY <1>t, <1>c, <2>4, NothingToMark
  <2>6. Registering(b)' /\ Settled(b)' /\ AllAlive(b)'
    BY <1>b, <1>s, <2>1, <2>2, <2>4, <2>5 DEF Registering, Settled, Brokers
  <2> QED BY <1>o, <2>4, <2>6
<1>4. CASE BeginRepair(b)
  <2>1. phase[b] = "mark" /\ DOMAIN alive[b] = Brokers
    BY <1>b, <1>4 DEF BeginRepair, Settled
  <2>2. AliveSet(b) = Brokers
    BY <1>b, <2>1 DEF AliveSet
  <2>3. /\ phase' = [phase EXCEPT ![b] = "repair"]
        /\ todo' = [todo EXCEPT ![b] = RepairCommands(Latest, Brokers)]
        /\ alive' = [alive EXCEPT ![b] = Unprobed] /\ seen' = seen
    BY <1>4, <1>l, <2>2 DEF BeginRepair
  <2>4. phase'[b] = "repair" /\ todo'[b] = {} /\ alive'[b] = Unprobed
    BY <1>t, <1>c, <2>3, NothingToRepair
  <2>5. Registering(b)' /\ Settled(b)' /\ AllAlive(b)'
    BY <2>4 DEF Registering, Settled, Unprobed
  <2> QED BY <1>o, <2>3, <2>5
<1>5. CASE EndTick(b)
  <2>1. /\ phase' = [phase EXCEPT ![b] = "idle"] /\ UNCHANGED <<todo, seen, alive>>
        /\ todo[b] = {}
    BY <1>5 DEF EndTick
  <2>2. Registering(b)' /\ Settled(b)' /\ AllAlive(b)'
    BY <1>t, <1>b, <2>1 DEF Registering, Settled
  <2> QED BY <1>o, <2>1, <2>2
<1>6. ASSUME NEW x \in Brokers, Probe(b, x) PROVE CalmOK'
  <2>1. PICK answer \in BOOLEAN :
          /\ IF up[x] /\ ~answer THEN misses' = misses + 1 ELSE UNCHANGED misses
          /\ alive' = [alive EXCEPT ![b] =
                [y \in DOMAIN @ \cup {x} |-> IF y = x THEN answer ELSE @[y]]]
    BY <1>6 DEF Probe
  <2>2. up[x]
    BY DEF CalmOK, Up
  <2>3. answer
    <3>1. misses' = misses /\ misses \in Nat
      BY <1>t, CalmFrom
    <3> QED BY <2>1, <2>2, <3>1
  <2>4. alive'[b] = [y \in DOMAIN alive[b] \cup {x} |-> IF y = x THEN TRUE ELSE alive[b][y]]
    BY <1>t, <2>1, <2>3
  <2>5. AllAlive(b)'
    BY <1>b, <2>4
  <2>6. UNCHANGED <<phase, todo, seen>> /\ phase[b] = "probe"
    BY <1>6 DEF Probe
  <2>7. Registering(b)' /\ Settled(b)'
    BY <1>b, <1>r, <1>s, <2>6 DEF Registering, Settled, Brokers
  <2> QED BY <1>o, <2>1, <2>5, <2>6, <2>7
<1> QED BY <1>1, <1>2, <1>3, <1>4, <1>5, <1>6

\* What is proposed registers a broker or assigns what the placement says.
LEMMA CalmCommand ==
    ASSUME IndInv, CalmOK, Calm', [Next]_vars, NEW b \in Brokers, NEW cmd \in todo[b],
           \/ ApplyCommand(b, cmd) \/ ApplyCommandLost(b, cmd) \/ ApplyCommandRefused(b, cmd)
    PROVE  CalmOK'
<1>t. TypeOK
  BY DEF IndInv
<1>l. /\ raft = b /\ raft # None
  BY LoopOfLeader
<1>1. ApplyCommand(b, cmd)
  <2>1. losses' = losses /\ losses \in Nat
    BY <1>t, CalmFrom DEF TypeOK
  <2> QED BY <1>l, <2>1 DEF ApplyCommandLost, ApplyCommandRefused
<1>b. Registering(b) /\ Settled(b) /\ phase[b] = "bootstrap"
  BY DEF CalmOK, Settled
<1>c. PICK P \in SUBSET Partitions : Latest.parts \in [P -> Assignment]
  BY ClusterRead DEF Cluster
<1>r. Latest = [num |-> Latest.num, known |-> Latest.known, parts |-> Latest.parts,
                down |-> Latest.down]
  BY ClusterRead DEF Cluster
<1> DEFINE c == Apply(Latest, cmd)
<1>2. /\ c.down = {}
      /\ \A p \in DOMAIN c.parts : c.parts[p] = Placement(p)
      /\ \A x \in Brokers \ c.known :
            x \notin Latest.known /\ cmd # RegisterBroker(x)
  <2>1. ASSUME NEW x \in Brokers, cmd = RegisterBroker(x)
        PROVE  /\ c.down = Latest.down \ {x}
               /\ c.parts = Latest.parts
               /\ c.known = Latest.known \cup {x}
    BY <1>r, <2>1 DEF Apply, RegisterBroker
  <2>2. ASSUME NEW p \in Partitions, cmd = Assign(p, Placement(p))
        PROVE  /\ c.down = Latest.down
               /\ c.parts = PutPartition(Latest.parts, p, Placement(p))
               /\ c.known = Latest.known
    BY <1>r, <2>2 DEF Apply, Assign
  <2> HIDE DEF c
  <2>3. ASSUME NEW x \in Brokers, cmd = RegisterBroker(x)
        PROVE  /\ c.down = {}
               /\ \A p \in DOMAIN c.parts : c.parts[p] = Placement(p)
               /\ \A y \in Brokers \ c.known :
                     y \notin Latest.known /\ cmd # RegisterBroker(y)
    <3>1. \A y : RegisterBroker(y) = RegisterBroker(x) => y = x
      BY DEF RegisterBroker
    <3> QED BY <2>1, <2>3, <3>1 DEF CalmOK
  <2>4. ASSUME NEW p \in Partitions, cmd = Assign(p, Placement(p))
        PROVE  /\ c.down = {}
               /\ \A q \in DOMAIN c.parts : c.parts[q] = Placement(q)
               /\ \A y \in Brokers \ c.known :
                     y \notin Latest.known /\ cmd # RegisterBroker(y)
    <3>1. \A y : RegisterBroker(y) # cmd
      BY <2>4 DEF RegisterBroker, Assign
    <3>2. \A q \in DOMAIN c.parts : c.parts[q] = Placement(q)
      <4>1. c.parts = [q \in P \cup {p} |-> IF q = p THEN Placement(p) ELSE Latest.parts[q]]
        BY <1>c, <2>2, <2>4 DEF PutPartition
      <4>2. \A q \in P : Latest.parts[q] = Placement(q)
        BY <1>c DEF CalmOK
      <4> QED BY <4>1, <4>2
    <3> QED BY <2>2, <2>4, <3>1, <3>2 DEF CalmOK
  <2> QED BY <1>b, <2>3, <2>4 DEF Registering
<1> HIDE DEF c
<1>3. /\ todo' = [todo EXCEPT ![b] = @ \ {cmd}]
      /\ UNCHANGED <<phase, seen, alive, up, raft>>
      /\ applied' = [applied EXCEPT ![b] = Len(history')]
  BY <1>1 DEF ApplyCommand, Done
<1>4. Latest' = c
  <2>1. history' = IF c = Latest THEN history ELSE Append(history, c)
    BY <1>1 DEF ApplyCommand, Commit, c
  <2>2. history \in Seq(Cluster) /\ Len(history) \in Nat
    BY <1>t DEF TypeOK
  <2>3. CASE c = Latest
    BY <2>1, <2>3 DEF Latest
  <2>4. CASE c # Latest
    <3>1. history' = Append(history, c)
      BY <2>1, <2>4
    <3>2. Len(history') = Len(history) + 1 /\ history'[Len(history) + 1] = c
      BY <2>2, <3>1
    <3> QED BY <3>2 DEF Latest
  <2> QED BY <2>3, <2>4
<1>5. todo'[b] = todo[b] \ {cmd} /\ applied'[b] = Len(history')
  BY <1>t, <1>3 DEF TypeOK
<1>6. OneLoop'
  <2>1. \A q \in Brokers : raft' # q => phase'[q] = "idle" /\ todo'[q] = {}
    BY <1>t, <1>l, <1>3 DEF TypeOK, CalmOK, OneLoop
  <2> QED BY <1>l, <1>3, <1>5, <2>1 DEF OneLoop
<1>7. ASSUME NEW q \in Brokers PROVE (Registering(q) /\ Settled(q))'
  <2>1. CASE q = b
    <3>1. Registering(b)'
      BY <1>b, <1>2, <1>4, <1>5 DEF Registering, Brokers
    <3>2. phase'[b] = "bootstrap"
      BY <1>b, <1>3
    <3> QED BY <2>1, <3>1, <3>2 DEF Settled
  <2>2. CASE q # b
    <3>1. phase'[q] = "idle" /\ todo'[q] = {}
      BY <1>l, <1>3, <1>6, <2>2 DEF OneLoop
    <3> QED BY <3>1 DEF Registering, Settled
  <2> QED BY <2>1, <2>2
<1>8. Brokers' = Brokers /\ \A p : (Placement(p))' = Placement(p)
  BY DEF Brokers, Placement
<1>9. Up' = Up
  BY <1>3 DEF Up
<1> QED BY <1>2, <1>3, <1>4, <1>6, <1>7, <1>8, <1>9 DEF CalmOK

\* The first election, and nothing else of what raft and the processes do.
LEMMA CalmRaft ==
    ASSUME IndInv, CalmOK, Calm', [Next]_vars,
           \/ StepDown \/ LoseLeadership
           \/ \E b \in Brokers : Elect(b) \/ ApplyEntry(b) \/ Crash(b) \/ Restart(b)
    PROVE  CalmOK'
<1>t. TypeOK /\ UNCHANGED <<crashes, losses, misses>>
  BY CalmFrom DEF IndInv
<1>u. \A b \in Brokers : up[b]
  BY DEF CalmOK, Up
<1>1. ~StepDown
  <2>1. Cardinality(Brokers) = N /\ 2 * N > N
    BY NAssumption, FS_Interval DEF Brokers
  <2>2. MajorityUp
    BY <2>1 DEF CalmOK, MajorityUp, Majority
  <2> QED BY <2>2 DEF StepDown
<1>2. ~LoseLeadership
  BY <1>t DEF LoseLeadership, TypeOK
<1>3. ASSUME NEW b \in Brokers PROVE ~Crash(b) /\ ~Restart(b) /\ ~ApplyEntry(b)
  <2>1. ~Crash(b)
    BY <1>t DEF Crash, TypeOK
  <2>2. ~Restart(b)
    BY <1>u DEF Restart
  <2>3. ~ApplyEntry(b)
    <3>1. ASSUME ApplyEntry(b) PROVE applied[b] = Len(history) /\ applied[b] < Len(history)
      BY <3>1, LoopOfLeader DEF ApplyEntry
    <3> QED BY <1>t, <3>1 DEF TypeOK
  <2> QED BY <2>1, <2>2, <2>3
<1>4. PICK b \in Brokers : Elect(b)
  BY <1>1, <1>2, <1>3
<1>5. raft = None /\ Len(history) = 1 /\ b # None
  BY <1>4, NAssumption DEF Elect, CalmOK, OneLoop, Brokers, None
<1>6. raft' = b /\ UNCHANGED <<history, phase, todo, seen, alive, up>>
  BY <1>4 DEF Elect, loopVars
<1>7. applied'[b] = Len(history')
  BY <1>t, <1>4, <1>5, <1>6 DEF Elect, TypeOK
<1>8. OneLoop'
  <2>1. ASSUME NEW q \in Brokers PROVE phase[q] = "idle" /\ todo[q] = {}
    <3>1. raft # q
      BY <1>5, NAssumption DEF Brokers, None
    <3> QED BY <3>1 DEF CalmOK, OneLoop
  <2> QED BY <1>5, <1>6, <1>7, <2>1 DEF OneLoop
<1>9. Up' = Up /\ Latest' = Latest
  BY <1>6 DEF Up, Latest
<1>10. ASSUME NEW q \in Brokers PROVE (Registering(q) /\ Settled(q))'
  <2>1. phase'[q] = "idle" /\ todo'[q] = {}
    <3>1. raft # q
      BY <1>5, NAssumption DEF Brokers, None
    <3> QED BY <1>6, <3>1 DEF CalmOK, OneLoop
  <2> QED BY <2>1 DEF Registering, Settled
<1>11. Brokers' = Brokers /\ \A p : (Placement(p))' = Placement(p)
  BY DEF Brokers, Placement
<1> QED BY <1>6, <1>8, <1>9, <1>10, <1>11 DEF CalmOK

\* As long as no broker crashed, no probe failed and no leadership was lost, the
\* one control loop there is registers all brokers before it probes, and finds
\* them alive: for any number of brokers and partitions and every order of the
\* registrations.
THEOREM CalmInvariance == Spec => []CalmInv
<1>1. Init => CalmInv
  <2> SUFFICES ASSUME Init PROVE CalmOK
    BY DEF CalmInv, CalmOK
  <2>1. Latest = NewCluster
    BY DEF Init, Latest
  <2>2. Latest.down = {} /\ DOMAIN Latest.parts = {}
    BY <2>1 DEF NewCluster
  <2>3. Up = Brokers /\ OneLoop
    BY DEF Init, Up, OneLoop
  <2> QED BY <2>2, <2>3 DEF Init, CalmOK, Registering, Settled, Unprobed
<1>2. IndInv /\ CalmInv /\ [Next]_vars => CalmInv'
  <2> SUFFICES ASSUME IndInv, CalmInv, [Next]_vars, Calm' PROVE CalmOK'
    BY DEF CalmInv, CalmOK
  <2>1. CalmOK
    BY CalmFrom DEF CalmInv, CalmOK
  <2>2. CASE UNCHANGED vars
    BY <2>1, <2>2 DEF vars, raftVars, loopVars, CalmOK, OneLoop, Registering, Settled,
                      Latest, Up, Brokers, Placement
  <2>3. ASSUME NEW b \in Brokers,
               \/ Tick(b) \/ BeginReconcile(b) \/ BeginMarking(b) \/ BeginRepair(b)
               \/ EndTick(b) \/ \E x \in Brokers : Probe(b, x)
        PROVE  CalmOK'
    BY <2>1, <2>3, CalmLoop
  <2>4. ASSUME NEW b \in Brokers, NEW cmd \in todo[b],
               \/ ApplyCommand(b, cmd) \/ ApplyCommandLost(b, cmd)
               \/ ApplyCommandRefused(b, cmd)
        PROVE  CalmOK'
    BY <2>1, <2>4, CalmCommand
  <2>5. ASSUME \/ StepDown \/ LoseLeadership
               \/ \E b \in Brokers : Elect(b) \/ ApplyEntry(b) \/ Crash(b) \/ Restart(b)
        PROVE  CalmOK'
    BY <2>1, <2>5, CalmRaft
  <2> QED BY <2>2, <2>3, <2>4, <2>5 DEF Next
<1> QED BY <1>1, <1>2, Invariance, PTL DEF Spec

\* A partition is never taken from its leader without a cause.
THEOREM NoneNeedless == Spec => []NoNeedlessFailover
<1>1. CalmInv => NoNeedlessFailover
  BY DEF CalmInv, NoNeedlessFailover
<1> QED BY <1>1, CalmInvariance, PTL
=============================================================================
