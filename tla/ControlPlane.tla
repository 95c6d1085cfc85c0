---------------------------- MODULE ControlPlane ----------------------------
(***************************************************************************)
(* The control plane: the control loop that every broker runs              *)
(* (internal/broker/controller.go), which bootstraps the metadata and      *)
(* repairs the assignments while its broker leads raft, and the metadata   *)
(* state machine of every broker (internal/raftfsm/fsm.go).                *)
(*                                                                         *)
(* Raft itself is a library.  It is modelled from how the code uses it:    *)
(* one sequence of committed commands, of which the state machine of each  *)
(* broker has applied a prefix; at most one broker that can commit; a      *)
(* proposal that is committed, refused, or committed although the broker   *)
(* that proposed it lost the leadership before it learned so.  A state     *)
(* machine is a function of the commands it has applied, so the sequence   *)
(* of the metadata they lead to stands for the log.                        *)
(***************************************************************************)
EXTENDS Metadata, Sequences

CONSTANTS
    MaxCrash,       \* bound: broker crashes
    MaxLoss,        \* bound: leaderships that raft loses without a crash
    MaxMiss         \* bound: probes that fail although the broker is up

ASSUME BoundAssumption == MaxCrash \in Nat /\ MaxLoss \in Nat /\ MaxMiss \in Nat

VARIABLES
    history,    \* the metadata raft has agreed on, in order: the initial one, and
                \* what each committed command that changes it makes of it
    applied,    \* applied[b]: the FSM of b stands at history[applied[b]]
    up,         \* up[b]: is b's process running
    raft,       \* the raft leader, or None
    phase,      \* phase[b]: where the control loop of b stands
    todo,       \* todo[b]: the commands it still has to propose in this phase
    seen,       \* seen[b]: applied[b] at the first read of reconcile
    alive,      \* alive[b]: the map "alive" of reconcile
    crashes, losses, misses

raftVars == <<history, applied, raft>>
loopVars == <<phase, todo, seen, alive>>
vars == <<raftVars, loopVars, up, crashes, losses, misses>>

Up == {b \in Brokers : up[b]}
Majority == {S \in SUBSET Brokers : 2 * Cardinality(S) > N}
MajorityUp == Up \in Majority

\* fsm.Cluster() on b, and the latest metadata there is.
ClusterOf(b) == history[applied[b]]
Latest == history[Len(history)]

Unprobed == [x \in {} |-> TRUE]
AliveSet(b) == {x \in DOMAIN alive[b] : alive[b][x]}

Init ==
    /\ history = <<NewCluster>>
    /\ applied = [b \in Brokers |-> 1]
    /\ up = [b \in Brokers |-> TRUE]
    /\ raft = None
    /\ phase = [b \in Brokers |-> "idle"]
    /\ todo = [b \in Brokers |-> {}]
    /\ seen = [b \in Brokers |-> 1]
    /\ alive = [b \in Brokers |-> Unprobed]
    /\ crashes = 0 /\ losses = 0 /\ misses = 0

-----------------------------------------------------------------------------
(***************************************************************************)
(* The control loop.                                                       *)
(***************************************************************************)

\* Mutant: one missing broker is registered per tick.
BootstrapOneBroker(c) ==
    {RegisterBroker(b) : b \in {x \in Brokers \ c.known :
                                    \A y \in Brokers \ c.known : x <= y}}
        \cup {Assign(p, Placement(p)) : p \in Partitions \ DOMAIN c.parts}

\* The brokers and the partitions that ensureBootstrap misses in c.  There are
\* none exactly when its early return is taken.
BootstrapCommands(c) ==
    {RegisterBroker(b) : b \in Brokers \ c.known}
        \cup {Assign(p, Placement(p)) : p \in Partitions \ DOMAIN c.parts}

\* Mutant: a broker that is back is not marked up.
MarkDownCommands(c, live) == {MarkDown(b) : b \in (c.known \ live) \ c.down}

MarkCommands(c, live) ==
    {MarkDown(b) : b \in (c.known \ live) \ c.down}
        \cup {MarkUp(b) : b \in c.known \cap live \cap c.down}

RepairCommands(c, live) ==
    LET New(p) == Repair(c.parts[p], AliveBrokerIDs(c), live)
    IN  {Reassign(p, New(p)) : p \in {q \in DOMAIN c.parts : New(q) # c.parts[q]}}

Assigning == {"assign", "reassign_leader"}

\* The registrations and the marks follow the order of a Go map, which is any;
\* the partitions follow their numbers, after the registrations.
Before(x, y) ==
    /\ y.type \in Assigning
    /\ x.type \in Assigning => x.partition < y.partition

NextCommands(b) == {x \in todo[b] : \A y \in todo[b] : ~Before(y, x)}

\* A tick of the loop on the raft leader: ensureBootstrap reads the metadata.
Tick(b) ==
    /\ up[b] /\ raft = b /\ phase[b] = "idle"
    /\ phase' = [phase EXCEPT ![b] = "bootstrap"]
    /\ todo' = [todo EXCEPT ![b] = BootstrapCommands(ClusterOf(b))]
    /\ UNCHANGED <<raftVars, seen, alive, up, crashes, losses, misses>>

\* reconcile reads the metadata, whether or not the proposals of
\* ensureBootstrap succeeded and b still leads.
BeginReconcile(b) ==
    /\ up[b] /\ phase[b] = "bootstrap" /\ todo[b] = {}
    /\ phase' = [phase EXCEPT ![b] = "probe"]
    /\ seen' = [seen EXCEPT ![b] = applied[b]]
    /\ UNCHANGED <<raftVars, todo, alive, up, crashes, losses, misses>>

\* isAlive: a dial to the broker that succeeds or times out; no dial to b
\* itself.
Probe(b, x) ==
    /\ up[b] /\ phase[b] = "probe"
    /\ x \in history[seen[b]].known \ DOMAIN alive[b]
    /\ \E answer \in BOOLEAN :
          /\ answer => up[x]
          /\ ~answer => x # b
          /\ IF up[x] /\ ~answer
             THEN misses < MaxMiss /\ misses' = misses + 1
             ELSE UNCHANGED misses
          /\ alive' = [alive EXCEPT ![b] =
                [y \in DOMAIN @ \cup {x} |-> IF y = x THEN answer ELSE @[y]]]
    /\ UNCHANGED <<raftVars, phase, todo, seen, up, crashes, losses>>

\* The marks compare the probes with the metadata read before them.
BeginMarking(b) ==
    /\ up[b] /\ phase[b] = "probe"
    /\ DOMAIN alive[b] = history[seen[b]].known
    /\ phase' = [phase EXCEPT ![b] = "mark"]
    /\ todo' = [todo EXCEPT ![b] = MarkCommands(history[seen[b]], AliveSet(b))]
    /\ seen' = [seen EXCEPT ![b] = 1]
    /\ UNCHANGED <<raftVars, alive, up, crashes, losses, misses>>

\* The repairs take the metadata as it is now and the probes as they were.
BeginRepair(b) ==
    /\ up[b] /\ phase[b] = "mark" /\ todo[b] = {}
    /\ phase' = [phase EXCEPT ![b] = "repair"]
    /\ todo' = [todo EXCEPT ![b] = RepairCommands(ClusterOf(b), AliveSet(b))]
    /\ alive' = [alive EXCEPT ![b] = Unprobed]
    /\ UNCHANGED <<raftVars, seen, up, crashes, losses, misses>>

EndTick(b) ==
    /\ up[b] /\ phase[b] = "repair" /\ todo[b] = {}
    /\ phase' = [phase EXCEPT ![b] = "idle"]
    /\ UNCHANGED <<raftVars, todo, seen, alive, up, crashes, losses, misses>>

-----------------------------------------------------------------------------
(***************************************************************************)
(* applyCommand.  Its error is ignored by every caller, so a command that  *)
(* is not committed is a command done.                                     *)
(***************************************************************************)
Commit(cmd) ==
    LET c == Apply(Latest, cmd)
    IN  history' = IF c = Latest THEN history ELSE Append(history, c)

Done(b, cmd) ==
    /\ todo' = [todo EXCEPT ![b] = @ \ {cmd}]
    /\ UNCHANGED <<phase, seen, alive, up, crashes, misses>>

\* raft.Apply returns when the FSM of the leader has applied the command, and
\* with it every earlier one.
ApplyCommand(b, cmd) ==
    /\ up[b] /\ raft = b /\ MajorityUp
    /\ cmd \in NextCommands(b)
    /\ Commit(cmd)
    /\ applied' = [applied EXCEPT ![b] = Len(history')]
    /\ Done(b, cmd)
    /\ UNCHANGED <<raft, losses>>

\* b loses the leadership while it waits; the command may survive in the logs
\* of the others and be committed by the next leader.
ApplyCommandLost(b, cmd) ==
    /\ up[b] /\ raft = b /\ MajorityUp /\ losses < MaxLoss
    /\ cmd \in NextCommands(b)
    /\ raft' = None
    /\ losses' = losses + 1
    /\ Commit(cmd)
    /\ Done(b, cmd)
    /\ UNCHANGED applied

\* Mutant: the state machine takes the command although raft refused it.
ApplyCommandAnyway(b, cmd) ==
    /\ up[b] /\ raft # b
    /\ cmd \in NextCommands(b)
    /\ applied' = [applied EXCEPT ![b] = @ + 1]
    /\ Done(b, cmd)
    /\ UNCHANGED <<history, raft, losses>>

\* "node is not the leader", or the leadership was lost while it waited.
ApplyCommandRefused(b, cmd) ==
    /\ up[b] /\ raft # b
    /\ cmd \in NextCommands(b)
    /\ Done(b, cmd)
    /\ UNCHANGED <<raftVars, losses>>

-----------------------------------------------------------------------------
(***************************************************************************)
(* Raft and the processes.                                                 *)
(***************************************************************************)

\* A broker whose log has every committed command is elected; its state
\* machine may have applied any part of them by then, besides what it had
\* applied before.
Elect(b) ==
    /\ raft = None /\ up[b] /\ MajorityUp
    /\ raft' = b
    /\ \E k \in applied[b]..Len(history) : applied' = [applied EXCEPT ![b] = k]
    /\ UNCHANGED <<history, loopVars, up, crashes, losses, misses>>

\* The leader cannot reach a majority and steps down.
StepDown ==
    /\ raft # None /\ ~MajorityUp
    /\ raft' = None
    /\ UNCHANGED <<history, applied, loopVars, up, crashes, losses, misses>>

\* The leader is deposed although a majority is up: heartbeats are late.
LoseLeadership ==
    /\ raft # None /\ losses < MaxLoss
    /\ losses' = losses + 1
    /\ raft' = None
    /\ UNCHANGED <<history, applied, loopVars, up, crashes, misses>>

\* FSM.Apply, called by raft for the next committed command.  While nothing in
\* this module reads the state machine of b, how far it has got is left to
\* Elect.
ApplyEntry(b) ==
    /\ up[b] /\ applied[b] < Len(history)
    /\ raft = b \/ phase[b] # "idle"
    /\ applied' = [applied EXCEPT ![b] = @ + 1]
    /\ UNCHANGED <<history, raft, loopVars, up, crashes, losses, misses>>

\* The state machine and the loop are memory.  A restarted broker applies the
\* commands from the first, or from the last snapshot that Persist wrote, which
\* comes to having applied more of them by the next Elect.
Crash(b) ==
    /\ up[b] /\ crashes < MaxCrash
    /\ crashes' = crashes + 1
    /\ up' = [up EXCEPT ![b] = FALSE]
    /\ raft' = IF raft = b THEN None ELSE raft
    /\ applied' = [applied EXCEPT ![b] = 1]
    /\ phase' = [phase EXCEPT ![b] = "idle"]
    /\ todo' = [todo EXCEPT ![b] = {}]
    /\ seen' = [seen EXCEPT ![b] = 1]
    /\ alive' = [alive EXCEPT ![b] = Unprobed]
    /\ UNCHANGED <<history, losses, misses>>

Restart(b) ==
    /\ ~up[b]
    /\ up' = [up EXCEPT ![b] = TRUE]
    /\ UNCHANGED <<raftVars, loopVars, crashes, losses, misses>>

-----------------------------------------------------------------------------
LoopStep(b) ==
    \/ Tick(b) \/ BeginReconcile(b) \/ BeginMarking(b) \/ BeginRepair(b) \/ EndTick(b)
    \/ \E x \in Brokers : Probe(b, x)
    \/ \E cmd \in todo[b] : ApplyCommand(b, cmd) \/ ApplyCommandRefused(b, cmd)

Next ==
    \/ \E b \in Brokers :
          \/ Tick(b) \/ BeginReconcile(b) \/ BeginMarking(b) \/ BeginRepair(b) \/ EndTick(b)
          \/ \E x \in Brokers : Probe(b, x)
          \/ \E cmd \in todo[b] : \/ ApplyCommand(b, cmd)
                                  \/ ApplyCommandLost(b, cmd)
                                  \/ ApplyCommandRefused(b, cmd)
          \/ Elect(b) \/ ApplyEntry(b) \/ Crash(b) \/ Restart(b)
    \/ StepDown \/ LoseLeadership

Spec == Init /\ [][Next]_vars

\* The loop of a running broker goes on; raft elects a leader whenever a
\* majority is up, deposes one that has lost its majority, and delivers what is
\* committed.  A broker that crashed may stay down.
Fairness ==
    /\ WF_vars(\E b \in Brokers : Elect(b))
    /\ WF_vars(StepDown)
    /\ \A b \in Brokers : WF_vars(LoopStep(b)) /\ WF_vars(ApplyEntry(b))

FairSpec == Spec /\ Fairness
-----------------------------------------------------------------------------
(***************************************************************************)
(* Properties.                                                             *)
(***************************************************************************)
Command ==
    {RegisterBroker(b) : b \in Brokers}
        \cup {Assign(p, a) : p \in Partitions, a \in Assignment}
        \cup {MarkDown(b) : b \in Brokers}
        \cup {MarkUp(b) : b \in Brokers}
        \cup {Reassign(p, a) : p \in Partitions, a \in Assignment}

\* The variables keep their types; no state machine is ahead of what is
\* committed, and a raft leader runs.
TypeOK ==
    /\ history \in Seq(Cluster) /\ Len(history) > 0
    /\ applied \in [Brokers -> 1..Len(history)]
    /\ up \in [Brokers -> BOOLEAN]
    /\ raft \in Up \cup {None}
    /\ phase \in [Brokers -> {"idle", "bootstrap", "probe", "mark", "repair"}]
    /\ todo \in [Brokers -> SUBSET Command]
    /\ seen \in [Brokers -> 1..Len(history)]
    /\ alive \in [Brokers -> UNION {[S -> BOOLEAN] : S \in SUBSET Brokers}]
    /\ crashes \in Nat /\ losses \in Nat /\ misses \in Nat

Distinct(asg) ==
    N > 1 => asg.leader # None /\ asg.leader # asg.follower

\* With two brokers or more, every partition of every metadata that raft ever
\* agrees on has a leader, and a follower that is another broker: stale probes,
\* stale metadata and proposals that outlive their leader included.
ReplicasDistinct ==
    \A k \in 1..Len(history) :
        \A p \in DOMAIN history[k].parts : Distinct(history[k].parts[p])

CommandsDistinct ==
    \A b \in Brokers : \A cmd \in todo[b] :
        cmd.type \in Assigning => Distinct(cmd.asg)

\* ReplicasDistinct is inductive together with the same of every command that a
\* control loop has computed and not proposed yet, whatever became of the
\* metadata and of the broker's leadership since.
IndInv == TypeOK /\ CommandsDistinct /\ ReplicasDistinct

\* Every partition is assigned, to a leader that runs.
Led ==
    \A p \in Partitions :
        p \in DOMAIN Latest.parts /\ up[Latest.parts[p].leader]

\* Failover comes to an end: when a majority stays up, every partition is
\* eventually led by a running broker for good, whatever crashes, lost
\* leaderships and failed probes came before, and wherever they cut the
\* control loop (the loop of controlLoop, ensureBootstrap and reconcile).
EveryPartitionLed == <>[]MajorityUp => <>[]Led

\* The marks settle on the truth: a broker is marked down for good exactly if
\* it stays down, also when its registration, its mark or the metadata they
\* were computed from was overtaken.
DownSettles == <>[]MajorityUp => <>[](Latest.down = Latest.known \ Up)

Calm == crashes = 0 /\ misses = 0 /\ losses = 0

\* A partition is taken from its leader only for a cause: as long as no broker
\* crashed, no probe failed and no leadership was lost, each stays where the
\* placement put it, in whatever order the bootstrap registered the brokers and
\* however far the state machine of the broker that runs it has got.
NoNeedlessFailover ==
    Calm => \A p \in DOMAIN Latest.parts : Latest.parts[p] = Placement(p)

(***************************************************************************)
(* What NoNeedlessFailover rests on, in each phase of the one control loop *)
(* that has a raft leader.                                                 *)
(***************************************************************************)
\* Nobody but the raft leader has begun a tick, and its state machine has all
\* that is committed; before the first election nothing is.
OneLoop ==
    /\ \A b \in Brokers : raft # b => phase[b] = "idle" /\ todo[b] = {}
    /\ IF raft = None THEN Len(history) = 1 ELSE applied[raft] = Len(history)

\* The bootstrap will have registered every broker when it is over.
Registering(b) ==
    phase[b] = "bootstrap" =>
        /\ todo[b] \subseteq {RegisterBroker(x) : x \in Brokers}
                              \cup {Assign(p, Placement(p)) : p \in Partitions}
        /\ \A x \in Brokers \ Latest.known : RegisterBroker(x) \in todo[b]

\* From then on there is nothing to mark and nothing to repair.
Settled(b) ==
    /\ phase[b] # "bootstrap" => todo[b] = {}
    /\ phase[b] \in {"probe", "mark"} => Latest.known = Brokers
    /\ phase[b] = "probe" => seen[b] = Len(history)
    /\ phase[b] = "mark" => DOMAIN alive[b] = Brokers

\* Without a crash, a failed probe and a lost leadership the loop sees every
\* broker alive before it marks and repairs: inductive together with IndInv.
CalmInv ==
    Calm =>
        /\ Up = Brokers
        /\ OneLoop
        /\ Latest.down = {}
        /\ \A b \in Brokers :
              /\ Registering(b) /\ Settled(b)
              /\ \A x \in DOMAIN alive[b] : alive[b][x]
        /\ \A p \in DOMAIN Latest.parts : Latest.parts[p] = Placement(p)

\* controller.go:35, of ensureBootstrap: "register the brokers and assign the
\* partitions once".  A second assignment that repeats the first is let pass;
\* one that puts the partition back where it was before a repair is not.
AssignedOnce ==
    [][\A b \in Brokers : \A cmd \in todo[b] :
          ApplyCommand(b, cmd) /\ cmd.type = "assign"
                /\ cmd.partition \in DOMAIN Latest.parts
              => Latest.parts[cmd.partition] = cmd.asg]_vars

\* report.md, "Data Plane": "each one is replicated on 2 brokers (1 leader + 1
\* follower)": when every broker stays up, every partition eventually has a
\* follower for good.
FollowerRestored ==
    <>[](Up = Brokers) =>
        <>[](\A p \in DOMAIN Latest.parts : Latest.parts[p].follower # None)
=============================================================================
