------------------------------ MODULE MCClient ------------------------------
(* Instances of Client for TLC. *)
EXTENDS Client

CONSTANTS c1, c2    \* the calls

Tries == Call \X (1..Attempts)
SingleCalls == [c \in Call |-> 0]
BatchThenSingle == [c \in Call |-> IF c = c1 THEN MaxBatch ELSE 0]
TwoBrokers == <<2, 1>>

\* ClientNext for behaviours with crashes, or with reassignments, and not both.
MCNext ==
    \/ \E c \in Call : StartCall(c) \/ ClientStep(c) \/ LoseConnection(c)
    \/ \E r \in Request : TakeIn(r) \/ Refuse(r) \/ RunHandler(r)
    \/ \E b \in Brokers : Len(meta) = 1 /\ StopBroker(b)
    \/ RunCluster /\ (crashes > 0 => UNCHANGED meta)

MCSpec == ClientInit /\ [][MCNext]_allVars
MCFairSpec == MCSpec /\ ClientFairness
=============================================================================
