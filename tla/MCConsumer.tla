----------------------------- MODULE MCConsumer -----------------------------
(***************************************************************************)
(* An instance of Consumer for TLC.                                        *)
(***************************************************************************)
EXTENDS Consumer

CONSTANTS k1, k2, k3, follower, reader

MCHash == [k \in Key |-> CASE k = k1 -> 7 [] k = k2 -> 4 [] k = k3 -> 5]

\* One consumer follows all partitions; the other reads one message of the
\* first partition and stops.
MCFlag == [x \in Consumers |-> IF x = reader THEN 1 ELSE 0]
MCMax == [x \in Consumers |-> IF x = reader THEN 1 ELSE 0]

\* Handlers of the gateway and consumers share nothing but the logs, and a
\* handler adds to a log what ProducerPublish also does: in a behaviour either
\* handlers run or consumers.
GatewayUsed == parts > 0 \/ \E h \in Handler : stage[h] # "idle"
ConsumersUsed ==
    crashes > 0 \/ file # Unreadable \/ \E x \in Consumers : step[x] # "off"

\* Keys of one partition are alike: k3 is not the first that is sent.
InTurn(k) == k = k3 => messages + faults > 0

Beside(A) == A /\ UNCHANGED consumerVars

MCNext ==
    \/ \E h \in Handler :
          \/ ~ConsumersUsed /\ \E k \in Key : Beside(TakeRequest(h, k))
          \/ Beside(AskPartitions(h)) \/ Beside(StorePartitions(h))
          \/ Beside(HandlePublish(h)) \/ Beside(PublishFails(h)) \/ Beside(EndRequest(h))
    \/ \E k \in Key : InTurn(k) /\ Beside(ProducerPublish(k))
    \/ \E p \in Partitions : Beside(LoseLeader(p)) \/ Beside(GainLeader(p))
    \/ \E x \in Consumers : ~GatewayUsed /\ Start(x)
    \/ \E x \in Consumers : Run(x) \/ FetchBreaks(x) \/ Crash(x)

MCSpec == Init /\ [][MCNext]_vars
MCFairSpec == MCSpec /\ Fairness
=============================================================================
