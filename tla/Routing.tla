------------------------------- MODULE Routing -------------------------------
(***************************************************************************)
(* From a key to a partition: the gateway (cmd/api/main.go) and the        *)
(* producer (cmd/producer/main.go).                                        *)
(*                                                                         *)
(* The partitions of one topic are sequences that only grow: that is what  *)
(* a leader makes of them until it is replaced (module Replication).       *)
(* Behind them the file of the leader may hold what a failed append has    *)
(* left, which readers meet (module Storage says how it comes to be).      *)
(*                                                                         *)
(* A message is represented by its key; messages to be told apart have     *)
(* different keys, of one hash or of several.  That a call of the client   *)
(* library may store a message twice is the matter of module Client.       *)
(***************************************************************************)
EXTENDS Integers, Sequences

CONSTANTS
    NumPartitions,  \* the --partitions flag of the brokers
    Key, Hash,      \* the keys, and fnv32a of each
    Handler,        \* the handlers that the gateway may run at once
    MaxMessages,    \* bound: messages
    MaxOutage,      \* bound: how often a partition is without a leader
    MaxFault        \* bound: WriteAt or Sync calls that fail

ASSUME RoutingAssumption ==
    /\ NumPartitions \in Nat \ {0}
    /\ Hash \in [Key -> Nat]
    /\ MaxMessages \in Nat /\ MaxOutage \in Nat /\ MaxFault \in Nat

VARIABLES
    log,        \* log[p]: the messages of p, by offset
    refused,    \* refused[p]: the whole record that a failed append left behind
                \* the log in the file of the leader, if there is one
    torn,       \* torn[p]: does a part of a record end that file
    spoiled,    \* spoiled[p]: history: the offsets such records had
    led,        \* led[p]: has p a leader that calls reach
    parts,      \* gateway.parts, 0 while it is not set
    stage,      \* stage[h]: where handler h stands
    key,        \* key[h]: the key of its request
    num,        \* num[h]: its number of partitions
    messages, outages, faults

logVars == <<log, refused, torn, spoiled, led, messages, outages, faults>>
gatewayVars == <<parts, stage, key, num>>
routingVars == <<logVars, gatewayVars>>

Partitions == 0..NumPartitions-1
NoKey == <<>>

\* What Metadata may answer: the number of partitions, or 0, from a broker that
\* has not applied an assignment yet.  The gateway takes an error for a 0.
Answers == {0, NumPartitions}

Count(n) == IF n > 0 THEN n ELSE 2

PartitionFor(k, n) == IF n <= 1 THEN 0 ELSE Hash[k] % n

RoutingInit ==
    /\ log = [p \in Partitions |-> <<>>]
    /\ refused = [p \in Partitions |-> <<>>]
    /\ torn = [p \in Partitions |-> FALSE]
    /\ spoiled = [p \in Partitions |-> {}]
    /\ led = [p \in Partitions |-> TRUE]
    /\ parts = 0
    /\ stage = [h \in Handler |-> "idle"]
    /\ key = [h \in Handler |-> NoKey]
    /\ num = [h \in Handler |-> 0]
    /\ messages = 0 /\ outages = 0 /\ faults = 0

-----------------------------------------------------------------------------
(***************************************************************************)
(* The gateway.  numPartitions reads and writes the cache under the lock   *)
(* and asks the brokers in between, without it.                            *)
(***************************************************************************)
TakeRequest(h, k) ==
    /\ stage[h] = "idle"
    /\ key' = [key EXCEPT ![h] = k]
    /\ num' = [num EXCEPT ![h] = parts]
    /\ stage' = [stage EXCEPT ![h] = IF parts > 0 THEN "calling" ELSE "asking"]
    /\ UNCHANGED <<logVars, parts>>

AskPartitions(h) ==
    /\ stage[h] = "asking"
    /\ \E n \in Answers : num' = [num EXCEPT ![h] = Count(n)]
    /\ stage' = [stage EXCEPT ![h] = "storing"]
    /\ UNCHANGED <<logVars, parts, key>>

StorePartitions(h) ==
    /\ stage[h] = "storing"
    /\ parts' = num[h]
    /\ stage' = [stage EXCEPT ![h] = "calling"]
    /\ UNCHANGED <<logVars, key, num>>

\* What is written over the remains of an append may be shorter than they are.
Overwrite(p) ==
    \E t \in {FALSE, torn[p] \/ refused[p] # <<>>} : torn' = [torn EXCEPT ![p] = t]

\* The leader of a partition stores a message; there is no partition beyond
\* the last one.
Store(p, k) ==
    /\ p \in Partitions /\ led[p]
    /\ messages < MaxMessages
    /\ messages' = messages + 1
    /\ log' = [log EXCEPT ![p] = Append(@, k)]
    /\ refused' = [refused EXCEPT ![p] = <<>>]
    /\ Overwrite(p)
    /\ UNCHANGED <<led, spoiled, outages, faults>>

\* It cannot: Sync fails, behind a record that is whole, or WriteAt, in the
\* middle of one.  Either takes the place of what was left before.
StoreFails(p, k) ==
    /\ p \in Partitions /\ led[p]
    /\ faults < MaxFault
    /\ faults' = faults + 1
    /\ \/ /\ refused' = [refused EXCEPT ![p] = <<k>>]
          /\ spoiled' = [spoiled EXCEPT ![p] = @ \cup {Len(log[p])}]
          /\ Overwrite(p)
       \/ /\ refused' = [refused EXCEPT ![p] = <<>>]
          /\ torn' = [torn EXCEPT ![p] = TRUE]
          /\ UNCHANGED spoiled
    /\ UNCHANGED <<log, led, messages, outages>>

Return(h) ==
    /\ stage' = [stage EXCEPT ![h] = "idle"]
    /\ key' = [key EXCEPT ![h] = NoKey]
    /\ num' = [num EXCEPT ![h] = 0]
    /\ UNCHANGED parts

HandlePublish(h) ==
    /\ stage[h] = "calling"
    /\ Store(PartitionFor(key[h], num[h]), key[h])
    /\ Return(h)

\* The client library tries again, or gives up with EndRequest.
PublishFails(h) ==
    /\ stage[h] = "calling"
    /\ StoreFails(PartitionFor(key[h], num[h]), key[h])
    /\ UNCHANGED gatewayVars

\* A /consume has fetched, or a /publish has failed.
EndRequest(h) ==
    /\ stage[h] = "calling"
    /\ Return(h)
    /\ UNCHANGED logVars

\* The producer asks for the number of partitions when it starts; it gives up
\* on an error.
ProducerPublish(k) ==
    /\ \E n \in Answers : LET p == PartitionFor(k, Count(n))
                          IN  Store(p, k) \/ StoreFails(p, k)
    /\ UNCHANGED gatewayVars

-----------------------------------------------------------------------------
\* Calls do not reach the leader of p, or it has stopped.
LoseLeader(p) ==
    /\ led[p] /\ outages < MaxOutage
    /\ led' = [led EXCEPT ![p] = FALSE]
    /\ outages' = outages + 1
    /\ UNCHANGED <<log, refused, torn, spoiled, messages, faults, gatewayVars>>

\* replay, after the process or the machine has stopped: what is whole is taken
\* for written, unless the machine lost it, and the rest is cut off.
Replay(p) ==
    /\ \E found \in {<<>>, refused[p]} : log' = [log EXCEPT ![p] = @ \o found]
    /\ refused' = [refused EXCEPT ![p] = <<>>]
    /\ torn' = [torn EXCEPT ![p] = FALSE]

GainLeader(p) ==
    /\ ~led[p]
    /\ led' = [led EXCEPT ![p] = TRUE]
    /\ Replay(p) \/ UNCHANGED <<log, refused, torn>>
    /\ UNCHANGED <<spoiled, messages, outages, faults, gatewayVars>>

RoutingNext ==
    \/ \E h \in Handler :
          \/ \E k \in Key : TakeRequest(h, k)
          \/ AskPartitions(h) \/ StorePartitions(h)
          \/ HandlePublish(h) \/ PublishFails(h) \/ EndRequest(h)
    \/ \E k \in Key : ProducerPublish(k)
    \/ \E p \in Partitions : LoseLeader(p) \/ GainLeader(p)

RoutingSpec == RoutingInit /\ [][RoutingNext]_routingVars
-----------------------------------------------------------------------------
(***************************************************************************)
(* Properties.                                                             *)
(***************************************************************************)
\* No two messages of a key are in different partitions (report.md, on
\* partitions: "Each message goes to a partition based on its key"), whatever
\* those who sent them were told of the number of partitions, and when.
KeyInOnePartition ==
    \A p, q \in Partitions :
        (\E i \in DOMAIN log[p], j \in DOMAIN log[q] : log[p][i] = log[q][j]) => p = q
=============================================================================
