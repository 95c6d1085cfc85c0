------------------------------- MODULE Client -------------------------------
(***************************************************************************)
(* The produce calls of the client library (internal/client/client.go)     *)
(* over the handlers of module Replication.                                *)
(*                                                                         *)
(* A call is one invocation of Client.Produce or Client.ProduceBatch.  It  *)
(* makes up to Attempts attempts; its i-th attempt sends request <<c, i>>, *)
(* on a connection of its own, to the leader that a broker named to it.    *)
(* The client sees answers and errors only: a connection that breaks tells *)
(* it nothing of the request, which may still be taken in, or run, or have *)
(* been answered.                                                          *)
(***************************************************************************)
EXTENDS Replication

CONSTANTS
    Call,           \* the calls that are made
    Attempts,       \* how often a call is tried (8 in the code)
    Batch,          \* Batch[c]: 0 for Produce, else the records of ProduceBatch
    BrokerList,     \* the addresses given to the client, in their order
    MaxLoss         \* bound: connections of a client that break

ASSUME CallAssumption ==
    /\ Attempts \in Nat \ {0} /\ MaxLoss \in Nat
    /\ Request = Call \X (1..Attempts)
    /\ Batch \in [Call -> 0..MaxBatch]
    /\ BrokerList \in Seq(Brokers) /\ Len(BrokerList) > 0

VARIABLES
    stage,          \* stage[c]: where call c stands
    try,            \* try[c]: its attempt
    ask,            \* ask[c]: the place in BrokerList of the broker to ask
    leader,         \* leader[c]: the leader a broker named
    mail,           \* mail[r]: the broker that r was sent to and that has not
                    \*          taken it in yet, or None
    before,         \* before[c]: history: the calls that had succeeded when c began
    losses

clientVars == <<stage, try, ask, leader, mail, before, losses>>
allVars == <<vars, clientVars>>

Waiting == {"asking", "dialing", "calling"}
Ended == {"done", "failed"}

\* The request of the current attempt; once the call is done, the one that
\* was acknowledged.
Current(c) == <<c, try[c]>>

ClientInit ==
    /\ Init
    /\ stage = [c \in Call |-> "new"]
    /\ try = [c \in Call |-> 0]
    /\ ask = [c \in Call |-> 1]
    /\ leader = [c \in Call |-> None]
    /\ mail = [r \in Request |-> None]
    /\ before = [c \in Call |-> {}]
    /\ losses = 0
-----------------------------------------------------------------------------
(***************************************************************************)
(* The client.                                                             *)
(***************************************************************************)
StartCall(c) ==
    /\ stage[c] = "new"
    /\ stage' = [stage EXCEPT ![c] = "asking"]
    /\ try' = [try EXCEPT ![c] = 1]
    /\ before' = [before EXCEPT ![c] = {d \in Call : stage[d] = "done"}]
    /\ UNCHANGED <<vars, ask, leader, mail, losses>>

\* Mutant: one attempt too many.
EndAttemptLate(c) ==
    /\ stage' = [stage EXCEPT ![c] = IF try[c] <= Attempts THEN "asking" ELSE "failed"]
    /\ try' = [try EXCEPT ![c] = IF @ <= Attempts THEN @ + 1 ELSE @]
    /\ ask' = [ask EXCEPT ![c] = 1]

\* Any error ends the attempt; after the last one the call gives up.
EndAttempt(c) ==
    /\ stage' = [stage EXCEPT ![c] = IF try[c] < Attempts THEN "asking" ELSE "failed"]
    /\ try' = [try EXCEPT ![c] = IF @ < Attempts THEN @ + 1 ELSE @]
    /\ ask' = [ask EXCEPT ![c] = 1]

\* "No leader found": b knows no assignment, or one without a leader.
NoLeader(b) == view[b] = 0 \/ meta[view[b]].leader = None

\* Client.Metadata: the first broker of the list that answers is believed,
\* however old what it knows is.
LearnLeader(c) ==
    LET b == BrokerList[ask[c]]
    IN  /\ stage[c] = "asking" /\ up[b]
        /\ IF NoLeader(b)
           THEN EndAttempt(c) /\ UNCHANGED leader
           ELSE /\ stage' = [stage EXCEPT ![c] = "dialing"]
                /\ leader' = [leader EXCEPT ![c] = meta[view[b]].leader]
                /\ UNCHANGED <<try, ask>>
        /\ UNCHANGED <<vars, mail, before, losses>>

\* Mutant: Metadata asks the same broker again.
AskAgain(c) ==
    /\ stage[c] = "asking" /\ ~up[BrokerList[ask[c]]]
    /\ UNCHANGED allVars

\* The next broker of the list is asked, if there is one.
NextOfList(c) ==
    IF ask[c] < Len(BrokerList)
    THEN ask' = [ask EXCEPT ![c] = @ + 1] /\ UNCHANGED <<stage, try>>
    ELSE EndAttempt(c)

AskNext(c) ==
    /\ stage[c] = "asking" /\ ~up[BrokerList[ask[c]]]
    /\ NextOfList(c)
    /\ UNCHANGED <<vars, leader, mail, before, losses>>

\* The leader is dialed and the request is sent.
SendRequest(c) ==
    /\ stage[c] = "dialing" /\ up[leader[c]]
    /\ stage' = [stage EXCEPT ![c] = "calling"]
    /\ mail' = [mail EXCEPT ![Current(c)] = leader[c]]
    /\ UNCHANGED <<vars, try, ask, leader, before, losses>>

DialFails(c) ==
    /\ stage[c] = "dialing" /\ ~up[leader[c]]
    /\ EndAttempt(c)
    /\ UNCHANGED <<vars, leader, mail, before, losses>>

\* Mutant: the error of the handler is not looked at.
ReceiveAnyAnswer(c) ==
    /\ stage[c] = "calling" /\ pc[Current(c)] \in {"ok", "err"}
    /\ stage' = [stage EXCEPT ![c] = "done"]
    /\ UNCHANGED <<vars, try, ask, leader, mail, before, losses>>

ReceiveOffset(c) ==
    /\ stage[c] = "calling" /\ pc[Current(c)] = "ok"
    /\ stage' = [stage EXCEPT ![c] = "done"]
    /\ UNCHANGED <<vars, try, ask, leader, mail, before, losses>>

\* The handler returned an error, refused the request, or its broker stopped.
ReceiveError(c) ==
    LET r == Current(c)
    IN  /\ stage[c] = "calling"
        /\ pc[r] = "err" \/ (pc[r] = "idle" /\ mail[r] = None)
        /\ EndAttempt(c)
        /\ UNCHANGED <<vars, leader, mail, before, losses>>

\* The connection to a broker that is up breaks, or cannot be opened in time.
LoseConnection(c) ==
    /\ stage[c] \in Waiting /\ losses < MaxLoss
    /\ losses' = losses + 1
    /\ IF stage[c] = "asking" THEN NextOfList(c) ELSE EndAttempt(c)
    /\ UNCHANGED <<vars, leader, mail, before>>

-----------------------------------------------------------------------------
(***************************************************************************)
(* The broker the request was sent to takes it in, whether or not the      *)
(* client still waits, or refuses it as it does not lead the partition.    *)
(***************************************************************************)
TakeIn(r) ==
    /\ mail[r] # None
    /\ IF Batch[r[1]] = 0 THEN Produce(r, mail[r])
                          ELSE Begin(r, mail[r], Batch[r[1]], FALSE)
    /\ mail' = [mail EXCEPT ![r] = None]
    /\ UNCHANGED <<stage, try, ask, leader, before, losses>>

Refuse(r) ==
    LET b == mail[r]
    IN  /\ b # None /\ up[b]
        /\ view[b] > 0 => meta[view[b]].leader # b
        /\ mail' = [mail EXCEPT ![r] = None]
        /\ UNCHANGED <<vars, stage, try, ask, leader, before, losses>>

\* What a stopped broker had not taken in is lost.
StopBroker(b) ==
    /\ Crash(b)
    /\ mail' = [r \in Request |-> IF mail[r] = b THEN None ELSE mail[r]]
    /\ UNCHANGED <<stage, try, ask, leader, before, losses>>

RunHandler(r) ==
    /\ \/ HandlerStep(r) \/ CallBreaks(r) \/ WriteFails(r)
       \/ HandleRecord(r) \/ HandleFails(r)
    /\ UNCHANGED clientVars

RunCluster ==
    /\ \/ \E b \in Brokers : Restart(b) \/ ApplyAssignment(b)
       \/ ReassignPartition
    /\ UNCHANGED clientVars

-----------------------------------------------------------------------------
ClientStep(c) ==
    \/ LearnLeader(c) \/ AskNext(c) \/ SendRequest(c) \/ DialFails(c)
    \/ ReceiveOffset(c) \/ ReceiveError(c)

ClientNext ==
    \/ \E c \in Call : StartCall(c) \/ ClientStep(c) \/ LoseConnection(c)
    \/ \E r \in Request : TakeIn(r) \/ Refuse(r) \/ RunHandler(r)
    \/ \E b \in Brokers : StopBroker(b)
    \/ RunCluster

ClientSpec == ClientInit /\ [][ClientNext]_allVars

\* A client goes on, a broker takes in or refuses what it was sent, and a
\* handler that can run does run.
ClientFairness ==
    /\ \A c \in Call : WF_allVars(ClientStep(c))
    /\ \A r \in Request :
          /\ WF_allVars(TakeIn(r) \/ Refuse(r))
          /\ WF_allVars(HandlerStep(r) /\ UNCHANGED clientVars)
          /\ WF_allVars(HandleRecord(r) /\ UNCHANGED clientVars)

ClientFairSpec == ClientSpec /\ ClientFairness
-----------------------------------------------------------------------------
(***************************************************************************)
(* Properties.                                                             *)
(***************************************************************************)
ClientTypeOK ==
    /\ stage \in [Call -> {"new"} \cup Waiting \cup Ended]
    /\ try \in [Call -> 0..Attempts]
    /\ ask \in [Call -> 1..Len(BrokerList)]
    /\ leader \in [Call -> Brokers \cup {None}]
    /\ mail \in [Request -> Brokers \cup {None}]
    /\ before \in [Call -> SUBSET Call]
    /\ losses \in 0..MaxLoss

\* The places in the log of b that hold the i-th record of call c.
Copies(b, c, i) == {j \in 1..Len(log[b]) : log[b][j][1][1] = c /\ log[b][j][2] = i}

\* A retry may put a message into the log again, and no more than that: no log
\* ever holds more copies of it than attempts were made, also when attempts
\* whose connection broke are still running, on other brokers or as the
\* backfill of other requests.
CopiesWithinAttempts ==
    \A b \in Brokers, c \in Call : \A i \in 1..(Batch[c] + 1) :
        Cardinality(Copies(b, c, i)) <= try[c]

\* A call that began after another one had succeeded gets later offsets from
\* the same broker, although earlier attempts of both may still be running and
\* the broker may have stopped in between: what a producer sends one by one
\* stays in its order.
CallsInOrder ==
    \A d \in Call : \A c \in before[d] :
        LET r == Current(c)
            s == Current(d)
        IN  stage[d] = "done" /\ at[r] = at[s] => End(r) <= base[s]

\* Every call comes to an end, with an offset or with an error, also when the
\* leader it was told of stops, is deposed, or no broker answers.
EveryCallReturns == \A c \in Call : stage[c] \in Waiting ~> stage[c] \in Ended
=============================================================================
