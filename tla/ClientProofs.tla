---------------------------- MODULE ClientProofs ----------------------------
(***************************************************************************)
(* What retries do to a log, for any calls, numbers of attempts, brokers   *)
(* and bounds: the client drives the handlers as module Replication lets   *)
(* them be driven, a message is in a log no more often than it was tried,  *)
(* and calls that follow one another are acknowledged in that order.       *)
(***************************************************************************)
EXTENDS Client, FirstLeaderProofs, FunctionTheorems, FiniteSetTheorems

\* The request has offsets that it may still write, or has acknowledged.
Reserved(s) == pc[s] \in Held \/ Acked(s)

\* The requests of attempts that have not begun have not been sent.
Unsent ==
    \A c \in Call : \A k \in 1..Attempts :
        k > try[c] => pc[<<c, k>>] = "idle" /\ mail[<<c, k>>] = None

CallOf ==
    \A c \in Call :
        /\ stage[c] = "new" => try[c] = 0 /\ before[c] = {}
        /\ stage[c] # "new" => try[c] \in 1..Attempts
        /\ stage[c] = "done" => Acked(Current(c))

\* Whatever request of a call has offsets reserved has them above those that
\* the same broker acknowledged to the calls before.
ReservedInOrder ==
    \A d \in Call : \A c \in before[d] :
        /\ stage[c] = "done"
        /\ \A k \in 1..Attempts :
              Reserved(<<d, k>>) /\ at[Current(c)] = at[<<d, k>>]
                  => End(Current(c)) <= base[<<d, k>>]

ClientInv == IndInv /\ ClientTypeOK /\ Unsent /\ CallOf /\ ReservedInOrder
-----------------------------------------------------------------------------
(***************************************************************************)
(* The client drives the handlers of module Replication                    *)
(***************************************************************************)

\* A request is an attempt of a call.
LEMMA RequestOf ==
    /\ \A c \in Call : \A k \in 1..Attempts : <<c, k>> \in Request
    /\ \A r \in Request : r[1] \in Call /\ r[2] \in 1..Attempts /\ r = <<r[1], r[2]>>
  BY CallAssumption

\* A request that a broker takes in is one of Produce, or of ProduceBatch with
\* the records of its call.
LEMMA TakeInBegins ==
    ASSUME ClientTypeOK, NEW r \in Request, TakeIn(r)
    PROVE  /\ mail[r] \in Brokers
           /\ Produce(r, mail[r]) \/ ProduceBatch(r, mail[r])
<1>1. mail[r] \in Brokers
  BY DEF ClientTypeOK, TakeIn
<1>2. CASE Batch[r[1]] = 0
  BY <1>1, <1>2 DEF TakeIn
<1>3. CASE Batch[r[1]] # 0
  <2>1. Batch[r[1]] \in 1..MaxBatch
    BY <1>3, CallAssumption, BoundAssumption, RequestOf
  <2>2. Begin(r, mail[r], Batch[r[1]], FALSE)
    BY <1>3 DEF TakeIn
  <2> QED BY <1>1, <2>1, <2>2 DEF ProduceBatch
<1> QED BY <1>2, <1>3

\* Every step of the client, the brokers and the network is one of the
\* handlers', or leaves them alone.
LEMMA ClientSimulates ==
    ASSUME ClientTypeOK, [ClientNext]_allVars
    PROVE  [Next]_vars
<1>1. CASE UNCHANGED allVars
  BY <1>1 DEF allVars
<1>2. ASSUME NEW c \in Call, StartCall(c) \/ ClientStep(c) \/ LoseConnection(c)
      PROVE  UNCHANGED vars
  BY <1>2 DEF StartCall, ClientStep, LearnLeader, AskNext, SendRequest, DialFails,
              ReceiveOffset, ReceiveError, LoseConnection
<1>3. ASSUME NEW r \in Request, TakeIn(r) PROVE Next
  BY <1>3, TakeInBegins, Zenon DEF Next
<1>4. ASSUME NEW r \in Request, Refuse(r) PROVE UNCHANGED vars
  BY <1>4 DEF Refuse
<1>5. ASSUME NEW r \in Request, RunHandler(r) PROVE Next
  BY <1>5, Zenon DEF RunHandler, HandlerStep, Next
<1>6. ASSUME NEW b \in Brokers, StopBroker(b) PROVE Next
  BY <1>6, Zenon DEF StopBroker, Next
<1>7. CASE RunCluster
  BY <1>7, Zenon DEF RunCluster, Next
<1> QED BY <1>1, <1>2, <1>3, <1>4, <1>5, <1>6, <1>7 DEF ClientNext

\* The call ends its attempt: it begins the next one, or has failed.
LEMMA AttemptEnds ==
    ASSUME ClientTypeOK, NEW c \in Call, EndAttempt(c), try[c] \in 1..Attempts
    PROVE  /\ stage' \in [Call -> {"new"} \cup Waiting \cup Ended]
           /\ try' \in [Call -> 0..Attempts]
           /\ ask' \in [Call -> 1..Len(BrokerList)]
           /\ stage'[c] \in {"asking", "failed"}
           /\ try'[c] \in 1..Attempts /\ try'[c] >= try[c]
           /\ \A d \in Call \ {c} : UNCHANGED <<stage[d], try[d]>>
  BY CallAssumption DEF ClientTypeOK, EndAttempt, Waiting, Ended

\* A broker of the list answers no more than a broker, or nothing, as leader.
LEMMA LeaderKnown ==
    ASSUME TypeOK, NEW b \in Brokers, view[b] # 0
    PROVE  meta[view[b]].leader \in Brokers \cup {None}
<1>1. view[b] \in 1..Len(meta) /\ meta \in Seq(Assignment)
  BY DEF TypeOK
<1>2. meta[view[b]] \in Assignment
  BY <1>1
<1> QED BY <1>2 DEF Assignment

\* The next broker is asked, or the attempt ends.
LEMMA ListGoesOn ==
    ASSUME ClientTypeOK, NEW c \in Call, NextOfList(c), stage[c] = "asking",
           try[c] \in 1..Attempts
    PROVE  /\ stage' \in [Call -> {"new"} \cup Waiting \cup Ended]
           /\ try' \in [Call -> 0..Attempts]
           /\ ask' \in [Call -> 1..Len(BrokerList)]
           /\ stage'[c] \in {"asking", "failed"}
           /\ try'[c] \in 1..Attempts /\ try'[c] >= try[c]
           /\ \A d \in Call \ {c} : UNCHANGED <<stage[d], try[d]>>
<1>1. CASE ask[c] < Len(BrokerList)
  <2>1. ask' = [ask EXCEPT ![c] = @ + 1] /\ UNCHANGED <<stage, try>>
    BY <1>1 DEF NextOfList
  <2>2. ask[c] \in 1..Len(BrokerList) /\ Len(BrokerList) \in Nat
    BY CallAssumption DEF ClientTypeOK
  <2>3. ask[c] + 1 \in 1..Len(BrokerList)
    BY <1>1, <2>2
  <2> QED BY <2>1, <2>3, CallAssumption DEF ClientTypeOK
<1>2. CASE ~(ask[c] < Len(BrokerList))
  BY <1>2, AttemptEnds DEF NextOfList
<1> QED BY <1>1, <1>2

\* What a step of the client does to its call: nothing to the others, it goes
\* forward, and it is done only by an answer to its current request.
LEMMA CallMoves ==
    ASSUME IndInv, ClientTypeOK, CallOf, NEW c \in Call,
           ClientStep(c) \/ LoseConnection(c)
    PROVE  /\ ClientTypeOK'
           /\ UNCHANGED <<vars, before>>
           /\ \A d \in Call \ {c} : UNCHANGED <<stage[d], try[d]>>
           /\ stage[c] \in Waiting /\ stage'[c] \in Waiting \cup Ended
           /\ try[c] \in 1..Attempts /\ try'[c] \in 1..Attempts /\ try'[c] >= try[c]
           /\ stage'[c] = "done" => try'[c] = try[c] /\ Acked(Current(c))
           /\ \A r \in Request \ {Current(c)} : UNCHANGED mail[r]
<1> USE DEF Waiting, Ended
<1>t. /\ stage \in [Call -> {"new"} \cup Waiting \cup Ended]
      /\ try \in [Call -> 0..Attempts] /\ ask \in [Call -> 1..Len(BrokerList)]
      /\ leader \in [Call -> Brokers \cup {None}]
      /\ mail \in [Request -> Brokers \cup {None}]
  BY DEF ClientTypeOK
<1>w. stage[c] \in Waiting /\ UNCHANGED <<vars, before>>
  BY DEF ClientStep, LearnLeader, AskNext, SendRequest, DialFails, ReceiveOffset,
         ReceiveError, LoseConnection
<1>y. try[c] \in 1..Attempts
  BY <1>w DEF CallOf
<1>1. CASE LearnLeader(c)
  <2> DEFINE b == BrokerList[ask[c]]
  <2>1. b \in Brokers
    <3>1. ask[c] \in 1..Len(BrokerList)
      BY <1>t
    <3> QED BY <3>1, CallAssumption
  <2>2. CASE NoLeader(b)
    <3>1. EndAttempt(c) /\ UNCHANGED <<leader, mail, losses>>
      BY <1>1, <2>2 DEF LearnLeader
    <3> QED BY <1>w, <1>y, <3>1, AttemptEnds DEF ClientTypeOK
  <2>3. CASE ~NoLeader(b)
    <3>1. /\ stage' = [stage EXCEPT ![c] = "dialing"]
          /\ leader' = [leader EXCEPT ![c] = meta[view[b]].leader]
          /\ UNCHANGED <<try, ask, mail, losses>>
      BY <1>1, <2>3 DEF LearnLeader
    <3>2. meta[view[b]].leader \in Brokers \cup {None}
      BY <2>1, <2>3, LeaderKnown DEF IndInv, NoLeader
    <3> QED BY <1>t, <1>w, <1>y, <3>1, <3>2 DEF ClientTypeOK
  <2> QED BY <2>2, <2>3
<1>2. CASE AskNext(c)
  <2>1. stage[c] = "asking" /\ NextOfList(c) /\ UNCHANGED <<leader, mail, losses>>
    BY <1>2 DEF AskNext
  <2> QED BY <1>w, <1>y, <2>1, ListGoesOn DEF ClientTypeOK
<1>3. CASE SendRequest(c)
  <2>1. /\ stage' = [stage EXCEPT ![c] = "calling"]
        /\ mail' = [mail EXCEPT ![Current(c)] = leader[c]]
        /\ UNCHANGED <<try, ask, leader, losses>>
    BY <1>3 DEF SendRequest
  <2>2. /\ mail' \in [Request -> Brokers \cup {None}]
        /\ \A r \in Request \ {Current(c)} : UNCHANGED mail[r]
    BY <1>t, <2>1
  <2>3. /\ stage' \in [Call -> {"new"} \cup Waiting \cup Ended]
        /\ stage'[c] = "calling"
        /\ \A d \in Call \ {c} : UNCHANGED stage[d]
    BY <1>t, <2>1
  <2> QED BY <1>w, <1>y, <2>1, <2>2, <2>3 DEF ClientTypeOK
<1>4. CASE DialFails(c) \/ ReceiveError(c)
  <2>1. EndAttempt(c) /\ UNCHANGED <<leader, mail, losses>>
    BY <1>4 DEF DialFails, ReceiveError
  <2> QED BY <1>w, <1>y, <2>1, AttemptEnds DEF ClientTypeOK
<1>5. CASE ReceiveOffset(c)
  <2>1. /\ stage' = [stage EXCEPT ![c] = "done"] /\ pc[Current(c)] = "ok"
        /\ UNCHANGED <<try, ask, leader, mail, losses>>
    BY <1>5 DEF ReceiveOffset
  <2> QED BY <1>t, <1>w, <1>y, <2>1 DEF ClientTypeOK, Acked
<1>6. CASE LoseConnection(c)
  <2>1. UNCHANGED <<leader, mail>> /\ losses' \in 0..MaxLoss
    BY <1>6, CallAssumption DEF LoseConnection, ClientTypeOK
  <2>2. CASE stage[c] = "asking"
    <3>1. NextOfList(c)
      BY <1>6, <2>2 DEF LoseConnection
    <3> QED BY <1>w, <1>y, <2>1, <2>2, <3>1, ListGoesOn DEF ClientTypeOK
  <2>3. CASE stage[c] # "asking"
    <3>1. EndAttempt(c)
      BY <1>6, <2>3 DEF LoseConnection
    <3> QED BY <1>w, <1>y, <2>1, <3>1, AttemptEnds DEF ClientTypeOK
  <2> QED BY <2>2, <2>3
<1> QED BY <1>1, <1>2, <1>3, <1>4, <1>5, <1>6 DEF ClientStep

\* What starting a call does to it.
LEMMA CallStarts ==
    ASSUME ClientTypeOK, CallOf, NEW c \in Call, StartCall(c)
    PROVE  /\ ClientTypeOK'
           /\ UNCHANGED <<vars, mail>>
           /\ stage[c] = "new" /\ stage'[c] = "asking" /\ try[c] = 0 /\ try'[c] = 1
           /\ before'[c] = {d \in Call : stage[d] = "done"}
           /\ \A d \in Call \ {c} : UNCHANGED <<stage[d], try[d], before[d]>>
<1>1. /\ stage[c] = "new"
      /\ stage' = [stage EXCEPT ![c] = "asking"]
      /\ try' = [try EXCEPT ![c] = 1]
      /\ before' = [before EXCEPT ![c] = {d \in Call : stage[d] = "done"}]
      /\ UNCHANGED <<vars, ask, leader, mail, losses>>
  BY DEF StartCall
<1>2. try[c] = 0
  BY <1>1 DEF CallOf
<1>3. 1 \in 0..Attempts
  BY CallAssumption
<1> QED BY <1>1, <1>2, <1>3 DEF ClientTypeOK, Waiting

\* What the brokers and the network do to the calls: nothing.
LEMMA BrokersLeaveCalls ==
    ASSUME ClientTypeOK,
           \/ \E r \in Request : TakeIn(r) \/ Refuse(r) \/ RunHandler(r)
           \/ \E b \in Brokers : StopBroker(b)
           \/ RunCluster
    PROVE  /\ ClientTypeOK'
           /\ UNCHANGED <<stage, try, before>>
           /\ \A r \in Request : mail'[r] \in {mail[r], None}
<1>1. UNCHANGED <<stage, try, ask, leader, before, losses>>
  BY DEF TakeIn, Refuse, RunHandler, StopBroker, RunCluster, clientVars
<1>2. /\ mail' \in [Request -> Brokers \cup {None}]
      /\ \A r \in Request : mail'[r] \in {mail[r], None}
  <2> USE DEF ClientTypeOK
  <2>1. ASSUME NEW r \in Request, TakeIn(r) \/ Refuse(r)
        PROVE  mail' = [mail EXCEPT ![r] = None]
    BY <2>1 DEF TakeIn, Refuse
  <2>2. ASSUME NEW b \in Brokers, StopBroker(b)
        PROVE  mail' = [r \in Request |-> IF mail[r] = b THEN None ELSE mail[r]]
    BY <2>2 DEF StopBroker
  <2>3. ASSUME \/ \E r \in Request : RunHandler(r)
               \/ RunCluster
        PROVE  UNCHANGED mail
    BY <2>3 DEF RunHandler, RunCluster, clientVars
  <2> QED BY <2>1, <2>2, <2>3
<1> QED BY <1>1, <1>2 DEF ClientTypeOK

\* A step of the composition is one of the client's or one of the others'.
LEMMA WhoseStep ==
    ASSUME [ClientNext]_allVars
    PROVE  \/ UNCHANGED allVars
           \/ \E c \in Call : StartCall(c)
           \/ \E c \in Call : ClientStep(c) \/ LoseConnection(c)
           \/ \/ \E r \in Request : TakeIn(r) \/ Refuse(r) \/ RunHandler(r)
              \/ \E b \in Brokers : StopBroker(b)
              \/ RunCluster
  BY DEF ClientNext

\* Only taking a request in makes it more than idle.
LEMMA IdleStays ==
    ASSUME TypeOK, [ClientNext]_allVars, NEW s \in Request,
           pc[s] = "idle", mail[s] = None
    PROVE  pc'[s] = "idle"
<1> USE DEF vars, logVars, callVars, reqVars, boundVars
<1>1. CASE UNCHANGED vars
  BY <1>1
<1>2. ASSUME NEW r \in Request, TakeIn(r) PROVE pc'[s] = "idle"
  <2>1. r # s /\ \E b, k, single : Begin(r, b, k, single)
    BY <1>2, Zenon DEF TakeIn, Produce
  <2> QED BY <2>1 DEF Begin, TypeOK
<1>3. ASSUME NEW r \in Request, RunHandler(r) PROVE pc'[s] = "idle"
  <2>1. CASE Acquire(r) \/ AskFollower(r) \/ Send(r) \/ ReceiveAck(r)
    BY <2>1 DEF Acquire, AskFollower, Send, ReceiveAck, TypeOK
  <2>2. CASE CallFails(r) \/ CallBreaks(r) \/ WriteFails(r)
    BY <2>2 DEF CallFails, CallBreaks, WriteFails, Return, Replicating, TypeOK
  <2>3. CASE WriteRecord(r)
    BY <2>3 DEF WriteRecord, Return, TypeOK
  <2>4. CASE HandleRecord(r) \/ HandleFails(r)
    BY <2>4 DEF HandleRecord, HandleFails
  <2> QED BY <1>3, <2>1, <2>2, <2>3, <2>4 DEF RunHandler, HandlerStep
<1>4. ASSUME NEW b \in Brokers, StopBroker(b) PROVE pc'[s] = "idle"
  BY <1>4 DEF StopBroker, Crash, Busy, Held, Replicating
<1>5. CASE RunCluster
  BY <1>5 DEF RunCluster, Restart, ApplyAssignment, ReassignPartition
<1>6. UNCHANGED vars \/ (\E r \in Request : TakeIn(r) \/ RunHandler(r))
        \/ (\E b \in Brokers : StopBroker(b)) \/ RunCluster
  <2>1. ASSUME NEW c \in Call, StartCall(c) \/ ClientStep(c) \/ LoseConnection(c)
        PROVE  UNCHANGED vars
    BY <2>1 DEF StartCall, ClientStep, LearnLeader, AskNext, SendRequest, DialFails,
                ReceiveOffset, ReceiveError, LoseConnection
  <2>2. ASSUME NEW r \in Request, Refuse(r) PROVE UNCHANGED vars
    BY <2>2 DEF Refuse
  <2> QED BY <2>1, <2>2 DEF ClientNext, allVars
<1> QED BY <1>1, <1>2, <1>3, <1>4, <1>5, <1>6

\* What is acknowledged stays acknowledged, whatever stops.
LEMMA AckedStays ==
    ASSUME IndInv, [Next]_vars, NEW s \in Request, pc[s] = "ok"
    PROVE  /\ pc'[s] = "ok"
           /\ UNCHANGED <<at[s], End(s)>>
<1>t. TypeOK
  BY DEF IndInv
<1>1. pc'[s] = "ok"
  <2> USE DEF Busy, Held, Replicating
  <2>1. CASE Untouched(s)
    BY <2>1 DEF Untouched
  <2>2. ASSUME NEW b \in Brokers, Crash(b) PROVE pc'[s] = "ok"
    BY <2>2 DEF Crash
  <2>3. CASE OwnStep(s)
    BY <2>3 DEF OwnStep, Begin, Acquire, AskFollower, Send, ReceiveAck, CallFails,
                CallBreaks, WriteRecord, WriteFails, HandleRecord, HandleFails
  <2> QED BY <1>t, <2>1, <2>2, <2>3, StepOfRequest
<1>2. UNCHANGED <<at[s], cnt[s], base[s]>>
  BY ReservedStable
<1> QED BY <1>1, <1>2 DEF End

-----------------------------------------------------------------------------
(***************************************************************************)
(* The invariant of the client                                             *)
(***************************************************************************)

\* A request of an attempt that has not begun stays unsent.
LEMMA UnsentStep ==
    ASSUME ClientInv, [ClientNext]_allVars
    PROVE  Unsent'
<1> SUFFICES ASSUME NEW c \in Call, NEW k \in 1..Attempts, k > try'[c]
             PROVE  pc'[<<c, k>>] = "idle" /\ mail'[<<c, k>>] = None
  BY DEF Unsent
<1>t. /\ TypeOK /\ ClientTypeOK /\ IndInv /\ CallOf
      /\ try[c] \in 0..Attempts /\ <<c, k>> \in Request /\ Attempts \in Nat
  BY RequestOf, CallAssumption DEF ClientInv, IndInv, ClientTypeOK
<1>1. ASSUME k > try[c], mail'[<<c, k>>] \in {mail[<<c, k>>], None}
      PROVE  pc'[<<c, k>>] = "idle" /\ mail'[<<c, k>>] = None
  <2>1. pc[<<c, k>>] = "idle" /\ mail[<<c, k>>] = None
    BY <1>1 DEF ClientInv, Unsent
  <2> QED BY <1>t, <1>1, <2>1, IdleStays
<1>2. CASE UNCHANGED allVars
  BY <1>1, <1>2 DEF allVars, clientVars
<1>3. ASSUME NEW d \in Call, StartCall(d)
      PROVE  k > try[c] /\ UNCHANGED mail
  <2>1. /\ UNCHANGED mail /\ try[d] = 0 /\ try'[d] = 1
        /\ \A e \in Call \ {d} : UNCHANGED try[e]
    BY <1>t, <1>3, CallStarts
  <2> QED BY <1>t, <2>1
<1>4. ASSUME NEW d \in Call, ClientStep(d) \/ LoseConnection(d)
      PROVE  k > try[c] /\ UNCHANGED mail[<<c, k>>]
  <2>1. /\ try[d] \in 1..Attempts /\ try'[d] \in 1..Attempts /\ try'[d] >= try[d]
        /\ \A e \in Call \ {d} : UNCHANGED try[e]
        /\ \A r \in Request \ {Current(d)} : UNCHANGED mail[r]
    BY <1>t, <1>4, CallMoves
  <2>2. k > try[c]
    BY <1>t, <2>1
  <2>3. <<c, k>> # Current(d)
    BY <1>t, <2>1, <2>2 DEF Current
  <2> QED BY <1>t, <2>1, <2>2, <2>3
<1>5. CASE \/ \E r \in Request : TakeIn(r) \/ Refuse(r) \/ RunHandler(r)
           \/ \E b \in Brokers : StopBroker(b)
           \/ RunCluster
  <2>1. UNCHANGED try /\ mail'[<<c, k>>] \in {mail[<<c, k>>], None}
    BY <1>t, <1>5, BrokersLeaveCalls
  <2> QED BY <1>1, <2>1
<1> QED BY <1>1, <1>2, <1>3, <1>4, <1>5, WhoseStep

\* A call moves as the code lets it: it is done once, by an answer to its
\* current request, which stays acknowledged.
LEMMA CallStep ==
    ASSUME ClientInv, [ClientNext]_allVars
    PROVE  /\ ClientTypeOK' /\ CallOf'
           /\ \A c \in Call : stage[c] = "done" =>
                 /\ stage'[c] = "done" /\ UNCHANGED Current(c)
                 /\ Acked(Current(c)) /\ Acked(Current(c))'
                 /\ UNCHANGED <<at[Current(c)], End(Current(c))>>
           /\ \A d \in Call : UNCHANGED before[d] \/ StartCall(d)
<1> USE DEF Waiting, Ended
<1>t. IndInv /\ ClientTypeOK /\ CallOf /\ [Next]_vars
  BY ClientSimulates DEF ClientInv
<1>a. ASSUME NEW c \in Call, stage[c] = "done"
      PROVE  /\ Current(c) \in Request /\ Acked(Current(c))
             /\ pc'[Current(c)] = "ok"
             /\ \A s \in Request : s = Current(c) => UNCHANGED <<at[s], End(s)>>
  <2>1. Current(c) \in Request
    BY <1>t, <1>a, RequestOf DEF Current, CallOf
  <2>2. Acked(Current(c))
    BY <1>t, <1>a DEF CallOf
  <2> QED BY <1>t, <2>1, <2>2, AckedStays DEF Acked
<1>1. CASE UNCHANGED allVars
  <2>1. UNCHANGED <<vars, stage, try, ask, leader, mail, before, losses>>
    BY <1>1 DEF allVars, clientVars
  <2>2. UNCHANGED pc
    BY <2>1 DEF vars
  <2> QED BY <1>t, <1>a, <2>1, <2>2 DEF ClientTypeOK, CallOf, Current, Acked
<1>2. ASSUME NEW e \in Call, StartCall(e)
      PROVE  /\ ClientTypeOK' /\ CallOf'
             /\ \A c \in Call : stage[c] = "done" =>
                   stage'[c] = "done" /\ UNCHANGED Current(c)
             /\ \A d \in Call : UNCHANGED before[d] \/ StartCall(d)
  <2>1. /\ ClientTypeOK' /\ UNCHANGED vars
        /\ stage[e] = "new" /\ stage'[e] = "asking" /\ try'[e] = 1
        /\ \A d \in Call \ {e} : UNCHANGED <<stage[d], try[d], before[d]>>
    BY <1>t, <1>2, CallStarts
  <2>2. UNCHANGED pc /\ 1 \in 1..Attempts
    BY <2>1, CallAssumption DEF vars
  <2> QED BY <1>t, <1>2, <2>1, <2>2 DEF CallOf, Current, Acked
<1>3. ASSUME NEW e \in Call, ClientStep(e) \/ LoseConnection(e)
      PROVE  /\ ClientTypeOK' /\ CallOf'
             /\ \A c \in Call : stage[c] = "done" =>
                   stage'[c] = "done" /\ UNCHANGED Current(c)
             /\ \A d \in Call : UNCHANGED before[d]
  <2>1. /\ ClientTypeOK' /\ UNCHANGED <<vars, before>>
        /\ stage[e] \in Waiting /\ stage'[e] \in Waiting \cup Ended
        /\ try'[e] \in 1..Attempts
        /\ stage'[e] = "done" => try'[e] = try[e] /\ Acked(Current(e))
        /\ \A d \in Call \ {e} : UNCHANGED <<stage[d], try[d]>>
    BY <1>t, <1>3, CallMoves
  <2>2. UNCHANGED pc
    BY <2>1 DEF vars
  <2> QED BY <1>t, <2>1, <2>2 DEF CallOf, Current, Acked
<1>4. ASSUME \/ \E r \in Request : TakeIn(r) \/ Refuse(r) \/ RunHandler(r)
             \/ \E b \in Brokers : StopBroker(b)
             \/ RunCluster
      PROVE  /\ ClientTypeOK' /\ CallOf'
             /\ \A c \in Call : stage[c] = "done" =>
                   stage'[c] = "done" /\ UNCHANGED Current(c)
             /\ \A d \in Call : UNCHANGED before[d]
  <2>1. ClientTypeOK' /\ UNCHANGED <<stage, try, before>>
    BY <1>t, <1>4, BrokersLeaveCalls
  <2>2. \A c \in Call : stage[c] = "done" => pc'[Current(c)] = "ok"
    BY <1>t, <1>a DEF CallOf
  <2> QED BY <1>t, <2>1, <2>2 DEF CallOf, Current, Acked
<1>5. /\ ClientTypeOK' /\ CallOf'
      /\ \A c \in Call : stage[c] = "done" =>
            stage'[c] = "done" /\ UNCHANGED Current(c)
      /\ \A d \in Call : UNCHANGED before[d] \/ StartCall(d)
  <2>1. ASSUME UNCHANGED allVars
        PROVE  /\ \A c \in Call : UNCHANGED <<stage[c], Current(c)>>
               /\ \A d \in Call : UNCHANGED before[d]
    BY <2>1 DEF allVars, clientVars, Current
  <2> QED BY <1>1, <1>2, <1>3, <1>4, <2>1, WhoseStep
<1>6. ASSUME NEW c \in Call, stage[c] = "done"
      PROVE  /\ Acked(Current(c)) /\ Acked(Current(c))'
             /\ UNCHANGED <<at[Current(c)], End(Current(c))>>
  <2>1. PICK s \in Request : s = Current(c)
    BY <1>a, <1>6
  <2>2. s = Current(c)'
    BY <1>5, <1>6, <2>1
  <2> QED BY <1>a, <1>6, <2>1, <2>2 DEF Acked
<1> QED BY <1>5, <1>6

\* Offsets are reserved at the end of a log, above what its broker acknowledged
\* to the calls before, and they stay where they are.
LEMMA InOrderStep ==
    ASSUME ClientInv, [ClientNext]_allVars
    PROVE  ReservedInOrder'
<1>t. IndInv /\ ClientTypeOK /\ CallOf /\ Unsent /\ ReservedInOrder /\ [Next]_vars
  BY ClientSimulates DEF ClientInv
<1> SUFFICES ASSUME NEW d \in Call, NEW c \in before'[d]
             PROVE  /\ stage'[c] = "done"
                    /\ \A k \in 1..Attempts :
                          Reserved(<<d, k>>)' /\ at'[Current(c)'] = at'[<<d, k>>]
                              => End(Current(c))' <= base'[<<d, k>>]
  BY DEF ReservedInOrder
<1>1. CASE StartCall(d)
  <2>1. /\ UNCHANGED vars /\ try[d] = 0 /\ stage[d] = "new"
        /\ before'[d] = {e \in Call : stage[e] = "done"}
    BY <1>t, <1>1, CallStarts
  <2>2. c \in Call /\ stage[c] = "done"
    BY <2>1
  <2>3. stage'[c] = "done"
    BY <2>2, CallStep
  <2>4. \A k \in 1..Attempts : pc[<<d, k>>] = "idle"
    BY <1>t, <2>1 DEF Unsent
  <2>5. UNCHANGED pc
    BY <2>1 DEF vars
  <2> QED BY <2>3, <2>4, <2>5 DEF Reserved, Acked, Held, Replicating
<1>2. CASE UNCHANGED before[d]
  <2>1. c \in before[d] /\ c \in Call /\ stage[c] = "done"
    BY <1>t, <1>2 DEF ReservedInOrder, ClientTypeOK
  <2>2. /\ stage'[c] = "done" /\ UNCHANGED Current(c) /\ Acked(Current(c))
        /\ UNCHANGED <<at[Current(c)], End(Current(c))>>
    BY <2>1, CallStep
  <2>3. Current(c) \in Request /\ at[Current(c)] \in Brokers
    <3>1. Current(c) \in Request
      BY <1>t, <2>1, <2>2, RequestOf DEF Current, ClientTypeOK, CallOf
    <3> QED BY <1>t, <2>2, <3>1 DEF IndInv, HandlerOK, Acked
  <2> SUFFICES ASSUME NEW k \in 1..Attempts, Reserved(<<d, k>>)',
                      at'[Current(c)'] = at'[<<d, k>>]
               PROVE  End(Current(c))' <= base'[<<d, k>>]
    BY <2>2
  <2> DEFINE r == Current(c)
             s == <<d, k>>
  <2>4. s \in Request
    BY RequestOf
  <2> HIDE DEF s
  <2>5. CASE Reserved(s)
    <3>1. UNCHANGED <<at[s], base[s]>>
      BY <1>t, <2>4, <2>5, ReservedStable DEF Reserved, Acked, Held, Replicating
    <3>2. at[r] = at[s]
      BY <2>2, <3>1 DEF s
    <3>3. End(r) <= base[s]
      BY <1>t, <2>1, <2>5, <3>2 DEF ReservedInOrder, s
    <3> QED BY <2>2, <3>1, <3>3 DEF s
  <2>6. CASE ~Reserved(s)
    <3>1. Acquire(s)
      <4>1. pc'[s] \in Held \/ pc'[s] = "ok"
        BY DEF Reserved, Acked, s
      <4>2. pc[s] \notin Held /\ pc[s] # "ok"
        BY <2>6 DEF Reserved, Acked
      <4> QED BY <1>t, <2>4, <4>1, <4>2, HeldFrom, AckedFrom DEF Held
    <3>2. base'[s] = Len(log[at[s]]) /\ UNCHANGED at[s]
      BY <1>t, <2>4, <3>1 DEF IndInv, TypeOK, Acquire
    <3>3. at[s] = at[r]
      BY <2>2, <3>2 DEF s
    <3>4. Len(log[at[r]]) >= End(r)
      BY <1>t, <2>2, <2>3 DEF IndInv, AckedOffsetsFilled
    <3>5. Len(log[at[r]]) \in Nat /\ End(r) \in Nat
      BY <1>t, <2>3 DEF IndInv, TypeOK, End
    <3> HIDE DEF r
    <3>6. End(r)' = End(r)
      BY <2>2 DEF r
    <3>7. End(r)' <= base'[s]
      BY <3>2, <3>3, <3>4, <3>5, <3>6
    <3> QED BY <3>7 DEF r, s
  <2> QED BY <2>5, <2>6
<1> QED BY <1>1, <1>2, CallStep

-----------------------------------------------------------------------------
(***************************************************************************)
(* The theorems                                                            *)
(***************************************************************************)
\* Nothing has been called or sent at the start.
LEMMA ClientInitInv == ClientInit => ClientInv
<1> SUFFICES ASSUME ClientInit PROVE ClientInv
  OBVIOUS
<1>1. IndInv
  BY InitInv DEF ClientInit
<1>2. ClientTypeOK
  <2>1. 0 \in 0..Attempts /\ 1 \in 1..Len(BrokerList) /\ 0 \in 0..MaxLoss
    BY CallAssumption
  <2> QED BY <2>1 DEF ClientInit, ClientTypeOK
<1>3. Unsent
  BY RequestOf DEF ClientInit, Init, Unsent
<1>4. CallOf /\ ReservedInOrder
  BY DEF ClientInit, CallOf, ReservedInOrder
<1> QED BY <1>1, <1>2, <1>3, <1>4 DEF ClientInv

\* The inductive invariant holds in every behaviour of the calls, the brokers
\* and the network.
THEOREM ClientInvariance == ClientSpec => []ClientInv
<1>1. ClientInv /\ [ClientNext]_allVars => ClientInv'
  <2> SUFFICES ASSUME ClientInv, [ClientNext]_allVars PROVE ClientInv'
    OBVIOUS
  <2>1. IndInv'
    BY ClientSimulates, StepInv DEF ClientInv
  <2> QED BY <2>1, UnsentStep, CallStep, InOrderStep DEF ClientInv
<1> QED BY <1>1, ClientInitInv, PTL DEF ClientSpec

\* Type correctness of the calls: no call makes more than Attempts attempts,
\* none asks beyond the end of its list of brokers.
THEOREM ClientTypeCorrect == ClientSpec => []ClientTypeOK
  BY ClientInvariance, PTL DEF ClientInv

\* The client drives the handlers of the brokers in no way that module
\* Replication does not describe: whatever holds of every behaviour there holds
\* under the retries of the client library too.
THEOREM ClientImplements == ClientSpec => Spec
<1>1. ClientInit => Init
  BY DEF ClientInit
<1>2. ClientInv /\ [ClientNext]_allVars => [Next]_vars
  BY ClientSimulates DEF ClientInv
<1> QED BY <1>1, <1>2, ClientInvariance, PTL DEF ClientSpec, Spec

\* Calls that follow one another get offsets that follow one another.
LEMMA OrderHolds == ClientInv => CallsInOrder
<1> SUFFICES ASSUME ClientInv, NEW d \in Call, NEW c \in before[d],
                    stage[d] = "done", at[Current(c)] = at[Current(d)]
             PROVE  End(Current(c)) <= base[Current(d)]
  BY DEF CallsInOrder
<1>1. Acked(Current(d)) /\ try[d] \in 1..Attempts
  BY DEF ClientInv, CallOf
<1> QED BY <1>1 DEF ClientInv, ReservedInOrder, Reserved, Current

\* A call that began after another had succeeded is acknowledged above it by the
\* same broker, whatever their earlier attempts still do.
THEOREM InOrder == ClientSpec => []CallsInOrder
  BY ClientInvariance, OrderHolds, PTL

\* The copies of a message stand in a log for attempts that differ.
LEMMA CopiesHold == ClientInv => CopiesWithinAttempts
<1> SUFFICES ASSUME ClientInv, NEW b \in Brokers, NEW c \in Call, NEW i
             PROVE  Cardinality(Copies(b, c, i)) <= try[c]
  BY DEF CopiesWithinAttempts
<1> DEFINE S == Copies(b, c, i)
           f == [j \in S |-> log[b][j][1][2]]
<1>t. try[c] \in 0..Attempts /\ try[c] \in Nat
  BY CallAssumption DEF ClientInv, ClientTypeOK
<1>1. ASSUME NEW j \in S
      PROVE  /\ f[j] \in 1..try[c]
             /\ log[b][j][1] = <<c, f[j]>>
             /\ j = base[<<c, f[j]>>] + i
  <2>1. j \in 1..Len(log[b]) /\ log[b][j][1][1] = c /\ log[b][j][2] = i
    BY DEF Copies
  <2>2. log[b][j] \in Record
    BY <2>1 DEF ClientInv, IndInv, TypeOK, Record
  <2>3. log[b][j][1] \in Request
    BY <2>2 DEF Record
  <2>4. f[j] \in 1..Attempts /\ log[b][j][1] = <<c, f[j]>>
    BY <2>1, <2>3, RequestOf
  <2>5. pc[<<c, f[j]>>] # "idle"
    BY <2>1, <2>4 DEF ClientInv, IndInv, RecordsReserved
  <2>6. f[j] <= try[c]
    <3> HIDE DEF f
    <3> QED BY <1>t, <2>4, <2>5, CallAssumption DEF ClientInv, Unsent
  <2>7. j = base[log[b][j][1]] + log[b][j][2]
    BY <2>1 DEF ClientInv, IndInv, RecordsAtTheirOffset
  <2> HIDE DEF f
  <2> QED BY <1>t, <2>1, <2>4, <2>6, <2>7, CallAssumption
<1>2. f \in [S -> 1..try[c]]
  BY <1>1
<1>3. \A j, k \in S : f[j] = f[k] => j = k
  BY <1>1
<1> HIDE DEF f, S
<1>4. f \in Injection(S, 1..try[c])
  BY <1>2, <1>3, Fun_IsInj
<1>5. IsFiniteSet(1..try[c]) /\ Cardinality(1..try[c]) = try[c]
  BY <1>t, FS_Interval, SMTT(30)
<1>6. Cardinality(S) <= Cardinality(1..try[c])
  BY <1>4, <1>5, FS_Injection
<1> QED BY <1>5, <1>6 DEF S

\* No log ever holds a message more often than it was tried.
THEOREM Copied == ClientSpec => []CopiesWithinAttempts
  BY ClientInvariance, CopiesHold, PTL

\* Whatever the client retries, until the partition is reassigned its leader has
\* what it acknowledged to the client.
THEOREM ClientAcked == ClientSpec => []AckedOnLeader
  BY ClientImplements, AckedKept, PTL

\* Under the retries, too, the follower could take over with every record until
\* a produce request has failed.
THEOREM ClientMirror == ClientSpec => []MirrorUntilFailure
  BY ClientImplements, MirrorHolds, PTL
=============================================================================
