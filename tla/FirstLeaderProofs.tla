-------------------------- MODULE FirstLeaderProofs --------------------------
(***************************************************************************)
(* What holds of module Replication until the partition is reassigned: the *)
(* leader has what it acknowledged, and the follower what the leader has.  *)
(* For any number of brokers, any set of requests and any bounds.          *)
(***************************************************************************)
EXTENDS ReplicationProofs

L == Placement(Partition).leader
F == Placement(Partition).follower

NoError == \A r \in Request : pc[r] # "err"

(***************************************************************************)
(* FirstInv, of the brokers L and F.                                       *)
(***************************************************************************)
Sole == \A r \in Request : pc[r] # "idle" => at[r] = L /\ fol[r] = F
AtEnd == \A r \in Request : pc[r] \in Held => Len(log[L]) = base[r] + wrote[r]
OwnOf(r) ==
    /\ pc[r] = "ok" => wrote[r] = cnt[r]
    /\ pc[r] \in {"writing", "ok"} =>
          \A i \in 1..wrote[r] : log[L][base[r] + i] = <<r, i>>
WithinOf(r) ==
    /\ rpc[r] = "run" => hi[r] <= End(r)
    /\ pc[r] = "ok" => rpc[r] = "none"
NotBehind == Len(log[L]) <= Len(log[F])
HeldRecord(j) ==
    \E r \in Request : /\ pc[r] \in Held /\ j <= End(r)
                       /\ log[F][j] = <<r, j - base[r]>>
Ahead == NoError => \A j \in Len(log[L])+1..Len(log[F]) : HeldRecord(j)
Mirror == NoError => \A j \in 1..Len(log[L]) : log[L][j] = log[F][j]

FirstOK ==
    /\ meta[1] = Placement(Partition)
    /\ Sole /\ AtEnd
    /\ \A r \in Request : OwnOf(r) /\ WithinOf(r)
    /\ NotBehind /\ Ahead /\ Mirror

\* A step of a cluster whose partition is not reassigned, before and after.
First == IndInv /\ Len(meta) = 1 /\ FirstOK /\ [Next]_vars

-----------------------------------------------------------------------------
\* The placement names two brokers.
LEMMA Placed == L \in Brokers /\ F \in Brokers /\ F # None
<1>1. Partition \in Nat
  BY PartitionAssumption, NumPartitionsAssumption DEF Partitions
<1> QED BY <1>1, NAssumption DEF L, F, Placement, Brokers, None

\* The logs of the two are sequences of records.
LEMMA LogsTyped ==
    ASSUME IndInv
    PROVE  /\ log[L] \in Seq(Record) /\ Len(log[L]) \in Nat
           /\ log[F] \in Seq(Record) /\ Len(log[F]) \in Nat
  BY Placed DEF IndInv, TypeOK, Record

\* Assignments are only added.
LEMMA MetaFrom ==
    ASSUME IndInv, [Next]_vars, Len(meta') = 1
    PROVE  meta' = meta /\ Len(meta) = 1
<1> USE DEF logVars
<1>t. meta \in Seq(Assignment) /\ Len(meta) \in Nat /\ Len(meta) > 0
  BY DEF IndInv, TypeOK
<1>n. \A n \in Nat : n > 0 => n + 1 # 1
  OBVIOUS
<1>1. CASE ReassignPartition
  <2>1. PICK alive \in SUBSET Brokers :
           meta' = Append(meta, Repair(meta[Len(meta)], alive, alive))
    BY <1>1 DEF ReassignPartition, Up
  <2>2. Len(meta') = Len(meta) + 1
    BY <1>t, <2>1
  <2> QED BY <1>t, <1>n, <2>2, Zenon
<1>2. CASE ~ReassignPartition
  <2>1. CASE UNCHANGED vars
    BY <2>1 DEF vars
  <2>2. ASSUME NEW r \in Request, NEW b \in Brokers, Produce(r, b) \/ ProduceBatch(r, b)
        PROVE  meta' = meta
    BY <2>2 DEF Produce, ProduceBatch, Begin
  <2>3. ASSUME NEW r \in Request,
               \/ Acquire(r) \/ AskFollower(r) \/ Send(r) \/ ReceiveAck(r)
               \/ CallFails(r) \/ CallBreaks(r) \/ WriteRecord(r) \/ WriteFails(r)
               \/ HandleRecord(r) \/ HandleFails(r)
        PROVE  meta' = meta
    BY <2>3 DEF Acquire, AskFollower, Send, ReceiveAck, CallFails, CallBreaks,
                WriteRecord, WriteFails, HandleRecord, HandleFails
  <2>4. ASSUME NEW b \in Brokers, Crash(b) \/ Restart(b) \/ ApplyAssignment(b)
        PROVE  meta' = meta
    BY <2>4 DEF Crash, Restart, ApplyAssignment
  <2> QED BY <1>2, <2>1, <2>2, <2>3, <2>4 DEF Next
<1> QED BY <1>1, <1>2

-----------------------------------------------------------------------------
(***************************************************************************)
(* What the steps do to the two logs.                                      *)
(***************************************************************************)

\* The leader's write adds the next record of its request.
LEMMA WriteFirst ==
    ASSUME First, NEW r \in Request, WriteRecord(r)
    PROVE  /\ pc[r] = "writing" /\ at[r] = L
           /\ wrote'[r] = wrote[r] + 1
           /\ pc'[r] = IF wrote[r] + 1 = cnt[r] THEN "ok" ELSE "writing"
           /\ log' = [log EXCEPT ![L] = Append(log[L], <<r, wrote[r] + 1>>)]
<1>t. TypeOK /\ log[L] \in Seq(Record) /\ Len(log[L]) \in Nat /\ L \in Brokers
  BY LogsTyped, Placed DEF First, IndInv
<1>1. pc[r] = "writing" /\ at[r] = L
  BY DEF WriteRecord, First, FirstOK, Sole
<1>2. Len(log[L]) = base[r] + wrote[r]
  BY <1>1 DEF First, FirstOK, AtEnd, Held
<1>3. ~Refused(log[L], base[r] + wrote[r])
  BY <1>t, <1>2 DEF Refused
<1>4. log' = [log EXCEPT ![L] = Append(log[L], <<r, wrote[r] + 1>>)]
  BY <1>t, <1>1, <1>2 DEF WriteRecord, AppendAt, TypeOK
<1>5. pc'[r] = IF wrote[r] + 1 = cnt[r] THEN "ok" ELSE "writing"
  BY <1>t, <1>1, <1>3 DEF WriteRecord, Return, TypeOK
<1>6. wrote'[r] = wrote[r] + 1
  BY <1>t DEF WriteRecord, TypeOK
<1> QED BY <1>1, <1>4, <1>5, <1>6

\* The follower's handler writes to the follower's log, which is another one.
LEMMA HandleFirst ==
    ASSUME First, NEW r \in Request, HandleRecord(r)
    PROVE  /\ L # F /\ at[r] = L /\ fol[r] = F
           /\ pc[r] \notin {"idle", "waiting", "asking", "sending", "writing"}
           /\ rpc[r] = "run" /\ cur[r] \in Nat
           /\ UNCHANGED <<pc, base, cnt>>
           /\ log' = [log EXCEPT ![F] = AppendAt(@, cur[r], RecordAt(r, cur[r]))]
<1>1. rpc[r] = "run" /\ cur[r] \in Nat
  BY DEF HandleRecord, First, IndInv, TypeOK
<1>2. /\ Replicates(r)
      /\ pc[r] \notin {"idle", "waiting", "asking", "sending", "writing"}
  BY <1>1 DEF First, IndInv, CallOK
<1>3. at[r] = L /\ fol[r] = F
  BY <1>2 DEF First, FirstOK, Sole
<1> QED BY <1>1, <1>2, <1>3 DEF HandleRecord, Replicates, reqVars

\* Without a write of the leader its log stays as it is.
LEMMA LeaderLog ==
    ASSUME First, \A r \in Request : ~WriteRecord(r)
    PROVE  log'[L] = log[L]
<1>1. ASSUME NEW r \in Request, HandleRecord(r) PROVE log'[L] = log[L]
  BY <1>1, HandleFirst, Placed DEF First, IndInv, TypeOK
<1> QED BY <1>1, LogFrom DEF First

\* Only its own write moves a handler on in its records.
LEMMA WroteFrom ==
    ASSUME First, NEW s \in Request, ~WriteRecord(s)
    PROVE  wrote'[s] = wrote[s]
<1> USE DEF First, reqVars, callVars
<1>1. CASE Untouched(s)
  BY <1>1 DEF Untouched
<1>2. CASE \E b \in Brokers : Crash(b)
  BY <1>2 DEF Crash
<1>3. CASE OwnStep(s)
  <2>1. CASE \E b \in Brokers, k \in Nat \ {0}, single \in BOOLEAN : Begin(s, b, k, single)
    BY <2>1 DEF Begin
  <2> QED BY <1>3, <2>1 DEF OwnStep, Acquire, AskFollower, Send, ReceiveAck, CallFails,
                            CallBreaks, WriteFails, HandleRecord, HandleFails
<1> QED BY <1>1, <1>2, <1>3, StepOfRequest DEF IndInv

\* There is one holder of the lock.
LEMMA OneHolder ==
    ASSUME First, NEW r \in Request, NEW s \in Request, pc[r] \in Held, pc[s] \in Held
    PROVE  r = s
<1>1. at[r] = L /\ at[s] = L
  BY DEF First, FirstOK, Sole, Held, Replicating
<1> QED BY <1>1, MutualExclusion DEF First

\* A handler that holds the lock goes on to hold it, but for its last write, an
\* error or a crash of its broker.
LEMMA HeldStays ==
    ASSUME First, NEW s \in Request, pc[s] \in Held, ~WriteRecord(s), pc'[s] # "err"
    PROVE  pc'[s] \in Held
<1> USE DEF First, Held, Replicating
<1>t. TypeOK
  BY DEF IndInv
<1>1. CASE Untouched(s)
  BY <1>1 DEF Untouched
<1>2. ASSUME NEW b \in Brokers, Crash(b) PROVE pc'[s] \in Held
  BY <1>2 DEF Crash
<1>3. ASSUME NEW b \in Brokers, NEW k \in Nat \ {0}, NEW single, Begin(s, b, k, single)
      PROVE  FALSE
  BY <1>3 DEF Begin
<1>4. ASSUME \/ Acquire(s) \/ AskFollower(s) \/ Send(s) \/ ReceiveAck(s)
             \/ HandleRecord(s) \/ HandleFails(s)
      PROVE  pc'[s] \in Held
  BY <1>t, <1>4 DEF TypeOK, Acquire, AskFollower, Send, ReceiveAck, HandleRecord,
                    HandleFails
<1>5. ASSUME CallFails(s) \/ CallBreaks(s) \/ WriteFails(s) PROVE FALSE
  BY <1>t, <1>5 DEF TypeOK, CallFails, CallBreaks, WriteFails, Return
<1> QED BY <1>t, <1>1, <1>2, <1>3, <1>4, <1>5, StepOfRequest DEF OwnStep

\* A failed request stays failed.
LEMMA ErrStays ==
    ASSUME First, NoError'
    PROVE  NoError
<1> USE DEF First
<1> SUFFICES ASSUME NEW s \in Request, pc[s] = "err" PROVE pc'[s] = "err"
  BY DEF NoError
<1>t. TypeOK
  BY DEF IndInv
<1>1. CASE Untouched(s)
  BY <1>1 DEF Untouched
<1>2. ASSUME NEW b \in Brokers, Crash(b) PROVE pc'[s] = "err"
  BY <1>2 DEF Crash
<1>3. ASSUME NEW b \in Brokers, NEW k \in Nat \ {0}, NEW single, Begin(s, b, k, single)
      PROVE  FALSE
  BY <1>3 DEF Begin
<1>4. ASSUME \/ Acquire(s) \/ AskFollower(s) \/ Send(s) \/ ReceiveAck(s) \/ CallFails(s)
             \/ CallBreaks(s) \/ WriteFails(s) \/ WriteRecord(s)
      PROVE  FALSE
  BY <1>4 DEF Acquire, AskFollower, Send, ReceiveAck, CallFails, CallBreaks,
              WriteFails, WriteRecord, Replicating
<1>5. ASSUME HandleRecord(s) \/ HandleFails(s) PROVE pc'[s] = "err"
  BY <1>5 DEF HandleRecord, HandleFails
<1> QED BY <1>t, <1>1, <1>2, <1>3, <1>4, <1>5, StepOfRequest DEF OwnStep

-----------------------------------------------------------------------------
(***************************************************************************)
(* Each part after a step.                                                 *)
(***************************************************************************)

\* What IndInv and the assignments are after the step.
LEMMA FirstNext ==
    ASSUME First, Len(meta') = 1
    PROVE  IndInv' /\ meta' = meta /\ Len(meta) = 1 /\ meta[1] = Placement(Partition)
  BY StepInv, MetaFrom DEF First, FirstOK

\* A request is taken in by the broker that leads: nobody else knows that it
\* does.
LEMMA SoleStep ==
    ASSUME First, Len(meta') = 1
    PROVE  Sole'
<1> USE DEF First
<1> SUFFICES ASSUME NEW s \in Request, pc'[s] # "idle" PROVE at'[s] = L /\ fol'[s] = F
  BY DEF Sole, L, F
<1>t. TypeOK /\ meta[1] = Placement(Partition) /\ Len(meta) = 1
  BY FirstNext DEF IndInv
<1>1. CASE pc[s] = "idle"
  <2>1. CASE Untouched(s)
    BY <1>1, <2>1 DEF Untouched
  <2>2. ASSUME NEW b \in Brokers, Crash(b) PROVE FALSE
    BY <1>1, <2>2 DEF Crash, Busy, Held, Replicating
  <2>3. ASSUME NEW b \in Brokers, NEW k \in Nat \ {0}, NEW single, Begin(s, b, k, single)
        PROVE  at'[s] = L /\ fol'[s] = F
    <3>1. view[b] = 1
      BY <1>t, <2>3 DEF TypeOK, Begin
    <3> QED BY <1>t, <2>3, <3>1 DEF TypeOK, Begin, L, F
  <2>4. ASSUME \/ Acquire(s) \/ AskFollower(s) \/ Send(s) \/ ReceiveAck(s) \/ CallFails(s)
               \/ CallBreaks(s) \/ WriteFails(s) \/ WriteRecord(s)
        PROVE  FALSE
    BY <1>1, <2>4 DEF Acquire, AskFollower, Send, ReceiveAck, CallFails, CallBreaks,
                      WriteFails, WriteRecord, Replicating
  <2>5. ASSUME HandleRecord(s) \/ HandleFails(s) PROVE FALSE
    BY <1>1, <2>5 DEF HandleRecord, HandleFails
  <2> QED BY <1>t, <1>1, <2>1, <2>2, <2>3, <2>4, <2>5, StepOfRequest DEF OwnStep
<1>2. CASE pc[s] = "waiting"
  <2>1. at[s] = L /\ fol[s] = F
    BY <1>2 DEF FirstOK, Sole
  <2>2. UNCHANGED <<at[s], fol[s]>>
    <3>1. CASE Untouched(s)
      BY <3>1 DEF Untouched
    <3>2. ASSUME NEW b \in Brokers, NEW k \in Nat \ {0}, NEW single, Begin(s, b, k, single)
          PROVE  FALSE
      BY <1>2, <3>2 DEF Begin
    <3>3. CASE \E b \in Brokers : Crash(b)
      BY <3>3 DEF Crash, reqVars
    <3>4. CASE \/ Acquire(s) \/ AskFollower(s) \/ Send(s) \/ ReceiveAck(s) \/ CallFails(s)
               \/ CallBreaks(s) \/ WriteFails(s) \/ WriteRecord(s)
               \/ HandleRecord(s) \/ HandleFails(s)
      BY <3>4 DEF Acquire, AskFollower, Send, ReceiveAck, CallFails, CallBreaks,
                  WriteFails, WriteRecord, HandleRecord, HandleFails, reqVars
    <3> QED BY <1>t, <3>1, <3>2, <3>3, <3>4, StepOfRequest DEF OwnStep
  <2> QED BY <2>1, <2>2
<1>3. CASE pc[s] \notin {"idle", "waiting"}
  BY <1>3, ReservedStable DEF FirstOK, Sole
<1> QED BY <1>1, <1>2, <1>3

\* Nobody else writes to the leader's log while a handler holds its lock.
LEMMA AtEndStep ==
    ASSUME First, Len(meta') = 1
    PROVE  AtEnd'
<1> USE DEF First
<1> SUFFICES ASSUME NEW s \in Request, pc'[s] \in Held
             PROVE  Len(log'[L]) = base'[s] + wrote'[s]
  BY DEF AtEnd, L
<1>t. TypeOK /\ log[L] \in Seq(Record) /\ Len(log[L]) \in Nat /\ L \in Brokers
  BY LogsTyped, Placed DEF IndInv
<1>1. CASE pc[s] \notin Held
  <2>1. Acquire(s)
    BY <1>1, HeldFrom
  <2>2. wrote[s] = 0 /\ at[s] = L
    BY <2>1 DEF IndInv, HandlerOK, FirstOK, Sole, Acquire
  <2>3. base'[s] = Len(log[at[s]]) /\ wrote' = wrote /\ log' = log
    BY <1>t, <2>1 DEF TypeOK, Acquire, logVars
  <2> QED BY <1>t, <2>2, <2>3
<1>2. CASE pc[s] \in Held
  <2>1. Len(log[L]) = base[s] + wrote[s]
    BY <1>2 DEF FirstOK, AtEnd
  <2>2. base'[s] = base[s] /\ base[s] \in Nat /\ wrote[s] \in Nat
    BY <1>t, <1>2, ReservedStable DEF TypeOK, Held, Replicating
  <2>3. CASE WriteRecord(s)
    <3>1. /\ wrote'[s] = wrote[s] + 1
          /\ log' = [log EXCEPT ![L] = Append(log[L], <<s, wrote[s] + 1>>)]
      BY <2>3, WriteFirst
    <3>2. log'[L] = Append(log[L], <<s, wrote[s] + 1>>)
      BY <1>t, <3>1 DEF TypeOK
    <3>3. Len(log'[L]) = Len(log[L]) + 1
      BY <1>t, <3>2
    <3> QED BY <1>t, <2>1, <2>2, <3>1, <3>3
  <2>4. CASE ~WriteRecord(s)
    <3>1. \A r \in Request : ~WriteRecord(r)
      BY <1>2, <2>4, OneHolder, WriteFirst DEF Held
    <3> QED BY <2>1, <2>2, <2>4, <3>1, LeaderLog, WroteFrom
  <2> QED BY <2>3, <2>4
<1> QED BY <1>1, <1>2

\* A handler writes its own records, and acknowledges when it has written the
\* last one.
LEMMA OwnOfStep ==
    ASSUME First, Len(meta') = 1, NEW s \in Request
    PROVE  OwnOf(s)'
<1> USE DEF First
<1>t. TypeOK /\ log[L] \in Seq(Record) /\ Len(log[L]) \in Nat /\ L \in Brokers
  BY LogsTyped, Placed DEF IndInv
<1>n. base[s] \in Nat /\ wrote[s] \in Nat /\ cnt[s] \in Nat
  BY <1>t DEF TypeOK
<1>o. OwnOf(s)
  BY DEF FirstOK
<1>l. L' = L
  BY DEF L
<1> SUFFICES ASSUME pc'[s] \in {"writing", "ok"}
             PROVE  /\ pc'[s] = "ok" => wrote'[s] = cnt'[s]
                    /\ \A i \in 1..wrote'[s] : log'[L][base'[s] + i] = <<s, i>>
  BY <1>l DEF OwnOf
<1>1. CASE pc[s] \notin {"writing", "ok"}
  <2>1. Acquire(s) \/ ReceiveAck(s)
    BY <1>1, WritingFrom, AckedFrom
  <2>2. wrote[s] = 0 /\ wrote' = wrote /\ pc'[s] # "ok"
    BY <1>t, <2>1 DEF IndInv, HandlerOK, TypeOK, Acquire, ReceiveAck, Replicating
  <2> QED BY <2>2
<1>2. CASE pc[s] \in {"writing", "ok"}
  <2>1. base'[s] = base[s] /\ cnt'[s] = cnt[s]
    BY <1>2, ReservedStable
  <2>2. \A i \in 1..wrote[s] : log[L][base[s] + i] = <<s, i>>
    BY <1>o, <1>2 DEF OwnOf
  <2>3. base[s] + wrote[s] <= Len(log[L])
    <3>1. CASE pc[s] = "writing"
      BY <1>t, <1>n, <3>1 DEF FirstOK, AtEnd, Held
    <3>2. CASE pc[s] = "ok"
      BY <1>o, <3>2 DEF OwnOf, IndInv, AckedOffsetsFilled, Acked, End, FirstOK, Sole
    <3> QED BY <1>2, <3>1, <3>2
  <2>4. \A i \in 1..wrote[s] : log'[L][base[s] + i] = <<s, i>>
    <3> SUFFICES ASSUME NEW i \in 1..wrote[s] PROVE log'[L][base[s] + i] = <<s, i>>
      OBVIOUS
    <3>1. base[s] + i \in 1..Len(log[L])
      BY <1>t, <1>n, <2>3
    <3> QED BY <1>t, <2>2, <3>1, LogStep
  <2>5. CASE WriteRecord(s)
    <3>1. /\ wrote'[s] = wrote[s] + 1
          /\ pc'[s] = IF wrote[s] + 1 = cnt[s] THEN "ok" ELSE "writing"
          /\ log' = [log EXCEPT ![L] = Append(log[L], <<s, wrote[s] + 1>>)]
          /\ pc[s] = "writing"
      BY <2>5, WriteFirst
    <3>2. Len(log[L]) = base[s] + wrote[s]
      BY <3>1 DEF FirstOK, AtEnd, Held
    <3>3. log'[L] = Append(log[L], <<s, wrote[s] + 1>>)
      BY <1>t, <3>1 DEF TypeOK
    <3>4. log'[L][base[s] + (wrote[s] + 1)] = <<s, wrote[s] + 1>>
      BY <1>t, <1>n, <3>2, <3>3, SMTT(30)
    <3>5. \A i \in 1..wrote[s] + 1 : i \in 1..wrote[s] \/ i = wrote[s] + 1
      BY <1>n
    <3> QED BY <2>1, <2>4, <3>1, <3>4, <3>5
  <2>6. CASE ~WriteRecord(s)
    <3>1. wrote'[s] = wrote[s]
      BY <2>6, WroteFrom
    <3>2. pc'[s] = "ok" => pc[s] = "ok"
      BY <2>6, AckedFrom
    <3> QED BY <1>o, <2>1, <2>4, <3>1, <3>2 DEF OwnOf
  <2> QED BY <2>5, <2>6
<1> QED BY <1>1, <1>2

\* A call carries nothing beyond the records of its request, and none runs any
\* more when the request is acknowledged.
LEMMA WithinOfStep ==
    ASSUME First, Len(meta') = 1, NEW s \in Request
    PROVE  WithinOf(s)'
<1> USE DEF First
<1>t. TypeOK
  BY DEF IndInv
<1>w. WithinOf(s)
  BY DEF FirstOK
<1>n. /\ base[s] \in Nat /\ cnt[s] \in Nat /\ cur[s] \in Nat /\ hi[s] \in Nat
      /\ pc[s] = "sending" => cur[s] < End(s)
      /\ pc[s] # "idle" => cnt[s] > 0
  BY <1>t DEF TypeOK, IndInv, CallOK, HandlerOK
<1>c. rpc[s] = "run" => pc[s] \notin {"idle", "waiting"}
  BY DEF IndInv, CallOK
<1>1. CASE Untouched(s)
  BY <1>w, <1>1 DEF Untouched, WithinOf, End
<1>2. ASSUME NEW b \in Brokers, Crash(b) PROVE WithinOf(s)'
  <2>1. /\ rpc'[s] = rpc[s] \/ rpc'[s] = "none"
           \/ (pc[s] \in {"sending", "awaiting"} /\ rpc'[s] = "failed")
        /\ pc'[s] = "err" \/ pc'[s] = pc[s]
        /\ UNCHANGED <<base, cnt, hi>>
    BY <1>2 DEF Crash, reqVars
  <2> QED BY <1>w, <2>1 DEF WithinOf, End
<1>3. ASSUME NEW b \in Brokers, NEW k \in Nat \ {0}, NEW single, Begin(s, b, k, single)
      PROVE  WithinOf(s)'
  <2>1. pc'[s] = "waiting" /\ rpc' = rpc /\ rpc[s] = "none"
    BY <1>t, <1>3 DEF TypeOK, Begin, callVars, IndInv, CallOK
  <2> QED BY <2>1 DEF WithinOf
<1>4. CASE Acquire(s)
  <2>1. pc'[s] # "ok" /\ rpc' = rpc /\ rpc[s] = "none"
    BY <1>t, <1>4 DEF TypeOK, Acquire, callVars, IndInv, CallOK
  <2> QED BY <2>1 DEF WithinOf
<1>5. CASE AskFollower(s) \/ ReceiveAck(s)
  <2>1. pc'[s] # "ok" /\ rpc'[s] # "run"
    BY <1>t, <1>5 DEF TypeOK, AskFollower, ReceiveAck, IndInv, CallOK
  <2> QED BY <2>1 DEF WithinOf
<1>6. CASE Send(s)
  <2>1. pc'[s] = "awaiting" /\ hi'[s] = CallEnd(s) /\ End(s)' = End(s) /\ pc[s] = "sending"
    BY <1>t, <1>6 DEF TypeOK, Send, End, reqVars
  <2>2. CallEnd(s) <= End(s)
    BY <1>n, <2>1 DEF CallEnd, End
  <2> QED BY <2>1, <2>2 DEF WithinOf
<1>7. CASE CallFails(s) \/ CallBreaks(s) \/ WriteFails(s)
  <2>1. pc'[s] = "err" /\ UNCHANGED <<rpc, hi, base, cnt>>
    BY <1>t, <1>7 DEF TypeOK, CallFails, CallBreaks, WriteFails, Return, reqVars, callVars
  <2> QED BY <1>w, <2>1 DEF WithinOf, End
<1>8. CASE WriteRecord(s)
  <2>1. rpc' = rpc /\ rpc[s] = "none"
    BY <1>t, <1>8 DEF WriteRecord, callVars, IndInv, CallOK
  <2> QED BY <2>1 DEF WithinOf
<1>9. CASE HandleRecord(s) \/ HandleFails(s)
  <2>1. rpc[s] = "run" /\ UNCHANGED <<pc, hi, base, cnt>>
    BY <1>9 DEF HandleRecord, HandleFails, reqVars
  <2> QED BY <1>w, <2>1 DEF WithinOf, End
<1> QED BY <1>t, <1>1, <1>2, <1>3, <1>4, <1>5, <1>6, <1>7, <1>8, <1>9, StepOfRequest
    DEF OwnStep

\* The leader appends what the follower has already.
LEMMA NotBehindStep ==
    ASSUME First, Len(meta') = 1
    PROVE  NotBehind'
<1> USE DEF First
<1>t. /\ TypeOK /\ log[L] \in Seq(Record) /\ Len(log[L]) \in Nat /\ Len(log[F]) \in Nat
      /\ L \in Brokers /\ F \in Brokers
  BY LogsTyped, Placed DEF IndInv
<1>l. L' = L /\ F' = F
  BY DEF L, F
<1>m. Len(log[L]) <= Len(log[F])
  BY DEF FirstOK, NotBehind
<1>f. Len(log'[F]) \in Nat /\ Len(log'[F]) >= Len(log[F])
  BY <1>t, LogLengths
<1> SUFFICES Len(log'[L]) <= Len(log'[F])
  BY <1>l DEF NotBehind
<1>1. CASE \E r \in Request : WriteRecord(r)
  <2>1. PICK r \in Request : WriteRecord(r)
    BY <1>1
  <2>2. /\ pc[r] = "writing" /\ at[r] = L
        /\ log' = [log EXCEPT ![L] = Append(log[L], <<r, wrote[r] + 1>>)]
    BY <2>1, WriteFirst
  <2>3. CASE L = F
    BY <1>f, <2>3
  <2>4. CASE L # F
    <3>1. fol[r] = F /\ Replicates(r)
      BY <2>2, <2>4, Placed DEF FirstOK, Sole, Replicates
    <3>2. Len(log[F]) >= End(r)
      BY <2>2, <3>1 DEF IndInv, FollowerFirst
    <3>3. /\ Len(log[L]) = base[r] + wrote[r] /\ wrote[r] < cnt[r]
          /\ base[r] \in Nat /\ wrote[r] \in Nat /\ cnt[r] \in Nat
      BY <1>t, <2>2 DEF FirstOK, AtEnd, Held, IndInv, HandlerOK, TypeOK
    <3>4. Len(log'[L]) = Len(log[L]) + 1
      BY <1>t, <2>2 DEF TypeOK
    <3> QED BY <1>t, <1>f, <3>2, <3>3, <3>4 DEF End
  <2> QED BY <2>3, <2>4
<1>2. CASE ~\E r \in Request : WriteRecord(r)
  <2>1. log'[L] = log[L]
    BY <1>2, LeaderLog
  <2> QED BY <1>t, <1>m, <1>f, <2>1
<1> QED BY <1>1, <1>2

\* What the follower has and the leader does not is of the one request that is
\* being replicated.
LEMMA AheadStep ==
    ASSUME First, Len(meta') = 1
    PROVE  Ahead'
<1> USE DEF First
<1>t. /\ TypeOK /\ L \in Brokers /\ F \in Brokers
      /\ log[L] \in Seq(Record) /\ Len(log[L]) \in Nat
      /\ log[F] \in Seq(Record) /\ Len(log[F]) \in Nat
  BY LogsTyped, Placed DEF IndInv
<1>l. L' = L /\ F' = F
  BY DEF L, F
<1> SUFFICES ASSUME NoError', NEW j \in Len(log'[L])+1..Len(log'[F])
             PROVE  \E r \in Request : /\ pc'[r] \in Held /\ j <= End(r)'
                                       /\ log'[F][j] = <<r, j - base'[r]>>
  <2>1. Held' = Held
    BY DEF Held, Replicating
  <2> QED BY <1>l, <2>1 DEF Ahead, HeldRecord
<1>a. \A i \in Len(log[L])+1..Len(log[F]) : HeldRecord(i)
  BY ErrStays DEF FirstOK, Ahead
<1>e. \A r \in Request : pc[r] # "err" /\ pc'[r] # "err"
  BY ErrStays DEF NoError
<1>g. Len(log'[L]) \in Nat /\ Len(log'[F]) \in Nat /\ j \in Nat
  BY <1>t, LogLengths
<1>1. CASE L = F
  BY <1>g, <1>1
<1>2. ASSUME L # F, NEW r \in Request, WriteRecord(r)
      PROVE  \E q \in Request : /\ pc'[q] \in Held /\ j <= End(q)'
                                /\ log'[F][j] = <<q, j - base'[q]>>
  <2>1. /\ pc[r] = "writing"
        /\ pc'[r] = IF wrote[r] + 1 = cnt[r] THEN "ok" ELSE "writing"
        /\ log' = [log EXCEPT ![L] = Append(log[L], <<r, wrote[r] + 1>>)]
    BY <1>2, WriteFirst
  <2>2. Len(log'[L]) = Len(log[L]) + 1 /\ log'[F] = log[F]
    BY <1>t, <1>2, <2>1 DEF TypeOK
  <2>3. j \in Len(log[L])+1..Len(log[F]) /\ j > Len(log[L]) + 1
    BY <1>t, <2>2
  <2>4. PICK q \in Request : /\ pc[q] \in Held /\ j <= End(q)
                             /\ log[F][j] = <<q, j - base[q]>>
    BY <1>a, <2>3 DEF HeldRecord
  <2>5. q = r
    BY <2>1, <2>4, OneHolder DEF Held
  <2>6. UNCHANGED <<base[r], cnt[r]>> /\ End(r)' = End(r)
    BY <2>1, ReservedStable DEF End
  <2>7. /\ Len(log[L]) = base[r] + wrote[r]
        /\ base[r] \in Nat /\ wrote[r] \in Nat /\ cnt[r] \in Nat
    BY <1>t, <2>1 DEF FirstOK, AtEnd, Held, TypeOK
  <2>8. wrote[r] + 1 # cnt[r]
    BY <1>t, <2>3, <2>4, <2>5, <2>7, SMTT(30) DEF End
  <2> QED BY <2>1, <2>2, <2>4, <2>5, <2>6, <2>8 DEF Held
<1>3. ASSUME L # F, NEW r \in Request, HandleRecord(r)
      PROVE  \E q \in Request : /\ pc'[q] \in Held /\ j <= End(q)'
                                /\ log'[F][j] = <<q, j - base'[q]>>
  <2>1. /\ pc[r] \notin {"idle", "waiting", "asking", "sending", "writing"}
        /\ rpc[r] = "run" /\ cur[r] \in Nat
        /\ UNCHANGED <<pc, base, cnt>>
        /\ log' = [log EXCEPT ![F] = AppendAt(@, cur[r], RecordAt(r, cur[r]))]
    BY <1>3, HandleFirst
  <2>2. log'[L] = log[L] /\ log'[F] = AppendAt(log[F], cur[r], RecordAt(r, cur[r]))
    BY <1>t, <1>3, <2>1 DEF TypeOK
  <2>3. ASSUME j \in 1..Len(log[F]), log'[F][j] = log[F][j]
        PROVE  \E q \in Request : /\ pc'[q] \in Held /\ j <= End(q)'
                                  /\ log'[F][j] = <<q, j - base'[q]>>
    <3>1. HeldRecord(j)
      BY <1>a, <1>t, <2>2, <2>3
    <3> QED BY <2>1, <2>3, <3>1 DEF HeldRecord, End
  <2>4. CASE cur[r] # Len(log[F])
    <3>1. log'[F] = log[F]
      BY <2>2, <2>4 DEF AppendAt
    <3> QED BY <1>t, <2>3, <3>1
  <2>5. CASE cur[r] = Len(log[F])
    <3>1. log'[F] = Append(log[F], RecordAt(r, cur[r]))
      BY <2>2, <2>5 DEF AppendAt
    <3>2. Len(log'[F]) = cur[r] + 1
      BY <1>t, <2>5, <3>1
    <3>3. log'[F][cur[r] + 1] = RecordAt(r, cur[r])
      BY <1>t, <2>5, <3>1
    <3>4. pc[r] = "awaiting" /\ hi[r] <= End(r) /\ cur[r] < hi[r]
      BY <1>t, <1>e, <2>1 DEF TypeOK, Busy, Held, Replicating, Returned,
                              FirstOK, WithinOf, IndInv, CallOK
    <3>5. Len(log[L]) = base[r] /\ base[r] \in Nat /\ cnt[r] \in Nat
      BY <1>t, <3>4 DEF FirstOK, AtEnd, Held, Replicating, IndInv, HandlerOK, TypeOK
    <3>6. RecordAt(r, cur[r]) = <<r, cur[r] - base[r] + 1>>
      <4>1. ~(cur[r] < base[r])
        BY <1>t, <2>5, <3>5 DEF FirstOK, NotBehind
      <4> QED BY <4>1 DEF RecordAt
    <3>7. CASE j = cur[r] + 1
      <4>1. log'[F][j] = <<r, j - base[r]>>
        <5>1. cur[r] - base[r] + 1 = (cur[r] + 1) - base[r]
          BY <2>1, <3>5
        <5> QED BY <3>3, <3>6, <3>7, <5>1
      <4>2. j <= End(r)
        BY <1>t, <2>1, <3>4, <3>5, <3>7 DEF End, TypeOK
      <4> QED BY <2>1, <3>4, <4>1, <4>2 DEF End, Held, Replicating
    <3>8. CASE j # cur[r] + 1
      <4>1. j \in 1..Len(log[F])
        BY <1>t, <1>g, <2>1, <2>2, <2>5, <3>2, <3>8
      <4> QED BY <1>t, <2>3, <4>1, LogStep
    <3> QED BY <3>7, <3>8
  <2> QED BY <2>4, <2>5
<1>4. CASE log' = log
  <2>1. PICK q \in Request : /\ pc[q] \in Held /\ j <= End(q)
                             /\ log[F][j] = <<q, j - base[q]>>
    BY <1>a, <1>4 DEF HeldRecord
  <2>2. CASE WriteRecord(q)
    <3>1. log' = [log EXCEPT ![L] = Append(log[L], <<q, wrote[q] + 1>>)]
      BY <2>2, WriteFirst
    <3>2. Len(log'[L]) = Len(log[L]) + 1
      BY <1>t, <3>1 DEF TypeOK
    <3> QED BY <1>t, <1>4, <3>2
  <2>3. CASE ~WriteRecord(q)
    <3>1. pc'[q] \in Held
      BY <1>e, <2>1, <2>3, HeldStays
    <3>2. UNCHANGED <<base[q], cnt[q]>>
      BY <2>1, ReservedStable DEF Held, Replicating
    <3> QED BY <1>4, <2>1, <3>1, <3>2 DEF End
  <2> QED BY <2>2, <2>3
<1> QED BY <1>1, <1>2, <1>3, <1>4, LogFrom

\* What the leader writes is what stands at that offset on the follower.
LEMMA MirrorStep ==
    ASSUME First, Len(meta') = 1
    PROVE  Mirror'
<1> USE DEF First
<1>t. /\ TypeOK /\ L \in Brokers /\ F \in Brokers
      /\ log[L] \in Seq(Record) /\ Len(log[L]) \in Nat
      /\ log[F] \in Seq(Record) /\ Len(log[F]) \in Nat
  BY LogsTyped, Placed DEF IndInv
<1>l. L' = L /\ F' = F
  BY DEF L, F
<1> SUFFICES ASSUME NoError', NEW j \in 1..Len(log'[L])
             PROVE  log'[L][j] = log'[F][j]
  BY <1>l DEF Mirror
<1>1. CASE j \in 1..Len(log[L])
  <2>1. log[L][j] = log[F][j] /\ Len(log[L]) <= Len(log[F])
    BY <1>1, ErrStays DEF FirstOK, Mirror, NotBehind
  <2>2. j \in 1..Len(log[F])
    BY <1>t, <1>1, <2>1
  <2> QED BY <1>t, <1>1, <2>1, <2>2, LogStep
<1>2. CASE j \notin 1..Len(log[L])
  <2>1. CASE \A r \in Request : ~WriteRecord(r)
    BY <1>2, <2>1, LeaderLog
  <2>2. ASSUME NEW r \in Request, WriteRecord(r), L # F PROVE log'[L][j] = log'[F][j]
    <3>1. /\ pc[r] = "writing"
          /\ log' = [log EXCEPT ![L] = Append(log[L], <<r, wrote[r] + 1>>)]
      BY <2>2, WriteFirst
    <3>2. log'[L] = Append(log[L], <<r, wrote[r] + 1>>) /\ log'[F] = log[F]
      BY <1>t, <2>2, <3>1 DEF TypeOK
    <3>3. j = Len(log[L]) + 1 /\ log'[L][j] = <<r, wrote[r] + 1>>
      BY <1>t, <1>2, <3>2
    <3>4. j <= Len(log[F])
      <4>1. Len(log'[L]) = Len(log[L]) + 1
        BY <1>t, <3>2
      <4> QED BY <1>l, <3>2, <3>3, <4>1, NotBehindStep DEF NotBehind
    <3>5. HeldRecord(j)
      <4>1. j \in Len(log[L])+1..Len(log[F])
        BY <1>t, <3>3, <3>4
      <4> QED BY <4>1, ErrStays DEF FirstOK, Ahead
    <3>6. log[F][j] = <<r, j - base[r]>>
      BY <3>1, <3>5, OneHolder DEF HeldRecord, Held
    <3>7. /\ Len(log[L]) = base[r] + wrote[r]
          /\ base[r] \in Nat /\ wrote[r] \in Nat
      BY <1>t, <3>1 DEF FirstOK, AtEnd, Held, TypeOK
    <3>8. j - base[r] = wrote[r] + 1
      BY <3>3, <3>7
    <3> QED BY <3>2, <3>3, <3>6, <3>8
  <2>3. CASE L = F
    BY <2>3
  <2> QED BY <2>1, <2>2, <2>3
<1> QED BY <1>1, <1>2

-----------------------------------------------------------------------------
(***************************************************************************)
(* The theorems                                                            *)
(***************************************************************************)
\* FirstInv is FirstOK, said of the partition's assignment.
LEMMA FirstForm ==
    IndInv /\ Len(meta) = 1 /\ meta[1] = Placement(Partition)
        => (FirstInv <=> FirstOK)
<1> SUFFICES ASSUME IndInv, Len(meta) = 1, meta[1] = Placement(Partition)
             PROVE  FirstInv <=> FirstOK
  OBVIOUS
<1>p. L = meta[1].leader /\ F = meta[1].follower /\ L \in Brokers /\ F # None
  BY Placed DEF L, F
<1>t. Len(log[L]) \in Nat /\ Len(log[F]) \in Nat
  BY LogsTyped
<1>h. \A r \in Request : pc[r] \in Held \cup {"ok"} => pc[r] # "idle"
  BY DEF Held, Replicating
<1>1. SoleLeader <=> Sole
  BY <1>p DEF SoleLeader, Sole
<1>2. Sole => (WritesAtEnd <=> AtEnd)
  BY <1>h DEF WritesAtEnd, AtEnd, Sole
<1>3. Sole => (WroteOwn <=> \A r \in Request : OwnOf(r))
  BY <1>h DEF WroteOwn, OwnOf, Sole, Held
<1>4. CallsWithin <=> \A r \in Request : WithinOf(r)
  BY DEF CallsWithin, WithinOf
<1>5. AheadIsHeld <=> Ahead
  BY <1>p DEF AheadIsHeld, Ahead, NoError, HeldRecord
<1>6. FollowerNeverBehind <=> NotBehind
  BY <1>p DEF FollowerNeverBehind, NotBehind
<1>7. NotBehind => (MirrorUntilFailure <=> Mirror)
  <2>1. ASSUME NotBehind, NEW j \in 1..Len(log[L]) PROVE j <= Len(log[F])
    BY <1>t, <2>1 DEF NotBehind
  <2> QED BY <1>p, <2>1 DEF MirrorUntilFailure, Mirror, NoError
<1> QED BY <1>1, <1>2, <1>3, <1>4, <1>5, <1>6, <1>7 DEF FirstInv, FirstOK

\* At the start the logs are empty and nobody asks for anything.
LEMMA FirstInit == Init => FirstInv
<1> SUFFICES ASSUME Init PROVE FirstInv
  OBVIOUS
<1>1. IndInv /\ Len(meta) = 1 /\ meta[1] = Placement(Partition)
  BY InitInv DEF Init
<1>2. log[L] = << >> /\ log[F] = << >>
  BY Placed DEF Init
<1>3. FirstOK
  BY <1>1, <1>2 DEF Init, FirstOK, Sole, AtEnd, OwnOf, WithinOf, NotBehind, Ahead,
                    Mirror, Held, Replicating
<1> QED BY <1>1, <1>3, FirstForm

\* Every step keeps FirstInv.
LEMMA FirstStep == ASSUME IndInv, FirstInv, [Next]_vars PROVE FirstInv'
<1> SUFFICES ASSUME Len(meta') = 1 PROVE FirstInv'
  BY DEF FirstInv
<1>1. Len(meta) = 1 /\ meta' = meta
  BY MetaFrom
<1>2. meta[1] = Placement(Partition)
  BY <1>1 DEF FirstInv
<1>3. First
  BY <1>1, <1>2, FirstForm DEF First
<1>4. FirstOK'
  <2>1. (Placement(Partition))' = Placement(Partition)
    BY DEF Placement
  <2> QED BY <1>1, <1>2, <1>3, <2>1, SoleStep, AtEndStep, OwnOfStep, WithinOfStep,
             NotBehindStep, AheadStep, MirrorStep DEF FirstOK
<1>5. IndInv' /\ meta'[1] = Placement(Partition)
  BY <1>1, <1>2, StepInv
<1>6. (IndInv /\ Len(meta) = 1 /\ meta[1] = Placement(Partition)
         => (FirstInv <=> FirstOK))'
  BY FirstForm, PTL
<1>7. (Placement(Partition))' = Placement(Partition)
  BY DEF Placement
<1> QED BY <1>4, <1>5, <1>6, <1>7

\* As long as the partition is not reassigned, one broker writes, at the end of
\* its log, what it has sent to one follower before: for every number of
\* brokers and requests, whatever calls fail and brokers crash and restart.
THEOREM FirstLeader == Spec => []FirstInv
<1>1. Init => FirstInv
  BY FirstInit
<1>2. IndInv /\ FirstInv /\ [Next]_vars => FirstInv'
  BY FirstStep
<1> QED BY <1>1, <1>2, Invariance, PTL DEF Spec

\* Until then the leader has what it acknowledged.
LEMMA OwnAcked == ASSUME IndInv, FirstInv PROVE AckedOnLeader
<1> SUFFICES ASSUME Len(meta) = 1, NEW r \in Request, pc[r] = "ok"
             PROVE  Holds(at[r], r)
  BY DEF AckedOnLeader, Acked
<1>1. WroteOwn
  BY DEF FirstInv
<1>2. wrote[r] = cnt[r] /\ \A i \in 1..wrote[r] : log[at[r]][base[r] + i] = <<r, i>>
  BY <1>1 DEF WroteOwn
<1>3. Len(log[at[r]]) >= End(r)
  BY DEF IndInv, AckedOffsetsFilled, Acked
<1> QED BY <1>2, <1>3 DEF Holds

\* Until a partition is reassigned, what its leader acknowledged stands in the
\* leader's log, in the order it was sent: a reader is never handed other
\* records at these offsets, and none is missing.
THEOREM AckedKept == Spec => []AckedOnLeader
<1>1. IndInv /\ FirstInv => AckedOnLeader
  BY OwnAcked
<1> QED BY <1>1, Invariance, FirstLeader, PTL

\* Until then the follower's log is never shorter than the leader's.
THEOREM NeverBehind == Spec => []FollowerNeverBehind
<1>1. FirstInv => FollowerNeverBehind
  BY DEF FirstInv, FollowerNeverBehind
<1> QED BY <1>1, FirstLeader, PTL

\* Until a request fails or the partition is reassigned, the leader's log is a
\* prefix of the follower's: the follower could take over with every record.
THEOREM MirrorHolds == Spec => []MirrorUntilFailure
<1>1. FirstInv => MirrorUntilFailure
  BY DEF FirstInv, MirrorUntilFailure
<1> QED BY <1>1, FirstLeader, PTL
=============================================================================
