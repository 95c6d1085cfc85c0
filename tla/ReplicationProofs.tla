-------------------------- MODULE ReplicationProofs --------------------------
(***************************************************************************)
(* The invariants of module Replication, for any number of brokers, any    *)
(* set of requests and any bounds.                                         *)
(***************************************************************************)
EXTENDS Replication, MetadataProofs

Record == Request \X (Nat \ {0})

-----------------------------------------------------------------------------
(***************************************************************************)
(* AppendAt                                                                *)
(***************************************************************************)

\* AppendAt leaves a log a log.
LEMMA AppendAtType ==
    ASSUME NEW S, NEW l \in Seq(S), NEW o \in Nat, NEW x \in S
    PROVE  AppendAt(l, o, x) \in Seq(S)
  BY DEF AppendAt

\* What a handler sends or writes is a record, at the offset its leader
\* reserved for it.
LEMMA RecordAtOffset ==
    ASSUME IndInv, NEW r \in Request, pc[r] \notin {"idle", "waiting"},
           NEW o \in Nat
    PROVE  LET x == RecordAt(r, o)
           IN  /\ x \in Record
               /\ o + 1 = base[x[1]] + x[2]
               /\ pc[x[1]] \notin {"idle", "waiting"}
<1>1. at[r] \in Brokers /\ base[r] \in Nat /\ base[r] <= Len(log[at[r]])
  BY DEF IndInv, HandlerOK, TypeOK
<1>2. log[at[r]] \in Seq(Record)
  BY <1>1 DEF IndInv, TypeOK, Record
<1>3. CASE o < base[r]
  <2>1. o + 1 \in 1..Len(log[at[r]])
    BY <1>1, <1>2, <1>3
  <2>2. log[at[r]][o + 1] \in Record
    BY <1>2, <2>1
  <2> QED BY <1>1, <1>3, <2>1, <2>2
          DEF RecordAt, IndInv, RecordsAtTheirOffset, RecordsReserved
<1>4. CASE ~(o < base[r])
  BY <1>1, <1>4 DEF RecordAt, Record
<1> QED BY <1>3, <1>4

-----------------------------------------------------------------------------
(***************************************************************************)
(* Type correctness                                                        *)
(***************************************************************************)
\* At the start nothing is reserved and one assignment is committed.
LEMMA InitType == Init => TypeOK
<1> SUFFICES ASSUME Init PROVE TypeOK
  OBVIOUS
<1>1. meta \in Seq(Assignment) /\ Len(meta) = 1
  <2>1. Placement(Partition) \in Assignment
    BY PartitionAssumption, PlacementType DEF Partitions
  <2> QED BY <2>1 DEF Init
<1>2. log \in [Brokers -> Seq(Request \X (Nat \ {0}))]
  BY DEF Init
<1> QED BY <1>1, <1>2 DEF Init, TypeOK, Busy, Held, Replicating

\* Every step keeps the handlers, calls, logs and metadata well formed.
LEMMA TypeStep ==
    ASSUME IndInv, [Next]_vars
    PROVE  TypeOK'
<1> USE DEF Busy, Held, Replicating, Returned, vars, logVars, callVars, reqVars,
            boundVars
<1>t. TypeOK
  BY DEF IndInv
<1>1. CASE UNCHANGED vars
  BY <1>t, <1>1 DEF TypeOK
<1>2. ASSUME NEW r \in Request, NEW b \in Brokers, Produce(r, b) \/ ProduceBatch(r, b)
      PROVE  TypeOK'
  <2>1. \E k \in Nat, single \in BOOLEAN : Begin(r, b, k, single)
    <3>1. CASE Produce(r, b)
      BY <3>1, Zenon DEF Produce
    <3>2. CASE ProduceBatch(r, b)
      <4>1. PICK k \in 1..MaxBatch : Begin(r, b, k, FALSE)
        BY <3>2 DEF ProduceBatch
      <4>2. k \in Nat
        BY BoundAssumption
      <4> QED BY <4>1, <4>2, Zenon
    <3> QED BY <1>2, <3>1, <3>2
  <2>2. PICK k \in Nat, single \in BOOLEAN : Begin(r, b, k, single)
    BY <2>1
  <2>3. meta[view[b]] \in Assignment
    BY <1>t, <2>2 DEF TypeOK, Begin
  <2> QED BY <1>t, <2>2, <2>3 DEF TypeOK, Begin, Assignment
<1>3. ASSUME NEW r \in Request, Acquire(r) PROVE TypeOK'
  <2>1. at[r] \in Brokers
    BY <1>3 DEF IndInv, HandlerOK, Acquire
  <2>2. Len(log[at[r]]) \in Nat
    BY <1>t, <2>1 DEF TypeOK
  <2> QED BY <1>t, <1>3, <2>2 DEF TypeOK, Acquire
<1>4. ASSUME NEW r \in Request, AskFollower(r) PROVE TypeOK'
  <2>1. fol[r] \in Brokers
    BY <1>t, <1>4 DEF IndInv, HandlerOK, AskFollower, Replicates, TypeOK
  <2>2. Len(log[fol[r]]) \in Nat
    BY <1>t, <2>1 DEF TypeOK
  <2> QED BY <1>t, <1>4, <2>2 DEF TypeOK, AskFollower
<1>5. ASSUME NEW r \in Request, Send(r) PROVE TypeOK'
  <2>1. CallEnd(r) \in Nat
    BY <1>t DEF TypeOK, CallEnd
  <2> QED BY <1>t, <1>5, <2>1 DEF TypeOK, Send
<1>6. ASSUME NEW r \in Request, ReceiveAck(r) PROVE TypeOK'
  BY <1>t, <1>6 DEF TypeOK, ReceiveAck
<1>7. ASSUME NEW r \in Request, CallFails(r) \/ CallBreaks(r) \/ WriteFails(r)
      PROVE  TypeOK'
  <2>1. pc' = [pc EXCEPT ![r] = "err"] /\ lock' = [lock EXCEPT ![at[r]] = NoRequest]
    BY <1>7 DEF CallFails, CallBreaks, WriteFails, Return
  <2>2. faults' \in Nat
    BY <1>t, <1>7 DEF CallFails, CallBreaks, WriteFails, TypeOK
  <2>3. UNCHANGED <<logVars, callVars, reqVars, crashes, wrote>>
    BY <1>7 DEF CallFails, CallBreaks, WriteFails
  <2> QED BY <1>t, <2>1, <2>2, <2>3 DEF TypeOK
<1>8. ASSUME NEW r \in Request, WriteRecord(r) PROVE TypeOK'
  <2> DEFINE o == base[r] + wrote[r]
             x == <<r, wrote[r] + 1>>
  <2>1. o \in Nat /\ at[r] \in Brokers /\ x \in Record
    <3>1. at[r] \in Brokers
      BY <1>8 DEF IndInv, HandlerOK, WriteRecord
    <3>2. base[r] \in Nat /\ wrote[r] \in Nat
      BY <1>t DEF TypeOK
    <3> QED BY <3>1, <3>2 DEF Record
  <2>2. AppendAt(log[at[r]], o, x) \in Seq(Record)
    <3>1. log[at[r]] \in Seq(Record)
      BY <1>t, <2>1 DEF TypeOK, Record
    <3> HIDE DEF x, o
    <3> QED BY <2>1, <3>1, AppendAtType
  <2>3. log' \in [Brokers -> Seq(Record)]
    BY <1>t, <1>8, <2>1, <2>2 DEF TypeOK, WriteRecord, Record
  <2> QED BY <1>t, <1>8, <2>1, <2>3 DEF TypeOK, WriteRecord, Return, Record
<1>9. ASSUME NEW r \in Request, HandleRecord(r) PROVE TypeOK'
  <2> DEFINE x == RecordAt(r, cur[r])
  <2>1. cur[r] \in Nat /\ fol[r] \in Brokers /\ x \in Record
    <3>1. rpc[r] = "run" /\ cur[r] \in Nat
      BY <1>t, <1>9 DEF HandleRecord, TypeOK
    <3>2. fol[r] \in Brokers /\ pc[r] \notin {"idle", "waiting"}
      BY <1>t, <3>1 DEF IndInv, CallOK, TypeOK, Replicates
    <3> QED BY <3>1, <3>2, RecordAtOffset
  <2>2. AppendAt(log[fol[r]], cur[r], x) \in Seq(Record)
    <3>1. log[fol[r]] \in Seq(Record)
      BY <1>t, <2>1 DEF TypeOK, Record
    <3> HIDE DEF x
    <3> QED BY <2>1, <3>1, AppendAtType
  <2>3. log' \in [Brokers -> Seq(Record)]
    BY <1>t, <1>9, <2>1, <2>2 DEF TypeOK, HandleRecord, Record
  <2>4. /\ cur' \in [Request -> Nat]
        /\ rpc' \in [Request -> {"none", "run", "ack", "failed"}]
    BY <1>t, <1>9, <2>1 DEF TypeOK, HandleRecord
  <2> QED BY <1>t, <1>9, <2>3, <2>4 DEF TypeOK, HandleRecord, Record
<1>10. ASSUME NEW r \in Request, HandleFails(r) PROVE TypeOK'
  BY <1>t, <1>10, SMTT(30) DEF TypeOK, HandleFails
<1>11. ASSUME NEW b \in Brokers, Crash(b) PROVE TypeOK'
  BY <1>t, <1>11 DEF TypeOK, Crash
<1>12. ASSUME NEW b \in Brokers, Restart(b) \/ ApplyAssignment(b) PROVE TypeOK'
  <2>1. CASE Restart(b)
    BY <1>t, <2>1 DEF TypeOK, Restart
  <2>2. CASE ApplyAssignment(b)
    BY <1>t, <2>2 DEF TypeOK, ApplyAssignment
  <2> QED BY <1>12, <2>1, <2>2
<1>13. CASE ReassignPartition
  <2>1. PICK alive \in SUBSET Brokers :
           LET new == Repair(meta[Len(meta)], alive, alive)
           IN  meta' = Append(meta, new)
    BY <1>13 DEF ReassignPartition, Up
  <2>2. meta[Len(meta)] \in Assignment
    BY <1>t DEF TypeOK
  <2>3. meta' \in Seq(Assignment) /\ Len(meta') = Len(meta) + 1
    BY <1>t, <2>1, <2>2, RepairType DEF TypeOK
  <2> QED BY <1>t, <1>13, <2>3 DEF TypeOK, ReassignPartition
<1> QED BY <1>1, <1>2, <1>3, <1>4, <1>5, <1>6, <1>7, <1>8, <1>9, <1>10, <1>11,
           <1>12, <1>13 DEF Next

-----------------------------------------------------------------------------
(***************************************************************************)
(* What every step leaves alone                                            *)
(***************************************************************************)

\* Once a handler holds its offsets, nothing of what it was called with and of
\* what it reserved changes any more.
LEMMA ReservedStable ==
    ASSUME IndInv, [Next]_vars,
           NEW s \in Request, pc[s] \notin {"idle", "waiting"}
    PROVE  /\ pc'[s] \notin {"idle", "waiting"}
           /\ UNCHANGED <<at[s], fol[s], cnt[s], base[s], one[s]>>
<1> USE DEF vars, logVars, callVars, reqVars, boundVars
<1>t. TypeOK
  BY DEF IndInv
<1>1. CASE UNCHANGED vars
  BY <1>1
<1>2. ASSUME NEW r \in Request, NEW b \in Brokers, Produce(r, b) \/ ProduceBatch(r, b)
      PROVE  /\ pc'[s] \notin {"idle", "waiting"}
             /\ UNCHANGED <<at[s], fol[s], cnt[s], base[s], one[s]>>
  <2>1. \E k, single : Begin(r, b, k, single)
    BY <1>2, Zenon DEF Produce, ProduceBatch
  <2> QED BY <1>t, <2>1 DEF TypeOK, Begin
<1>3. ASSUME NEW r \in Request, Acquire(r)
      PROVE  /\ pc'[s] \notin {"idle", "waiting"}
             /\ UNCHANGED <<at[s], fol[s], cnt[s], base[s], one[s]>>
  BY <1>t, <1>3 DEF TypeOK, Acquire
<1>4. ASSUME NEW r \in Request,
             \/ AskFollower(r) \/ Send(r) \/ ReceiveAck(r) \/ CallFails(r)
             \/ CallBreaks(r) \/ WriteRecord(r) \/ WriteFails(r)
             \/ HandleRecord(r) \/ HandleFails(r)
      PROVE  /\ pc'[s] \notin {"idle", "waiting"}
             /\ UNCHANGED <<at[s], fol[s], cnt[s], base[s], one[s]>>
  <2>1. UNCHANGED reqVars
    BY <1>4 DEF AskFollower, Send, ReceiveAck, CallFails, CallBreaks, WriteRecord,
                WriteFails, HandleRecord, HandleFails
  <2>2. pc' = pc \/ \E x \in Held \cup Returned : pc' = [pc EXCEPT ![r] = x]
    BY <1>4 DEF AskFollower, Send, ReceiveAck, CallFails, CallBreaks, WriteRecord,
                WriteFails, HandleRecord, HandleFails, Return,
                Held, Replicating, Returned
  <2> QED BY <1>t, <2>1, <2>2 DEF TypeOK, Held, Replicating, Returned
<1>5. ASSUME NEW b \in Brokers, Crash(b)
      PROVE  /\ pc'[s] \notin {"idle", "waiting"}
             /\ UNCHANGED <<at[s], fol[s], cnt[s], base[s], one[s]>>
  BY <1>t, <1>5 DEF TypeOK, Crash
<1>6. CASE \/ \E b \in Brokers : Restart(b) \/ ApplyAssignment(b)
           \/ ReassignPartition
  BY <1>6 DEF Restart, ApplyAssignment, ReassignPartition
<1> QED BY <1>1, <1>2, <1>3, <1>4, <1>5, <1>6 DEF Next

\* Only a leader's local write and a follower's handler write to a log.
LEMMA LogFrom ==
    ASSUME [Next]_vars
    PROVE  log' = log \/ \E r \in Request : WriteRecord(r) \/ HandleRecord(r)
<1> USE DEF logVars
<1>1. CASE UNCHANGED vars
  BY <1>1 DEF vars
<1>2. ASSUME NEW r \in Request, NEW c \in Brokers, Produce(r, c) \/ ProduceBatch(r, c)
      PROVE  log' = log
  BY <1>2 DEF Produce, ProduceBatch, Begin
<1>3. ASSUME NEW r \in Request,
             \/ Acquire(r) \/ AskFollower(r) \/ Send(r) \/ ReceiveAck(r)
             \/ CallFails(r) \/ CallBreaks(r) \/ WriteFails(r) \/ HandleFails(r)
      PROVE  log' = log
  BY <1>3 DEF Acquire, AskFollower, Send, ReceiveAck, CallFails, CallBreaks,
              WriteFails, HandleFails
<1>4. CASE \/ \E c \in Brokers : Crash(c) \/ Restart(c) \/ ApplyAssignment(c)
           \/ ReassignPartition
  BY <1>4 DEF Crash, Restart, ApplyAssignment, ReassignPartition
<1> QED BY <1>1, <1>2, <1>3, <1>4 DEF Next

\* Logs only grow, and by records that stand at the offsets reserved for them.
LEMMA LogStep ==
    ASSUME IndInv, [Next]_vars, NEW b \in Brokers
    PROVE  /\ Len(log'[b]) >= Len(log[b])
           /\ \A j \in 1..Len(log[b]) : log'[b][j] = log[b][j]
           /\ \A j \in 1..Len(log'[b]) :
                j \notin 1..Len(log[b]) =>
                    /\ log'[b][j] \in Record
                    /\ j = base[log'[b][j][1]] + log'[b][j][2]
                    /\ pc[log'[b][j][1]] \notin {"idle", "waiting"}
<1> DEFINE Grown == 
           /\ Len(log'[b]) >= Len(log[b])
           /\ \A j \in 1..Len(log[b]) : log'[b][j] = log[b][j]
           /\ \A j \in 1..Len(log'[b]) :
                j \notin 1..Len(log[b]) =>
                    /\ log'[b][j] \in Record
                    /\ j = base[log'[b][j][1]] + log'[b][j][2]
                    /\ pc[log'[b][j][1]] \notin {"idle", "waiting"}
<1>t. TypeOK /\ log[b] \in Seq(Record) /\ Len(log[b]) \in Nat
  BY DEF IndInv, TypeOK, Record
<1>1. CASE log' = log
  BY <1>t, <1>1
<1>2. ASSUME NEW f \in Brokers, NEW o \in Nat, NEW x \in Record,
             log' = [log EXCEPT ![f] = AppendAt(@, o, x)],
             o + 1 = base[x[1]] + x[2], pc[x[1]] \notin {"idle", "waiting"}
      PROVE  Grown
  <2>1. CASE f = b
    <3>1. log'[b] = AppendAt(log[b], o, x)
      BY <1>t, <1>2, <2>1 DEF TypeOK
    <3>2. CASE o = Len(log[b])
      <4>1. log'[b] = Append(log[b], x)
        BY <3>1, <3>2 DEF AppendAt
      <4>2. \A j \in 1..Len(log'[b]) :
              j \notin 1..Len(log[b]) => j = o + 1 /\ log'[b][j] = x
        BY <1>t, <1>2, <3>2, <4>1
      <4> QED BY <1>t, <1>2, <4>1, <4>2
    <3>3. CASE o # Len(log[b])
      BY <1>t, <3>1, <3>3 DEF AppendAt
    <3> QED BY <3>2, <3>3
  <2>2. CASE f # b
    <3>1. log'[b] = log[b]
      BY <1>t, <1>2, <2>2 DEF TypeOK
    <3> QED BY <1>t, <3>1
  <2> QED BY <2>1, <2>2
<1>3. ASSUME NEW r \in Request, WriteRecord(r) PROVE Grown
  <2> DEFINE o == base[r] + wrote[r]
             x == <<r, wrote[r] + 1>>
  <2>1. at[r] \in Brokers /\ pc[r] = "writing"
    BY <1>3 DEF IndInv, HandlerOK, WriteRecord
  <2>2. base[r] \in Nat /\ wrote[r] \in Nat
    BY <1>t DEF TypeOK
  <2>3. o \in Nat /\ x \in Record /\ o + 1 = base[x[1]] + x[2] /\ x[1] = r
    BY <2>2 DEF Record
  <2>4. log' = [log EXCEPT ![at[r]] = AppendAt(@, o, x)]
    BY <1>3 DEF WriteRecord
  <2>5. pc[x[1]] \notin {"idle", "waiting"}
    BY <2>1, <2>3
  <2> HIDE DEF o, x, Grown
  <2> QED BY <1>2, <2>1, <2>3, <2>4, <2>5
<1>4. ASSUME NEW r \in Request, HandleRecord(r) PROVE Grown
  <2> DEFINE x == RecordAt(r, cur[r])
  <2>1. rpc[r] = "run" /\ cur[r] \in Nat
    BY <1>t, <1>4 DEF HandleRecord, TypeOK
  <2>2. fol[r] \in Brokers /\ pc[r] \notin {"idle", "waiting"}
    BY <1>t, <2>1 DEF IndInv, CallOK, TypeOK, Replicates
  <2>3. x \in Record /\ cur[r] + 1 = base[x[1]] + x[2]
        /\ pc[x[1]] \notin {"idle", "waiting"}
    BY <2>1, <2>2, RecordAtOffset
  <2>4. log' = [log EXCEPT ![fol[r]] = AppendAt(@, cur[r], x)]
    BY <1>4 DEF HandleRecord
  <2> HIDE DEF x, Grown
  <2> QED BY <1>2, <2>1, <2>2, <2>3, <2>4
<1> QED BY <1>1, <1>3, <1>4, LogFrom

-----------------------------------------------------------------------------
(***************************************************************************)
(* A step, as one request sees it                                          *)
(***************************************************************************)
Untouched(s) ==
    UNCHANGED <<pc[s], rpc[s], at[s], fol[s], one[s], cnt[s], base[s], wrote[s],
                cur[s], hi[s]>>

OwnStep(s) ==
    \/ \E b \in Brokers, k \in Nat \ {0}, single \in BOOLEAN : Begin(s, b, k, single)
    \/ Acquire(s) \/ AskFollower(s) \/ Send(s) \/ ReceiveAck(s) \/ CallFails(s)
    \/ CallBreaks(s) \/ WriteRecord(s) \/ WriteFails(s)
    \/ HandleRecord(s) \/ HandleFails(s)

\* A step is one of the request's own, a crash, or leaves the request alone.
LEMMA StepOfRequest ==
    ASSUME TypeOK, [Next]_vars, NEW s \in Request
    PROVE  OwnStep(s) \/ (\E b \in Brokers : Crash(b)) \/ Untouched(s)
<1> USE DEF vars, logVars, callVars, reqVars, boundVars
<1>1. CASE UNCHANGED vars
  BY <1>1 DEF Untouched
<1>2. ASSUME NEW r \in Request, NEW b \in Brokers, Produce(r, b) \/ ProduceBatch(r, b)
      PROVE  OwnStep(s) \/ Untouched(s)
  <2>1. \E k \in Nat \ {0}, single \in BOOLEAN : Begin(r, b, k, single)
    <3>1. CASE Produce(r, b)
      <4>1. 1 \in Nat \ {0}
        OBVIOUS
      <4> QED BY <3>1, <4>1, Zenon DEF Produce
    <3>2. CASE ProduceBatch(r, b)
      <4>1. PICK k \in 1..MaxBatch : Begin(r, b, k, FALSE)
        BY <3>2 DEF ProduceBatch
      <4>2. k \in Nat \ {0}
        BY BoundAssumption
      <4> QED BY <4>1, <4>2, Zenon
    <3> QED BY <1>2, <3>1, <3>2
  <2>2. CASE r = s
    BY <2>1, <2>2, Zenon DEF OwnStep
  <2>3. CASE r # s
    BY <2>1, <2>3 DEF Begin, TypeOK, Untouched
  <2> QED BY <2>2, <2>3
<1>3. ASSUME NEW r \in Request,
             \/ Acquire(r) \/ AskFollower(r) \/ Send(r) \/ ReceiveAck(r) \/ CallFails(r)
             \/ CallBreaks(r) \/ WriteRecord(r) \/ WriteFails(r)
             \/ HandleRecord(r) \/ HandleFails(r)
      PROVE  OwnStep(s) \/ Untouched(s)
  <2>1. CASE r = s
    BY <1>3, <2>1, Zenon DEF OwnStep
  <2>2. CASE r # s
    <3>1. CASE Acquire(r) \/ AskFollower(r) \/ Send(r) \/ ReceiveAck(r)
      BY <2>2, <3>1 DEF Acquire, AskFollower, Send, ReceiveAck, TypeOK, Untouched
    <3>2. CASE CallFails(r) \/ CallBreaks(r) \/ WriteFails(r)
      BY <2>2, <3>2 DEF CallFails, CallBreaks, WriteFails, Return, TypeOK, Untouched
    <3>3. CASE WriteRecord(r)
      BY <2>2, <3>3 DEF WriteRecord, Return, TypeOK, Untouched
    <3>4. CASE HandleRecord(r) \/ HandleFails(r)
      BY <2>2, <3>4 DEF HandleRecord, HandleFails, TypeOK, Untouched
    <3> QED BY <1>3, <3>1, <3>2, <3>3, <3>4
  <2> QED BY <2>1, <2>2
<1>4. CASE \/ \E b \in Brokers : Restart(b) \/ ApplyAssignment(b)
           \/ ReassignPartition
  BY <1>4 DEF Restart, ApplyAssignment, ReassignPartition, Untouched
<1> QED BY <1>1, <1>2, <1>3, <1>4 DEF Next

-----------------------------------------------------------------------------
(***************************************************************************)
(* The parts of the inductive invariant                                    *)
(***************************************************************************)

\* Records stay where they are, and the offsets they stand at stay reserved.
LEMMA RecordsStep ==
    ASSUME IndInv, [Next]_vars
    PROVE  RecordsAtTheirOffset' /\ RecordsReserved'
<1> SUFFICES ASSUME NEW b \in Brokers, NEW j \in 1..Len(log'[b])
             PROVE  LET x == log'[b][j]
                    IN  j = base'[x[1]] + x[2] /\ pc'[x[1]] \notin {"idle", "waiting"}
  BY DEF RecordsAtTheirOffset, RecordsReserved
<1> DEFINE x == log'[b][j]
<1>1. TypeOK /\ RecordsAtTheirOffset /\ RecordsReserved
  BY DEF IndInv
<1>2. /\ x \in Record
      /\ j = base[x[1]] + x[2]
      /\ pc[x[1]] \notin {"idle", "waiting"}
  <2>1. CASE j \in 1..Len(log[b])
    <3>1. x = log[b][j]
      BY <2>1, LogStep
    <3>2. x \in Record
      BY <1>1, <2>1, <3>1 DEF TypeOK, Record
    <3> QED BY <1>1, <2>1, <3>1, <3>2 DEF RecordsAtTheirOffset, RecordsReserved
  <2>2. CASE j \notin 1..Len(log[b])
    BY <2>2, LogStep
  <2> QED BY <2>1, <2>2
<1>3. x[1] \in Request
  BY <1>2 DEF Record
<1>4. base'[x[1]] = base[x[1]] /\ pc'[x[1]] \notin {"idle", "waiting"}
  BY <1>2, <1>3, ReservedStable
<1> QED BY <1>2, <1>4

\* Only the holder of a broker's produceLock gets past it, and it keeps it until
\* it returns or its broker crashes.
LEMMA LockStep ==
    ASSUME IndInv, [Next]_vars
    PROVE  LockHeld'
<1> USE DEF vars, logVars, callVars, reqVars, boundVars, Held, Replicating
<1>t. TypeOK /\ LockHeld
  BY DEF IndInv
<1>1. CASE UNCHANGED vars
  BY <1>t, <1>1 DEF LockHeld
<1>2. ASSUME NEW r \in Request, NEW b \in Brokers, Produce(r, b) \/ ProduceBatch(r, b)
      PROVE  LockHeld'
  <2>1. \E k, single : Begin(r, b, k, single)
    BY <1>2, Zenon DEF Produce, ProduceBatch
  <2> QED BY <1>t, <2>1 DEF TypeOK, LockHeld, Begin
<1>3. ASSUME NEW r \in Request, Acquire(r) PROVE LockHeld'
  <2>1. at[r] \in Brokers
    BY <1>3 DEF IndInv, HandlerOK, Acquire
  <2> QED BY <1>t, <1>3, <2>1, RequestAssumption DEF TypeOK, LockHeld, Acquire
<1>4. ASSUME NEW r \in Request,
             AskFollower(r) \/ Send(r) \/ ReceiveAck(r) \/ HandleRecord(r) \/ HandleFails(r)
      PROVE  LockHeld'
  <2>1. UNCHANGED <<lock, at>>
    BY <1>4 DEF AskFollower, Send, ReceiveAck, HandleRecord, HandleFails
  <2>2. pc' = pc \/ (pc[r] \in Held /\ \E x : pc' = [pc EXCEPT ![r] = x])
    BY <1>4 DEF AskFollower, Send, ReceiveAck, HandleRecord, HandleFails
  <2>3. \A s \in Request : pc'[s] \in Held => pc[s] \in Held
    BY <1>t, <2>2 DEF TypeOK
  <2> QED BY <1>t, <2>1, <2>3 DEF LockHeld
<1>5. ASSUME NEW r \in Request, pc[r] \in Held, NEW x \in Returned, Return(r, x),
             UNCHANGED at
      PROVE  LockHeld'
  <2>1. at[r] \in Brokers
    BY <1>5 DEF IndInv, HandlerOK
  <2>2. /\ pc' = [pc EXCEPT ![r] = x] /\ x \notin Held
        /\ lock' = [lock EXCEPT ![at[r]] = NoRequest]
    BY <1>5 DEF Return, Returned
  <2>3. /\ pc'[r] = x
        /\ \A s \in Request \ {r} : pc'[s] = pc[s]
        /\ \A b \in Brokers \ {at[r]} : lock'[b] = lock[b]
    BY <1>t, <2>1, <2>2 DEF TypeOK
  <2>4. SUFFICES ASSUME NEW s \in Request, pc'[s] \in Held
                 PROVE  lock'[at[s]] = s
    BY <1>5 DEF LockHeld
  <2>5. s # r /\ pc[s] \in Held
    BY <2>2, <2>3, <2>4
  <2>6. lock[at[s]] = s /\ lock[at[r]] = r /\ at[s] \in Brokers
    BY <1>t, <1>5, <2>5 DEF LockHeld, IndInv, HandlerOK
  <2> QED BY <2>3, <2>5, <2>6
<1>6. ASSUME NEW r \in Request,
             CallFails(r) \/ CallBreaks(r) \/ WriteFails(r) \/ WriteRecord(r)
      PROVE  LockHeld'
  <2>1. pc[r] \in Held /\ UNCHANGED at
    BY <1>6 DEF CallFails, CallBreaks, WriteFails, WriteRecord
  <2>2. Return(r, "err") \/ Return(r, "ok") \/ UNCHANGED <<pc, lock>>
    BY <1>6 DEF CallFails, CallBreaks, WriteFails, WriteRecord
  <2>3. CASE UNCHANGED <<pc, lock>>
    BY <1>t, <2>1, <2>3 DEF LockHeld
  <2> QED BY <1>5, <2>1, <2>2, <2>3 DEF Returned
<1>7. ASSUME NEW b \in Brokers, Crash(b) PROVE LockHeld'
  <2>1. \A r \in Request : pc'[r] \in Held => pc[r] \in Held /\ at[r] # b
    BY <1>t, <1>7 DEF TypeOK, Crash, Busy
  <2> QED BY <1>t, <1>7, <2>1 DEF TypeOK, Crash, LockHeld
<1>8. CASE \/ \E b \in Brokers : Restart(b) \/ ApplyAssignment(b)
           \/ ReassignPartition
  BY <1>t, <1>8 DEF Restart, ApplyAssignment, ReassignPartition, LockHeld
<1> QED BY <1>1, <1>2, <1>3, <1>4, <1>6, <1>7, <1>8 DEF Next

\* The length of a log of any broker, now and after the step.
LEMMA LogLengths ==
    ASSUME IndInv, [Next]_vars, NEW b \in Brokers
    PROVE  /\ Len(log[b]) \in Nat /\ Len(log'[b]) \in Nat
           /\ Len(log'[b]) >= Len(log[b])
<1>1. TypeOK /\ TypeOK'
  BY TypeStep DEF IndInv
<1> QED BY <1>1, LogStep DEF TypeOK

\* The appending of the leader makes its log longer than the offset.
LEMMA WriteRecordGrows ==
    ASSUME IndInv, NEW s \in Request, WriteRecord(s)
    PROVE  /\ at[s] \in Brokers
           /\ ~Refused(log[at[s]], base[s] + wrote[s])
           /\ Len(log'[at[s]]) > base[s] + wrote[s]
<1>1. /\ at[s] \in Brokers
      /\ base[s] \in Nat /\ wrote[s] \in Nat
      /\ base[s] + wrote[s] <= Len(log[at[s]])
  BY DEF IndInv, TypeOK, HandlerOK, WriteRecord
<1>2. log[at[s]] \in Seq(Record) /\ Len(log[at[s]]) \in Nat
  BY <1>1 DEF IndInv, TypeOK, Record
<1>3. log'[at[s]] = AppendAt(log[at[s]], base[s] + wrote[s], <<s, wrote[s] + 1>>)
  BY <1>1 DEF IndInv, TypeOK, WriteRecord
<1>4. <<s, wrote[s] + 1>> \in Record
  BY <1>1 DEF Record
<1>5. Len(log'[at[s]]) > base[s] + wrote[s]
  <2> DEFINE o == base[s] + wrote[s]
  <2>1. CASE o = Len(log[at[s]])
    <3>1. log'[at[s]] = Append(log[at[s]], <<s, wrote[s] + 1>>)
      BY <1>3, <2>1 DEF AppendAt
    <3> QED BY <1>1, <1>2, <1>4, <2>1, <3>1
  <2>2. CASE o # Len(log[at[s]])
    BY <1>1, <1>2, <1>3, <2>2 DEF AppendAt
  <2> QED BY <2>1, <2>2
<1> QED BY <1>1, <1>2, <1>5 DEF Refused

HandlerOKOf(s) ==
    /\ pc[s] # "idle" => at[s] \in Brokers /\ cnt[s] > 0
    /\ pc[s] \in Replicating => Replicates(s)
    /\ pc[s] \in {"idle", "waiting"} => base[s] = 0
    /\ pc[s] \notin {"idle", "waiting"} => base[s] <= Len(log[at[s]])
    /\ pc[s] \in {"idle", "waiting"} \cup Replicating => wrote[s] = 0
    /\ pc[s] = "writing" => wrote[s] < cnt[s] /\ base[s] + wrote[s] <= Len(log[at[s]])

\* What a handler has read and reserved stays valid while it runs: the log of
\* its broker only grows.
LEMMA HandlerOKStep ==
    ASSUME IndInv, [Next]_vars
    PROVE  HandlerOK'
<1> USE DEF logVars, callVars, reqVars, boundVars, Held, Replicating
<1>t. TypeOK
  BY DEF IndInv
<1> SUFFICES ASSUME NEW s \in Request
             PROVE  HandlerOKOf(s)'
  BY DEF HandlerOK, HandlerOKOf
<1>h. HandlerOKOf(s)
  BY DEF IndInv, HandlerOK, HandlerOKOf
<1> USE DEF HandlerOKOf
<1>n. base[s] \in Nat /\ wrote[s] \in Nat /\ cnt[s] \in Nat
  BY <1>t DEF TypeOK
<1>1. CASE Untouched(s)
  <2>1. ASSUME pc[s] # "idle"
        PROVE  /\ Len(log[at[s]]) \in Nat /\ Len(log'[at[s]]) \in Nat
               /\ Len(log'[at[s]]) >= Len(log[at[s]])
    <3>1. at[s] \in Brokers
      BY <1>h, <2>1
    <3> QED BY <3>1, LogLengths
  <2> QED BY <1>h, <1>n, <1>1, <2>1 DEF Untouched, Replicates
<1>2. ASSUME NEW b \in Brokers, Crash(b) PROVE HandlerOKOf(s)'
  <2>a. pc'[s] = IF at[s] = b /\ pc[s] \in Busy THEN "err" ELSE pc[s]
    BY <1>2 DEF Crash
  <2>b. UNCHANGED <<log, at, fol, cnt, base, wrote>>
    BY <1>2 DEF Crash
  <2>1. /\ pc'[s] = pc[s] \/ (pc'[s] = "err" /\ pc[s] \in Busy)
        /\ UNCHANGED <<log, at[s], fol[s], cnt[s], base[s], wrote[s]>>
    BY <2>a, <2>b
  <2>2. CASE pc'[s] = pc[s]
    BY <1>h, <2>1, <2>2 DEF Replicates
  <2>3. CASE pc'[s] = "err" /\ pc[s] \in Held
    BY <1>h, <2>1, <2>3
  <2>4. CASE pc'[s] = "err" /\ pc[s] = "waiting"
    BY <1>h, <2>1, <2>4
  <2> QED BY <2>1, <2>2, <2>3, <2>4 DEF Busy
<1>3. ASSUME NEW b \in Brokers, NEW k \in Nat \ {0}, NEW single, Begin(s, b, k, single)
      PROVE  HandlerOKOf(s)'
  BY <1>t, <1>h, <1>3 DEF TypeOK, Begin
<1>4. CASE Acquire(s)
  BY <1>t, <1>h, <1>4 DEF TypeOK, Acquire, Replicates
<1>5. CASE AskFollower(s) \/ Send(s)
  BY <1>t, <1>h, <1>5 DEF TypeOK, AskFollower, Send, Replicates
<1>6. CASE ReceiveAck(s)
  BY <1>t, <1>h, <1>n, <1>6 DEF TypeOK, ReceiveAck, Replicates
<1>7. CASE CallFails(s) \/ CallBreaks(s) \/ WriteFails(s)
  BY <1>t, <1>h, <1>7 DEF TypeOK, CallFails, CallBreaks, WriteFails, Return
<1>8. CASE WriteRecord(s)
  <2>1. /\ at[s] \in Brokers
        /\ ~Refused(log[at[s]], base[s] + wrote[s])
        /\ Len(log'[at[s]]) > base[s] + wrote[s]
    BY <1>8, WriteRecordGrows
  <2>2. Len(log'[at[s]]) \in Nat
    BY <2>1, LogLengths
  <2>3. wrote'[s] = wrote[s] + 1 /\ UNCHANGED <<at[s], cnt[s], base[s], fol[s]>>
    BY <1>t, <1>8 DEF TypeOK, WriteRecord
  <2>4. \/ pc'[s] = "ok"
        \/ (pc'[s] = "writing" /\ wrote[s] + 1 # cnt[s])
    BY <1>t, <1>8, <2>1 DEF TypeOK, WriteRecord, Return
  <2>5. pc[s] = "writing"
    BY <1>8 DEF WriteRecord
  <2> QED BY <1>h, <1>n, <2>1, <2>2, <2>3, <2>4, <2>5
<1>9. CASE HandleRecord(s) \/ HandleFails(s)
  <2>1. UNCHANGED <<pc, at, fol, cnt, base, wrote>>
    BY <1>9 DEF HandleRecord, HandleFails
  <2>2. rpc[s] # "none"
    BY <1>9 DEF HandleRecord, HandleFails
  <2>3. pc[s] # "idle"
    BY <2>2 DEF IndInv, CallOK
  <2>4. at[s] \in Brokers
    BY <1>h, <2>3
  <2>5. /\ Len(log[at[s]]) \in Nat /\ Len(log'[at[s]]) \in Nat
        /\ Len(log'[at[s]]) >= Len(log[at[s]])
    BY <2>4, LogLengths
  <2> QED BY <1>h, <1>n, <2>1, <2>5 DEF Replicates
<1> QED BY <1>t, <1>1, <1>2, <1>3, <1>4, <1>5, <1>6, <1>7, <1>8, <1>9, StepOfRequest
        DEF OwnStep

\* The appending of the follower, when it is not refused, makes its log longer
\* than the offset.
LEMMA HandleRecordGrows ==
    ASSUME IndInv, NEW s \in Request, HandleRecord(s),
           ~Refused(log[fol[s]], cur[s])
    PROVE  Len(log'[fol[s]]) > cur[s]
<1>1. rpc[s] = "run" /\ cur[s] \in Nat
  BY DEF IndInv, TypeOK, HandleRecord
<1>2. fol[s] \in Brokers /\ pc[s] \notin {"idle", "waiting"}
  BY <1>1 DEF IndInv, TypeOK, CallOK, Replicates
<1>3. log[fol[s]] \in Seq(Record) /\ Len(log[fol[s]]) \in Nat
  BY <1>2 DEF IndInv, TypeOK, Record
<1> DEFINE x == RecordAt(s, cur[s])
<1>4. x \in Record
  BY <1>1, <1>2, RecordAtOffset
<1>5. log'[fol[s]] = AppendAt(log[fol[s]], cur[s], x)
  BY <1>2 DEF IndInv, TypeOK, HandleRecord
<1>6. cur[s] <= Len(log[fol[s]])
  BY <1>1, <1>3 DEF Refused
<1> HIDE DEF x
<1>7. CASE cur[s] = Len(log[fol[s]])
  <2>1. log'[fol[s]] = Append(log[fol[s]], x)
    BY <1>5, <1>7 DEF AppendAt
  <2> QED BY <1>3, <1>4, <1>7, <2>1
<1>8. CASE cur[s] # Len(log[fol[s]])
  BY <1>1, <1>3, <1>5, <1>6, <1>8 DEF AppendAt
<1> QED BY <1>7, <1>8

CallOKOf(s) ==
    /\ pc[s] \in {"idle", "waiting", "asking", "writing"} => rpc[s] = "none"
    /\ pc[s] = "sending" => cur[s] < End(s) /\ rpc[s] \in {"none", "failed"}
    /\ rpc[s] # "none" => Replicates(s)
    /\ rpc[s] = "run" => cur[s] < hi[s]
    /\ rpc[s] = "ack" => Len(log[fol[s]]) >= hi[s] /\ cur[s] = hi[s]

\* A call's progress stays within what was sent, and its ack behind what the
\* follower's log covers.
LEMMA CallOKStep ==
    ASSUME IndInv, [Next]_vars
    PROVE  CallOK'
<1> USE DEF logVars, callVars, reqVars, boundVars, Held, Replicating
<1>t. TypeOK
  BY DEF IndInv
<1> SUFFICES ASSUME NEW s \in Request
             PROVE  CallOKOf(s)'
  BY DEF CallOK, CallOKOf
<1>h. CallOKOf(s)
  BY DEF IndInv, CallOK, CallOKOf
<1>p. HandlerOKOf(s)
  BY DEF IndInv, HandlerOK, HandlerOKOf
<1> USE DEF CallOKOf
<1>n. /\ base[s] \in Nat /\ cnt[s] \in Nat /\ cur[s] \in Nat /\ hi[s] \in Nat
      /\ fol[s] \in Brokers \cup {None}
  BY <1>t DEF TypeOK
<1>l. ASSUME Replicates(s)
      PROVE  /\ Len(log[fol[s]]) \in Nat /\ Len(log'[fol[s]]) \in Nat
             /\ Len(log'[fol[s]]) >= Len(log[fol[s]])
  <2>1. fol[s] \in Brokers
    BY <1>n, <1>l DEF Replicates
  <2> QED BY <2>1, LogLengths
<1>1. CASE Untouched(s)
  BY <1>h, <1>n, <1>l, <1>1 DEF Untouched, Replicates, End
<1>2. ASSUME NEW b \in Brokers, Crash(b) PROVE CallOKOf(s)'
  <2>1. pc'[s] = IF at[s] = b /\ pc[s] \in Busy THEN "err" ELSE pc[s]
    BY <1>2 DEF Crash
  <2>2. rpc'[s] = IF fol[s] # b THEN rpc[s]
                  ELSE IF pc[s] \in {"sending", "awaiting"} THEN "failed" ELSE "none"
    BY <1>2 DEF Crash
  <2>3. UNCHANGED <<log, at, fol, cnt, base, cur, hi>>
    BY <1>2 DEF Crash
  <2>4. CASE fol[s] # b
    BY <1>h, <2>1, <2>2, <2>3, <2>4 DEF Replicates, End
  <2>5. CASE fol[s] = b
    <3>1. pc[s] \in {"sending", "awaiting"} => Replicates(s)
      BY <1>p DEF HandlerOKOf
    <3> QED BY <1>h, <2>1, <2>2, <2>3, <2>5, <3>1 DEF Replicates, End
  <2> QED BY <2>4, <2>5
<1>3. ASSUME NEW b \in Brokers, NEW k \in Nat \ {0}, NEW single, Begin(s, b, k, single)
      PROVE  CallOKOf(s)'
  BY <1>t, <1>h, <1>3 DEF TypeOK, Begin
<1>4. CASE Acquire(s)
  BY <1>t, <1>h, <1>4 DEF TypeOK, Acquire
<1>5. CASE AskFollower(s)
  <2>1. Replicates(s) /\ cnt[s] > 0
    BY <1>p, <1>5 DEF HandlerOKOf, AskFollower
  <2>2. cur'[s] <= base[s]
    BY <1>t, <1>n, <1>l, <1>5, <2>1 DEF TypeOK, AskFollower
  <2>3. cur'[s] \in Nat
    BY TypeStep DEF TypeOK
  <2>4. rpc[s] = "none" /\ rpc' = rpc /\ pc'[s] = "sending" /\ UNCHANGED <<base, cnt>>
    BY <1>t, <1>h, <1>5 DEF TypeOK, AskFollower
  <2> QED BY <1>n, <2>1, <2>2, <2>3, <2>4 DEF End
<1>6. CASE Send(s)
  <2>1. Replicates(s) /\ cnt[s] > 0 /\ pc'[s] = "awaiting" /\ rpc'[s] = "run"
    BY <1>t, <1>p, <1>6 DEF TypeOK, HandlerOKOf, Send
  <2>2. hi'[s] = CallEnd(s) /\ UNCHANGED <<cur, fol, at>>
    BY <1>t, <1>6 DEF TypeOK, Send
  <2>3. cur[s] < CallEnd(s)
    BY <1>h, <1>n, <1>6 DEF Send, CallEnd, End
  <2> QED BY <2>1, <2>2, <2>3 DEF Replicates
<1>7. CASE ReceiveAck(s)
  BY <1>t, <1>h, <1>n, <1>7 DEF TypeOK, ReceiveAck, End
<1>8. CASE CallFails(s) \/ CallBreaks(s) \/ WriteFails(s)
  BY <1>t, <1>h, <1>8 DEF TypeOK, CallFails, CallBreaks, WriteFails, Return, Replicates
<1>9. CASE WriteRecord(s)
  <2>1. rpc[s] = "none" /\ rpc' = rpc
    BY <1>h, <1>9 DEF WriteRecord
  <2>2. pc'[s] # "sending"
    BY <1>t, <1>9 DEF TypeOK, WriteRecord, Return
  <2> QED BY <2>1, <2>2
<1>10. CASE HandleRecord(s)
  <2>1. Replicates(s) /\ pc[s] \notin {"idle", "waiting", "asking", "sending", "writing"}
        /\ cur[s] < hi[s]
    BY <1>h, <1>10 DEF HandleRecord
  <2>2. UNCHANGED <<pc, fol, at, hi>>
    BY <1>10 DEF HandleRecord
  <2>3. CASE Refused(log[fol[s]], cur[s])
    <3>1. rpc'[s] = "failed"
      BY <1>t, <1>10, <2>3 DEF TypeOK, HandleRecord
    <3> QED BY <2>1, <2>2, <3>1 DEF Replicates
  <2>4. CASE ~Refused(log[fol[s]], cur[s])
    <3>1. cur'[s] = cur[s] + 1 /\ rpc'[s] = IF cur[s] + 1 = hi[s] THEN "ack" ELSE "run"
      BY <1>t, <1>10, <2>4 DEF TypeOK, HandleRecord
    <3>2. Len(log'[fol[s]]) > cur[s]
      BY <1>10, <2>4, HandleRecordGrows
    <3> QED BY <1>n, <1>l, <2>1, <2>2, <3>1, <3>2 DEF Replicates
  <2> QED BY <2>3, <2>4
<1>11. CASE HandleFails(s)
  BY <1>t, <1>h, <1>11 DEF TypeOK, HandleFails, Replicates, End
<1> QED BY <1>t, <1>1, <1>2, <1>3, <1>4, <1>5, <1>6, <1>7, <1>8, <1>9, <1>10, <1>11,
           StepOfRequest DEF OwnStep

\* How a handler comes to write, and how it comes to acknowledge.
LEMMA WritingFrom ==
    ASSUME IndInv, [Next]_vars, NEW s \in Request, pc'[s] = "writing",
           pc[s] # "writing"
    PROVE  Acquire(s) \/ ReceiveAck(s)
<1> USE DEF Held, Replicating
<1>t. TypeOK
  BY DEF IndInv
<1>1. CASE Untouched(s)
  BY <1>1 DEF Untouched
<1>2. ASSUME NEW b \in Brokers, Crash(b) PROVE FALSE
  BY <1>2 DEF Crash
<1>3. CASE OwnStep(s)
  <2>1. ASSUME NEW b \in Brokers, NEW k \in Nat \ {0}, NEW single, Begin(s, b, k, single)
        PROVE  FALSE
    BY <1>t, <2>1 DEF TypeOK, Begin
  <2>2. ASSUME AskFollower(s) \/ Send(s) PROVE FALSE
    BY <1>t, <2>2 DEF TypeOK, AskFollower, Send
  <2>3. ASSUME CallFails(s) \/ CallBreaks(s) \/ WriteFails(s) \/ WriteRecord(s)
        PROVE  FALSE
    BY <1>t, <2>3 DEF TypeOK, CallFails, CallBreaks, WriteFails, WriteRecord, Return
  <2>4. ASSUME HandleRecord(s) \/ HandleFails(s) PROVE FALSE
    BY <2>4 DEF HandleRecord, HandleFails
  <2> QED BY <1>3, <2>1, <2>2, <2>3, <2>4 DEF OwnStep
<1> QED BY <1>t, <1>1, <1>2, <1>3, StepOfRequest

\* A request is acknowledged by no other step than the write of its last record.
LEMMA AckedFrom ==
    ASSUME IndInv, [Next]_vars, NEW s \in Request, pc'[s] = "ok", pc[s] # "ok"
    PROVE  /\ pc[s] = "writing" /\ WriteRecord(s)
           /\ wrote[s] + 1 = cnt[s]
<1> USE DEF Held, Replicating
<1>t. TypeOK
  BY DEF IndInv
<1>1. CASE Untouched(s)
  BY <1>1 DEF Untouched
<1>2. ASSUME NEW b \in Brokers, Crash(b) PROVE FALSE
  BY <1>2 DEF Crash
<1>3. CASE OwnStep(s)
  <2>1. ASSUME NEW b \in Brokers, NEW k \in Nat \ {0}, NEW single, Begin(s, b, k, single)
        PROVE  FALSE
    BY <1>t, <2>1 DEF TypeOK, Begin
  <2>2. ASSUME Acquire(s) \/ AskFollower(s) \/ Send(s) \/ ReceiveAck(s) PROVE FALSE
    BY <1>t, <2>2 DEF TypeOK, Acquire, AskFollower, Send, ReceiveAck
  <2>3. ASSUME CallFails(s) \/ CallBreaks(s) \/ WriteFails(s)
        PROVE  FALSE
    BY <1>t, <2>3 DEF TypeOK, CallFails, CallBreaks, WriteFails, Return
  <2>4. ASSUME HandleRecord(s) \/ HandleFails(s) PROVE FALSE
    BY <2>4 DEF HandleRecord, HandleFails
  <2>5. CASE WriteRecord(s)
    BY <1>t, <2>5 DEF TypeOK, WriteRecord, Return
  <2> QED BY <1>3, <2>1, <2>2, <2>3, <2>4, <2>5 DEF OwnStep
<1> QED BY <1>t, <1>1, <1>2, <1>3, StepOfRequest

\* The log of a follower a handler replicates to does not get shorter.
LEMMA FollowerLengths ==
    ASSUME IndInv, [Next]_vars, NEW s \in Request, Replicates(s)
    PROVE  /\ Len(log[fol[s]]) \in Nat /\ Len(log'[fol[s]]) \in Nat
           /\ Len(log'[fol[s]]) >= Len(log[fol[s]])
<1>1. fol[s] \in Brokers
  BY DEF IndInv, TypeOK, Replicates
<1> QED BY <1>1, LogLengths

\* A handler starts to write only after the ack for all of its records.
LEMMA FollowerFirstStep ==
    ASSUME IndInv, [Next]_vars
    PROVE  FollowerFirst'
<1>t. TypeOK
  BY DEF IndInv
<1> SUFFICES ASSUME NEW s \in Request, pc'[s] = "writing", Replicates(s)'
             PROVE  Len(log'[fol'[s]]) >= End(s)'
  BY DEF FollowerFirst
<1>n. base[s] \in Nat /\ cnt[s] \in Nat /\ hi[s] \in Nat
  BY <1>t DEF TypeOK
<1>1. CASE pc[s] = "writing"
  <2>1. UNCHANGED <<at[s], fol[s], cnt[s], base[s]>>
    BY <1>1, ReservedStable
  <2>2. Replicates(s) /\ End(s)' = End(s)
    BY <2>1 DEF Replicates, End
  <2>3. Len(log[fol[s]]) >= End(s)
    BY <1>1, <2>2 DEF IndInv, FollowerFirst
  <2> QED BY <1>n, <2>1, <2>2, <2>3, FollowerLengths DEF End
<1>2. CASE Acquire(s)
  BY <1>t, <1>2 DEF TypeOK, Acquire, Replicates
<1>3. CASE ReceiveAck(s)
  <2>1. Replicates(s) /\ Len(log[fol[s]]) >= hi[s]
    BY <1>3 DEF IndInv, CallOK, ReceiveAck
  <2>2. ~(hi[s] < End(s)) /\ UNCHANGED <<log, fol, End(s)>>
    BY <1>t, <1>3 DEF TypeOK, ReceiveAck, reqVars, logVars, End
  <2> QED BY <1>n, <2>1, <2>2, FollowerLengths DEF End
<1> QED BY <1>1, <1>2, <1>3, WritingFrom

\* An acknowledged request has filled its offsets on both brokers, and no log
\* shrinks.
LEMMA FilledStep ==
    ASSUME IndInv, [Next]_vars
    PROVE  AckedOffsetsFilled'
<1>t. TypeOK
  BY DEF IndInv
<1> SUFFICES ASSUME NEW s \in Request, pc'[s] = "ok"
             PROVE  /\ Len(log'[at'[s]]) >= End(s)'
                    /\ Replicates(s)' => Len(log'[fol'[s]]) >= End(s)'
  BY DEF AckedOffsetsFilled, Acked
<1>n. base[s] \in Nat /\ cnt[s] \in Nat /\ wrote[s] \in Nat
  BY <1>t DEF TypeOK
<1>1. pc[s] = "ok" \/ (pc[s] = "writing" /\ WriteRecord(s) /\ wrote[s] + 1 = cnt[s])
  BY AckedFrom
<1>2. /\ at[s] \in Brokers
      /\ UNCHANGED <<at[s], fol[s], cnt[s], base[s]>>
  BY <1>1, ReservedStable DEF IndInv, HandlerOK
<1>3. End(s)' = End(s) /\ Replicates(s)' = Replicates(s)
  BY <1>2 DEF Replicates, End
<1>4. ASSUME Replicates(s) PROVE Len(log[fol[s]]) >= End(s)
  BY <1>1, <1>4 DEF IndInv, FollowerFirst, AckedOffsetsFilled, Acked
<1>5. Replicates(s) => Len(log'[fol[s]]) >= End(s)
  BY <1>n, <1>4, FollowerLengths DEF End
<1>6. CASE pc[s] = "ok"
  <2>1. Len(log[at[s]]) >= End(s)
    BY <1>6 DEF IndInv, AckedOffsetsFilled, Acked
  <2> QED BY <1>n, <1>2, <1>3, <1>5, <2>1, LogLengths DEF End
<1>7. CASE pc[s] = "writing" /\ WriteRecord(s) /\ wrote[s] + 1 = cnt[s]
  <2>1. Len(log'[at[s]]) > base[s] + wrote[s]
    BY <1>7, WriteRecordGrows
  <2>2. Len(log'[at[s]]) \in Nat
    BY <1>2, LogLengths
  <2> QED BY <1>n, <1>2, <1>3, <1>5, <1>7, <2>1, <2>2 DEF End
<1> QED BY <1>1, <1>6, <1>7

\* Two handlers of a broker do not hold its lock at once.
LEMMA MutualExclusion ==
    ASSUME IndInv, NEW r \in Request, NEW s \in Request, r # s,
           pc[r] \in Held, pc[s] \in Held
    PROVE  at[r] # at[s]
  BY DEF IndInv, LockHeld

\* A handler comes to hold the lock by acquiring it.
LEMMA HeldFrom ==
    ASSUME IndInv, [Next]_vars, NEW r \in Request, pc'[r] \in Held, pc[r] \notin Held
    PROVE  Acquire(r)
<1> USE DEF Held, Replicating
<1>t. TypeOK
  BY DEF IndInv
<1>1. CASE Untouched(r)
  BY <1>1 DEF Untouched
<1>2. ASSUME NEW b \in Brokers, Crash(b) PROVE FALSE
  BY <1>2 DEF Crash
<1>3. ASSUME NEW b \in Brokers, NEW k \in Nat \ {0}, NEW single, Begin(r, b, k, single)
      PROVE  FALSE
  BY <1>t, <1>3 DEF TypeOK, Begin
<1>4. ASSUME HandleRecord(r) \/ HandleFails(r) PROVE FALSE
  BY <1>4 DEF HandleRecord, HandleFails
<1>5. ASSUME \/ AskFollower(r) \/ Send(r) \/ ReceiveAck(r) \/ CallFails(r)
             \/ CallBreaks(r) \/ WriteRecord(r) \/ WriteFails(r)
      PROVE  FALSE
  BY <1>5 DEF AskFollower, Send, ReceiveAck, CallFails, CallBreaks, WriteRecord,
              WriteFails
<1> QED BY <1>t, <1>1, <1>2, <1>3, <1>4, <1>5, StepOfRequest DEF OwnStep

\* Offsets are reserved at the end of the log, above all that its broker has
\* acknowledged.
LEMMA ReservedAboveAckedStep ==
    ASSUME IndInv, [Next]_vars
    PROVE  ReservedAboveAcked'
<1> USE DEF Held, Replicating
<1>t. TypeOK
  BY DEF IndInv
<1> SUFFICES ASSUME NEW r \in Request, NEW s \in Request, r # s,
                    pc'[r] \in Held, pc'[s] = "ok", at'[r] = at'[s]
             PROVE  End(s)' <= base'[r]
  BY DEF ReservedAboveAcked, Acked
<1>1. pc[s] = "ok" \/ (pc[s] = "writing" /\ WriteRecord(s))
  BY AckedFrom
<1>2. UNCHANGED <<at[s], cnt[s], base[s]>> /\ End(s)' = End(s)
  BY <1>1, ReservedStable DEF End
<1>3. CASE pc[r] \in Held
  <2>1. UNCHANGED <<at[r], base[r]>>
    BY <1>3, ReservedStable
  <2>2. pc[s] = "ok"
    BY <1>1, <1>2, <1>3, <2>1, MutualExclusion
  <2> QED BY <1>2, <1>3, <2>1, <2>2 DEF IndInv, ReservedAboveAcked, Acked
<1>4. CASE pc[r] \notin Held
  <2>1. Acquire(r)
    BY <1>4, HeldFrom
  <2>2. base'[r] = Len(log[at[r]]) /\ at'[r] = at[r]
    BY <1>t, <2>1 DEF TypeOK, Acquire, reqVars
  <2>3. pc'[s] = pc[s]
    BY <1>t, <2>1 DEF TypeOK, Acquire
  <2>4. Len(log[at[s]]) >= End(s)
    BY <2>3 DEF IndInv, AckedOffsetsFilled, Acked
  <2>5. at[s] \in Brokers
    BY <2>3 DEF IndInv, HandlerOK
  <2>6. Len(log[at[s]]) \in Nat /\ End(s) \in Nat
    BY <1>t, <2>5, SMTT(30) DEF TypeOK, End
  <2> QED BY <1>2, <2>2, <2>4, <2>6
<1> QED BY <1>3, <1>4

\* A request acknowledged now reserved its offsets above those acknowledged
\* before, and held the lock since.
LEMMA DisjointStep ==
    ASSUME IndInv, [Next]_vars
    PROVE  AckedOffsetsDisjoint'
<1> SUFFICES ASSUME NEW r \in Request, NEW s \in Request, r # s,
                    pc'[r] = "ok", pc'[s] = "ok", at'[r] = at'[s]
             PROVE  End(r)' <= base'[s] \/ End(s)' <= base'[r]
  BY DEF AckedOffsetsDisjoint, Acked
<1>1. /\ pc[r] = "ok" \/ pc[r] = "writing"
      /\ pc[s] = "ok" \/ pc[s] = "writing"
  BY AckedFrom
<1>2. /\ UNCHANGED <<at[r], cnt[r], base[r]>>
      /\ UNCHANGED <<at[s], cnt[s], base[s]>>
  BY <1>1, ReservedStable
<1>3. End(r)' = End(r) /\ End(s)' = End(s) /\ at[r] = at[s]
  BY <1>2 DEF End
<1>4. CASE pc[r] = "ok" /\ pc[s] = "ok"
  BY <1>2, <1>3, <1>4 DEF IndInv, AckedOffsetsDisjoint, Acked
<1>5. CASE pc[r] = "writing" /\ pc[s] = "ok"
  BY <1>2, <1>3, <1>5 DEF IndInv, ReservedAboveAcked, Acked, Held
<1>6. CASE pc[r] = "ok" /\ pc[s] = "writing"
  BY <1>2, <1>3, <1>6 DEF IndInv, ReservedAboveAcked, Acked, Held
<1>7. CASE pc[r] = "writing" /\ pc[s] = "writing"
  BY <1>3, <1>7, MutualExclusion DEF Held
<1> QED BY <1>1, <1>4, <1>5, <1>6, <1>7

-----------------------------------------------------------------------------
(***************************************************************************)
(* The theorems                                                            *)
(***************************************************************************)
\* Nothing is reserved, sent or acknowledged at the start.
LEMMA InitInv == Init => IndInv
<1> SUFFICES ASSUME Init PROVE IndInv
  OBVIOUS
<1>1. TypeOK
  BY InitType
<1>2. \A b \in Brokers : log[b] = << >>
  BY DEF Init
<1>3. LockHeld /\ HandlerOK /\ CallOK /\ FollowerFirst
  BY DEF Init, LockHeld, HandlerOK, CallOK, FollowerFirst, Held, Replicating
<1>4. ReservedAboveAcked /\ AckedOffsetsFilled /\ AckedOffsetsDisjoint
  BY DEF Init, ReservedAboveAcked, AckedOffsetsFilled, AckedOffsetsDisjoint, Acked
<1>5. RecordsReserved /\ RecordsAtTheirOffset
  BY <1>2 DEF RecordsReserved, RecordsAtTheirOffset
<1> QED BY <1>1, <1>3, <1>4, <1>5 DEF IndInv

\* Every step keeps the inductive invariant.
LEMMA StepInv == ASSUME IndInv, [Next]_vars PROVE IndInv'
  BY TypeStep, LockStep, HandlerOKStep, CallOKStep, FollowerFirstStep,
     ReservedAboveAckedStep, RecordsStep, FilledStep, DisjointStep DEF IndInv

\* The inductive invariant holds in every behaviour of the handlers, crashes
\* and reassignments included.
THEOREM Invariance == Spec => []IndInv
<1>1. Init => IndInv
  BY InitInv
<1>2. IndInv /\ [Next]_vars => IndInv'
  BY StepInv
<1> QED BY <1>1, <1>2, PTL DEF Spec

\* Type correctness: in particular the follower a handler replicates to is a
\* broker, the backfill never starts below offset 0, and the controller's
\* repairs name brokers that exist.
THEOREM TypeCorrect == Spec => []TypeOK
  BY Invariance, PTL DEF IndInv

\* What is acknowledged has its offsets filled on the leader and on the
\* follower.
THEOREM Filled == Spec => []AckedOffsetsFilled
  BY Invariance, PTL DEF IndInv

\* A broker never acknowledges one offset to two produce requests.
THEOREM Disjoint == Spec => []AckedOffsetsDisjoint
  BY Invariance, PTL DEF IndInv

\* In every log a record stands at the offset its leader reserved for it.
THEOREM AtTheirOffset == Spec => []RecordsAtTheirOffset
  BY Invariance, PTL DEF IndInv
=============================================================================
