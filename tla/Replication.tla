---------------------------- MODULE Replication ----------------------------
(***************************************************************************)
(* The data plane for one (topic, partition): the Produce and ProduceBatch *)
(* handlers of a leader, the FollowerState, Replicate and ReplicateBatch   *)
(* handlers of a follower, broker crashes and restarts, failing calls, and *)
(* the assignment of the partition moving under them                       *)
(* (internal/broker/replication.go and the parts of broker.go it calls).   *)
(*                                                                         *)
(* A request r is one invocation of a produce handler, run by a goroutine  *)
(* of broker at[r].  Its i-th record is <<r, i>>, which stands for the     *)
(* key, the value and the timestamp.  A log is the sequence of the records *)
(* at offsets 0, 1, 2, ...: the record at offset o is log[b][o+1].  That a *)
(* log on disk behaves as such a sequence is what module Storage shows.    *)
(***************************************************************************)
EXTENDS Metadata, Sequences

CONSTANTS
    Request,        \* the produce requests that may arrive
    Partition,      \* the partition
    MaxBatch,       \* bound: records of a ProduceBatch
    MaxCrash,       \* bound: broker crashes
    MaxReassign,    \* bound: reassignments the controller commits
    MaxFault,       \* bound: calls that break although the follower is up,
                    \*        and disk writes that fail
    Suspicion       \* may the controller's probe miss a broker that is up?

ASSUME PartitionAssumption == Partition \in Partitions
ASSUME BoundAssumption ==
    /\ MaxBatch \in Nat \ {0}
    /\ MaxCrash \in Nat /\ MaxReassign \in Nat /\ MaxFault \in Nat
    /\ Suspicion \in BOOLEAN

VARIABLES
    log,        \* log[b]: the records of b's log of the partition
    up,         \* up[b]: is b's process running
    meta,       \* the assignments of the partition raft has committed, in order
    view,       \* view[b]: how many of them b's FSM has applied
    lock,       \* lock[b]: the request holding b's produceLock, or NoRequest
    pc,         \* pc[r]: where the handler of r stands
    at,         \* at[r]: the broker that runs the handler
    fol,        \* fol[r]: the follower the handler read before it took the lock
    one,        \* one[r]: Produce (TRUE) or ProduceBatch (FALSE)
    cnt,        \* cnt[r]: how many records r carries
    base,       \* base[r]: the offset reserved for its first record
    wrote,      \* wrote[r]: how many of them the leader has appended
    rpc,        \* rpc[r]: the handler's call: "none", "run" while the follower
                \*         handles it, then "ack" or "failed"
    cur,        \* cur[r]: the next offset to send, or to append on the follower
    hi,         \* hi[r]: the offset after the last one of the call
    crashes, faults

logVars  == <<log, up, meta, view>>
callVars == <<rpc, cur, hi>>
reqVars  == <<at, fol, one, cnt, base>>
boundVars == <<crashes, faults>>
vars == <<logVars, callVars, reqVars, boundVars, lock, pc, wrote>>

NoRequest == <<>>
ASSUME RequestAssumption == NoRequest \notin Request

(***************************************************************************)
(* The lock is held from Acquire until the handler returns.                *)
(***************************************************************************)
Replicating == {"asking", "sending", "awaiting"}
Held == Replicating \cup {"writing"}
Busy == Held \cup {"waiting"}
Returned == {"ok", "err"}

Up == {b \in Brokers : up[b]}

\* r needs an ack: the leader has a follower and it is not itself.
Replicates(r) == fol[r] # None /\ fol[r] # at[r]

\* The record that offset o denotes for r: one of its own, or one of the
\* leader's log, which ReadFrom returned for the backfill.  A log only grows,
\* so what was read then is what stands there now.
RecordAt(r, o) ==
    IF o < base[r] THEN log[at[r]][o + 1] ELSE <<r, o - base[r] + 1>>

(***************************************************************************)
(* Log.AppendAt: an offset that is already written is accepted as it is, a *)
(* later one than the next is refused.                                     *)
(***************************************************************************)
Refused(l, o) == o > Len(l)
\* Mutant: the check for an offset that is already written is missing.
AppendAtNext(l, o, rec) == IF o > Len(l) THEN l ELSE Append(l, rec)

AppendAt(l, o, rec) == IF o = Len(l) THEN Append(l, rec) ELSE l

Init ==
    /\ log = [b \in Brokers |-> <<>>]
    /\ up = [b \in Brokers |-> TRUE]
    /\ meta = <<Placement(Partition)>>
    /\ view = [b \in Brokers |-> 1]
    /\ lock = [b \in Brokers |-> NoRequest]
    /\ pc = [r \in Request |-> "idle"]
    /\ at = [r \in Request |-> None]
    /\ fol = [r \in Request |-> None]
    /\ one = [r \in Request |-> TRUE]
    /\ cnt = [r \in Request |-> 0]
    /\ base = [r \in Request |-> 0]
    /\ wrote = [r \in Request |-> 0]
    /\ rpc = [r \in Request |-> "none"]
    /\ cur = [r \in Request |-> 0]
    /\ hi = [r \in Request |-> 0]
    /\ crashes = 0
    /\ faults = 0

-----------------------------------------------------------------------------
(***************************************************************************)
(* The produce handlers.  The assignment is read, and the leadership       *)
(* checked, before the lock is taken.                                      *)
(***************************************************************************)
Begin(r, b, k, single) ==
    /\ pc[r] = "idle" /\ up[b]
    /\ view[b] > 0                              \* "partition not found"
    /\ meta[view[b]].leader = b                 \* "not leader"
    /\ pc' = [pc EXCEPT ![r] = "waiting"]
    /\ at' = [at EXCEPT ![r] = b]
    /\ fol' = [fol EXCEPT ![r] = meta[view[b]].follower]
    /\ one' = [one EXCEPT ![r] = single]
    /\ cnt' = [cnt EXCEPT ![r] = k]
    /\ UNCHANGED <<logVars, callVars, boundVars, lock, base, wrote>>

Produce(r, b) == Begin(r, b, 1, TRUE)

ProduceBatch(r, b) == \E k \in 1..MaxBatch : Begin(r, b, k, FALSE)

\* Mutant: the produceLock is not taken.
AcquireWithoutLock(r) ==
    /\ pc[r] = "waiting"
    /\ lock' = [lock EXCEPT ![at[r]] = r]
    /\ base' = [base EXCEPT ![r] = Len(log[at[r]])]
    /\ pc' = [pc EXCEPT ![r] = IF Replicates(r) THEN "asking" ELSE "writing"]
    /\ UNCHANGED <<logVars, callVars, boundVars, at, fol, one, cnt, wrote>>

\* produceLock, then NextOffset reserves the offsets.
Acquire(r) ==
    /\ pc[r] = "waiting" /\ lock[at[r]] = NoRequest
    /\ lock' = [lock EXCEPT ![at[r]] = r]
    /\ base' = [base EXCEPT ![r] = Len(log[at[r]])]
    /\ pc' = [pc EXCEPT ![r] = IF Replicates(r) THEN "asking" ELSE "writing"]
    /\ UNCHANGED <<logVars, callVars, boundVars, at, fol, one, cnt, wrote>>

\* Mutant: only the successful return unlocks.
ReturnKeepingLock(r, result) ==
    /\ pc' = [pc EXCEPT ![r] = result]
    /\ lock' = [lock EXCEPT ![at[r]] = IF result = "ok" THEN NoRequest ELSE @]

\* The handler returns; the deferred Unlock runs.
Return(r, result) ==
    /\ pc' = [pc EXCEPT ![r] = result]
    /\ lock' = [lock EXCEPT ![at[r]] = NoRequest]

\* Mutant: FollowerState answers with the last offset, not the next one.
AskFollowerLast(r) ==
    /\ pc[r] = "asking" /\ up[fol[r]]
    /\ cur' = [cur EXCEPT ![r] = IF Len(log[fol[r]]) - 1 < base[r]
                                 THEN Len(log[fol[r]]) - 1 ELSE base[r]]
    /\ pc' = [pc EXCEPT ![r] = "sending"]
    /\ UNCHANGED <<logVars, reqVars, boundVars, lock, wrote, rpc, hi>>

\* FollowerState: the backfill starts at the follower's next offset, when
\* that is behind the leader's.
AskFollower(r) ==
    /\ pc[r] = "asking" /\ up[fol[r]]
    /\ cur' = [cur EXCEPT ![r] = IF Len(log[fol[r]]) < base[r]
                                 THEN Len(log[fol[r]]) ELSE base[r]]
    /\ pc' = [pc EXCEPT ![r] = "sending"]
    /\ UNCHANGED <<logVars, reqVars, boundVars, lock, wrote, rpc, hi>>

\* sendReplicate sends one record, sendReplicateBatch the whole backfill and
\* then the whole batch.
CallEnd(r) ==
    IF one[r] THEN cur[r] + 1
    ELSE IF cur[r] < base[r] THEN base[r]
    ELSE base[r] + cnt[r]

Send(r) ==
    /\ pc[r] = "sending" /\ up[fol[r]] /\ rpc[r] = "none"
    /\ pc' = [pc EXCEPT ![r] = "awaiting"]
    /\ rpc' = [rpc EXCEPT ![r] = "run"]
    /\ hi' = [hi EXCEPT ![r] = CallEnd(r)]
    /\ UNCHANGED <<logVars, reqVars, boundVars, lock, wrote, cur>>

\* Mutant: the handler commits after the first ack, be it of the backfill.
ReceiveFirstAck(r) ==
    /\ pc[r] = "awaiting" /\ rpc[r] = "ack"
    /\ rpc' = [rpc EXCEPT ![r] = "none"]
    /\ pc' = [pc EXCEPT ![r] = "writing"]
    /\ UNCHANGED <<logVars, reqVars, boundVars, lock, wrote, cur, hi>>

ReceiveAck(r) ==
    /\ pc[r] = "awaiting" /\ rpc[r] = "ack"
    /\ rpc' = [rpc EXCEPT ![r] = "none"]
    /\ pc' = [pc EXCEPT ![r] = IF hi[r] < base[r] + cnt[r] THEN "sending" ELSE "writing"]
    /\ UNCHANGED <<logVars, reqVars, boundVars, lock, wrote, cur, hi>>

(***************************************************************************)
(* A dial or a call fails, and the handler returns the error.  Its call    *)
(* may still be running on the follower.                                   *)
(***************************************************************************)

\* The follower is down, or its process that we were connected to is gone, or
\* it answered with the error of AppendAt.
CallFails(r) ==
    /\ pc[r] \in Replicating
    /\ ~up[fol[r]] \/ rpc[r] = "failed"
    /\ Return(r, "err")
    /\ UNCHANGED <<logVars, callVars, reqVars, boundVars, wrote>>

\* Mutant: the error of the call is not returned.
CallBreaksUnnoticed(r) ==
    /\ pc[r] \in Replicating /\ up[fol[r]] /\ faults < MaxFault
    /\ faults' = faults + 1
    /\ pc' = [pc EXCEPT ![r] = "writing"]
    /\ UNCHANGED <<logVars, callVars, reqVars, crashes, lock, wrote>>

\* The connection breaks while the follower is up: a network error, or
\* dropClient closing the shared client under this call.
CallBreaks(r) ==
    /\ pc[r] \in Replicating /\ up[fol[r]] /\ faults < MaxFault
    /\ faults' = faults + 1
    /\ Return(r, "err")
    /\ UNCHANGED <<logVars, callVars, reqVars, crashes, wrote>>

\* Mutant: the batch is reported as committed after its first record.
WriteFirstRecord(r) ==
    LET b == at[r]
        o == base[r] + wrote[r]
    IN  /\ pc[r] = "writing"
        /\ log' = [log EXCEPT ![b] = AppendAt(@, o, <<r, wrote[r] + 1>>)]
        /\ wrote' = [wrote EXCEPT ![r] = @ + 1]
        /\ Return(r, IF Refused(log[b], o) THEN "err" ELSE "ok")
        /\ UNCHANGED <<up, meta, view, callVars, reqVars, boundVars>>

\* One AppendAt on the leader's own log, each under the log's own mutex.
WriteRecord(r) ==
    LET b == at[r]
        o == base[r] + wrote[r]
    IN  /\ pc[r] = "writing"
        /\ log' = [log EXCEPT ![b] = AppendAt(@, o, <<r, wrote[r] + 1>>)]
        /\ wrote' = [wrote EXCEPT ![r] = @ + 1]
        /\ IF Refused(log[b], o) THEN Return(r, "err")
           ELSE IF wrote[r] + 1 = cnt[r] THEN Return(r, "ok")
           ELSE UNCHANGED <<pc, lock>>
        /\ UNCHANGED <<up, meta, view, callVars, reqVars, boundVars>>

\* WriteAt or Sync fails on the leader: nothing is appended.
WriteFails(r) ==
    /\ pc[r] = "writing" /\ faults < MaxFault
    /\ faults' = faults + 1
    /\ Return(r, "err")
    /\ UNCHANGED <<logVars, callVars, reqVars, crashes, wrote>>

-----------------------------------------------------------------------------
(***************************************************************************)
(* The follower: Replicate and ReplicateBatch append record by record.     *)
(* They check neither who calls nor who leads.                             *)
(***************************************************************************)
HandleRecord(r) ==
    LET f == fol[r]
        refused == Refused(log[f], cur[r])
    IN  /\ rpc[r] = "run" /\ up[f]
        /\ log' = [log EXCEPT ![f] = AppendAt(@, cur[r], RecordAt(r, cur[r]))]
        /\ cur' = [cur EXCEPT ![r] = IF refused THEN @ ELSE @ + 1]
        /\ rpc' = [rpc EXCEPT ![r] = IF refused THEN "failed"
                                     ELSE IF cur[r] + 1 = hi[r] THEN "ack"
                                     ELSE "run"]
        /\ UNCHANGED <<up, meta, view, reqVars, boundVars, lock, pc, wrote, hi>>

\* WriteAt or Sync fails on the follower: nothing is appended.
HandleFails(r) ==
    /\ rpc[r] = "run" /\ up[fol[r]] /\ faults < MaxFault
    /\ faults' = faults + 1
    /\ rpc' = [rpc EXCEPT ![r] = "failed"]
    /\ UNCHANGED <<logVars, reqVars, crashes, lock, pc, wrote, cur, hi>>

-----------------------------------------------------------------------------
(***************************************************************************)
(* Processes stop and start.  What was appended is on disk; the handlers,  *)
(* the locks and the state machine are memory.                             *)
(***************************************************************************)
Crash(b) ==
    /\ up[b] /\ crashes < MaxCrash
    /\ crashes' = crashes + 1
    /\ up' = [up EXCEPT ![b] = FALSE]
    /\ view' = [view EXCEPT ![b] = 0]
    /\ lock' = [lock EXCEPT ![b] = NoRequest]
    /\ pc' = [r \in Request |->
                IF at[r] = b /\ pc[r] \in Busy THEN "err" ELSE pc[r]]
    /\ rpc' = [r \in Request |->
                IF fol[r] # b THEN rpc[r]
                ELSE IF pc[r] \in {"sending", "awaiting"} THEN "failed" ELSE "none"]
    /\ UNCHANGED <<log, meta, reqVars, wrote, cur, hi, faults>>

Restart(b) ==
    /\ ~up[b]
    /\ up' = [up EXCEPT ![b] = TRUE]
    /\ UNCHANGED <<log, meta, view, callVars, reqVars, boundVars, lock, pc, wrote>>

\* Raft applies the next committed assignment to the state machine of b.  A
\* restarted broker goes through all of them again.
ApplyAssignment(b) ==
    /\ up[b] /\ view[b] < Len(meta)
    /\ view' = [view EXCEPT ![b] = @ + 1]
    /\ UNCHANGED <<log, up, meta, callVars, reqVars, boundVars, lock, pc, wrote>>

\* The raft leader, one of a majority that is up, repairs the partition from
\* what its probes told it.
ReassignPartition ==
    /\ Len(meta) <= MaxReassign
    /\ 2 * Cardinality(Up) > N
    /\ \E alive \in (IF Suspicion THEN SUBSET Up \ {{}} ELSE {Up}) :
          LET asg == meta[Len(meta)]
              new == Repair(asg, alive, alive)
          IN  /\ new # asg
              /\ meta' = Append(meta, new)
    /\ UNCHANGED <<log, up, view, callVars, reqVars, boundVars, lock, pc, wrote>>

-----------------------------------------------------------------------------
HandlerStep(r) ==
    \/ Acquire(r) \/ AskFollower(r) \/ Send(r) \/ ReceiveAck(r)
    \/ CallFails(r) \/ WriteRecord(r)

Next ==
    \/ \E r \in Request : \/ \E b \in Brokers : Produce(r, b) \/ ProduceBatch(r, b)
                          \/ Acquire(r) \/ AskFollower(r) \/ Send(r) \/ ReceiveAck(r)
                          \/ CallFails(r) \/ CallBreaks(r)
                          \/ WriteRecord(r) \/ WriteFails(r)
                          \/ HandleRecord(r) \/ HandleFails(r)
    \/ \E b \in Brokers : Crash(b) \/ Restart(b) \/ ApplyAssignment(b)
    \/ ReassignPartition

Spec == Init /\ [][Next]_vars
-----------------------------------------------------------------------------
(***************************************************************************)
(* Properties.                                                             *)
(***************************************************************************)
\* The variables keep their types, the log lengths and offsets included.
TypeOK ==
    /\ log \in [Brokers -> Seq(Request \X (Nat \ {0}))]
    /\ up \in [Brokers -> BOOLEAN]
    /\ meta \in Seq(Assignment) /\ Len(meta) > 0
    /\ view \in [Brokers -> Nat] /\ \A b \in Brokers : view[b] <= Len(meta)
    /\ lock \in [Brokers -> Request \cup {NoRequest}]
    /\ pc \in [Request -> {"idle"} \cup Busy \cup Returned]
    /\ at \in [Request -> Brokers \cup {None}]
    /\ fol \in [Request -> Brokers \cup {None}]
    /\ one \in [Request -> BOOLEAN]
    /\ cnt \in [Request -> Nat]
    /\ base \in [Request -> Nat]
    /\ wrote \in [Request -> Nat]
    /\ rpc \in [Request -> {"none", "run", "ack", "failed"}]
    /\ cur \in [Request -> Nat]
    /\ hi \in [Request -> Nat]
    /\ crashes \in Nat /\ faults \in Nat

Acked(r) == pc[r] = "ok"
End(r) == base[r] + cnt[r]

\* All records of r stand at their offsets in the log of b.
Holds(b, r) ==
    /\ Len(log[b]) >= End(r)
    /\ \A i \in 1..cnt[r] : log[b][base[r] + i] = <<r, i>>

\* An acknowledged produce has filled all its offsets on the leader, and on
\* the follower it was replicated to: however the calls of other requests,
\* crashes and reassignments fall between the backfill, the ack and the local
\* writes (Produce and ProduceBatch commit locally only after the follower).
AckedOffsetsFilled ==
    \A r \in Request : Acked(r) =>
        /\ Len(log[at[r]]) >= End(r)
        /\ Replicates(r) => Len(log[fol[r]]) >= End(r)

\* A broker never acknowledges the same offset to two produce requests, also
\* across its own restarts and leaderships: the produceLock spans the reserving
\* of the offsets and the writing of them.
AckedOffsetsDisjoint ==
    \A r, s \in Request :
        r # s /\ Acked(r) /\ Acked(s) /\ at[r] = at[s]
            => End(r) <= base[s] \/ End(s) <= base[r]

\* A record stands at the offset its leader reserved for it, in every log it
\* has reached: a backfill, a call that outlives its request and a follower
\* that became leader never move a record.
RecordsAtTheirOffset ==
    \A b \in Brokers : \A j \in 1..Len(log[b]) :
        LET r == log[b][j][1] IN j = base[r] + log[b][j][2]

(***************************************************************************)
(* The inductive invariant behind the three properties above.              *)
(***************************************************************************)
LockHeld == \A r \in Request : pc[r] \in Held => lock[at[r]] = r

HandlerOK ==
    \A r \in Request :
        /\ pc[r] # "idle" => at[r] \in Brokers /\ cnt[r] > 0
        /\ pc[r] \in Replicating => Replicates(r)
        /\ pc[r] \in {"idle", "waiting"} => base[r] = 0
        /\ pc[r] \notin {"idle", "waiting"} => base[r] <= Len(log[at[r]])
        /\ pc[r] \in {"idle", "waiting"} \cup Replicating => wrote[r] = 0
        /\ pc[r] = "writing" =>
              wrote[r] < cnt[r] /\ base[r] + wrote[r] <= Len(log[at[r]])

CallOK ==
    \A r \in Request :
        /\ pc[r] \in {"idle", "waiting", "asking", "writing"} => rpc[r] = "none"
        /\ pc[r] = "sending" => cur[r] < End(r) /\ rpc[r] \in {"none", "failed"}
        /\ rpc[r] # "none" => Replicates(r)
        /\ rpc[r] = "run" => cur[r] < hi[r]
        /\ rpc[r] = "ack" => Len(log[fol[r]]) >= hi[r] /\ cur[r] = hi[r]

\* A handler that writes, or has acknowledged, has the follower's ack behind it.
FollowerFirst ==
    \A r \in Request :
        pc[r] = "writing" /\ Replicates(r) => Len(log[fol[r]]) >= End(r)

\* A handler that holds the lock has reserved offsets that no acknowledged
\* request of its broker has.
ReservedAboveAcked ==
    \A r, s \in Request :
        r # s /\ pc[r] \in Held /\ Acked(s) /\ at[r] = at[s] => End(s) <= base[r]

\* Whoever has a record in a log has reserved its offsets, once and for all.
RecordsReserved ==
    \A b \in Brokers : \A j \in 1..Len(log[b]) :
        pc[log[b][j][1]] \notin {"idle", "waiting"}

\* The three properties are invariants because of this one: it ties what a
\* handler has read, reserved and sent to the logs as they are now, at every
\* step of the handler and through every crash and reassignment.
IndInv ==
    /\ TypeOK
    /\ LockHeld /\ HandlerOK /\ CallOK /\ FollowerFirst
    /\ ReservedAboveAcked /\ RecordsReserved
    /\ AckedOffsetsFilled /\ AckedOffsetsDisjoint /\ RecordsAtTheirOffset

\* Until the partition is reassigned, what a leader acknowledged is what its
\* log holds, whatever calls fail and brokers crash.
AckedOnLeader ==
    Len(meta) = 1 => \A r \in Request : Acked(r) => Holds(at[r], r)

\* Until the partition is reassigned, the follower's log is never shorter than
\* the leader's: a leader writes an offset only after the follower has it.
FollowerNeverBehind ==
    Len(meta) = 1 =>
        LET a == meta[1]
        IN  a.follower # None => Len(log[a.leader]) <= Len(log[a.follower])

\* Until a produce request fails or the partition is reassigned, the leader's
\* log is a prefix of the follower's, record by record.
MirrorUntilFailure ==
    Len(meta) = 1 /\ (\A r \in Request : pc[r] # "err") =>
        LET a == meta[1]
        IN  \A j \in 1..Len(log[a.leader]) :
                /\ j <= Len(log[a.follower])
                /\ log[a.leader][j] = log[a.follower][j]

(***************************************************************************)
(* What the three properties above rest on, besides IndInv, as long as the *)
(* partition is where the placement put it.                                *)
(***************************************************************************)
\* Every handler runs on the leader and replicates to the follower.
SoleLeader ==
    \A r \in Request :
        pc[r] # "idle" => at[r] = meta[1].leader /\ fol[r] = meta[1].follower

\* Nobody but the holder of the lock writes to the leader's log.
WritesAtEnd ==
    \A r \in Request : pc[r] \in Held => Len(log[at[r]]) = base[r] + wrote[r]

WroteOwn ==
    \A r \in Request :
        /\ pc[r] = "ok" => wrote[r] = cnt[r]
        /\ pc[r] \in {"writing", "ok"} =>
              \A i \in 1..wrote[r] : log[at[r]][base[r] + i] = <<r, i>>

CallsWithin ==
    \A r \in Request :
        /\ rpc[r] = "run" => hi[r] <= End(r)
        /\ pc[r] = "ok" => rpc[r] = "none"

\* What the follower has and the leader does not are records of the request
\* that is being replicated.
AheadIsHeld ==
    (\A r \in Request : pc[r] # "err") =>
        LET a == meta[1]
        IN  \A j \in Len(log[a.leader])+1..Len(log[a.follower]) :
                \E r \in Request : /\ pc[r] \in Held /\ j <= End(r)
                                   /\ log[a.follower][j] = <<r, j - base[r]>>

\* Until the partition is reassigned one broker writes, at the end of its log,
\* what it has sent to one follower before: inductive together with IndInv, and
\* what AckedOnLeader, FollowerNeverBehind and MirrorUntilFailure follow from.
FirstInv ==
    Len(meta) = 1 =>
        /\ meta[1] = Placement(Partition)
        /\ SoleLeader /\ WritesAtEnd /\ WroteOwn /\ CallsWithin /\ AheadIsHeld
        /\ FollowerNeverBehind /\ MirrorUntilFailure

\* Every produce request that is taken in returns: a handler that waits for
\* the lock, or for a follower that dies, is not left waiting, also when two
\* brokers that both think they lead replicate to each other.
EveryProduceReturns ==
    \A r \in Request : pc[r] \in Busy ~> pc[r] \in Returned

\* replication.go:53, of Produce: "nil once the record is committed on the
\* leader".
AckedOnItsLeader == \A r \in Request : Acked(r) => Holds(at[r], r)

\* report.md, "Fault Tolerance": "guarantee zero data loss after a node crash":
\* once the partition has failed over, the broker that now leads it, and knows
\* that it does, holds every message the leaders before it acknowledged.
NoLossAfterFailover ==
    LET l == meta[Len(meta)].leader
    IN  view[l] = Len(meta) =>
            \A r \in Request : Acked(r) /\ at[r] # l => Holds(l, r)
=============================================================================
