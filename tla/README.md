# TLA+ models of TrixPS

TrixPS is a small distributed publish/subscribe system in Go. A topic is cut
into partitions; each partition is an append-only log file on a leader broker
and on one follower. Which broker leads which partition is metadata that the
brokers replicate with raft, and that a control loop on the raft leader
bootstraps and repairs. This directory holds the TLA+ models of that system,
the configurations that TLC checks, and the proofs that TLAPS checks.

Paths below are relative to the repository; `broker/` stands for
`internal/broker/`, and so on.

## 1. Inventory

| Component | State | Operations | Talks to |
|---|---|---|---|
| Metadata (`metadata/metadata.go`) | `Cluster`: number of partitions, brokers, assignments, down marks | queries (`AliveBrokerIDs`), `Clone` | held by the state machine |
| Raft state machine (`raftfsm/fsm.go`) | one `Cluster` | `Apply` of five commands, `Snapshot`, `Restore` | called by raft; read by every handler |
| Control loop (`broker/controller.go`) | local variables of one tick | `ensureBootstrap`, `reconcile`, `isAlive`, `applyCommand` | reads the state machine, dials brokers, proposes to raft |
| Raft (hashicorp/raft, a library) | log, term, leader | election, commit, delivery | `raft.Apply`, `FSM.Apply` |
| Produce and replication handlers (`broker/replication.go`) | `produceLock` per (topic, partition) | `Produce`, `ProduceBatch`; `FollowerState`, `Replicate`, `ReplicateBatch` | the state machine, the log, the follower by RPC |
| Read-only handlers (`broker/replication.go`) | none | `Fetch`, `Metadata`, `Health` | the log, the state machine |
| Storage (`storage/log.go`) | the file; `nextOff`, `index`, `size` | `Open`/`replay`, `Append`, `AppendAt`, `ReadFrom`, `Close` | the file system |
| Topic files (`broker/broker.go`) | map of open logs | `logFor`, `sanitizeTopic` | Storage |
| RPC connections (`broker/broker.go`) | one cached client per peer | `dial`, `dropClient` | other brokers |
| Client library (`client/client.go`) | none between calls | `Metadata`, down the list of brokers; `Produce`, `ProduceBatch`, `Fetch`, up to 8 attempts each | brokers |
| Consumer (`cmd/consumer`) | an offset per partition, in a file | read loop, save | client library |
| Producer (`cmd/producer`) | none | groups input by partition, sends | client library |
| Gateway (`cmd/api`) | a cached number of partitions | `/publish`, `/consume`, `/health` over HTTP | client library |
| Hashing (`hashing/hash.go`) | none | `PartitionFor` | producer, gateway |
| RPC types, entry point, deployment, web demo | – | – | – |

The behaviours that are hard here:

* **A handler outlives what it read.** `Produce` reads the assignment, then waits
  for the `produceLock`, then makes remote calls with the lock held, then writes.
  Crashes and failovers fall between any two of these, and two brokers may run
  produce handlers for one partition at once.
* **Calls fail and take effect.** A `Replicate` call may break for the leader and
  still append on the follower, now or much later; the handlers check neither who
  calls nor who leads.
* **A write is not one step.** A record is written, synced and indexed in three
  steps; a crash leaves part of it, a failed write leaves remains behind the end.
* **The control loop works with stale data.** It reads its own state machine,
  which may lag, twice per tick; it probes in between; its proposals are refused,
  or committed after it gave up on them; it ignores every error.
* **A restarted broker re-applies old metadata** and may serve as a leader that it
  no longer is.
* **A retry does not end the attempt before it.** A client whose connection broke
  sends the message again, to whichever broker an old answer names; the first
  attempt may run before, after or instead of the second.
* **Readers read past the end of the log.** `ReadFrom` goes on to the end of the file, where
  a failed append may have left a whole record or a part of one.
* **Consumers share a file.** It is emptied before it is written, and read and
  written by several processes that hold different offsets.

What makes each component correct:

* *Metadata, control loop*: a partition always has two distinct replicas (given
  two brokers); each partition ends up with a leader that runs; marks end up true;
  nothing is moved without a cause; the bootstrap completes, and happens once.
* *Replication*: an acknowledged record has its offset on the leader and on the
  follower; no offset is acknowledged twice by a broker; a record never moves; a
  leader's log is a prefix of its follower's as long as nothing failed; each
  request returns; no acknowledged record is lost by a failover (this one the
  code does not meet, see section 5).
* *Storage*: an acknowledged append survives every crash and power loss; replay
  finds whole records only; a read returns the log and nothing else.
* *Topic files*: after a restart each topic has the records it accepted (the code
  does not meet this for topics that share a sanitized name, section 5).
* *Client*: a message is in a log no more often than it was tried; calls that follow
  one another are acknowledged in that order; each call returns.
* *Consumer*: nothing is skipped (but what takes the place of a record that was refused,
  section 5); what can be read is read in the end.
* *Producer, gateway, hashing*: every party maps a key to the same partition (not met for
  other numbers of partitions than 2, section 5).

`PROJECT.json` lists the hazards one by one, at the line where each bites.

## 2. The modules

| Module | Models | Composes |
|---|---|---|
| `Metadata` | the metadata value, its commands, `FSM.Apply`, placement and repair | – |
| `Replication` | the produce and replication handlers of one (topic, partition) | `Metadata` |
| `Client` | the calls of the client library | `Replication` |
| `LogFile` | the format of a log file, and the scan that replays it | – |
| `AbstractLog` | what a log promises | – |
| `Storage` | one log file and its `Log` object | `LogFile`; refines `AbstractLog` |
| `TopicFiles` | the log objects of all topics of a broker, and their files | `LogFile` |
| `ControlPlane` | the control loops, the state machines and raft as they use it | `Metadata` |
| `Routing` | gateway and producer: from a key to a partition | – |
| `Consumer` | the consumers of one machine | `Routing` |
| `MCReplication`, `MCClient`, `MCStorage`, `MCTopicFiles`, `MCControlPlane`, `MCRouting`, `MCConsumer` | instances for TLC | |
| `MetadataProofs`, `ReplicationProofs`, `ControlPlaneProofs`, `StorageProofs`, `ConsumerProofs` | theorems about the module of that name | – |
| `FirstLeaderProofs` | theorems about `Replication` before the first failover | `ReplicationProofs` |
| `ClientProofs` | theorems about `Client` | `FirstLeaderProofs` |

Definitions called "Mutant" in a comment are deliberate mistakes (a dropped
guard, an off-by-one, a missing reset). They are used by no specification: each
stands before the definition it distorts, and putting it in that definition's
place makes a property fail. `PROJECT.json` says which.

### Metadata

A broker id is a number of `1..N`; the code compares and sorts ids and does
nothing else with them. `None` is the empty string. `Apply` is the switch of
`FSM.Apply`; it is total, as the Go code is. `Placement` is the deterministic
assignment of `ensureBootstrap`; `NeedsRepair`, `RepairedLeader`, `PickAlive` and
`Repair` are the body of the last loop of `reconcile`. RPC addresses are a
function of the id and left out.

### Replication

A *request* is one invocation of a produce handler; `pc[r]` is where its goroutine
stands:

| `pc` | Code |
|---|---|
| `idle` | not arrived |
| `waiting` | assignment read, leadership checked, waiting for `produceLock` |
| `asking` | offsets reserved; `FollowerState` under way |
| `sending` | about to send a record (or a batch) of the backfill, or its own |
| `awaiting` | a `Replicate`/`ReplicateBatch` call under way |
| `writing` | the follower has everything; `AppendAt` on its own log |
| `ok`, `err` | returned |

The follower's side of a call is `rpc[r]`, separate from `pc[r]`: when a
connection breaks, the handler returns (`CallBreaks`) and the call goes on
(`rpc[r] = "run"`), so that it may append at any later time (`HandleRecord`).
`ReplicateBatch` appends record by record, as the loop in the handler does.

A log is a sequence, the record of request `r` with index `i` is `<<r, i>>`, and
`AppendAt` has its three outcomes: append, accept an offset that is already
written whatever stands there, refuse an offset beyond the next. That a file
behaves as such a sequence is the subject of `Storage`. What is acknowledged
counts as durable here.

`meta` is the sequence of assignments of the partition, `view[b]` how many of
them broker `b` has applied. `ReassignPartition` stands for the control plane: a
raft leader, one of a majority that is up, commits the `Repair` of the latest
assignment against what its probes said (any non-empty part of the running
brokers when `Suspicion` is set). It does not re-issue an earlier assignment, as
the control loop can (`control_assign_once`). A restarted broker starts with
`view[b] = 0` and goes through all of them again.

### Client

A *call* is one `Client.Produce` (`Batch[c] = 0`) or one `Client.ProduceBatch` (of
`Batch[c]` records). Its attempts are the requests `<<c, 1>>`, `<<c, 2>>`, ... of
`Replication`; everything the brokers do is a step of that module, which `Client`
extends. `stage[c]` is where the call stands:

| `stage` | Code |
|---|---|
| `new` | not called |
| `asking` | `Metadata`: asking broker `ask[c]` of the list |
| `dialing` | a leader is known; dialing it |
| `calling` | the request was sent; waiting for the answer |
| `done`, `failed` | returned an offset, or the last error |

`mail[r]` is a request on its way: sent, and not yet taken in by its broker. The
client waits for an answer on a connection that may break at any time
(`LoseConnection`). The request is then still on its way, or its handler runs on, or
it has been acknowledged to nobody; the next attempt begins all the same. A broker
takes a request in (`TakeIn`: the handler begins) or refuses it (`Refuse`: "not
leader"). `LearnLeader` believes what a broker's state machine says, which may be an
old assignment, or nothing right after a restart. When a broker stops, what it had
not taken in is gone. The pauses between attempts are left out: a call may go on at
any time, and so also after them.

`before[c]` is a history variable, the calls that had succeeded when `c` began:
a producer that sends one message after the other is the case in which it has all of
them.

### Storage

A file is a sequence of cells, several to a record; the cells of a record carry
its offset, its value and their own number, so that only a whole and unmixed run
of cells is a record: that is what the length fields and the checksum achieve.
`file` is what processes see, `disk` what a power loss leaves. `WriteCell`
advances `WriteAt`, `Commit` is `Sync` with the index update that follows it,
`AppendFails` is an error of either. `PowerLoss` keeps, cell by cell, any mix of
what was synced and what was not, with the old or the new length (`Survivor`); `MaxLoss`
bounds how many power losses come between two appends that succeed. `Open` includes
`replay` and its truncation, which is not synced. Records of different lengths
matter: the remains of a long record lie behind a later short one.

`Storage` implements `AbstractLog` by the mapping `recs <- LogRecords` (the indexed
records, or those replay would find), `durable <-` the part of them that is on
disk, `maybe <- tried`.

### TopicFiles

`logFor` keeps one `Log` object per topic (`logs`), and names the file of a topic by
`sanitizeTopic` (`Sanitized`), which maps every character that is not a letter, a
digit, `-` or `_` to `_`. Two topics may so have two objects on one file: each has a
size and a next offset of its own, and writes with `WriteAt` at its own size. An append
is one step here; what a crash leaves of it is `Storage`'s matter. Format and replay
are those of `LogFile`, which both modules use.

### Routing

The partitions of a topic as those who use them see them: sequences of keys, each with or
without a leader that calls reach at the moment (`led`). `Answers` is what `Metadata`
may say of the number of partitions; 0 comes from a broker without an assignment, and
stands for an error too, since the gateway falls back to 2 in both cases and the producer
in the first (`Count`). The gateway reads its cache, asks, and stores what it was told in three
steps (`TakeRequest`, `AskPartitions`, `StorePartitions`): it lets its lock go in
between, and several handlers run at once. A producer asks once and then sends
(`ProducerPublish`). `Hash[k]` is the FNV hash of a key.

An append may fail (`StoreFails`), and what it leaves behind the log in the file of the
leader is what readers can meet there: a whole record, if `Sync` failed (`refused[p]`), or
a part of one, if `WriteAt` did (`torn[p]`). Later appends overwrite it, the next one
perhaps not all of it (`Overwrite`). A leader that comes back may have been restarted: it
has replayed the file, taken the whole record for written and cut off the part (`Replay`).
`Storage` has all of this cell by cell; here it is reduced to what a `Fetch` can tell.
`spoiled[p]` remembers the offsets of such records.

### Consumer

`step[x]` is the place of consumer `x` in its loop: `fetching` a partition, `printing`
the records of a reply, `saving` (about to truncate the file), `writing`, and `off`.
`turn`, `read` and `progressed` are the variables of the loop, and `offsets[x]` its map.

A `Fetch` returns what `ReadFrom` finds from the offset on (`Records`): `FetchMax` records, or
all that the file holds, the refused record behind the log included (`Stored`). The records
are in `reply[x]` from then on and printed one by one, whatever becomes of the file
meanwhile. A `Fetch` fails without a leader or a partition, and also on a partition that
has a leader when `ReadFrom` gets to a part of a record (`ReadFails`, `FetchFails`) or the calls
break (`FetchBreaks`). In each case the partition is left for this round. An offset at or
beyond the end of the log gets an empty reply.

`saveOffsets` is `os.WriteFile`, which empties the file (`Truncate`) and then writes it
(`Write`). What another consumer wrote in between is overwritten from the start; if it
was longer, its rest makes the text unreadable. A file that cannot be read is no file
at all: `loadOffsets` ignores the error and starts from 0. `Crash` kills a consumer
anywhere, and also in the middle of saving. `Routing` steps run interleaved.

### ControlPlane

Every broker runs a control loop, of which only the raft leader's does something.
Each read of the metadata, each probe and each proposal is a step of its own:

| Action | Code |
|---|---|
| `Tick` | the leadership check of `controlLoop`; `ensureBootstrap` reads the metadata |
| `BeginReconcile` | first `fsm.Cluster()` of `reconcile` |
| `Probe` | `isAlive`, for one broker |
| `BeginMarking` | the loop over the down marks |
| `BeginRepair` | second `fsm.Cluster()`, and the loop over the partitions |
| `ApplyCommand`, `ApplyCommandLost`, `ApplyCommandRefused` | the three outcomes of `applyCommand` |
| `Elect`, `StepDown`, `LoseLeadership`, `ApplyEntry` | raft |
| `Crash`, `Restart` | the processes |

`todo[b]` holds the commands a loop has computed and not proposed yet. Registrations
and marks go in any order (the order of a Go map), assignments by partition.

`history` is the sequence of the metadata that raft has agreed on; `applied[b]` is
the place of `b`'s state machine in it. A command that changes nothing adds no
entry: the state machine is a function of the sequence, and a lagging one cannot
tell whether such a command was committed. How far a state machine has got
matters only when it is read, so it is chosen at `Elect`, and moves on
(`ApplyEntry`) while the loop of its broker runs. A snapshot lets a restarted
broker begin further on, which is one of the choices of `Elect`.

Raft's own protocol is not modelled, it is a library: one broker at a time can
commit, a proposal is committed, refused, or committed although its proposer lost
the leadership first, and a leader may be elected before it has applied the log.

## 3. The runs

The runs with brokers have `N = 3`, the size the repository deploys, at which a majority,
a crash and a spare broker all exist. `CHECK_DEADLOCK` is off but for `storage`: with all
requests returned and all bounds used up the system rests.

| Run | Question | Bounds |
|---|---|---|
| `replication_failover` | do the safety properties and the two inductive invariants hold through crashes, false suspicion, failover, and broken calls that take effect later? And what has the follower against the leader until then? | 2 requests of up to 2 records, 1 crash, 1 reassignment, 1 fault |
| `client` | how often is a message in a log, and in which order are calls acknowledged, when attempts outlive their connections? | 2 calls, one of a batch of 2, of 2 attempts; 1 crash or 1 reassignment with suspicion; 1 lost connection |
| `client_liveness` | does each produce handler return, and each call? | 1 call of 2 attempts; 1 crash or 2 reassignments with suspicion; 1 lost connection |
| `replication_no_loss`, `replication_committed` | do two sentences of the documentation hold? They do not, section 5 | 2 requests of 1 record, 1 crash, 1 reassignment, at most 1 fault |
| `storage` | does the file implement the log, and do reads return it? | 4 writes of records of 1 or 2 cells, 3 crashes or power losses, of the latter 1 between two appends that succeed, 2 failed writes |
| `topic_files` | does a restart find what each topic accepted? It does not, section 5 | 2 topics on one file, 2 appends, 1 restart |
| `control_plane` | does the bootstrap complete and move nothing without a cause; is every assignment one of two brokers; does failover end and do the marks become true? | 1 partition; four scenarios, below |
| `control_assign_once` | is a partition assigned once? It is not, section 5 | the same scenarios |
| `control_follower` | does a partition keep a follower? It does not, section 5 | 1 partition, 1 lost leadership |
| `consumer` | is nothing skipped, and is what can be read printed, although appends fail? | 2 partitions, 2 messages of 3 keys, 1 failed append, 1 outage; a consumer with `--follow`, one with `--partitions 1 --max 1`, 1 crash of a consumer or broken fetch; `Fetch` returns at most 2 records; 1 gateway handler |
| `routing_partitions` | is a key always in one partition? It is not, section 5 | 3 partitions, 2 keys, 2 handlers, 2 messages |

**Why the bounds are enough to be of interest.** Two requests on two brokers are
what a stale leader and a new one need to collide; two records are the least batch
that can be cut in the middle, and backfilled in more than one step; one crash with
false suspicion already gives a restarted leader, or two leaders at once. Two attempts
and one lost connection are what an attempt that outlives its connection and its retry
need, and two calls what it takes to overtake; two reassignments lead back to a leader
that never noticed it was replaced, so that two brokers are each other's follower.
In `Storage`, a failed long append, a shorter one over its remains, a crash and an append after replay take
three writes, and one more lets a crash hit the last; a power loss, whose cut is lost with
the process that made it, and a crash after each of them take three crashes. Two cells
are the least record that can be torn; the theorems are about any size. `MaxLoss = 1`
is a premise and not only a bound: section 5 says what two power losses do. In the control plane two
crashes include the loss of the majority and its return, and one lost leadership
may fall between any two proposals of a tick. Partitions do not interact: a second
one multiplies the states and repeats the first; `Metadata` and the proofs treat
any number of them. For consumers they do matter, as the offsets of all are saved
together: a second partition is the least that can be passed over, and one message
beyond a `--max` of one the least that must not be. A crash and an exit at `--max` fall
between each pair of steps of the other consumer. One failed append, before, between or after
two that succeed, is the least that leaves a refused record to be handed out and then
replaced by another, or a part of a record in front of which a `Fetch` fails. Two of the
three keys share a partition, so that the two can differ.

`control_plane` begins in one of four ways, each with its own limits (`Scenario`): they are
run together as they ask the same questions.

| Scenario | Begins | Goes wrong, at most |
|---|---|---|
| `bootstrap` | with the empty cluster | 1 lost leadership, between any two proposals |
| `crashes` | bootstrapped, and every broker has a snapshot of that | 2 crashes: the majority, and its return |
| `misses` | bootstrapped, and restarted brokers go through the whole log | 1 crash and 2 failed probes |
| `losses` | as `crashes` | 1 crash and 1 lost leadership, whose proposal may be committed over newer decisions (`ApplyCommandLost`) |

The last three begin with a cluster that was stopped as a whole and started again, which
counts as a crash in `MaxCrash`. They are states that `Init` leads to, up to the order of the
registrations; the first covers the way there.

Two more instances cut away behaviours, each for the sake of others:

* `MCClient` has crashes or reassignments and not both in one behaviour
  (`MCNext`); `replication_failover` has both, without the client.
* In `MCConsumer` handlers of the gateway and consumers do not run in one behaviour
  (`MCNext`). They share nothing but the logs, and what a handler adds to a log a
  producer adds as well, which does run at any time. Of the two keys of one partition the
  second does not come first (`InTurn`): nothing tells them apart but their order.

**Symmetry.** Requests are symmetric in the safety runs of `Replication`: no action
tells one from another. It is not used with liveness, nor with calls, whose attempts
are numbered and of which one sends a batch. Brokers are not symmetric:
the placement and `pickAlive` go by the order of the ids.

### Fairness

* `Client!ClientFairSpec`, the handlers: a goroutine that can run does run
  (`HandlerStep`), and a call that the follower is handling goes on (`HandleRecord`). Go
  schedules
  goroutines fairly, `sync.Mutex` does not starve a waiter, and a call to a process
  that is gone fails. No fairness is assumed of crashes, restarts, broken
  connections or reassignments. That a follower which hangs for ever answers is
  *not* promised by the code, which has no call timeout: the model has brokers that
  run or are down, and the result is about those.
* `Client!ClientFairSpec`, the client: it goes on, and a broker takes in or refuses what it
  was sent: the loops of `client.go` have no step that waits for
  anything but a call that ends, and `serveRPC` runs a goroutine for each connection. No
  fairness is assumed of lost connections: a call ends because its attempts are
  numbered.
* `Consumer!Fairness`: a consumer with `--follow` goes on, and is started again after it
  was killed. None is assumed of producers, the gateway, or the return of a leader: the
  property speaks of partitions that have one for good.
* `ControlPlane!FairSpec`: the loop of a running broker goes on; raft elects when a
  majority is up, deposes a leader without a majority, and delivers what is
  committed. That is what raft's timeouts give once the network is timely. No
  fairness is assumed of `Restart`: a broker may stay down. Suspicions, crashes and
  lost leaderships are bounded, which is the usual "eventually timely"; the
  liveness properties also require, as their premise, that a majority stays up.

## 4. What the checks show

*Replication.* However requests, crashes, reassignments and late calls interleave:
an acknowledged produce has filled its offsets on the leader and on the follower it
replicated to (`AckedOffsetsFilled`); one broker never acknowledges one offset
twice, across its own restarts (`AckedOffsetsDisjoint`); a record stands at the
offset that was reserved for it in every log it has reached (`RecordsAtTheirOffset`).
As long as the partition is not reassigned, what the leader acknowledged is what
its log holds (`AckedOnLeader`), the follower is never shorter
(`FollowerNeverBehind`), and the leader's log is a prefix of the follower's until a
request fails (`MirrorUntilFailure`). Every request returns, in particular when two
brokers that both think they lead call each other with their locks held
(`EveryProduceReturns`, in `client_liveness`): the follower's handlers take the mutex of the log, not the
`produceLock`.

These are statements about *offsets*. What a record at such an offset *is* can
differ between brokers; section 5.

*Client.* The code promises no more than that a message is tried again, and has nothing
that would find a duplicate. What holds all the same: no log has more copies of a record
than its call made attempts (`CopiesWithinAttempts`), although one attempt can reach a
log on several ways, as a late call of a deposed leader, by the backfill of another
request, or by its own; `AppendAt` does not add what stands at its offset. And a call
that began after another had succeeded is acknowledged above it by the same broker
(`CallsInOrder`). An attempt of the earlier call that was given up may still run after
that, and put a copy of its message behind the later one; the acknowledged copy stands
before it. `MirrorUntilFailure` and
`AckedOnLeader` hold with the client, too, since its lost connections are no failures of
the handlers: that is not run again but proved (`ClientMirror`, `ClientAcked`). Each call returns (`EveryCallReturns`), also when it is told of a leader that
is gone, or when no broker answers.

*Storage.* As long as at most one power loss comes between two appends that succeed, the
file implements the log (`Implements`): acknowledged records are never
lost, and replay shows whole records only. Reads return every record the log has,
also behind remains of failed writes (`ReadsTheLog`), and return no more, and no
error, unless a write has failed (`ReadsOnlyTheLog`). After a failed write `ReadFrom`
does go on to the end of the file, and may return an error with the right records, or a
record that was refused; `ReadsTheLog` says that it is then at most one, under the offset that
the next record will get. `FileInv` says why
all of this is so: the file is a chain of records, and what is behind it starts no record
but the next one, at once.

*Consumer.* What the log has below an offset, in the file or in the memory of a consumer,
has been printed (`NothingSkipped`): printing goes before saving, each save holds only what
its own consumer printed or had loaded, and a file that is half written is not read. So
sharing the file costs repetition and no record. The exception are the offsets of records
that were refused after they were written (`spoiled`): there a consumer may print the refused
record and pass over the one that is acknowledged at that offset later (section 5). Without
the exception TLC finds the property violated.

Every message of a partition that keeps a leader, and whose file does not end in a part of a
record, is printed in the end (`EveryMessagePrinted`), also behind a partition that has
no leader, whose 8 failing attempts only delay the round. The second premise is needed:
a `Fetch` in front of such a part fails for as long as it is there. Both properties are about
logs that only grow; see section 7.

*Routing.* The messages of a key stay in one partition only as long as everyone is told the
same number, or the brokers have the 2 partitions that gateway and producer assume when they
are told none. `cmd/broker` takes any number, and with 3 `routing_partitions` finds
two messages of one key in different partitions: section 5.

*Control plane.* From every interleaving, a majority that stays up ends with each
partition led by a running broker (`EveryPartitionLed`) and with marks that are the
truth (`DownSettles`). No assignment names one broker twice (`ReplicasDistinct`).
Without crash, failed probe or lost leadership nothing leaves its placement
(`NoNeedlessFailover`); there one loop runs by itself, so this is about the order of the
registrations, probes and assignments within it.

## 5. Where the code and its documentation differ

Six runs expect a violation. Each checks one sentence of the repository.

1. `replication_no_loss`, `NoLossAfterFailover` ("zero data loss after a node crash",
   `report.md:20`). A `Replicate` call breaks for the leader and takes effect on the
   follower. The next message gets the same offset; the follower's `AppendAt` finds it
   written and accepts; the leader acknowledges. The follower holds the other message.
   Then the leader crashes: the promoted follower does not have the acknowledged message.
2. `replication_committed`, `AckedOnItsLeader` ("nil once the record is committed on
   the leader", `replication.go:53`). A call that a deposed leader sent lands on the
   new leader after it reserved an offset. Its own `AppendAt` then writes nothing and
   returns nil.
3. `control_assign_once`, `AssignedOnce` ("assign the partitions once",
   `controller.go:35`). A new raft leader whose state machine lags runs the bootstrap
   again, and its assignment undoes a repair. `EveryPartitionLed` shows that the loop
   repairs this; in the meantime the partition is back with the old leader.
4. `control_follower`, `FollowerRestored` ("1 leader + 1 follower", `report.md:40`). A
   follower once set to the empty string is not set again while the leader lives.
5. `topic_files`, `RecoversAll` ("recover all data after a full restart",
   `report.md:202`). Two topics such as `game.1` and `game_1` have two `Log` objects on one
   file, each of which writes over what the other has accepted.
6. `routing_partitions`, `KeyInOnePartition` ("Each message goes to a partition based on its
   key", `report.md:180`). A producer (or the gateway, which caches the number for good) that
   asks a broker which has not applied an assignment is told 0 and takes 2
   (`cmd/producer/main.go:48`, `cmd/api/main.go:74`). Another one is told 3. The two send the
   messages of one key to different partitions.

Further weaknesses contradict no sentence of the repository, and have no run of their own.

*A reader gets ahead of the log.* `Sync` fails behind a whole record: the leader refuses the
message, and `Fetch` hands it out all the same, with offset n. The consumer prints it and saves
n+1. The next message is acknowledged at n, and this consumer never prints it. The exception in
`NothingSkipped` says that this is the only way to skip a record.

*A part of a record stops the readers.* `WriteAt` fails in the middle of a record: until an
append covers its remains, or the broker is restarted, each `Fetch` that gets to the end of the
file fails, and with it all that it had read (`replication.go:434`). What the log has above the
consumer's offset is not printed in the meantime, unless 100 records come before the end.

*Two power losses.* It
takes two power losses with no append that succeeds between them. Three appends write the
records 0, 1 and 2 of which none is synced: a sync fails, or the process dies before it, and
replay takes what it finds for written. The first power loss keeps only the cells of the
last. Replay finds the hole and cuts the file there, but does not sync the cut. The next
append writes a record 0 that ends where the old record 2 stood, and the second power loss
brings that one back behind it. Replay takes the offset of every record as it is
(`log.go:111`), and so accepts a file with the offsets 0 and 2; in the same way one offset can
be there twice. `nextOff` is then not the number of records. With `MaxLoss = 2`, `storage` finds
`TypeOK`, `ReadsTheLog` and `Implements` violated.

## 6. Proofs

The theorems hold for any number of brokers (`N \in Nat \ {0}`), any number of
partitions, any set of requests, any values and sizes of records, and any bounds. They assume only the
named assumptions about the constants; those of `StorageProofs` have the premise `MaxLoss <= 1`
besides, which is a statement about the machine and without which they are false (section
5).

**`ReplicationProofs`**: `Invariance` (`Spec => []IndInv`), and from it `TypeCorrect`,
`Filled`, `Disjoint`, `AtTheirOffset`. The three properties are not inductive. What
they need, conjunct by conjunct:

* `LockHeld`: a handler past `Acquire` holds its broker's lock. Two such handlers of a
  broker would reserve the same offsets. (A crash clears the lock and ends the
  handlers in one step, which is why this survives restarts.)
* `HandlerOK`: offsets are reserved within the log, and a handler that writes has
  not written past the end. Since no log shrinks, `AppendAt` of a leader is
  never refused.
* `CallOK`: an ack means that the follower's log reaches the end of the call, and it
  is about a follower that is not the leader itself.
* `FollowerFirst`: who writes locally has the acks for all its records.
* `ReservedAboveAcked`: reserved offsets lie above all that its broker has
  acknowledged; with `LockHeld` this gives disjointness.
* `RecordsReserved`: whoever has a record in some log has reserved offsets, so that
  `base` will not change under it; this carries `RecordsAtTheirOffset` through late
  calls and backfills.

The proof has a step per conjunct. `StepOfRequest` says what a step may do to a given
request: nothing, one of its own steps, or a crash; `LogStep` and `LogLengths` say
that logs only grow, by one record of one request.

**`FirstLeaderProofs`**: `FirstLeader` (`Spec => []FirstInv`), and from it `AckedKept`
(`AckedOnLeader`), `NeverBehind` (`FollowerNeverBehind`) and `MirrorHolds`
(`MirrorUntilFailure`). They speak of the time before the first reassignment, when there
is one leader, which may crash and come back, and one follower. `FirstInv` is inductive
together with `IndInv`:

* `SoleLeader`: every handler that was ever begun runs on that leader and calls that
  follower; a restarted leader has applied nothing or the one assignment.
* `WritesAtEnd`: the leader's log ends where the holder of the lock has got to. Without it
  `AppendAt` could take another record for the one it is to write.
* `WroteOwn`: so what a handler wrote is its own record, which no later step moves:
  `AckedOnLeader`.
* `CallsWithin`: a call under way reaches no further than its request, and a request that
  was acknowledged has none left. That is where a call that broke ends up: its request
  has failed.
* `AheadIsHeld`: until a request fails, what the follower has beyond the leader are records
  of the request that holds the lock, each at the offset that is reserved for it. When that
  request writes, it writes what the follower has: `MirrorUntilFailure`. One request that
  fails and leaves its record on the follower ends this for good, and is the beginning of
  `replication_no_loss`.

**`ClientProofs`**: `ClientImplements` (`ClientSpec => Spec`: whatever is proved of the
handlers holds under the client library), `ClientTypeCorrect`, `Copied`
(`CopiesWithinAttempts`) and `InOrder` (`CallsInOrder`); with `ClientImplements` the theorems
about the first leader hold under retries, too (`ClientAcked`, `ClientMirror`). The invariant is that of
`Replication`, carried over by `ClientSimulates`, and three more conjuncts:

* `Unsent`: the requests of attempts that have not begun are neither running nor on their
  way. So a record in a log belongs to an attempt that was made; as two records of one
  attempt with one index would have one offset (`RecordsAtTheirOffset`), the copies in a
  log map one to one into the attempts.
* `CallOf`: a call that is done was acknowledged, by the request that `Current` names,
  and that does not change again (`AckedStays`).
* `ReservedInOrder`: *every* request of a call that holds offsets, not only the one that
  is acknowledged in the end, has them above what its broker acknowledged to the calls
  before. The attempt that is acknowledged may be any of them, and it may have reserved
  its offsets long before the client heard of it.

**`ConsumerProofs`**: `NoneSkipped` (`NothingSkipped`), `ConsumerTypeCorrect` and
`RoutingUndisturbed` (`Spec => RoutingSpec`). The invariant carries `NothingSkipped` through replies
that outlive the records they were read from:

* `Behind`: at most one record is behind a log, and its offset is remembered. So all that
  `Records` returns is in the log, or at such an offset (`RecordsStand`).
* `Grown`, of each step: logs are only added to, and offsets only remembered. What was printed so
  stays what the log has (`PrintedStays`), and a reply remains one while it is printed although
  an append or a replay puts another record in place of the refused one.
* `Reading`: a reply that is being printed has a record left, each of its records is the log's at
  its offset, or that offset is remembered (`Stands`), and a consumer always reads partition 0.
* `Sound`: each map of offsets by itself leaves nothing behind that was not printed. That
  `Write` may put any consumer's map, or an unreadable text, into the file does so not matter.

**`ControlPlaneProofs`**: `Invariance`, `TypeCorrect` and `Replicas`
(`Spec => []ReplicasDistinct`). The property speaks of committed metadata; what makes
it inductive is `CommandsDistinct`, the same of each command a loop has computed and
not proposed: the metadata it was computed from is gone by the time it is committed.
It rests on the lemmas about `Apply`, `BootstrapCommands`, `MarkCommands` and
`RepairCommands`; the last says that a repair that changes something names a leader
and a follower that differ (`RepairDistinct`), whatever probes it was given.

`CalmInvariance` (`Spec => []CalmInv`) and `NoneNeedless` (`NoNeedlessFailover`) are about a cluster
in which nothing has failed. The loop does not know that. What it rests on is that it
registers every broker before it probes (`Registering`, `Settled`), that probes then find
all of them, that the metadata it reads the second time has not changed since the
first (`seen`), and that nobody else proposes (`OneLoop`). It needs `IndInv` for the
commands a loop holds. `BootstrapOneBroker`, its mutant, registers one broker
per tick: the loop then takes those that are not registered yet for dead.

**`StorageProofs`**: `FileStays` (`Spec => []FileInv`), `TypeCorrect`, `ReadsLog`, `ReadsNoMore`, and
the refinement `FileImplements` (`Spec => Implements`). The argument goes by *chains*: positions `p` of
records that follow each other from the start of the file, with offsets `0..n-1`.

* `Placed`: the log is a chain of the file, and its index has the positions of that chain.
* `Clean`: behind it no record starts, but perhaps the next one, at once, with the offset
  `nextOff` and a value that was tried since. Remains of a long record have no first cell:
  that is why replay cannot take them for a record, however the appends over them
  fail. After a power loss the other alternative may hold: there is no record behind the
  chain, so that whatever cells follow go with the cut of the next replay.
* The last conjunct of `Placed`: as long as no power loss has come since the last append
  that succeeded, what is on the disk is a first part of the log and starts no
  record behind it. A power loss mixes file and disk; both agree on the `d` records that are
  synced, and of what is behind them it can leave any first part: the log of after it
  has `m` records, with `d <= m`. A second power loss would mix two files with remains
  of different attempts; that is the disagreement of section 5, and the premise.
* `Attempted`: the append under way has written the first cells of its record behind the log.

The abstract log never appears in the inductive invariant. `LogIs` says what `LogRecords` is
in terms of the chain, `OnDiskIs` what `Durable` is, and the refinement has one lemma per
action: `Open` shows the log, `WriteCell` is a stutter, `Commit` acknowledges, and a process or
power loss is the abstract `Stop`, which keeps everything durable.

What replay computes is a recursive function of the file (`ScanFrom`). That it is the function
its definition describes is proved here for this one, by a scan that exists from the end of
the file backwards (`ScanExists`), the induction being the fact that a set of numbers has
a least element; `ScanUnfolds` is then its defining equation and all that the rest uses.

**`MetadataProofs`**: `PlacementDistinct` (two different brokers as soon as there are
two), and that `PickAlive` returns the empty string exactly when no candidate is left
(`PickAliveType`, from the fact that a non-empty set of ids has a least element).

### What is only model-checked

* All liveness properties (`EveryProduceReturns`, `EveryCallReturns`,
  `EveryMessagePrinted`, `EveryPartitionLed`, `DownSettles`): liveness under fairness and
  `ENABLED` are out of the prover's reach.
* The properties that do not hold (section 5): there is nothing to prove.
* `TopicFiles` and `Routing` by itself, whose properties are among them.
* `Storage` with more than one power loss between two appends that succeed: `ReadsOnlyTheLog`
  holds in the run with two, and is not proved for it.

No module here declares a `RECURSIVE` operator. All invariants of the passing runs and the
refinement are proved.

## 7. Not modelled, and the plan

Not modelled for good: raft's protocol (a library), the RPC types, the parsing of flags
and the wording of output, deployment files, and the demo web application, which is an
example of a use of the system (two hazards of it are listed all the same).

Abstractions that a reader should know of:

* `Client`, `Replication` and `Storage` are separate: `Replication` takes what was appended
  for durable. A record that replay found and that was never synced is a case of
  `Storage` only (`AbstractLog` says that it may be lost), and what a leader makes of it
  is not modelled.
* `Consumer` reads logs that only grow. After a failover to the follower a log can hold other
  records, and be shorter (section 5): a saved offset may then lie beyond its end, `Fetch`
  returns nothing and no error, and records are passed over once the log has grown. What failed
  appends leave behind the log of one leader, and what its replay makes of that, is modelled.
* In `Routing` a power loss leaves the log, with or without the refused record behind it. The holes
  that two power losses can leave (section 5) are `Storage`'s.
* A read that fails although the file is in order is not modelled. `replay` takes it for the end of
  the file and truncates there (`log.go:105`), so that one such error at a restart loses
  acknowledged records.
* `Fetch` by offset, which the gateway's `/consume` offers, changes nothing and appears
  only as `EndRequest`.

Planned, in this order:

1. That the control plane makes no reassignment that `Replication` does not have: the
   metadata of one partition in `ControlPlane` as a sequence of assignments, each the
   `Repair` of the one before (or the repetition that `control_assign_once` shows).
2. `Durability`: `Replication` over logs that can lose what was not synced, composing it
   with what `AbstractLog` promises, whose theorem now stands.
3. Facts about the model that other properties lean on: that a state machine never
   passes what is committed, and that a log of `Replication` never shrinks, as action
   properties.
4. `Consumer` over `Replication`, for offsets beyond the end of a new leader's log.
