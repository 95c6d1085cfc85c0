----------------------------- MODULE TopicFiles -----------------------------
(***************************************************************************)
(* The logs of one broker and one partition, by topic: logFor and          *)
(* sanitizeTopic of internal/broker/broker.go over the files of            *)
(* internal/storage/log.go.  Log objects are kept by the name of the       *)
(* topic, files by its sanitized form, which two topics may share.         *)
(*                                                                         *)
(* An append is one step here: what crashes and failing writes leave in a  *)
(* file is the matter of module Storage.                                   *)
(***************************************************************************)
EXTENDS LogFile

CONSTANTS
    Topic,          \* the topics (not the empty one, which logFor refuses)
    Sanitized,      \* Sanitized[t]: sanitizeTopic of t
    MaxWrites,      \* bound: appends
    MaxRestart      \* bound: restarts of the broker

VARIABLES
    file,       \* file[f]: the content of the file with sanitized topic f
    logs,       \* logs[t]: Broker.logs, the Log object of each topic opened so far
    acked,      \* acked[t]: the records of t that AppendAt accepted
    writes, restarts

vars == <<file, logs, acked, writes, restarts>>

Init ==
    /\ file = [f \in {Sanitized[t] : t \in Topic} |-> <<>>]
    /\ logs = [t \in {} |-> 0]
    /\ acked = [t \in Topic |-> {}]
    /\ writes = 0 /\ restarts = 0

\* The first request for a topic opens its log: replay, and the cut of what
\* cannot be read.
LogFor(t) ==
    LET f == Sanitized[t]
        found == Scan(file[f])[0]
        end == ScanEnd(file[f], 0)
        lg == [size |-> end,
               nextOff |-> IF found = <<>> THEN 0 ELSE found[Len(found)].off + 1]
    IN  /\ t \notin DOMAIN logs
        /\ logs' = [u \in DOMAIN logs \cup {t} |-> IF u = t THEN lg ELSE logs[u]]
        /\ file' = [file EXCEPT ![f] = SubSeq(@, 1, end)]
        /\ UNCHANGED <<acked, writes, restarts>>

\* WriteAt(buf, l.size): what stood there is overwritten.
Written(f, pos, o, v) ==
    LET end == pos + Size[v]
    IN  [j \in 1..(IF end > Len(f) THEN end ELSE Len(f)) |->
            IF j \in pos+1..end THEN <<o, v, j - pos>> ELSE Cell(f, j)]

\* AppendAt of the next offset, through the topic's own Log object.
AppendAt(t, v) ==
    /\ t \in DOMAIN logs /\ writes < MaxWrites
    /\ writes' = writes + 1
    /\ LET lg == logs[t]
       IN  /\ file' = [file EXCEPT ![Sanitized[t]] = Written(@, lg.size, lg.nextOff, v)]
           /\ logs' = [logs EXCEPT ![t] = [size |-> lg.size + Size[v],
                                           nextOff |-> lg.nextOff + 1]]
           /\ acked' = [acked EXCEPT ![t] = @ \cup {[off |-> lg.nextOff, val |-> v]}]
    /\ UNCHANGED restarts

Restart ==
    /\ restarts < MaxRestart
    /\ restarts' = restarts + 1
    /\ logs' = [t \in {} |-> 0]
    /\ UNCHANGED <<file, acked, writes>>

Next ==
    \/ \E t \in Topic : LogFor(t) \/ \E v \in Value : AppendAt(t, v)
    \/ Restart

Spec == Init /\ [][Next]_vars
-----------------------------------------------------------------------------
\* report.md:202, "Storage Persistence": "recover all data after a full restart":
\* the replay of a restarted broker finds every record that a topic's log has
\* accepted, whatever the other topics wrote.
RecoversAll ==
    restarts > 0 /\ DOMAIN logs = {} =>
        \A t \in Topic : \A a \in acked[t] :
            LET found == Scan(file[Sanitized[t]])[0]
            IN  \E i \in DOMAIN found : found[i].off = a.off /\ found[i].val = a.val
=============================================================================
