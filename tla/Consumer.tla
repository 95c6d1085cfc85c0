------------------------------ MODULE Consumer ------------------------------
(***************************************************************************)
(* The consumers of a topic on one machine (cmd/consumer/main.go), over    *)
(* the partitions of module Routing.  By default they share one file of    *)
(* offsets.                                                                *)
(***************************************************************************)
EXTENDS Routing

CONSTANTS
    Consumers,
    Flag,           \* Flag[x]: --partitions of x, 0 for none
    Max,            \* Max[x]: --max of x, 0 for none
    Follow,         \* the consumers with --follow
    FetchMax,       \* how many records a Fetch returns at most (100 in the code)
    MaxCrash        \* bound: crashes of consumers, and fetches that break

ASSUME ConsumerAssumption ==
    /\ Flag \in [Consumers -> Nat] /\ Max \in [Consumers -> Nat]
    /\ Follow \subseteq Consumers
    /\ FetchMax \in Nat \ {0} /\ MaxCrash \in Nat

VARIABLES
    file,       \* the offsets file, or Unreadable
    step,       \* step[x]: where consumer x stands
    offsets,    \* offsets[x]: its map of offsets
    turn,       \* turn[x]: the partition it is at
    reply,      \* reply[x]: the records of the reply still to print
    read,       \* read[x]: how many it has read, if --max limits them
    progressed, \* progressed[x]: has it read any in this round
    printed,    \* printed[p]: history: the records printed, with their offsets
    crashes

runVars == <<step, turn, reply, read, progressed>>
consumerVars == <<file, offsets, runVars, printed, crashes>>
vars == <<routingVars, consumerVars>>

\* No file, or nothing that json.Unmarshal accepts.
Unreadable == [p \in {} |-> 0]

Init ==
    /\ RoutingInit
    /\ file = Unreadable
    /\ step = [x \in Consumers |-> "off"]
    /\ offsets = [x \in Consumers |-> Unreadable]
    /\ turn = [x \in Consumers |-> 0]
    /\ reply = [x \in Consumers |-> <<>>]
    /\ read = [x \in Consumers |-> 0]
    /\ progressed = [x \in Consumers |-> FALSE]
    /\ printed = [p \in Partitions |-> {}]
    /\ crashes = 0
-----------------------------------------------------------------------------
\* loadOffsets: the saved offset of each partition that is read, or 0.
Load(n) == [p \in 0..n-1 |-> IF p \in DOMAIN file THEN file[p] ELSE 0]

\* The process starts.  Without --partitions it asks the brokers, and exits on
\* an error.
Start(x) ==
    /\ step[x] = "off"
    /\ \E n \in (IF Flag[x] > 0 THEN {Flag[x]} ELSE {Count(a) : a \in Answers}) :
          offsets' = [offsets EXCEPT ![x] = Load(n)]
    /\ step' = [step EXCEPT ![x] = "fetching"]
    /\ UNCHANGED <<routingVars, file, turn, reply, read, progressed, printed, crashes>>

\* Go on with the next partition; after the last one the offsets are saved.
NextPartition(x) ==
    /\ turn' = [turn EXCEPT ![x] = IF @ + 1 \in DOMAIN offsets[x] THEN @ + 1 ELSE 0]
    /\ step' = [step EXCEPT ![x] = IF turn[x] + 1 \in DOMAIN offsets[x]
                                   THEN "fetching" ELSE "saving"]

\* What the file of the leader holds: ReadFrom reads it to its end, and not to
\* the end of the log.
Stored(p) == log[p] \o refused[p]

\* It fails if it gets to a part of a record before it has FetchMax records.
ReadFails(p, from) ==
    torn[p] /\ from < Len(log[p]) /\ Len(Stored(p)) < from + FetchMax

\* Mutant: records before the offset are not left out.
RecordsFromStart(p, from) == SubSeq(Stored(p), 1, Len(Stored(p)))

\* The records from the offset on, FetchMax or all there are.
Records(p, from) ==
    LET end == from + FetchMax
    IN  SubSeq(Stored(p), from + 1, IF end < Len(Stored(p)) THEN end ELSE Len(Stored(p)))

\* A Fetch that the leader answers.
Fetch(x) ==
    LET p == turn[x]
        from == offsets[x][p]
    IN  /\ step[x] = "fetching"
        /\ p \in Partitions /\ led[p] /\ ~ReadFails(p, from)
        /\ IF from < Len(log[p])
           THEN /\ step' = [step EXCEPT ![x] = "printing"]
                /\ reply' = [reply EXCEPT ![x] = Records(p, from)]
                /\ UNCHANGED turn
           ELSE NextPartition(x) /\ UNCHANGED reply
        /\ UNCHANGED <<routingVars, file, offsets, read, progressed, printed, crashes>>

\* Mutant: the partition is tried again until it answers.
FetchAgain(x) ==
    /\ step[x] = "fetching"
    /\ turn[x] \in Partitions => ~led[turn[x]] \/ ReadFails(turn[x], offsets[x][turn[x]])
    /\ UNCHANGED vars

\* All attempts failed: the partition is left for this round.
FetchFails(x) ==
    /\ step[x] = "fetching"
    /\ turn[x] \in Partitions => ~led[turn[x]] \/ ReadFails(turn[x], offsets[x][turn[x]])
    /\ NextPartition(x)
    /\ UNCHANGED <<routingVars, file, offsets, reply, read, progressed, printed, crashes>>

\* They failed although the leader could have answered: the calls broke.
FetchBreaks(x) ==
    /\ step[x] = "fetching" /\ crashes < MaxCrash
    /\ crashes' = crashes + 1
    /\ NextPartition(x)
    /\ UNCHANGED <<routingVars, file, offsets, reply, read, progressed, printed>>

\* Mutant: the offset is moved to the end of the reply with its first record.
PrintJumping(x) ==
    LET p == turn[x]
        o == offsets[x][p]
    IN  /\ step[x] = "printing"
        /\ printed' = [printed EXCEPT ![p] = @ \cup {<<o, Head(reply[x])>>}]
        /\ offsets' = [offsets EXCEPT ![x][p] = o + Len(reply[x])]
        /\ progressed' = [progressed EXCEPT ![x] = TRUE]
        /\ read' = [read EXCEPT ![x] = IF Max[x] > 0 THEN @ + 1 ELSE @]
        /\ reply' = [reply EXCEPT ![x] = <<>>]
        /\ IF Max[x] > 0 /\ read[x] + 1 >= Max[x]
           THEN step' = [step EXCEPT ![x] = "saving"] /\ UNCHANGED turn
           ELSE NextPartition(x)
        /\ UNCHANGED <<routingVars, file, crashes>>

\* A record is printed and its offset left behind; --max stops in the middle
\* of a reply.
PrintRecord(x) ==
    LET p == turn[x]
        o == offsets[x][p]
        rest == IF Max[x] > 0 /\ read[x] + 1 >= Max[x] THEN <<>> ELSE Tail(reply[x])
    IN  /\ step[x] = "printing"
        /\ printed' = [printed EXCEPT ![p] = @ \cup {<<o, Head(reply[x])>>}]
        /\ offsets' = [offsets EXCEPT ![x][p] = o + 1]
        /\ progressed' = [progressed EXCEPT ![x] = TRUE]
        /\ read' = [read EXCEPT ![x] = IF Max[x] > 0 THEN @ + 1 ELSE @]
        /\ reply' = [reply EXCEPT ![x] = rest]
        /\ IF Max[x] > 0 /\ read[x] + 1 >= Max[x]
           THEN step' = [step EXCEPT ![x] = "saving"] /\ UNCHANGED turn
           ELSE IF rest # <<>> THEN UNCHANGED <<step, turn>>
           ELSE NextPartition(x)
        /\ UNCHANGED <<routingVars, file, crashes>>

\* saveOffsets: os.WriteFile empties the file, then writes it.
Truncate(x) ==
    /\ step[x] = "saving"
    /\ file' = Unreadable
    /\ step' = [step EXCEPT ![x] = "writing"]
    /\ UNCHANGED <<routingVars, offsets, turn, reply, read, progressed, printed, crashes>>

\* The end of a round, or of the consumer: at --max, and without --follow
\* after a round that read nothing.
Finished(x) ==
    \/ Max[x] > 0 /\ read[x] >= Max[x]
    \/ x \notin Follow /\ ~progressed[x]

\* The process ends, and its memory with it.
Exit(x) ==
    /\ step' = [step EXCEPT ![x] = "off"]
    /\ offsets' = [offsets EXCEPT ![x] = Unreadable]
    /\ turn' = [turn EXCEPT ![x] = 0]
    /\ reply' = [reply EXCEPT ![x] = <<>>]
    /\ read' = [read EXCEPT ![x] = 0]
    /\ progressed' = [progressed EXCEPT ![x] = FALSE]

\* What another consumer wrote in between is overwritten from the start; the
\* rest of a longer text stays behind ours, and makes the file unreadable.
Write(x) ==
    /\ step[x] = "writing"
    /\ file' \in {offsets[x]} \cup (IF file = Unreadable THEN {} ELSE {Unreadable})
    /\ IF Finished(x) THEN Exit(x)
       ELSE /\ step' = [step EXCEPT ![x] = "fetching"]
            /\ turn' = [turn EXCEPT ![x] = 0]
            /\ progressed' = [progressed EXCEPT ![x] = FALSE]
            /\ UNCHANGED <<offsets, reply, read>>
    /\ UNCHANGED <<routingVars, printed, crashes>>

\* The consumer is killed.  What it printed and had not saved is printed again.
Crash(x) ==
    /\ step[x] # "off" /\ crashes < MaxCrash
    /\ crashes' = crashes + 1
    /\ Exit(x)
    /\ UNCHANGED <<routingVars, file, printed>>

-----------------------------------------------------------------------------
Run(x) ==
    \/ Fetch(x) \/ FetchFails(x) \/ PrintRecord(x) \/ Truncate(x) \/ Write(x)

Next ==
    \/ RoutingNext /\ UNCHANGED consumerVars
    \/ \E x \in Consumers : Start(x) \/ Run(x) \/ FetchBreaks(x) \/ Crash(x)

Spec == Init /\ [][Next]_vars

\* A consumer with --follow goes on, and is started again after a crash.
Fairness == \A x \in Follow : WF_vars(Start(x)) /\ WF_vars(Run(x))

FairSpec == Spec /\ Fairness
-----------------------------------------------------------------------------
(***************************************************************************)
(* Properties.                                                             *)
(***************************************************************************)
\* The offsets that records of p have had, in the log or behind it.
Known(p) == 0..Len(log[p])-1 \cup spoiled[p]

\* Offsets are numbers, a consumer is at a partition it has an offset for, and
\* what it prints or is about to print has offsets that records had, through
\* records behind the log that are overwritten while they are on their way.
TypeOK ==
    /\ \A m \in {file} \cup {offsets[x] : x \in Consumers} :
          \A p \in DOMAIN m : p \in Nat /\ m[p] \in Nat
    /\ step \in [Consumers -> {"off", "fetching", "printing", "saving", "writing"}]
    /\ \A x \in Consumers : step[x] # "off" => turn[x] \in DOMAIN offsets[x]
    /\ \A x \in Consumers : step[x] = "printing" =>
          /\ turn[x] \in Partitions
          /\ \A i \in 1..Len(reply[x]) :
                offsets[x][turn[x]] + i - 1 \in Known(turn[x])
    /\ \A p \in Partitions : \A r \in printed[p] : r[1] \in Known(p)

Passed(m, p) == IF p \in DOMAIN m THEN 0..m[p]-1 ELSE {}

\* The record of the log at offset o was printed.
Printed(p, o) == o < Len(log[p]) /\ <<o, log[p][o + 1]>> \in printed[p]

AllPrinted(m) ==
    \A p \in Partitions : \A o \in Passed(m, p) : o \in spoiled[p] \/ Printed(p, o)

\* A consumer skips a record only where an append failed in Sync: at all other
\* offsets below its own, saved or in its memory, what the log has was printed,
\* although consumers crash between printing and saving, or in the middle of
\* saving, overwrite and misread each other's file, and read different sets of
\* partitions, and appends fail under them.
NothingSkipped == AllPrinted(file) /\ \A x \in Consumers : AllPrinted(offsets[x])

\* Consumers catch up with a partition that has a leader for good, and no part of
\* a record at the end of its file: every message is printed, unless it took the
\* place of a refused record; also when another partition has no leader, and when
\* consumers crash and lose their offsets.
EveryMessagePrinted ==
    \A p \in Partitions : <>[](led[p] /\ ~torn[p]) =>
        []<>(\A o \in 0..Len(log[p])-1 : o \in spoiled[p] \/ Printed(p, o))
=============================================================================
