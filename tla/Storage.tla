------------------------------- MODULE Storage -------------------------------
(***************************************************************************)
(* The log file of one (topic, partition): internal/storage/log.go.        *)
(*                                                                         *)
(* "file" is what the processes of the machine see of it, "disk" what is   *)
(* left of it when the machine loses power.                                *)
(***************************************************************************)
EXTENDS LogFile

CONSTANTS
    MaxWrites,      \* bound: appends that are begun
    MaxCrash,       \* bound: crashes and power losses
    MaxLoss,        \* bound: power losses between two appends that succeed
    MaxFault        \* bound: WriteAt or Sync calls that fail

ASSUME LimitAssumption ==
    MaxWrites \in Nat /\ MaxCrash \in Nat /\ MaxLoss \in Nat /\ MaxFault \in Nat

VARIABLES
    file, disk,
    open,           \* is there a Log object on the file
    nextOff,        \* Log.nextOff
    index,          \* Log.index: offset to position
    size,           \* Log.size
    op,             \* the append that holds Log.mu, or NoOp
    tried,          \* the values tried since the last append that succeeded
    writes, crashes, faults,
    losses          \* the power losses since the last append that succeeded

memVars == <<open, nextOff, index, size>>
vars == <<file, disk, memVars, op, tried, writes, crashes, faults, losses>>

NoOp == [val |-> "none", done |-> 0]
Empty == [o \in {} |-> 0]

-----------------------------------------------------------------------------
\* Log.ReadFrom, with what it returns: records and error.
ReadFrom(o, max) ==
    LET pos == IF o \in DOMAIN index THEN index[o] ELSE 0
        found == ScanFrom(file, o)[pos]
    IN  IF o \notin DOMAIN index /\ o >= nextOff THEN [recs |-> <<>>, err |-> FALSE]
        ELSE IF max > 0 /\ Len(found) >= max
        THEN [recs |-> SubSeq(found, 1, max), err |-> FALSE]
        ELSE [recs |-> found, err |-> ScanEnd(file, pos) # Len(file)]

-----------------------------------------------------------------------------
Init ==
    /\ file = <<>> /\ disk = <<>>
    /\ open = FALSE /\ nextOff = 0 /\ index = Empty /\ size = 0
    /\ op = NoOp /\ tried = {}
    /\ writes = 0 /\ crashes = 0 /\ faults = 0 /\ losses = 0

\* Mutant: replay takes the last offset for the next one.
OpenAtLast ==
    LET found == Scan(file)[0]
        end == ScanEnd(file, 0)
    IN  /\ ~open
        /\ open' = TRUE
        /\ file' = SubSeq(file, 1, end)
        /\ size' = end
        /\ nextOff' = IF found = <<>> THEN 0 ELSE found[Len(found)].off
        /\ index' = [o \in {found[i].off : i \in DOMAIN found} |->
                        found[CHOOSE i \in DOMAIN found : found[i].off = o].at]
        /\ UNCHANGED <<disk, op, tried, writes, crashes, faults, losses>>

\* Mutant: replay does not truncate.
OpenUncut ==
    LET found == Scan(file)[0]
    IN  /\ ~open
        /\ open' = TRUE
        /\ size' = ScanEnd(file, 0)
        /\ nextOff' = IF found = <<>> THEN 0 ELSE found[Len(found)].off + 1
        /\ index' = [o \in {found[i].off : i \in DOMAIN found} |->
                        found[CHOOSE i \in DOMAIN found : found[i].off = o].at]
        /\ UNCHANGED <<file, disk, op, tried, writes, crashes, faults, losses>>

\* Open and replay: index what can be read, cut off the rest.  The cut is not
\* synced.
Open ==
    LET found == Scan(file)[0]
        end == ScanEnd(file, 0)
    IN  /\ ~open
        /\ open' = TRUE
        /\ file' = SubSeq(file, 1, end)
        /\ size' = end
        /\ nextOff' = IF found = <<>> THEN 0 ELSE found[Len(found)].off + 1
        /\ index' = [o \in {found[i].off : i \in DOMAIN found} |->
                        LET i == CHOOSE i \in DOMAIN found :
                                    /\ found[i].off = o
                                    /\ \A k \in DOMAIN found : found[k].off = o => k <= i
                        IN  found[i].at]
        /\ UNCHANGED <<disk, op, tried, writes, crashes, faults, losses>>

\* Append, or AppendAt of the next offset.  (AppendAt of an offset that is
\* indexed returns nil, of any other one an error; both change nothing.)
AppendAt(v) ==
    /\ open /\ op = NoOp /\ writes < MaxWrites
    /\ op' = [val |-> v, done |-> 0]
    /\ tried' = tried \cup {v}
    /\ writes' = writes + 1
    /\ UNCHANGED <<file, disk, memVars, crashes, faults, losses>>

\* WriteAt(buf, l.size) gets one cell further.
WriteCell ==
    LET j == size + op.done + 1
        cell == <<nextOff, op.val, op.done + 1>>
    IN  /\ op # NoOp /\ op.done < Size[op.val]
        /\ file' = [i \in 1..(IF j > Len(file) THEN j ELSE Len(file)) |->
                        IF i = j THEN cell ELSE file[i]]
        /\ op' = [op EXCEPT !.done = @ + 1]
        /\ UNCHANGED <<disk, memVars, tried, writes, crashes, faults, losses>>

\* Mutant: no Sync.
CommitUnsynced ==
    /\ op # NoOp /\ op.done = Size[op.val]
    /\ index' = [o \in DOMAIN index \cup {nextOff} |->
                    IF o = nextOff THEN size ELSE index[o]]
    /\ size' = size + Size[op.val]
    /\ nextOff' = nextOff + 1
    /\ op' = NoOp
    /\ tried' = {}
    /\ losses' = 0
    /\ UNCHANGED <<file, disk, open, writes, crashes, faults>>

\* Mutant: the size is advanced before the position is taken from it.
CommitSwapped ==
    /\ op # NoOp /\ op.done = Size[op.val]
    /\ disk' = file
    /\ size' = size + Size[op.val]
    /\ index' = [o \in DOMAIN index \cup {nextOff} |->
                    IF o = nextOff THEN size' ELSE index[o]]
    /\ nextOff' = nextOff + 1
    /\ op' = NoOp
    /\ tried' = {}
    /\ losses' = 0
    /\ UNCHANGED <<file, open, writes, crashes, faults>>

\* Sync returns, and the record is indexed.
Commit ==
    /\ op # NoOp /\ op.done = Size[op.val]
    /\ disk' = file
    /\ index' = [o \in DOMAIN index \cup {nextOff} |->
                    IF o = nextOff THEN size ELSE index[o]]
    /\ size' = size + Size[op.val]
    /\ nextOff' = nextOff + 1
    /\ op' = NoOp
    /\ tried' = {}
    /\ losses' = 0
    /\ UNCHANGED <<file, open, writes, crashes, faults>>

\* WriteAt or Sync returns an error.  What WriteAt wrote stays in the file.
AppendFails ==
    /\ op # NoOp /\ faults < MaxFault
    /\ faults' = faults + 1
    /\ op' = NoOp
    /\ UNCHANGED <<file, disk, memVars, tried, writes, crashes, losses>>

-----------------------------------------------------------------------------
Forget == open' = FALSE /\ nextOff' = 0 /\ index' = Empty /\ size' = 0

Close ==
    /\ open /\ op = NoOp
    /\ Forget
    /\ UNCHANGED <<file, disk, op, tried, writes, crashes, faults, losses>>

\* The process dies; the operating system keeps what was written.
ProcessCrash ==
    /\ open /\ crashes < MaxCrash
    /\ crashes' = crashes + 1
    /\ Forget
    /\ op' = NoOp
    /\ UNCHANGED <<file, disk, tried, writes, faults, losses>>

\* What may be left in the file after a power loss: of the cells that were not
\* synced some with the new content and some with the old, and its new or its
\* old length.
Dirty ==
    {j \in 1..(IF Len(file) > Len(disk) THEN Len(file) ELSE Len(disk)) :
        Cell(file, j) # Cell(disk, j)}

Survivor(kept, n) == [j \in 1..n |-> IF j \in kept THEN Cell(file, j) ELSE Cell(disk, j)]

PowerLoss ==
    /\ crashes < MaxCrash /\ losses < MaxLoss
    /\ crashes' = crashes + 1
    /\ losses' = losses + 1
    /\ Forget
    /\ op' = NoOp
    /\ \E kept \in SUBSET Dirty, n \in {Len(file), Len(disk)} :
        file' = Survivor(kept, n) /\ disk' = file'
    /\ UNCHANGED <<tried, writes, faults>>

Next ==
    \/ Open \/ Close
    \/ \E v \in Value : AppendAt(v)
    \/ WriteCell \/ Commit \/ AppendFails
    \/ ProcessCrash \/ PowerLoss

Spec == Init /\ [][Next]_vars
-----------------------------------------------------------------------------
(***************************************************************************)
(* Properties.                                                             *)
(***************************************************************************)
\* The Log object is consistent with the file: offsets are indexed without a gap
\* and every position lies in the part of the file that was replayed or written.
TypeOK ==
    /\ \A f \in {file, disk} : \A j \in 1..Len(f) : f[j] = Hole \/ f[j][2] \in Value
    /\ open \in BOOLEAN
    /\ nextOff \in Nat /\ size \in 0..Len(file)
    /\ DOMAIN index = 0..nextOff-1
    /\ \A o \in DOMAIN index : index[o] \in 0..size-1
    /\ op = NoOp \/ (open /\ op.val \in Value /\ op.done \in 0..Size[op.val])
    /\ tried \subseteq Value

\* The log as its clients see it: the indexed records while it is open, the
\* ones replay will find while it is not.
LogRecords ==
    IF open THEN [i \in 1..nextOff |-> RecordOf(file, index[i - 1]).val]
    ELSE LET found == Scan(file)[0] IN [i \in 1..Len(found) |-> found[i].val]

\* The records of it that are on the disk.
OnDisk == Len(Scan(disk)[0])
Durable == IF OnDisk < Len(LogRecords) THEN OnDisk ELSE Len(LogRecords)

\* The file implements the log: an append that was acknowledged outlives every
\* crash and power loss, and what replay finds behind it are whole records that
\* were tried since, whatever torn writes, failed syncs, cuts that never reached
\* the disk and remains of earlier attempts are in the file.
Abstract == INSTANCE AbstractLog WITH
    recs <- LogRecords,
    durable <- Durable,
    maybe <- tried
Implements == Abstract!Spec

\* A read never returns a wrong record for an offset the log has, nor stops
\* short of one: also with the remains of a failed append behind the last one.
\* What it returns beyond the log is at most one record: an append that was
\* refused since the last one that succeeded, under the offset it asked for.
ReadsTheLog ==
    open /\ op = NoOp =>
        \A o \in 0..nextOff, max \in 0..2 :
            LET r == ReadFrom(o, max).recs
                due == IF max > 0 /\ max < nextOff - o THEN max ELSE nextOff - o
            IN  /\ Len(r) >= due
                /\ \A i \in 1..due : r[i].off = o + i - 1 /\ r[i].val = LogRecords[o + i]
                /\ \A i \in 1..Len(r) :
                    o + i > nextOff => /\ o + i = nextOff + 1
                                       /\ r[i].off = nextOff
                                       /\ r[i].val \in tried

\* As long as no write or sync has failed, reads return no error and nothing
\* beyond the log, whatever crashes have left in the file: replay has cut it.
ReadsOnlyTheLog ==
    open /\ op = NoOp /\ faults = 0 =>
        \A o \in 0..nextOff, max \in 0..2 :
            LET r == ReadFrom(o, max)
            IN  ~r.err /\ Len(r.recs) <= nextOff - o

-----------------------------------------------------------------------------
(***************************************************************************)
(* What a file looks like, as an inductive invariant: records one behind   *)
(* the other, and behind them nothing that replay could take for more than *)
(* one record.  It is one as long as at most one power loss comes between  *)
(* two appends that succeed.                                               *)
(***************************************************************************)
Content == (Nat \X Value \X (Nat \ {0})) \cup {Hole}

\* The record of offset 0 is at p[0] = 0, the one of offset 1 behind it at p[1],
\* and so on for n records.
Chain(f, p, n) ==
    /\ p[0] = 0
    /\ \A i \in 0..n-1 :
        /\ IsRecord(f, p[i])
        /\ RecordOf(f, p[i]).off = i
        /\ p[i + 1] = After(f, p[i])

\* The first cell of a record.
Starts(c) == c # Hole /\ c[3] = 1

\* Behind e, where n records end, at most one record starts: at once, with
\* offset n and one of the values V.
Clean(f, e, n, V) ==
    \A j \in e+1..Len(f) :
        Starts(f[j]) => j = e + 1 /\ f[j][1] = n /\ f[j][2] \in V

\* The first n records of the file are the log, and the first d of them are on
\* the disk, with no start of a record behind them.
Placed(p, n) ==
    /\ Chain(file, p, n)
    /\ open => n = nextOff /\ size = p[n] /\ \A o \in 0..n-1 : index[o] = p[o]
    /\ \/ Clean(file, p[n], n, tried)
       \/ ~open /\ losses > 0 /\ ~IsRecord(file, p[n])
    /\ losses = 0 => \E d \in 0..n :
        /\ p[d] <= Len(disk) /\ \A j \in 1..p[d] : disk[j] = file[j]
        /\ \A j \in p[d]+1..Len(disk) : ~Starts(disk[j])

\* The append that holds Log.mu has written the first cells of its record.
Attempted ==
    /\ op \in [val : Value \cup {NoOp.val}, done : Nat]
    /\ op = NoOp \/ (open /\ op.val \in tried /\ op.done \in 0..Size[op.val])
    /\ open => size + op.done <= Len(file)
    /\ \A k \in 1..op.done : file[size + k] = <<nextOff, op.val, k>>
    /\ open /\ faults = 0 => Len(file) = size + op.done

Typed ==
    /\ file \in Seq(Content) /\ disk \in Seq(Content)
    /\ open \in BOOLEAN /\ nextOff \in Nat /\ size \in Nat
    /\ DOMAIN index = 0..nextOff-1
    /\ ~open => nextOff = 0 /\ size = 0
    /\ tried \subseteq Value /\ faults \in Nat /\ losses \in 0..1

Places(f) ==
    LET found == Scan(f)[0]
    IN  [i \in 0..Len(found) |-> IF i = 0 THEN 0 ELSE After(f, found[i].at)]

\* What any sequence of torn writes, failed syncs and crashes leaves in the file:
\* the records of the log one behind the other, what is on the disk among them,
\* and no remains that replay could take for records (replay and appendLocked).
FileInv ==
    /\ Typed /\ Attempted
    /\ \E n \in DOMAIN Places(file) : Placed(Places(file), n)
=============================================================================
