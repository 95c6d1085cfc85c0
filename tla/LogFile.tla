------------------------------- MODULE LogFile -------------------------------
(***************************************************************************)
(* The format of a log file (internal/storage/log.go) and how it is read.  *)
(*                                                                         *)
(* A file is a sequence of cells.  The record with value v at offset o is  *)
(* encoded as the cells <<o, v, 1>>, <<o, v, 2>>, ..., <<o, v, Size[v]>>;  *)
(* the checksum is that any other run of cells is not a record.  Positions *)
(* count the cells before them.                                            *)
(***************************************************************************)
EXTENDS Integers, Sequences

CONSTANTS
    Value,          \* key, value and timestamp of a record
    Size            \* Size[v]: how many cells the encoding of v takes

ASSUME SizeAssumption == Size \in [Value -> Nat \ {0}]

Hole == <<"hole">>      \* a cell that was allocated and never written

Cell(f, j) == IF j <= Len(f) THEN f[j] ELSE Hole

\* readRecord: is there a whole record with a good checksum at pos?
IsRecord(f, pos) ==
    LET c == Cell(f, pos + 1)
    IN  /\ c # Hole
        /\ pos + Size[c[2]] <= Len(f)
        /\ \A i \in 1..Size[c[2]] : f[pos + i] = <<c[1], c[2], i>>

RecordOf(f, pos) == [off |-> f[pos + 1][1], val |-> f[pos + 1][2], at |-> pos]

\* The position behind the record at pos.
After(f, pos) == pos + Size[RecordOf(f, pos).val]

\* The records of offset o and above that readRecord returns from pos on, up to
\* the end of the file or to the first error.
ScanFrom(f, o) ==
    LET scan[pos \in 0..Len(f)] ==
            IF IsRecord(f, pos)
            THEN (IF RecordOf(f, pos).off < o THEN <<>> ELSE <<RecordOf(f, pos)>>)
                    \o scan[After(f, pos)]
            ELSE <<>>
    IN  scan

Scan(f) == ScanFrom(f, 0)

\* Where it stops, when it started at pos: at Len(f) it has met io.EOF.
ScanEnd(f, pos) ==
    LET found == Scan(f)[pos]
        last == found[Len(found)]
    IN  IF found = <<>> THEN pos ELSE After(f, last.at)
=============================================================================
