----------------------------- MODULE AbstractLog -----------------------------
(***************************************************************************)
(* What the log of a partition promises (internal/storage): a sequence     *)
(* that grows at its end, one record at a time, and that no crash takes an *)
(* acknowledged record from.  What follows the acknowledged records after  *)
(* a crash are records whose append was tried since.                       *)
(***************************************************************************)
EXTENDS Naturals, Sequences

CONSTANT Value

VARIABLES
    recs,       \* the record at offset o is recs[o+1]
    durable,    \* how many of them no crash can take away any more
    maybe       \* the values whose append was tried and not acknowledged
vars == <<recs, durable, maybe>>

Init == recs = <<>> /\ durable = 0 /\ maybe = {}

Try(v) == maybe' = maybe \cup {v} /\ UNCHANGED <<recs, durable>>

Acknowledge(v) ==
    /\ v \in maybe
    /\ recs' = Append(recs, v)
    /\ durable' = Len(recs) + 1
    /\ maybe' = {}

Stop ==
    /\ \E n \in durable..Len(recs) :
        /\ n <= Len(recs')
        /\ SubSeq(recs', 1, n) = SubSeq(recs, 1, n)
        /\ \A i \in n+1..Len(recs') : recs'[i] \in maybe
    /\ durable' \in durable..Len(recs')
    /\ UNCHANGED maybe

Next == (\E v \in Value : Try(v) \/ Acknowledge(v)) \/ Stop

Spec == Init /\ [][Next]_vars
=============================================================================
