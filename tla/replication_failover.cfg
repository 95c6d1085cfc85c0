SPECIFICATION Spec
CONSTANTS
    N = 3
    NumPartitions = 2
    Partition = 0
    Request = {r1, r2}
    MaxBatch = 2
    MaxCrash = 1
    MaxReassign = 1
    MaxFault = 1
    Suspicion = TRUE
SYMMETRY RequestSymmetry
INVARIANTS
    TypeOK
    AckedOffsetsFilled
    AckedOffsetsDisjoint
    RecordsAtTheirOffset
    IndInv
    AckedOnLeader
    FollowerNeverBehind
    MirrorUntilFailure
    FirstInv
CHECK_DEADLOCK FALSE
