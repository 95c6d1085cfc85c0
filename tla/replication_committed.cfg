SPECIFICATION Spec
CONSTANTS
    N = 3
    NumPartitions = 2
    Partition = 0
    Request = {r1, r2}
    MaxBatch = 1
    MaxCrash = 1
    MaxReassign = 1
    MaxFault = 0
    Suspicion = FALSE
SYMMETRY RequestSymmetry
INVARIANT AckedOnItsLeader
CHECK_DEADLOCK FALSE
