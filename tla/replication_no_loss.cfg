SPECIFICATION Spec
CONSTANTS
    N = 3
    NumPartitions = 2
    Partition = 0
    Request = {r1, r2}
    MaxBatch = 1
    MaxCrash = 1
    MaxReassign = 1
    MaxFault = 1
    Suspicion = FALSE
SYMMETRY RequestSymmetry
INVARIANT NoLossAfterFailover
CHECK_DEADLOCK FALSE
