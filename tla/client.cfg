SPECIFICATION MCSpec
CONSTANTS
    N = 3
    NumPartitions = 2
    Partition = 0
    c1 = c1
    c2 = c2
    Call = {c1, c2}
    Attempts = 2
    Request <- Tries
    Batch <- BatchThenSingle
    BrokerList <- TwoBrokers
    MaxBatch = 2
    MaxCrash = 1
    MaxReassign = 1
    MaxFault = 0
    MaxLoss = 1
    Suspicion = TRUE
INVARIANTS
    ClientTypeOK
    CopiesWithinAttempts
    CallsInOrder
CHECK_DEADLOCK FALSE
