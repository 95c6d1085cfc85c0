SPECIFICATION MCFairSpec
CONSTANTS
    N = 3
    NumPartitions = 2
    Partition = 0
    c1 = c1
    c2 = c2
    Call = {c1}
    Attempts = 2
    Request <- Tries
    Batch <- SingleCalls
    BrokerList <- TwoBrokers
    MaxBatch = 1
    MaxCrash = 1
    MaxReassign = 2
    MaxFault = 0
    MaxLoss = 1
    Suspicion = TRUE
PROPERTIES
    EveryProduceReturns
    EveryCallReturns
CHECK_DEADLOCK FALSE
