SPECIFICATION ScenarioSpec
CONSTANTS
    N = 3
    NumPartitions = 1
    MaxCrash = 3
    MaxLoss = 1
    MaxMiss = 2
INVARIANTS
    TypeOK
    CalmInv
    NoNeedlessFailover
    ReplicasDistinct
    IndInv
PROPERTIES
    EveryPartitionLed
    DownSettles
CHECK_DEADLOCK FALSE
