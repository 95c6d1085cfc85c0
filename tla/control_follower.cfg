SPECIFICATION FairSpec
CONSTANTS
    N = 3
    NumPartitions = 1
    MaxCrash = 0
    MaxLoss = 1
    MaxMiss = 0
PROPERTY FollowerRestored
CHECK_DEADLOCK FALSE
