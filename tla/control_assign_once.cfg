SPECIFICATION ScenarioSpec
CONSTANTS
    N = 3
    NumPartitions = 1
    MaxCrash = 3
    MaxLoss = 1
    MaxMiss = 2
PROPERTY AssignedOnce
CHECK_DEADLOCK FALSE
