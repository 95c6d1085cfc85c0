SPECIFICATION RoutingSpec
CONSTANTS
    k1 = k1
    k2 = k2
    NumPartitions = 3
    Key = {k1, k2}
    Hash <- MCHash
    Handler = {h1, h2}
    MaxMessages = 2
    MaxOutage = 0
    MaxFault = 0
INVARIANT KeyInOnePartition
CHECK_DEADLOCK FALSE
