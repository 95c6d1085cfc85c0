SPECIFICATION MCFairSpec
CONSTANTS
    k1 = k1
    k2 = k2
    k3 = k3
    follower = follower
    reader = reader
    NumPartitions = 2
    Key = {k1, k2, k3}
    Hash <- MCHash
    Handler = {h1}
    MaxMessages = 2
    MaxOutage = 1
    MaxFault = 1
    Consumers = {follower, reader}
    Flag <- MCFlag
    Max <- MCMax
    Follow = {follower}
    FetchMax = 2
    MaxCrash = 1
INVARIANTS
    TypeOK
    NothingSkipped
PROPERTY EveryMessagePrinted
CHECK_DEADLOCK FALSE
