SPECIFICATION Spec
CONSTANTS
    short = short
    long = long
    Value = {short, long}
    Size <- MCSize
    MaxWrites = 4
    MaxCrash = 3
    MaxLoss = 1
    MaxFault = 2
INVARIANTS
    TypeOK
    ReadsTheLog
    ReadsOnlyTheLog
    FileInv
PROPERTY Implements
