SPECIFICATION Spec
CONSTANTS
    short = short
    long = long
    Value = {short, long}
    Size <- MCSize
    Topic = {dotted, underscored}
    Sanitized <- OneFile
    MaxWrites = 2
    MaxRestart = 1
INVARIANT RecoversAll
CHECK_DEADLOCK FALSE
