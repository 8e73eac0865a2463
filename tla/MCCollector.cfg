SPECIFICATION Spec
CONSTANTS
    InitPool = 5
    MaxPool = 10
    MaxNest = 4
    SweepPeriod = 2
    MaxPipe = 1
    MaxStatements = 5
    Name <- MCName
CHECK_DEADLOCK FALSE
INVARIANTS TypeOK FreeListExact FramesKept NamesLive
