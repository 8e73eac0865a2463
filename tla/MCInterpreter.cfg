SPECIFICATION FairSpec
CONSTANTS
    MaxNest = 4
    MaxStack = 9
    Sites <- EverySite
INVARIANTS
    TypeOK
    Balanced
    StackInBounds
    InfoIsCaller
    PipeObjectsDropped
PROPERTIES
    JumpsLand
    ExitLeavesShell
