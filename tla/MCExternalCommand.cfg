SPECIFICATION FairSpec
CONSTANTS
    AppTypes <- Modes
    Ins <- AnyIn
    Outs <- AnyOut
    Places <- AnyPlace
    Cap = 1
    MaxIn = 2
    MaxOut = 2
    MaxErr = 1
    MaxInterrupts = 2
    MaxStops = 1
CHECK_DEADLOCK FALSE
INVARIANTS
    TerminalBack
    NothingLost
    NothingLeaks
PROPERTIES
    Returns
