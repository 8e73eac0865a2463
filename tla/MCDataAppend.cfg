SPECIFICATION DataSpec
CONSTANTS
    a = a
    b = b
    c = c
    d = d
    x = x
    y = y
    None = None
    Keys <- Letters
    Items = {x, y}
    HashOf <- Sums
    InitialSize = 2
    Null = None
    CellsMax = 4
    Elements = {x, y}
    FirstSize = 2
    ShortString = 6
    ShortPut = 3
    MaxCount = 8
    MaxLen = 12
    SLOT_SIZE = 2
    FirstPages = 1
    MaxPages = 4
    MaxFrames = 3
    XYZSH_OPTION_MAX = 3
    Options <- MCOptions
    OptionSums <- MCOptionSums
    Count = 4
    Numbers = {0, 1, 2}
    Nothing = None
    Starts <- MCStarts
    Inputs <- MCInputs
    Arguments <- MCArguments
    Sources <- MCSources
    Unparsable <- MCUnparsable
    Indexes = {1}
    Address <- MCAddress
    MaxCommands = 2
    MaxObjects = 10
    MaxBlocks = 1
INVARIANT AppendCreates
CHECK_DEADLOCK FALSE
