SPECIFICATION FairSpec
CONSTANTS
    AppTypes <- Interactive
    Ins = {"none"}
    Outs = {"buffer"}
    Places = {"inner"}
    Cap = 1
    MaxIn = 1
    MaxOut = 1
    MaxErr = 2
    MaxInterrupts = 0
    MaxStops = 0
CHECK_DEADLOCK FALSE
PROPERTIES
    Returns
