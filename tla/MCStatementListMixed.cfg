SPECIFICATION BlockSpec
CONSTANTS
    MaxLen = 3
    Terms <- Operators
    Outs = {"pipeout"}
    Bangs = {FALSE}
INVARIANTS
    PreviousDecides
