SPECIFICATION BlockSpec
CONSTANTS
    MaxLen = 3
    Terms <- Separators
    Outs = {"pipeout", "append"}
    Bangs = {FALSE}
INVARIANTS
    AppendedIsKept
