SPECIFICATION FairSpec
CONSTANTS
    p1 = p1
    p2 = p2
    p3 = p3
    Programs <- Three
INVARIANTS
    JobsAreChildren
    TerminalOfWaited
PROPERTIES
    ExitAsksFirst
    EndedIsReaped
