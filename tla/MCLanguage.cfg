SPECIFICATION LanguageSpec
CONSTANTS
    Width = 8
    STATMENT_NODE_MAX = 12
    Trees <- MCTrees
    Strays <- MCStrays
    Stores <- MCStores
    Answers <- MCAnswers
    MaxLen = 4
    Terms = {"andand", "oror", "newline", "comment"}
    Outs = {"pipeout"}
    Bangs = {TRUE, FALSE}
INVARIANTS
    StatementsSkip
    TreesReadBack
    ReadingEnds
    ReadsAsMeant
    AliasPassesOn
PROPERTY LateReads
CHECK_DEADLOCK FALSE
