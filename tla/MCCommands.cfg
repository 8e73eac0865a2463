SPECIFICATION Spec
CONSTANTS
    Size = 3
    Numbers <- PipeNumbers
    Directories <- SomeDirectories
    Starts <- SomeStarts
    Links <- SomeLinks
    Closed <- SomeClosed
    Arguments <- SomeArguments
    DotNames <- SomeDotNames
    HOME <- SomeHOME
    Homes <- SomeHomes
    TildaPaths <- SomeTildaPaths
    Contents <- SomeContents
    MaxCommands = 3
    Half = 8
    Numerals <- SomeNumerals
    Compared <- SomeCompared
    Files <- SomeFiles
    Searched <- SomeSearched
    Regexes <- SomeRegexes
    MaxTests = 2
INVARIANTS
    PositionsAgree LinesAgree CharactersStayWhole
    SetsAgree
    SearchesAgree
    TestsAgree
    PipeInOrder
    PathsHold
\* A behaviour is a few commands.
CHECK_DEADLOCK FALSE
