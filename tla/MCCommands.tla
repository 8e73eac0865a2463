----------------------------- MODULE MCCommands -----------------------------
(* The commands of cmd_str.c, cmd_ary.c, cmd_num.c, cmd_condition.c and     *)
(* cmd_file.c, and the pipe they read: one of the six at a time, named by   *)
(* subject.                                                                 *)
EXTENDS ContextPipe, Paths, Conditions

VARIABLES
    subject,                                                \* the module that steps
    code, nextin                                            \* of the commands

\* What is behind the dot of a name of one letter, and where the one link is.
SomeDotNames == ".b" :> "b"
SomeLinks    == <<"l">> :> <<"a", "b">>
SomeStarts   == {<<"a">>}
SomeClosed   == {<<"c">>}
SomeHOME     == <<"", "a">>
SomeHomes    == ("~" :> <<"", "a">>) @@ ("~u" :> <<"", "u">>)
SomeTildaPaths == {<<"~", "x">>, <<"~u", "x">>, <<"~">>, <<"a", "x">>}
SomeContents == {<<>>, <<1, 2>>}

\* Texts of up to n of the characters.
UpTo(n, characters) == {FlattenSeq(t) : t \in UNION {[1..k -> characters] : k \in 0..n}}

\* The n of "|n": some lines, the rest, all but one, and more than there are.
PipeNumbers == {1, 2, -1, -2, -6}

EditInputs ==
    [kByte |-> UpTo(3, {<<97>>, <<10>>, <<13>>}), kUtf8 |-> UpTo(3, {<<97>>, <<195, 169>>, <<10>>, <<13>>}),
     kSjis |-> UpTo(2, {<<65>>, <<131, 92>>, <<32>>}), kEucjp |-> UpTo(2, {<<98>>, <<164, 162>>, <<32>>})]
EditWords == {<<98>>, <<98, 57>>}
EditNumbers == {-4, -2, -1, 0, 1, 2, 3}
EditRows == {<<<<0>>>>, <<<<-1>>>>, <<<<-9>>>>, <<<<0, -1>>>>, <<<<-1, 0>>>>, <<<<1, 9>>>>, <<<<1>>, <<-1, 0>>>>}
EditFormats == {<<"%d">>, <<"%s", "%%", "%d">>, <<"%s", "%?">>}
EditOutputs == {<<<<97, 10, 98>>, <<99, 10>>>>, <<<<>>, <<97, 13, 10, 97, 10>>>>, <<<<97>>, <<98, 10>>, <<10, 10>>>>}

SetInputs ==
    [kByte |-> UpTo(2, {<<97>>, <<98>>, <<57>>, <<46>>}), kUtf8 |-> UpTo(3, {<<97>>, <<122>>, <<195, 169>>}),
     kSjis |-> UpTo(2, {<<97>>, <<90>>, <<131, 65>>, <<65>>}), kEucjp |-> UpTo(2, {<<97>>, <<121>>, <<164, 162>>})]
Classes == {<<97>>, <<94, 97>>, <<97, 45, 98>>, <<94, 97, 45, 122>>, <<195, 169>>, <<94, 131, 65>>, <<164, 162>>, <<94>>}
SetPatterns == {<<>>} \cup {<<p>> : p \in Classes} \cup {<<<<97, 45, 122>>, <<94, 98>>>>, <<<<97>>, <<98>>>>}
SetPairs == Classes \X {<<>>, <<88>>, <<88, 45, 90>>, <<131, 65, 97>>, <<195, 169>>}

SearchInputs ==
    [kByte |-> UpTo(3, {<<97>>, <<98>>}), kUtf8 |-> UpTo(2, {<<97>>, <<98>>, <<195, 169>>}),
     kSjis |-> UpTo(2, {<<131, 97>>, <<97>>}), kEucjp |-> {<<164, 162, 97>>}]
SearchWords == {<<>>, <<97>>, <<97, 97>>, <<65>>, <<195, 169>>}
SearchRegexes == [kind : {"word", "run", "group", "before"}, of : {<<97>>}]
                 \cup {[kind |-> "word", of |-> <<97, 97>>]}
SearchStarts == {-1, 1}
SearchCounts == {0, 2}
SearchReplacements == {<<>>, <<"\\0">>, <<"\\&", "x">>, <<"\\backquote">>, <<"\\'", "\\1">>}

SomeNumerals == {<<>>, <<48>>, <<49>>, <<45, 49>>, <<32, 43, 51>>, <<55, 97>>, <<45, 56>>, <<45, 51>>, <<50>>}
SomeCompared == {<<>>, <<97>>, <<65>>, <<97, 98>>, <<98>>}
File(kind, size, time) ==
    [kind |-> kind, link |-> FALSE, mode |-> {"R_OK", "S_ISGID"}, owned |-> {"user"}, size |-> size, time |-> time]
SomeFiles ==
    "file" :> File("regular", 1, 2) @@ "dir" :> File("directory", 4, 1) @@ "pipe" :> File("fifo", 0, 3)
    @@ "device" :> [File("block", 0, 1) EXCEPT !.mode = {"S_ISVTX", "X_OK"}, !.owned = {"group"}]
    @@ "tty" :> [File("character", 0, 1) EXCEPT !.mode = {"S_ISUID", "W_OK"}]
    @@ "socket" :> File("socket", 0, 2)
    @@ "link" :> [File("regular", 1, 3) EXCEPT !.link = TRUE]
    @@ "none" :> [kind |-> "missing", link |-> FALSE, mode |-> {}, owned |-> {}, size |-> 0, time |-> -1]
    @@ "broken" :> [kind |-> "missing", link |-> TRUE, mode |-> {}, owned |-> {}, size |-> 0, time |-> 3]
SomeSearched == {<<97, 98, 97, 98>>, <<195, 169, 98>>, <<99>>}
SomeRegexes == {<<98>>, <<97>>}

\* "ab" is what "a/.b" becomes, l is a link, and c may not be entered.
SomeDirectories == {<<>>, <<"a">>, <<"a", "b">>, <<"ab">>, <<"a", ".b">>, <<"c">>}
SomeArguments ==
    {<<"a">>, <<"b">>, <<"..">>, <<".">>, <<"">>, <<".", "..">>, <<".b">>, <<"", ".b">>, <<"l", "..">>,
     <<"..", "l">>, <<"c">>, <<"..", "..">>, <<"", "a", "", "..">>, <<"", "a", ".", "">>}

Edit   == INSTANCE StringEdit WITH Inputs <- EditInputs, Words <- EditWords, Numbers <- EditNumbers,
                Rows <- EditRows, Formats <- EditFormats, Outputs <- EditOutputs
Sets   == INSTANCE StringSets WITH Inputs <- SetInputs, Patterns <- SetPatterns, Pairs <- SetPairs
Search == INSTANCE StringSearch WITH Inputs <- SearchInputs, Words <- SearchWords, Regexes <- SearchRegexes,
                Starts <- SearchStarts, Counts <- SearchCounts, Replacements <- SearchReplacements
textvars == <<code, nextin>>
restvars == <<var, alive, commands>>
dirvars  == <<dirs, file, cwd, PWD, gDirStack, gStderr>>
commandvars == <<typed, nextout, mRCode, returned>>

NoText  == code = "none" /\ nextin = <<>>
NoTest  == var = 0 /\ alive = TRUE /\ commands = 0
NoDir   == /\ dirs = Directories /\ file = Missing /\ gStderr = <<>>
           /\ cwd \in Starts /\ PWD = Text(cwd) /\ gDirStack = <<>>
NoCommand == typed = [name |-> "none"] /\ nextout = <<>> /\ mRCode = 0 /\ returned = TRUE

Init ==
    \/ subject = "edit"   /\ Edit!Init   /\ set = <<>> /\ NoTest /\ PipeInit /\ NoDir
    \/ subject = "sets"   /\ Sets!Init   /\ set = <<>> /\ NoTest /\ PipeInit /\ NoDir
    \/ subject = "search" /\ Search!Init /\ NoTest /\ PipeInit /\ NoDir
    \/ subject = "tests"  /\ TestsInit  /\ NoText /\ PipeInit /\ NoDir
    \/ subject = "pipe"   /\ PipeInit   /\ NoText /\ NoTest /\ NoCommand /\ set = <<>> /\ NoDir
    \/ /\ subject = "paths" /\ PathsInit  /\ NoText /\ set = <<>> /\ PipeInit
       /\ var = 0 /\ alive = TRUE

\* Known before the commands are tried, so that TLC need not try them all.
Waits == typed.name = "none"
Goes  == alive /\ commands < 2

Next ==
    /\ UNCHANGED subject
    /\ \/ subject = "edit"   /\ Waits /\ Edit!Next   /\ UNCHANGED <<set, restvars, pipevars, dirvars>>
       \/ subject = "sets"   /\ Waits /\ Sets!Next   /\ UNCHANGED <<set, restvars, pipevars, dirvars>>
       \/ subject = "search" /\ Waits /\ Search!Next /\ UNCHANGED <<restvars, pipevars, dirvars>>
       \/ subject = "tests"  /\ Goes /\ TestsNext  /\ UNCHANGED <<textvars, pipevars, dirvars>>
       \/ subject = "pipe"   /\ PipeNext
                             /\ UNCHANGED <<textvars, commandvars, set, restvars, dirvars>>
       \/ subject = "paths"  /\ commands < 3 /\ PathsNext
                             /\ UNCHANGED <<textvars, set, var, alive, pipevars>>

Spec == Init /\ [][Next]_<<subject, textvars, commandvars, set, restvars, pipevars, dirvars>>
-----------------------------------------------------------------------------
PositionsAgree      == subject = "edit" => Edit!PositionsAgree
LinesAgree          == subject = "edit" => Edit!EndsAgree /\ Edit!LinesAgree
CharactersStayWhole == subject = "edit" => Edit!CharactersStayWhole
SetsAgree           == subject = "sets" => Sets!SetsAgree /\ Sets!TranslatesSet /\ Sets!SuccIsNext
SearchesAgree       == subject = "search" => Search!SearchesAgree /\ Search!MatchesAgree
=============================================================================
