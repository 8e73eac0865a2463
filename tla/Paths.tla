-------------------------------- MODULE Paths --------------------------------
(***************************************************************************)
(* cmd_file.c: cd, pushd, popd, write and expand_tilda, over directories   *)
(* and files that other programs change as well.                           *)
(*                                                                         *)
(* A path is the sequence of the names between its slashes: "/a/b" is      *)
(* <<"", "a", "b">>, "a/" is <<"a", "">> and "/" is <<"", "">>.  A         *)
(* directory is the sequence of the names that lead to it from the root.   *)
(***************************************************************************)
EXTENDS NativeCommand

CONSTANTS
    Directories,    \* those there are at first
    Starts,         \* those the shell may be in at first
    Links,          \* the symbolic links, by the directory each is in and its name, and where they lead
    Closed,         \* directories that may not be entered
    Arguments,      \* paths given to cd and pushd
    DotNames,       \* ".x" -> "x", the names of a dot and a letter
    HOME,           \* a path
    Homes,          \* the home of each user, and of "~"
    TildaPaths,     \* what expand_tilda reads
    Contents,       \* texts that are read or written
    MaxCommands     \* bound

VARIABLES
    dirs, file,         \* the directories, and what is in the file written last
    cwd, PWD, gDirStack,
    gStderr             \* what programs wrote to it and was not taken

pathvars == <<dirs, file, cwd, PWD, gDirStack, gStderr, typed, nextout, mRCode, returned, commands>>

Nowhere == <<"nowhere">>
Missing == <<"missing">>        \* of a file
Refused == <<"refused">>        \* a file that may not be opened for writing
Text(d) == IF d = <<>> THEN <<"", "">> ELSE <<"">> \o d

\* No directory on the way to it is closed.
Open(d) == \A n \in 0..(Len(d) - 1) : SubSeq(d, 1, n) \notin Closed

ASSUME DirectoriesAssumption ==
    /\ <<>> \in Directories /\ Nowhere \notin Directories
    /\ \A d \in Directories : d \in Seq(STRING)
    /\ \A d \in Directories \ {<<>>} : Front(d) \in Directories /\ Last(d) \notin {"", ".", ".."}
ASSUME LinksAssumption ==
    /\ DOMAIN Links \cap Directories = {}
    /\ \A at \in DOMAIN Links : Links[at] \in Directories /\ Open(Links[at])
ASSUME StartsAssumption ==
    \A d \in Starts : d \in Directories \ Closed /\ Open(d)
ASSUME PathsAssumption ==
    Arguments \cup {HOME} \subseteq Seq(STRING) \ {<<>>} /\ Contents \subseteq Seq(Int)

PathsInit ==
    /\ dirs = Directories /\ file = Missing
    /\ cwd \in Starts /\ PWD = Text(cwd) /\ gDirStack = <<>>
    /\ gStderr = <<>>
    /\ NoneCalled
-----------------------------------------------------------------------------
(* Paths.                                                                  *)

\* Where the kernel gets to: by one name, and by a path.
Enter(there, d, name) ==
    LET at == Append(d, name)
        to == IF at \in DOMAIN Links THEN Links[at] ELSE at
    IN  IF d = Nowhere \/ name = "" THEN d
        ELSE IF d \in Closed THEN Nowhere
        ELSE IF name = "." THEN d
        ELSE IF name = ".." THEN (IF d = <<>> THEN d ELSE Front(d))
        ELSE IF to \in there THEN to ELSE Nowhere
Walk(there, from, path) ==
    LET at[n \in 0..Len(path)] ==
            IF n = 0 THEN (IF path[1] = "" /\ Len(path) > 1 THEN <<>> ELSE from)
            ELSE Enter(there, at[n - 1], path[n])
    IN  at[Len(path)]

\* "delete .": at the end only, with the slash before it; and of a last name
\* of a dot and a letter the letter stays, behind the name in front of it.
NoDot(path) ==
    LET n == Len(path)
        before == SubSeq(path, 1, n - 2)
    IN  IF path[n] = "." THEN Front(path)
        ELSE IF path[n] = "" /\ path[n - 1] = "." THEN Append(before, "")
        ELSE IF path[n] \in DOMAIN DotNames THEN Append(before, path[n - 1] \o DotNames[path[n]])
        ELSE path

\* "delete ..", with whatever is before it; it fails at the first of all.
Shorten(so, name) ==
    IF ~so.ok THEN so
    ELSE IF name # ".." THEN [so EXCEPT !.path = Append(@, name)]
    ELSE IF Len(so.path) = 1 THEN [ok |-> FALSE, path |-> so.path]
    ELSE [so EXCEPT !.path = Front(@)]
NoDotDot(path) ==
    LET so[n \in 1..Len(path)] ==
            IF n = 1 THEN [ok |-> TRUE, path |-> <<path[1]>>] ELSE Shorten(so[n - 1], path[n])
    IN  so[Len(path)]

correct_path(current_path, path) ==
    LET tmp  == IF path[1] = "" /\ Len(path) > 1 THEN path
                ELSE (IF current_path = <<"", "">> THEN <<"">> ELSE current_path) \o path
        tmp4 == NoDotDot(NoDot(tmp))
    IN  IF tmp4.path = <<"">> \/ ~tmp4.ok THEN [tmp4 EXCEPT !.path = <<"", "">>] ELSE tmp4
-----------------------------------------------------------------------------
(* Commands.  One that does not set its code has failed, and one that has  *)
(* nothing to do with directories comes alone.                             *)

OfDirectories == {"cd", "pushd", "popd"}
Ran(command, ok, rcode, out) ==
    /\ commands < (IF command.name \in OfDirectories THEN MaxCommands ELSE 1)
    /\ Called(command, OfDirectories, MaxCommands)
    /\ Ended(ok, rcode, out)

Code(ok) == IF ok THEN 0 ELSE RCODE_NFUN_INVALID_USSING

\* Another program may take an empty directory away, once.
Removable(d) == dirs = Directories /\ d # cwd /\ d # <<>> /\ \A e \in dirs : d = e \/ ~IsPrefix(d, e)
Removed ==
    /\ commands \in 1..(MaxCommands - 1)
    /\ \E d \in dirs : Removable(d) /\ dirs' = dirs \ {d}
    /\ typed' = [name |-> "none"]
    /\ UNCHANGED <<file, cwd, PWD, gDirStack, gStderr, nextout, mRCode, returned, commands>>

\* setenv, and then chdir, before which the directory may have gone.
Changes(command, path) ==
    LET d == Walk(dirs, cwd, path)
    IN  /\ PWD' = path
        /\ \/ d \in dirs \ Closed /\ cwd' = d /\ UNCHANGED dirs /\ Ran(command, TRUE, 0, <<>>)
           \/ /\ \/ d \notin dirs \ Closed /\ UNCHANGED dirs
                 \/ d \in dirs /\ Removable(d) /\ dirs' = dirs \ {d}
              /\ UNCHANGED cwd /\ Ran(command, FALSE, RCODE_NFUN_INVALID_USSING, <<>>)

Directory(path) == path.ok /\ Walk(dirs, cwd, path.path) # Nowhere
Stays(command)  == Ran(command, FALSE, RCODE_NFUN_INVALID_USSING, <<>>) /\ UNCHANGED <<dirs, cwd, PWD>>

cmd_cd ==
    /\ \/ \E argument \in Arguments :
            LET path    == correct_path(Text(cwd), argument)
                command == [name |-> "cd", path |-> argument, from |-> cwd]
            IN  IF Directory(path) THEN Changes(command, path.path) ELSE Stays(command)
       \/ LET command == [name |-> "cd", path |-> HOME, from |-> cwd]
          IN  IF Walk(dirs, cwd, HOME) # Nowhere THEN Changes(command, HOME) ELSE Stays(command)
    /\ UNCHANGED <<file, gDirStack, gStderr>>

\* gDirStack holds paths; with each of them here, for the properties, the
\* directory it was of.
PushedAsGiven(argument, path) == argument                                   \* slip: see cmd_pushd
Pushed(argument, path)        == path
cmd_pushd ==
    /\ \E argument \in Arguments :
        LET path == correct_path(Text(cwd), argument)
            ok   == Directory(path)
            entry == [path |-> Pushed(argument, path.path), of |-> Walk(dirs, cwd, path.path)]
        IN  /\ Ran([name |-> "pushd", path |-> argument], ok, Code(ok),
                   IF ok THEN path.path ELSE <<>>)
            /\ gDirStack' = IF ok THEN Append(gDirStack, entry) ELSE gDirStack
    /\ UNCHANGED <<dirs, file, cwd, PWD, gStderr>>

cmd_popd ==
    /\ \/ /\ gDirStack # <<>>
          /\ Changes([name |-> "popd", path |-> Last(gDirStack).path, of |-> Last(gDirStack).of],
                     Last(gDirStack).path)
          /\ gDirStack' = Front(gDirStack)
       \/ gDirStack = <<>> /\ Stays([name |-> "popd", path |-> <<>>]) /\ UNCHANGED gDirStack
    /\ UNCHANGED <<file, gStderr>>

\* bufsiz_write writes to whatever open gave, -1 too, and looks neither at
\* how much was written nor, when there is nothing to write, at the file.
WritesOut(text, opened, command, out, full, part, ok) ==
    /\ ~full => part = Len(text)
    /\ file' = IF opened.ok THEN opened.file \o SubSeq(text, 1, part) ELSE command.old
    /\ gStderr' = IF ok /\ command.error THEN <<>> ELSE command.err
    /\ Ran([command EXCEPT !.full = full, !.wrote = text], ok,
           IF ~ok THEN 2048 ELSE IF command.in = <<>> THEN 16384 ELSE 0,
           IF ok THEN out ELSE <<>>)
bufsiz_write(text, opened, command, out) ==
    \E full, interrupted \in BOOLEAN, part \in 0..Len(text) :
        WritesOut(text, opened, command, out, full, part, text = <<>> \/ (opened.ok /\ ~interrupted))

\* Any file, with anything in what reached stderr before.
cmd_write ==
    /\ \E in, err \in Contents, old \in Contents \cup {Missing, Refused},
         mode \in {"new", "-force", "-append"}, error, creatable \in BOOLEAN :
        LET command == [name |-> "write", mode |-> mode, error |-> error, in |-> in,
                        err |-> err, old |-> old, full |-> FALSE, wrote |-> <<>>]
            opened  == IF mode = "-append" THEN [ok |-> old \notin {Missing, Refused}, file |-> old]
                       ELSE [ok |-> old # Refused /\ (old = Missing => creatable), file |-> <<>>]
        IN  IF mode = "new" /\ old # Missing
            THEN /\ Ran(command, FALSE, RCODE_NFUN_INVALID_USSING, <<>>)
                 /\ file' = old /\ gStderr' = err
            ELSE bufsiz_write(IF error THEN err ELSE in, opened, command, IF error THEN in ELSE <<>>)
    /\ UNCHANGED <<dirs, cwd, PWD, gDirStack>>

\* "~" and a name in front of a slash become the home of that user.
cmd_expand_tilda ==
    /\ \E path \in TildaPaths :
        Ran([name |-> "expand_tilda", path |-> path], TRUE, 0,
            IF Len(path) > 1 /\ path[1] \in DOMAIN Homes THEN Homes[path[1]] \o Tail(path) ELSE path)
    /\ UNCHANGED <<dirs, file, cwd, PWD, gDirStack, gStderr>>

PathsNext == cmd_cd \/ cmd_pushd \/ cmd_popd \/ cmd_write \/ cmd_expand_tilda \/ Removed

PathsSpec == PathsInit /\ [][PathsNext]_pathvars
-----------------------------------------------------------------------------
(* Properties.                                                             *)

PathsTypeOK ==
    /\ cwd \in dirs \ Closed
    /\ \A n \in DOMAIN gDirStack : gDirStack[n].of # Nowhere

\* A path cd takes as it is meant: no "." and no double slash but at the end,
\* no last name of a dot and a letter, and no link with ".." after it.
IsPlain(path) ==
    /\ \A n \in 1..(Len(path) - 1) : path[n] # "." /\ (n > 1 => path[n] # "")
    /\ Last(path) \notin DOMAIN DotNames
    /\ \A m, n \in DOMAIN path : m < n /\ path[n] = ".." =>
          \A at \in DOMAIN Links : path[m] # Last(at)

\* cd with such a path gets where the kernel would, if it gets anywhere; and
\* gets nowhere only if the kernel would not, the directory may not be
\* entered, or the path goes up past the root.
PastRoot(from, path) ==
    \E n \in DOMAIN path : path[n] = ".." /\ Walk(dirs, from, Append(SubSeq(path, 1, n - 1), "")) = <<>>
DirectoryIsMeant ==
    typed.name = "cd" /\ IsPlain(typed.path) =>
        LET d == Walk(dirs, typed.from, typed.path)
        IN  IF returned THEN d \in {cwd, Nowhere}
            ELSE d \in {Nowhere} \cup Closed \/ PastRoot(typed.from, typed.path)

\* When the directory was changed PWD names the one the shell is in, and the
\* one popd comes back to is the one pushd was given, wherever the shell was
\* in between.  (The path cd or pushd makes of "/.x" does not begin at the
\* root and is another one after each cd.)
BackWhereItWas ==
    typed.name \in {"cd", "popd"} /\ returned /\ PWD[1] = "" =>
        /\ Walk(dirs, cwd, PWD) = cwd
        /\ typed.name = "popd" => cwd = typed.of

\* write changes no file that is there unless it is told to, keeps what it
\* appends to, and says it succeeded only if, on a disk that is not full, what
\* it was given is now in the file, or there was none and no file to open.
WritesHold ==
    typed.name = "write" =>
        /\ typed.mode = "new" /\ typed.old # Missing => file = typed.old
        /\ typed.mode = "-append" => IsPrefix(typed.old, file)
        /\ returned /\ ~typed.full =>
              \/ file = (IF typed.mode = "-append" THEN typed.old ELSE <<>>) \o typed.wrote
              \/ typed.wrote = <<>> /\ typed.old \in {Missing, Refused} /\ file = typed.old
        /\ returned /\ typed.error => nextout = typed.in /\ gStderr = <<>>

\* What may be expected of the commands on directories and files.
PathsHold == PathsTypeOK /\ DirectoryIsMeant /\ BackWhereItWas /\ WritesHold
=============================================================================
