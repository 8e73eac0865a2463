-------------------------------- MODULE Parser --------------------------------
(***************************************************************************)
(* parser.c: a text is read, character by character and by recursive       *)
(* descent, into statements, their commands, and the arguments, blocks,    *)
(* redirects and expansions of each command.                               *)
(*                                                                         *)
(* An expansion ($name, $(block), `block`) is a number between two         *)
(* characters 3 in the text of its argument, and the number is that of an  *)
(* entry of the command's mEnvs.                                           *)
(*                                                                         *)
(* Left out: the ':' statements (see Expression), line numbers, the flags   *)
(* kept for completion, and how the arrays grow.                           *)
(***************************************************************************)
EXTENDS Integers, Sequences, SequencesExt, TLC

CONSTANTS
    STATMENT_COMMANDS_MAX,
    gAppType,       \* "kATOptC" for a script
    Homes,          \* the users with a home directory, and what it is
    Freed           \* what the memory of a freed name reads as, "name" if untouched

Digits    == {"0", "1", "2", "3", "4", "5", "6", "7", "8", "9"}
Letters   == {"a", "b", "c", "k", "m", "n", "q", "Q", "t", "u", "w", "x", "y"}
NameChars == Letters \cup Digits \cup {"_", ":"}
Blanks    == {" ", "\t"}
PARSER_MAGIC_NUMBER_ENV == "mark"

At(t, p) == IF p \in 1..Len(t) THEN t[p] ELSE ""

Past(t, p, set) ==
    LET q == SelectInSubSeq(t, p, Len(t), LAMBDA ch : ch \notin set)
    IN  IF q = 0 THEN Len(t) + 1 ELSE q
skip_spaces(t, p) == Past(t, p, Blanks)

skip_to_nextline(t, p) ==
    LET q == SelectInSubSeq(t, p, Len(t), LAMBDA ch : ch = "\n")
    IN  IF q = 0 THEN Len(t) + 1 ELSE q + 1

\* Decimal digits of the small numbers between the marks, and back.
DigitOf == <<"0", "1", "2", "3", "4", "5", "6", "7", "8", "9">>
Marked(n) == <<PARSER_MAGIC_NUMBER_ENV, DigitOf[n + 1], PARSER_MAGIC_NUMBER_ENV>>

sBuf == [text |-> <<>>, redirect |-> "none", env |-> FALSE, glob |-> FALSE, tilda |-> FALSE,
         quoted |-> FALSE, message |-> FALSE, option |-> FALSE, head |-> FALSE]

sCommand_new == [args |-> <<>>, envs |-> <<>>, blocks |-> <<>>, redirects |-> <<>>, messages |-> <<>>]

\* Where reading is: how it goes, the place, the argument and its command.
At0(p, buf, command) == [how |-> "ok", p |-> p, buf |-> buf, command |-> command]
Refused == [how |-> "failed"]

\* What was read goes on to Next, unless it was refused or reading hangs.
Then(read, Next(_)) == IF read.how = "ok" THEN Next(read) ELSE read

AddChar(s, ch) == [s EXCEPT !.buf.text = Append(@, ch)]
Forward(s, n)  == [s EXCEPT !.p = @ + n]

-----------------------------------------------------------------------------
(* Reading an argument.                                                    *)

\* A character after a backslash; one at the head of an argument marks it.
read_backslash(t, s) ==
    LET ch == At(t, s.p + 1)
        control == [t |-> "\t", n |-> "\n", r |-> "\r", a |-> "bel"]
    IN  CASE ch = ""   -> Refused
          [] ch = "\n" -> Forward(s, 2)
          [] ch \in DOMAIN control -> Forward(AddChar(s, control[ch]), 2)
          [] ch = "\\" -> Forward(AddChar(s, ch), 2)
          [] OTHER -> Forward(AddChar([s EXCEPT !.buf.head = @ \/ s.buf.text = <<>>], ch), 2)

\* tilda_expasion: a name nobody has is copied after it has been freed.
tilda_expasion(word) ==
    LET slash == SelectInSubSeq(word, 2, Len(word), LAMBDA ch : ch = "/")
        end   == IF slash = 0 THEN Len(word) + 1 ELSE slash
        user  == SubSeq(word, 2, end - 1)
    IN  (IF user \in DOMAIN Homes THEN Homes[user]
         ELSE <<"~">> \o (IF Freed = <<"name">> THEN user ELSE Freed))
        \o SubSeq(word, end, Len(word))

\* What is an argument: an empty one is if it is quoted.
HasText(buf, word) == word # <<>>                                       \* slip
IsGiven(buf, word) == buf.quoted \/ word # <<>>

\* sCommand_add_arg and sCommand_add_redirect.
Argument(buf, word) == [text |-> word, env |-> buf.env, quoted |-> buf.quoted, head |-> buf.head,
                        glob |-> buf.glob, option |-> buf.option]
Redirect(buf, word) == [file |-> word, kind |-> buf.redirect, env |-> buf.env,
                        quoted |-> buf.quoted, glob |-> buf.glob]

add_argument_to_command(buf, command) ==
    LET word == IF buf.tilda THEN tilda_expasion(buf.text) ELSE buf.text IN
    CASE buf.redirect # "none" /\ buf.option -> Refused
      [] buf.redirect # "none" /\ ~buf.option ->
            [how |-> "ok", command |-> [command EXCEPT !.redirects = Append(@, Redirect(buf, word))]]
      [] buf.redirect = "none" /\ IsGiven(buf, word) ->
            [how |-> "ok", command |-> [command EXCEPT !.args = Append(@, Argument(buf, word))]]
      [] OTHER -> [how |-> "ok", command |-> command]

\* The text of an argument gets the number of the next entry of mEnvs.
WithEnv(s, entry) ==
    [s EXCEPT !.buf.env = TRUE,
              !.buf.text = @ \o Marked(Len(s.command.envs)),
              !.command.envs = Append(@, entry)]

\* < and >: what was read so far is an argument of its own.
Redirection(t, s) ==
    LET twice == At(t, s.p) = ">" /\ At(t, s.p + 1) = ">"
        kind  == IF twice THEN "append" ELSE IF At(t, s.p) = ">" THEN "out" ELSE "in"
        buf   == IF s.buf.text = <<>> THEN s.buf ELSE sBuf
        next  == skip_spaces(t, s.p + (IF twice THEN 2 ELSE 1))
    IN  Then(IF s.buf.text = <<>> THEN [how |-> "ok", command |-> s.command]
             ELSE add_argument_to_command(s.buf, s.command),
             LAMBDA added : At0(next, [buf EXCEPT !.redirect = kind], added.command))

RECURSIVE ReadArgument(_, _, _, _), ReadDollar(_, _), ReadBackquote(_, _), InDouble(_, _, _, _),
          HereLines(_, _, _, _), BlockFrom(_, _, _, _)

\* The characters up to the closing one, in double quotes or %Q: a backslash
\* and an expansion do what they do outside, a backquote only in the quotes.
InDouble(t, s, close, quotes) ==
    IF At(t, s.p) = close THEN Forward(s, 1)
    ELSE IF At(t, s.p) = "" THEN Refused
    ELSE Then(CASE At(t, s.p) = "\\" -> read_backslash(t, s)
                [] At(t, s.p) = "$"  -> ReadDollar(t, s)
                [] At(t, s.p) = "backquote" /\ quotes -> ReadBackquote(t, s)
                [] OTHER -> Forward(AddChar(s, At(t, s.p)), 1),
              LAMBDA next : InDouble(t, next, close, quotes))

InSingle(t, s, close) ==
    LET end == SelectInSubSeq(t, s.p, Len(t), LAMBDA ch : ch = close)
    IN  IF end = 0 THEN Refused
        ELSE [s EXCEPT !.buf.text = @ \o SubSeq(t, s.p, end - 1), !.p = end + 1]

Closing(ch) == CASE ch = "(" -> ")" [] ch = "<" -> ">" [] ch = "[" -> "]" [] ch = "{" -> "}"
                 [] OTHER -> ch
Quoting(s)  == [s EXCEPT !.buf.quoted = TRUE]

\* What is quoted: in quotes, or after %q or %Q with a delimiter.
IsPercent(t, p) == /\ At(t, p) = "%" /\ At(t, p + 1) \in {"q", "Q"}
                   /\ At(t, p + 2) \notin Letters \cup Digits \cup {"", "\n", "\t", "\r", "bel", "mark"}
IsQuotation(t, p) == At(t, p) \in {"'", "\""} \/ IsPercent(t, p)

Quotation(t, s) ==
    LET percent == At(t, s.p) = "%"
        from    == Forward(Quoting(s), IF percent THEN 3 ELSE 1)
        close   == IF percent THEN Closing(At(t, s.p + 2)) ELSE At(t, s.p)
    IN  IF At(t, s.p) = "\"" \/ (percent /\ At(t, s.p + 1) = "Q")
        THEN InDouble(t, from, close, ~percent)
        ELSE InSingle(t, from, close)

\* block_clone_on_stack: all of a block but the line fields of the expansions
\* in it, which nobody writes.
RECURSIVE block_clone_on_stack(_)
block_clone_on_stack(block) ==
    LET Env(e) == IF e.kind = "block"
                  THEN [e EXCEPT !.lf = "unset", !.block = block_clone_on_stack(@)] ELSE e
        sCommand_copy_deeply_stack(c) ==
            [c EXCEPT !.envs   = [k \in 1..Len(c.envs) |-> Env(c.envs[k])],
                      !.blocks = [k \in 1..Len(c.blocks) |-> block_clone_on_stack(c.blocks[k])]]
        Statment(st) == [st EXCEPT !.commands =
            [k \in 1..Len(st.commands) |-> sCommand_copy_deeply_stack(st.commands[k])]]
    IN  [block EXCEPT !.statments = [k \in 1..Len(block.statments) |-> Statment(block.statments[k])]]

\* sCommand_add_env_block: the block is cloned, its own line field is written.
AfterBlock(s, lf, read) ==
    WithEnv([s EXCEPT !.p = read.p],
            [kind |-> "block", lf |-> lf, block |-> block_clone_on_stack(read.block)])

ReadBackquote(t, s) ==
    Then(BlockFrom(t, s.p + 1, "backquote", <<>>), LAMBDA read : AfterBlock(s, "kLF", read))

\* Between the brackets of ${name=value}: where it stops, the name, the
\* value.  The value may end with the text.
Braced(t, p) ==
    LET end    == SelectInSubSeq(t, p, Len(t), LAMBDA ch : ch \in {"}", "="})
        close  == SelectInSubSeq(t, end, Len(t), LAMBDA ch : ch = "}")
    IN  CASE end = 0 -> [how |-> "failed"]
          [] end # 0 /\ At(t, end) = "}" ->
                [how |-> "ok", p |-> end + 1, name |-> SubSeq(t, p, end - 1), init |-> <<>>]
          [] end # 0 /\ At(t, end) = "=" ->
                [how |-> "ok", p |-> IF close = 0 THEN Len(t) + 1 ELSE close + 1,
                 name |-> SubSeq(t, p, end - 1),
                 init |-> SubSeq(t, end + 1, IF close = 0 THEN Len(t) ELSE close - 1)]
Bare(t, p) == [how |-> "ok", p |-> Past(t, p, NameChars), init |-> <<>>,
               name |-> SubSeq(t, p, Past(t, p, NameChars) - 1)]

AfterKey(s, name, key) ==
    WithEnv([s EXCEPT !.p = key.p, !.command = key.command],
            [kind |-> "var", name |-> name.name, init |-> name.init, key |-> key.buf.text,
             keyEnv |-> key.buf.env, keyQuoted |-> key.buf.quoted])

LineField == [a |-> "kBel", m |-> "kCR", w |-> "kCRLF", u |-> "kLF"]

ReadDollar(t, s0) ==
    LET dash   == At(t, s0.p + 1) = "-"
        s      == [s0 EXCEPT !.p = @ + (IF dash THEN 2 ELSE 1), !.buf.option = @ \/ dash]
        field  == At(t, s.p + 1) = "(" /\ At(t, s.p) \in DOMAIN LineField
        open   == IF field THEN s.p + 1 ELSE s.p
        AfterName(name) ==
            IF At(t, name.p) # "[" THEN AfterKey(s, name, At0(name.p, sBuf, s.command))
            ELSE Then(ReadArgument(t, At0(name.p + 1, sBuf, s.command), TRUE, FALSE),
                      LAMBDA key : IF At(t, skip_spaces(t, key.p)) # "]" THEN Refused
                                   ELSE AfterKey(s, name, [key EXCEPT !.p = skip_spaces(t, @) + 1]))
    IN  IF At(t, open) = "("
        THEN Then(BlockFrom(t, open + 1, ")", <<>>), LAMBDA read :
                  AfterBlock(s, IF field THEN LineField[At(t, s.p)] ELSE "kLF", read))
        ELSE Then(IF At(t, s.p) = "{" THEN Braced(t, s.p + 1) ELSE Bare(t, s.p), AfterName)

\* <<<NAME: the lines after it up to the one that begins with the name.  The
\* name is looked for after a line's end only, so never in the first line.
HereNames == (NameChars \ {":"})
HereLines(t, s, name, raw) ==
    LET end  == Past(t, s.p + 1, HereNames)
        word == SubSeq(t, s.p + 1, end - 1)
        line == [AddChar(s, "\n") EXCEPT !.p = end]
    IN  IF At(t, s.p) = "" THEN Refused
        ELSE IF At(t, s.p) = "\n" /\ word = name THEN line
        ELSE Then(CASE At(t, s.p) = "$" /\ ~raw -> ReadDollar(t, s)
                    [] At(t, s.p) = "\n" -> [line EXCEPT !.buf.text = @ \o word]
                    [] OTHER -> Forward(AddChar(s, At(t, s.p)), 1),
                  LAMBDA next : HereLines(t, next, name, raw))

IsHere(t, p) == \A k \in 0..2 : At(t, p + k) = "<"
HereFrom(t, s, first, end, raw, quote) ==
    LET eol == IF raw THEN skip_spaces(t, quote + 1) ELSE quote IN
    IF (raw /\ At(t, quote) # "'") \/ At(t, eol) # "\n" \/ first = end THEN Refused
    ELSE HereLines(t, [s EXCEPT !.p = eol + 1], SubSeq(t, first, end - 1), raw)
HereNamed(t, s, first, end, raw) == HereFrom(t, s, first, end, raw, skip_spaces(t, end))
HereAt(t, s, first, raw)         == HereNamed(t, s, first, Past(t, first, HereNames), raw)
HereDocument(t, s) ==
    LET from == skip_spaces(t, s.p + 3)
        raw  == At(t, from) = "'"
    IN  HereAt(t, s, IF raw THEN skip_spaces(t, from + 1) ELSE from, raw)

\* What ends an argument; in a block between backquotes that is one too.
Ends(ch, inBracket, inBackquote) ==
    \/ ch \in {"", "\n", " ", "#", "&", "(", ")", ";", "|"}
    \/ inBracket /\ ch = "]"
    \/ inBackquote /\ ch = "backquote"

IsGlob(s, ch) == s.command.args # <<>> /\ ch \in {"[", "]", "?", "*"}
IsOption(t, s) == /\ s.command.args # <<>> /\ s.buf.text = <<>> /\ At(t, s.p) = "-"
                  /\ At(t, s.p + 1) \in Letters \cup {"-", "_"}

\* read_one_argument: what is at the place, and then the rest.
ReadOne(t, s) ==
    LET ch == At(t, s.p) IN
    CASE IsQuotation(t, s.p) -> Quotation(t, s)
      [] ch = "\\" -> read_backslash(t, s)
      [] ch = "backquote" -> ReadBackquote(t, s)
      [] ch = "$" -> ReadDollar(t, s)
      [] IsHere(t, s.p) -> HereDocument(t, s)
      [] ch = "~" /\ s.buf.text = <<>> -> Forward(AddChar([s EXCEPT !.buf.tilda = TRUE], ch), 1)
      [] ch \in {">", "<"} /\ ~IsHere(t, s.p) -> Redirection(t, s)
      [] IsGlob(s, ch) -> IF s.buf.option THEN Refused
                          ELSE Forward(AddChar([s EXCEPT !.buf.glob = TRUE], ch), 1)
      [] IsOption(t, s) -> IF s.buf.glob THEN Refused
                           ELSE Forward(AddChar([s EXCEPT !.buf.option = TRUE], ch), 1)
      [] OTHER -> Forward(AddChar(s, ch), 1)

ReadArgument(t, s, inBracket, inBackquote) ==
    IF Ends(At(t, s.p), inBracket, inBackquote) THEN s
    ELSE IF s.command.args = <<>> /\ At(t, s.p) = ":" /\ At(t, s.p + 1) = ":"
    THEN [Forward(s, 2) EXCEPT !.buf.message = TRUE]
    ELSE Then(ReadOne(t, s), LAMBDA next : ReadArgument(t, next, inBracket, inBackquote))

-----------------------------------------------------------------------------
(* Commands, statements and blocks.                                        *)

Arg(word) == [Argument(sBuf, word) EXCEPT !.text = word]
subshell  == <<"s", "u", "b", "s", "h", "e", "l", "l">>

RECURSIVE ReadCommand(_, _, _, _)
ReadCommand(t, p, command, inBackquote) ==
    LET WithBlock(c, block) == [c EXCEPT !.blocks = Append(@, block),
                                         !.args = IF @ = <<>> THEN <<Arg(subshell)>> ELSE @]
        AfterArgument(s, c) ==
            IF At(t, s.p) = "("
            THEN Then(BlockFrom(t, s.p + 1, ")", <<>>), LAMBDA read :
                      ReadCommand(t, read.p, WithBlock(c, read.block), inBackquote))
            ELSE IF At(t, s.p) \in Blanks
            THEN ReadCommand(t, skip_spaces(t, s.p), c, inBackquote)
            ELSE [how |-> "ok", p |-> s.p, command |-> c]
    IN  IF p > Len(t) THEN [how |-> "ok", p |-> p, command |-> command]
        ELSE Then(ReadArgument(t, At0(p, sBuf, command), FALSE, inBackquote), LAMBDA s :
                  IF s.buf.message
                  THEN ReadCommand(t, s.p, [s.command EXCEPT !.messages = Append(@, s.buf.text)],
                                   inBackquote)
                  ELSE Then(add_argument_to_command(s.buf, s.command),
                            LAMBDA added : AfterArgument(s, added.command)))

\* The commands of a pipe; one with no arguments is dropped.
RECURSIVE Commands(_, _, _, _)
Commands(t, p, list, inBackquote) ==
    LET After(read) == IF read.command.args = <<>> THEN list ELSE Append(list, read.command)
    IN  IF p > Len(t) THEN [how |-> "ok", p |-> p, list |-> list]
        ELSE IF Len(list) >= STATMENT_COMMANDS_MAX THEN Refused
        ELSE Then(ReadCommand(t, p, sCommand_new, inBackquote), LAMBDA read :
                  IF read.command.args = <<>> /\ read.command.messages # <<>> THEN Refused
                  ELSE IF At(t, read.p) = "|" /\ At(t, read.p + 1) \notin {">", "|"}
                  THEN Commands(t, skip_spaces(t, read.p + 1), After(read), inBackquote)
                  ELSE [how |-> "ok", p |-> read.p, list |-> After(read)])

\* What may come before the commands: '!', then |> or |number.
PipeIn(t, p, flags) ==
    CASE At(t, p) = "|" /\ At(t, p + 1) = ">" ->
            [p |-> skip_spaces(t, p + 2), flags |-> flags \cup {"GLOBAL_PIPE_IN"}, lines |-> <<>>]
      [] At(t, p) = "|" /\ At(t, p + 1) \notin {">", "|"} ->
            LET end == Past(t, p + 1, Digits \cup {"-"}) IN
            [p |-> skip_spaces(t, end), flags |-> flags \cup {"CONTEXT_PIPE"},
             lines |-> SubSeq(t, p + 1, end - 1)]
      [] OTHER -> [p |-> p, flags |-> flags, lines |-> <<>>]
Opening(t, p) == IF At(t, p) = "!" THEN PipeIn(t, skip_spaces(t, p + 1), {"REVERSE"})
                 ELSE PipeIn(t, p, {})

\* What may come after them: |> or |>>.
GlobalOut(t, p) ==
    CASE At(t, p) = "|" /\ At(t, p + 1) = ">" /\ At(t, p + 2) = ">" ->
            [p |-> skip_spaces(t, p + 3), flags |-> {"GLOBAL_PIPE_APPEND"}]
      [] At(t, p) = "|" /\ At(t, p + 1) = ">" /\ At(t, p + 2) # ">" ->
            [p |-> skip_spaces(t, p + 2), flags |-> {"GLOBAL_PIPE_OUT"}]
      [] OTHER -> [p |-> p, flags |-> {}]

\* The termination of a statment.
Terminator(t, p, inBackquote) ==
    LET ends(n, flags) == [how |-> "ok", p |-> IF n = 0 THEN p ELSE skip_spaces(t, p + n),
                           flags |-> flags]
        two(ch) == At(t, p) = ch /\ At(t, p + 1) = ch
    IN  CASE two("&") -> ends(2, {"ANDAND"})
          [] two("|") -> ends(2, {"OROR"})
          [] At(t, p) = "&" /\ ~two("&") ->
                IF gAppType = "kATOptC" THEN Refused ELSE ends(1, {"BACKGROUND"})
          [] At(t, p) \in {"\n", ";"} -> ends(1, {"NORMAL"})
          [] At(t, p) = ""            -> ends(0, {"NORMAL"})
          [] At(t, p) \in {")", "#"} \/ (inBackquote /\ At(t, p) = "backquote") -> ends(0, {})
          [] OTHER -> Refused

AfterOpening(t, head, inBackquote) ==
    Then(Commands(t, head.p, <<>>, inBackquote), LAMBDA read :
         LET End(out) ==
                Then(Terminator(t, out.p, inBackquote), LAMBDA last :
                     [how |-> "ok", p |-> last.p,
                      statment |-> [flags |-> head.flags \cup out.flags \cup last.flags,
                                    lines |-> head.lines, commands |-> read.list]])
         IN  End(GlobalOut(t, read.p)))
ReadStatment(t, p, inBackquote) == AfterOpening(t, Opening(t, p), inBackquote)

SkipBlank(t, p)   == Past(t, p, Blanks \cup {"\n"})
NoComment(t, p)   == p                                                  \* slip
SkipComment(t, p) == IF At(t, p) = "#" THEN skip_to_nextline(t, p) ELSE p
Kept(list, statment) == IF statment.commands = <<>> THEN list ELSE Append(list, statment)

\* The source of a block from its first character to before what closes it.
SourceOf(t, from, after)    == SubSeq(t, from, after - 2)

\* block_parse and block_parse_until_backquote.  A round that ends where it
\* began is followed by the same one for ever.
BlockFrom(t, p, close, list) ==
    LET Goes(next, kept) ==
            IF next > Len(t) THEN Refused
            ELSE IF next = p THEN [how |-> "hangs"]
            ELSE Then(BlockFrom(t, next, close, kept), LAMBDA rest :
                      IF list # <<>> THEN rest
                      ELSE [rest EXCEPT !.block.source = SourceOf(t, p, rest.p)])
    IN  IF At(t, p) = close
        THEN [how |-> "ok", p |-> p + 1, block |-> [statments |-> list, source |-> <<>>]]
        ELSE Then(ReadStatment(t, SkipComment(t, SkipBlank(t, p)), close = "backquote"),
                  LAMBDA read : Goes(SkipBlank(t, SkipComment(t, read.p)),
                                     Kept(list, read.statment)))

RECURSIVE ParseFrom(_, _, _)
ParseFrom(t, p, list) ==
    LET Goes(next, kept) ==
            IF At(t, next) = ")" THEN Refused
            ELSE IF next > Len(t) THEN [how |-> "ok", block |-> [statments |-> kept, source |-> t]]
            ELSE IF SkipComment(t, next) = p THEN [how |-> "hangs"]
            ELSE ParseFrom(t, SkipComment(t, next), kept)
    IN  Then(ReadStatment(t, SkipComment(t, SkipBlank(t, p)), FALSE),
             LAMBDA read : Goes(SkipBlank(t, read.p), Kept(list, read.statment)))

parse(t) == ParseFrom(t, 1, <<>>)
===============================================================================
