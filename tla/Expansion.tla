------------------------------ MODULE Expansion ------------------------------
(***************************************************************************)
(* From the text of a command to the arguments it runs with: the text is   *)
(* parsed, sCommand_expand_env (env.c) expands what the arguments and      *)
(* redirects hold, and the call of an alias (run_alias) adds its arguments *)
(* to the last command of the alias, which expands them once more, for the *)
(* first time among the alias's own local objects.                         *)
(*                                                                         *)
(* The values of variables are sequences of characters; a block that is    *)
(* run prints the same each time.  Files match a glob as constant says.    *)
(* The alias has kept its block whole (block_clone_on_gc), and runs a clone *)
(* in which the line fields of $(...) are what was in the memory.           *)
(***************************************************************************)
EXTENDS Parser

CONSTANTS
    Texts,          \* texts that are read
    Meanings,       \* sequences of words, that are written in every way
    Calls,          \* texts of commands that are called in every way
    Aliases,        \* the texts of the alias that is called, <<>> if of none
    Locals, Globals, \* the variables: name |-> [kind, text | items]
    Environ,        \* and those of the environment: name |-> text
    Outputs,        \* what a block may print, or "fails"
    Files,          \* the files a pattern matches
    WithArgument    \* the options of the object that take an argument

VARIABLES
    text, meant, way,
    alias, output,
    external,       \* whether the object is an external program
    block,          \* what was read
    command,        \* the command that is expanded
    locals,         \* the local objects of the running function
    args, options, redirects,   \* of the run info
    ran,            \* the blocks run by expansions so far
    phase           \* "read", "expand", "alias", "again", "end", "failed", "hangs", "wild"

expansionVars == <<text, meant, way, alias, output, external, block, command, locals, args, options, redirects, ran, phase>>

-----------------------------------------------------------------------------
(* Expansions.  A result has the strings of an argument, the local objects  *)
(* after it and the blocks that were run; it is "wild" when a number names  *)
(* no entry of mEnvs, for whatever is in the memory there is used.          *)

Result(strings, st)  == [how |-> "ok", strings |-> strings, locals |-> st.locals, ran |-> st.ran]
Fails(how)           == [how |-> how]

\* Glue a sequence of strings to a sequence that is being built: the first
\* goes on with the last string, the last one is left open.
Glue(strings, more) ==
    IF more = <<>> THEN strings
    ELSE Front(strings) \o <<Last(strings) \o Head(more)>> \o Tail(more)

\* fd_split for an unquoted block: lines without their ends.
LineEnds == [kLF |-> <<"\n">>, kCR |-> <<"\r">>, kBel |-> <<"bel">>, kCRLF |-> <<"\r", "\n">>]
RECURSIVE SplitLines(_, _)
SplitLines(out, end) ==
    LET found == {k \in 1..(Len(out) - Len(end) + 1) : SubSeq(out, k, k + Len(end) - 1) = end}
        k     == CHOOSE first \in found : \A other \in found : first <= other
    IN  IF out = <<>> THEN <<>>
        ELSE IF found = {} THEN <<out>>
        ELSE <<SubSeq(out, 1, k - 1)>> \o SplitLines(SubSeq(out, k + Len(end), Len(out)), end)

RECURSIVE Joined(_)
Joined(items) == IF Len(items) = 1 THEN items[1] ELSE items[1] \o <<" ">> \o Joined(Tail(items))

ToNat(word) == IF word = <<>> \/ word[1] \notin Digits THEN 0
               ELSE (CHOOSE k \in 0..9 : DigitOf[k + 1] = word[1])

\* A vector: all of it, joined in quotes, or the item of the key.
VectorStrings(items, key, quoted) ==
    LET negative == key # <<>> /\ key[1] = "-"
        number   == IF negative THEN Len(items) - ToNat(Tail(key)) ELSE ToNat(key)
    IN  CASE key = <<>> /\ items = <<>> -> <<>>
          [] key = <<>> /\ items # <<>> -> IF quoted THEN <<Joined(items)>> ELSE items
          [] key # <<>> -> IF number \in 0..(Len(items) - 1) THEN <<items[number + 1]>> ELSE <<>>

ValueStrings(object, key, quoted) ==
    CASE object.kind = "string" -> <<object.text>>
      [] object.kind = "vector" -> VectorStrings(object.items, key, quoted)
      [] object.kind = "hash"   -> IF key \in DOMAIN object.items THEN <<object.items[key]>> ELSE <<>>

Visible(st) == st.locals @@ Globals

RECURSIVE expand_parametor(_, _, _, _)

\* One $name, ${name=value} or $name[key]: its strings and what is after it.
Variable(env, envs, st, quoted) ==
    LET AtKey(object, key) ==
            IF object.kind = "other" \/ (object.kind = "hash" /\ key.strings[1] = <<>>)
            THEN Fails("failed")
            ELSE Result(ValueStrings(object, key.strings[1], quoted), key)
    IN  CASE env.name \notin DOMAIN Visible(st) /\ env.name \in DOMAIN Environ ->
                Result(<<Environ[env.name]>>, st)
          [] env.name \notin DOMAIN Visible(st) \cup DOMAIN Environ /\ env.init # <<>> ->
                Result(<<env.init>>, [st EXCEPT !.locals =
                    (env.name :> [kind |-> "string", text |-> env.init]) @@ @])
          [] env.name \notin DOMAIN Visible(st) \cup DOMAIN Environ /\ env.init = <<>> ->
                Fails("failed")
          [] env.name \in DOMAIN Visible(st) ->
                Then(IF env.keyEnv THEN expand_parametor(env.key, envs, st, env.keyQuoted)
                     ELSE Result(<<env.key>>, st),
                     LAMBDA key : AtKey(Visible(st)[env.name], key))

\* $(block) and `block`.
Block(env, st, quoted) ==
    LET after == [st EXCEPT !.ran = Append(@, env.block.source)]
    IN  IF output = "fails" THEN Fails("failed")
        ELSE IF quoted THEN Result(<<output>>, after)
        ELSE Result(SplitLines(output, LineEnds[env.lf]), after)

\* The strings of one argument, from its text and the entries it names.
expand_parametor(word, envs, st, quoted) ==
    LET close == SelectInSubSeq(word, 2, Len(word), LAMBDA ch : ch = PARSER_MAGIC_NUMBER_ENV)
        n     == ToNat(SubSeq(word, 2, close - 1))
        Before(strings, from, then) ==
            Then(expand_parametor(SubSeq(word, from, Len(word)), envs, then, quoted),
                 LAMBDA rest : [rest EXCEPT !.strings = Glue(strings, @)])
        Entry(env) == IF env.kind = "var" THEN Variable(env, envs, st, quoted)
                      ELSE Block(env, st, quoted)
    IN  IF word = <<>> THEN Result(<< <<>> >>, st)
        ELSE IF word[1] # PARSER_MAGIC_NUMBER_ENV THEN Before(<< <<word[1]>> >>, 2, st)
        ELSE IF n >= Len(envs) THEN Fails("wild")
        ELSE Then(Entry(envs[n + 1]), LAMBDA one :
                  Before(IF one.strings = <<>> THEN << <<>> >> ELSE one.strings, close + 1, one))

\* The files of a pattern, or the pattern itself.
expand_glob(word) == IF word \in DOMAIN Files THEN Files[word] ELSE <<word>>
GlobAll(words)    == FlattenSeq([k \in 1..Len(words) |-> expand_glob(words[k])])

TakesArgument(word) == ~external /\ word \in WithArgument

\* What a run info has so far.
Info(st) == [how |-> "ok", args |-> <<>>, options |-> <<>>, redirects |-> <<>>,
             locals |-> st.locals, ran |-> st.ran]
With(info, result)   == [info EXCEPT !.locals = result.locals, !.ran = result.ran]
AddArgs(info, words) == [info EXCEPT !.args = @ \o words]
PutOption(info, word, value) == [info EXCEPT !.options = Append(@, <<word, value>>)]

\* The strings of an argument that is an option and holds an expansion: each
\* is an option, or the argument of the one before it.
RECURSIVE OptionStrings(_, _)
OptionStrings(info, words) ==
    CASE words = <<>> -> info
      [] words # <<>> /\ TakesArgument(words[1]) ->
            IF Len(words) = 1 THEN Fails("failed")
            ELSE OptionStrings(PutOption(info, words[1], words[2]), Tail(Tail(words)))
      [] words # <<>> /\ ~TakesArgument(words[1]) ->
            OptionStrings(IF external THEN AddArgs(info, <<words[1]>>)
                          ELSE PutOption(info, words[1], <<>>), Tail(words))

\* The strings of an argument or a file, expanded if it holds an expansion.
Strings(env, word, quoted, envs, info) ==
    IF env THEN expand_parametor(word, envs, info, quoted) ELSE Result(<<word>>, info)

\* An option with an argument takes the first string of the next one.
OptionWithArgument(info, word, next, envs) ==
    IF next.glob \/ next.option THEN Fails("failed")
    ELSE Then(Strings(next.env, next.text, next.quoted, envs, info),
              LAMBDA value : PutOption(With(info, value), word, value.strings[1]))

\* An argument with the strings it has.
TakeStrings(info, arg, strings) ==
    CASE arg.glob -> AddArgs(info, GlobAll(strings))
      [] ~arg.glob /\ arg.option /\ arg.env -> OptionStrings(info, strings)
      [] ~arg.glob /\ arg.option /\ ~arg.env /\ ~external -> PutOption(info, arg.text, <<>>)
      [] OTHER -> AddArgs(info, strings)

RECURSIVE ExpandArgs(_, _, _, _)
ExpandArgs(info, list, i, envs) ==
    LET arg   == list[i]
        takes == ~arg.env /\ arg.option /\ TakesArgument(arg.text)
    IN  IF i > Len(list) THEN info
        ELSE Then(IF takes
                  THEN IF i = Len(list) THEN Fails("failed")
                       ELSE OptionWithArgument(info, arg.text, list[i + 1], envs)
                  ELSE Then(Strings(arg.env, arg.text, arg.quoted, envs, info), LAMBDA value :
                            TakeStrings(With(info, value), arg, value.strings)),
                  LAMBDA next : ExpandArgs(next, list, i + (IF takes THEN 2 ELSE 1), envs))

\* A redirect takes the first string, and of that the first file.
RECURSIVE ExpandRedirects(_, _, _, _)
ExpandRedirects(info, list, i, envs) ==
    LET name(file, word) == IF file.glob THEN expand_glob(word)[1] ELSE word
    IN  IF i > Len(list) THEN info
        ELSE Then(Strings(list[i].env, list[i].file, list[i].quoted, envs, info), LAMBDA value :
                  ExpandRedirects([With(info, value) EXCEPT !.redirects =
                                      Append(@, name(list[i], value.strings[1]))],
                                  list, i + 1, envs))

\* The command's name is not expanded.
sCommand_expand_env(c, st) ==
    Then(ExpandArgs(AddArgs(Info(st), <<c.args[1].text>>), c.args, 2, c.envs),
         LAMBDA done : ExpandRedirects(done, c.redirects, 1, c.envs))

-----------------------------------------------------------------------------
(* sCommand_add_command_without_command_name: to self the arguments, the    *)
(* expansions, the blocks and the redirects of other, in that order.  The   *)
(* numbers in a text are raised by the entries self has at that time.       *)

RECURSIVE Raised(_, _)
Raised(word, base) ==
    LET close == SelectInSubSeq(word, 2, Len(word), LAMBDA ch : ch = PARSER_MAGIC_NUMBER_ENV)
    IN  CASE word = <<>> -> <<>>
          [] word # <<>> /\ word[1] # PARSER_MAGIC_NUMBER_ENV -> <<word[1]>> \o Raised(Tail(word), base)
          [] word # <<>> /\ word[1] = PARSER_MAGIC_NUMBER_ENV ->
                Marked(ToNat(SubSeq(word, 2, close - 1)) + base)
                \o Raised(SubSeq(word, close + 1, Len(word)), base)

\* The base of an argument.
BaseOfOther(self, other) == Len(other.envs)                             \* slip
Base(self, other)        == Len(self.envs)

AddArguments(self, other) ==
    [self EXCEPT !.args = @ \o [k \in 1..(Len(other.args) - 1) |->
        LET arg == other.args[k + 1] IN
        IF arg.env THEN [arg EXCEPT !.text = Raised(@, Base(self, other))] ELSE arg]]
AddEnvs(self, other)   == [self EXCEPT !.envs = @ \o other.envs]
AddBlocks(self, other) ==
    [self EXCEPT !.blocks = @ \o [k \in 1..Len(other.blocks) |-> block_clone_on_stack(other.blocks[k])]]
AddRedirects(self, other) ==
    [self EXCEPT !.redirects = @ \o [k \in 1..Len(other.redirects) |->
        LET file == other.redirects[k] IN
        IF file.env THEN [file EXCEPT !.file = Raised(@, Len(self.envs))] ELSE file]]

add_command_without_command_name(self, other) ==
    AddRedirects(AddBlocks(AddEnvs(AddArguments(self, other), other), other), other)

-----------------------------------------------------------------------------
(* The ways to write a word so that nothing in it is special.               *)

Escaped(word, set) == FlattenSeq([k \in 1..Len(word) |->
                          IF word[k] \in set THEN <<"\\", word[k]>> ELSE <<word[k]>>])

\* cmd_quote.
quote(word) == FlattenSeq([k \in 1..Len(word) |->
                   IF word[k] \in Letters THEN <<word[k]>> ELSE <<"\\", word[k]>>])

Ways == {"single", "double", "percent", "Percent", "quote"}
CanWrite(w, word) ==
    CASE w = "single"  -> "'" \notin ToSet(word)
      [] w = "double"  -> TRUE
      [] w = "percent" -> ">" \notin ToSet(word)
      [] w = "Percent" -> TRUE
      [] w = "quote"   -> word # <<>> /\ "\n" \notin ToSet(word)
InWay(w, word) ==
    CASE w = "single"  -> <<"'">> \o word \o <<"'">>
      [] w = "double"  -> <<"\"">> \o Escaped(word, {"\"", "\\", "$", "backquote"}) \o <<"\"">>
      [] w = "percent" -> <<"%", "q", "<">> \o word \o <<">">>
      [] w = "Percent" -> <<"%", "Q", "(">> \o Escaped(word, {")", "\\", "$"}) \o <<")">>
      [] w = "quote"   -> quote(word)
WrittenWords(w, words) ==
    <<"c">> \o FlattenSeq([k \in 1..Len(words) |-> <<" ">> \o InWay(w, words[k])])

-----------------------------------------------------------------------------
ExpansionInit ==
    /\ output \in Outputs
    /\ \/ /\ text \in Calls /\ alias \in Aliases /\ external \in BOOLEAN
          /\ meant = <<>> /\ way = "none"
       \/ /\ text \in Texts /\ alias = <<>> /\ external = TRUE /\ output = <<>>
          /\ meant = <<>> /\ way = "none"
       \/ /\ alias = <<>> /\ external = FALSE /\ output = <<>>
          /\ meant \in Meanings /\ way \in Ways
          /\ \A k \in 1..Len(meant) : CanWrite(way, meant[k])
          /\ text = WrittenWords(way, meant)
    /\ block = [statments |-> <<>>, source |-> <<>>] /\ command = sCommand_new
    /\ locals = Locals /\ ran = <<>>
    /\ args = <<>> /\ options = <<>> /\ redirects = <<>> /\ phase = "read"

\* The command that is run is the first of what was read.
Read ==
    /\ phase = "read"
    /\ \E read \in {parse(text)} :
          IF read.how # "ok" THEN phase' = read.how /\ UNCHANGED <<block, command>>
          ELSE /\ block' = read.block
               /\ \/ /\ read.block.statments # <<>>
                     /\ command' = read.block.statments[1].commands[1] /\ phase' = "expand"
                  \/ /\ read.block.statments = <<>>
                     /\ phase' = "end" /\ UNCHANGED command
    /\ UNCHANGED <<text, meant, way, alias, output, external, locals, args, options, redirects, ran>>

\* The line fields nobody wrote; each is taken for one of the four.
Unset(c) == {k \in 1..Len(c.envs) : c.envs[k].kind = "block" /\ c.envs[k].lf = "unset"}
WithLineFields(c, fields) ==
    [c EXCEPT !.envs = [k \in 1..Len(c.envs) |->
        IF k \in DOMAIN fields THEN [c.envs[k] EXCEPT !.lf = fields[k]] ELSE c.envs[k]]]

\* What an expansion leaves in the run info.
Expanded(next) ==
    \E fields \in [Unset(command) -> DOMAIN LineEnds] :
    \E info \in {sCommand_expand_env(WithLineFields(command, fields), [locals |-> locals, ran |-> ran])} :
        \/ /\ info.how = "ok"
           /\ args' = info.args /\ options' = info.options /\ redirects' = info.redirects
           /\ locals' = info.locals /\ ran' = info.ran /\ phase' = next
        \/ /\ info.how # "ok"
           /\ phase' = info.how /\ UNCHANGED <<args, options, redirects, locals, ran>>

Expand ==
    /\ phase = "expand"
    /\ Expanded(IF alias = <<>> THEN "end" ELSE "alias")
    /\ UNCHANGED <<text, meant, way, alias, output, external, block, command>>

LastCommand(b) == Last(Last(b.statments).commands)

\* run_alias up to the run of a clone of its block: the local objects are new.
run_alias ==
    /\ phase = "alias"
    /\ command' = add_command_without_command_name(
                     LastCommand(block_clone_on_stack(parse(alias).block)), command)
    /\ locals' = <<>> /\ phase' = "again"
    /\ UNCHANGED <<text, meant, way, alias, output, external, block, args, options, redirects, ran>>

ExpandAgain ==
    /\ phase = "again"
    /\ Expanded("end")
    /\ UNCHANGED <<text, meant, way, alias, output, external, block, command>>

ExpansionNext == Read \/ Expand \/ run_alias \/ ExpandAgain
ExpansionSpec == ExpansionInit /\ [][ExpansionNext]_expansionVars
-----------------------------------------------------------------------------
(* Properties.                                                             *)

\* Reading ends, with a block or with a message, but for a ')' that no '('
\* opened between backquotes: that one is read for ever.
ReadingEnds ==
    phase = "hangs" => \E i, j \in 1..Len(text) :
        i < j /\ text[i] = "backquote" /\ text[j] = ")"

RECURSIVE BlocksIn(_)
BlocksIn(b) ==
    LET commands == UNION {ToSet(s.commands) : s \in ToSet(b.statments)}
        inner == UNION {ToSet(c.blocks) \cup {e.block : e \in {d \in ToSet(c.envs) : d.kind = "block"}}
                        : c \in commands}
    IN  inner \cup UNION {BlocksIn(i) : i \in inner}

\* The source that is kept of an inner block, which def, class and alias
\* print, reads as that block again: where it begins and ends, and what is
\* not copied into the statements, makes no difference.  Only the flag NORMAL
\* has a statement at the end of a text and not one before a bracket, and
\* line fields are left out, since those of a block that was cloned are lost.
SourceReadsAgain ==
    LET plain(b) == LET st == block_clone_on_stack(b).statments
                    IN  [k \in 1..Len(st) |-> [st[k] EXCEPT !.flags = @ \ {"NORMAL"}]]
    IN  \A b \in BlocksIn(block) : \E again \in {parse(b.source)} :
            again.how = "ok" /\ plain(again.block) = plain(b)

\* A word written in any of the ways to quote it is one argument of the
\* command, the same word, neither an option nor a pattern nor a redirect.
\* quote is one of them: what it prints is read back as what it was given,
\* unless that has an end of line.
ReadsAsMeant ==
    way # "none" /\ phase \notin {"read", "expand"} =>
        phase = "end" /\ args = << <<"c">> >> \o meant /\ options = <<>> /\ redirects = <<>>

Names(c) == {e.name : e \in {d \in ToSet(c.envs) : d.kind = "var"}}
Keyed(c) == \E e \in ToSet(c.envs) : e.kind = "var" /\ e.keyEnv

\* An unquoted $(...) among the arguments or files of a command.
Splits(c) ==
    /\ \E e \in ToSet(c.envs) : e.kind = "block"
    /\ \E word \in ToSet(c.args) \cup ToSet(c.redirects) : word.env /\ ~word.quoted

\* A call of an alias gives the last command of the alias the arguments,
\* options and files it would have had itself, after those of the alias: if
\* it names no local variable, no expansion in the key of another beside one
\* of the alias, and no expansion in the name of a file; and if what an
\* unquoted $(...) of the alias prints has no end of line, for the clone that
\* runs splits it at any of the four.
AliasPassesOn ==
    alias # <<>> /\ phase \in {"end", "wild", "failed"} /\ block.statments # <<>> =>
        LET call == block.statments[1].commands[1]
            st   == [locals |-> <<>>, ran |-> <<>>]
        IN  \E last \in {LastCommand(parse(alias).block)} :
            \E one \in {sCommand_expand_env(last, st)}, two \in {sCommand_expand_env(call, st)} :
                /\ DOMAIN Locals \cap Names(call) = {}
                /\ Keyed(call) => last.envs = <<>>
                /\ \A file \in ToSet(call.redirects) : ~file.env
                /\ Splits(last) => ToSet(output) \cap {"\n", "\r", "bel"} = {}
                /\ one.how = "ok" /\ two.how = "ok"
                => /\ phase = "end"
                   /\ args = one.args \o Tail(two.args)
                   /\ options = one.options \o two.options
                   /\ redirects = one.redirects \o two.redirects
===============================================================================
