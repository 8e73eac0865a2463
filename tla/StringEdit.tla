----------------------------- MODULE StringEdit -----------------------------
(***************************************************************************)
(* cmd_str.c: the string commands that work by position, by line end and   *)
(* by blank, and cmd_ary.c: those that work by line.  A behaviour is one   *)
(* command on one text: nextin is what the command filters, nextout what   *)
(* it has printed behind what was there, and code the one its option or    *)
(* else gKanjiCode names.                                                  *)
(***************************************************************************)
EXTENDS Texts

CONSTANTS
    Inputs,         \* texts under each code
    Words,          \* arguments that are inserted
    Numbers,        \* arguments that are positions and lengths
    Rows,           \* arguments of rows, sequences of <<n>> and <<from, to>>
    Formats,        \* formats of printf, sequences of its items
    Outputs         \* what the blocks of combine print, a sequence of texts

VARIABLES code, nextin, typed, nextout, mRCode, returned

vars == <<code, nextin, typed, nextout, mRCode, returned>>

\* What the statements before have printed to the same nextout.
Printed == <<33>>

BlockFails == 3                     \* the code of a block that fails

Init ==
    /\ code \in Codes
    /\ nextin \in Inputs[code]
    /\ typed = [name |-> "none"]
    /\ nextout = Printed
    /\ mRCode = RCODE_NFUN_INVALID_USSING /\ returned = TRUE

\* The code of a command that did what it is for, and of one that did not.
Read(done) == IF nextin = <<>> THEN RCODE_NFUN_NULL_INPUT ELSE IF done THEN 0 ELSE 1

Prints(command, text, rcode) ==
    /\ typed.name = "none"
    /\ typed' = command
    /\ nextout' = nextout \o text
    /\ mRCode' = rcode
    /\ returned' = TRUE
    /\ UNCHANGED <<code, nextin>>

\* Fewer arguments than it needs: a command that does nothing.
NoArgument ==
    \E name \in {"x", "add", "del", "substr", "substr_replace", "rows", "printf", "lines", "combine"} :
        Prints([name |-> "nothing", for |-> name], <<>>, mRCode)
-----------------------------------------------------------------------------
(* Whole texts.                                                            *)

LineEnds(text, end) ==
    Cardinality({n \in 0..(Len(text) - Len(end)) : SubSeq(text, n + 1, n + Len(end)) = end})

cmd_length ==
    \/ Prints([name |-> "length"], Decimal(str_kanjilen(code, nextin)) \o <<LF>>, Read(TRUE))
    \/ \E lf \in DOMAIN Fields :
            Prints([name |-> "length", lf |-> lf],
                   Decimal(LineEnds(nextin, Fields[lf])) \o <<LF>>, Read(TRUE))

Times(text, n) == FlattenSeq([k \in 1..Greatest(n, 1) |-> text])
cmd_x == \E n \in Numbers : Prints([name |-> "x", n |-> n], Times(nextin, n), Read(TRUE))

cmd_lc == Prints([name |-> "lc"], string_tolower(code, nextin), Read(TRUE))
cmd_uc == Prints([name |-> "uc"], string_toupper(code, nextin), Read(TRUE))

cmd_chomp ==
    Prints([name |-> "chomp"], string_chomp(nextin), Read(EndSize(nextin) > 0))

cmd_pomch ==
    \E lf \in DOMAIN Fields :
        Prints([name |-> "pomch", lf |-> lf], string_pomch(nextin, lf), Read(EndSize(nextin) = 0))

\* quote: a backslash before what is neither a letter nor a kanji.
Quoted(c, text) ==
    FlattenSeq([k \in 1..str_kanjilen(c, text) |->
        LET character == Characters(c, text)[k]
        IN  IF is_kanji(c, character[1]) \/ character[1] \in Letters THEN character
            ELSE <<92>> \o character])
cmd_quote == Prints([name |-> "quote"], Quoted(code, nextin), Read(TRUE))

\* (Here and below, a definition marked "slip" is one of the ways to get the
\* one after it wrong; the properties tell them apart.)
\* chop takes \r\n as one in bytes, and only the \n of it under other codes,
\* where its documentation has both go under each.
ChoppedByte(c, text) == FirstOf(text, Len(text) - 1)                      \* slip
Chopped(c, text) ==
    IF text = <<>> THEN <<>>
    ELSE IF c = "kByte" THEN FirstOf(text, Len(text) - (IF EndSize(text) = 2 THEN 2 ELSE 1))
    ELSE Bytes(Front(Characters(c, text)))
cmd_chop == Prints([name |-> "chop"], Chopped(code, nextin), Read(nextin # <<>>))
-----------------------------------------------------------------------------
(* Blanks.                                                                 *)

AllBlank(text) == \A n \in 1..Len(text) : text[n] \in Blanks
FirstWord(text) == CHOOSE n \in 1..Len(text) :
                        text[n] \notin Blanks /\ \A m \in 1..(n - 1) : text[m] \in Blanks
LastWord(text)  == CHOOSE n \in 1..Len(text) :
                        text[n] \notin Blanks /\ \A m \in (n + 1)..Len(text) : text[m] \in Blanks

LStripped(text) == IF AllBlank(text) THEN <<>> ELSE After(text, FirstWord(text) - 1)
RStripped(text) == IF AllBlank(text) THEN text ELSE FirstOf(text, LastWord(text))

\* strip writes from the first word on and cuts off what it wrote behind the
\* last one.  A text without a word leaves last_point NULL: how much is cut
\* off then is whatever the address of the text comes to, and nextout is cut
\* there if it is that long.
Cut(name, written) ==
    /\ typed.name = "none"
    /\ typed' = [name |-> name]
    /\ nextout' \in
        IF AllBlank(nextin)
        THEN {FirstOf(nextout \o written, n) : n \in 0..Len(nextout \o written)}
        ELSE {nextout \o RStripped(written)}
    /\ mRCode' = Read(TRUE)
    /\ returned' = TRUE
    /\ UNCHANGED <<code, nextin>>

cmd_strip  == Cut("strip", LStripped(nextin))
cmd_rstrip == Cut("rstrip", nextin)
cmd_lstrip == Prints([name |-> "lstrip"], LStripped(nextin), Read(TRUE))
-----------------------------------------------------------------------------
(* printf.                                                                 *)

\* What an item of the format prints, given the line it takes, if any.
Item(item, lines, taken) ==
    LET line == IF taken < Len(lines) THEN lines[taken + 1] ELSE <<>>
    IN  CASE item = "%d" -> Decimal(atoi(line))
          [] item = "%s" -> line
          [] item = "%%" -> <<37>>
          [] OTHER       -> <<LF>>
Taken(format) == Len(SelectSeq(format, LAMBDA item : item \in {"%d", "%s"}))

cmd_printf ==
    \E format \in Formats, lf \in DOMAIN Fields :
        LET lines == SplitAt(nextin, Fields[lf])
            bad == {n \in 1..Len(format) : format[n] = "%?"}
            good == IF bad = {} THEN Len(format) ELSE (CHOOSE n \in bad : \A m \in bad : n <= m) - 1
            text == FlattenSeq([n \in 1..good |->
                        Item(format[n], lines, Taken(SubSeq(format, 1, n - 1)))])
            command == [name |-> "printf", format |-> format, lf |-> lf]
        IN  IF bad = {} THEN Prints(command, text, Read(Taken(format) <= Len(lines)))
            ELSE /\ typed.name = "none"
                 /\ typed' = command
                 /\ nextout' = nextout \o text
                 /\ returned' = FALSE
                 /\ UNCHANGED <<code, nextin, mRCode>>
-----------------------------------------------------------------------------
(* Positions.                                                              *)

\* add: the n-th character is the place, or from the end the n-th gap.
Place(n, len) == IF n < 0 THEN Greatest(n + len + 1, 0) ELSE n
Added(c, text, word, n) ==
    LET len == str_kanjilen(c, text)
        at == str_kanjipos2pointer(c, text, Place(n, len))
    IN  IF Place(n, len) < len THEN FirstOf(text, at) \o word \o After(text, at)
        ELSE text \o word

cmd_add ==
    \E word \in Words, n \in Numbers \cup {-1} :
        Prints([name |-> "add", word |-> word, n |-> n], Added(code, nextin, word, n), Read(TRUE))

\* Bytes before or behind the text, up to the next NUL.
StaleTexts == {<<>>, <<63>>}

\* del: a position past either end is the first or the last character.  A
\* negative number of characters begins again before the position; in bytes
\* it may begin before the text.
WithinEnd(index, len) == LET k == IF index < 0 THEN Greatest(index + len, 0) ELSE index
                         IN  IF k > len THEN Greatest(len - 1, 0) ELSE k     \* slip
Within(index, len) == LET k == IF index < 0 THEN Greatest(index + len, 0) ELSE index
                      IN  IF k >= len THEN Greatest(len - 1, 0) ELSE k
Deleted(c, text, index, number, stale) ==
    LET len == str_kanjilen(c, text)
        k == Within(index, len)
        to == str_kanjipos2pointer(c, text, k + number)
    IN  FirstOf(text, str_kanjipos2pointer(c, text, k))
        \o (IF k + number >= len THEN <<>> ELSE IF to < 0 THEN stale ELSE After(text, to))

cmd_del ==
    \E index \in Numbers, number \in Numbers \cup {1}, stale \in StaleTexts :
        Prints([name |-> "del", index |-> index, number |-> number],
               Deleted(code, nextin, index, number, stale), Read(TRUE))

\* The characters an argument of rows picks, in its order; 0 is the first.
RangeOf(from, to, len) ==
    LET f == IF from < 0 THEN from + len ELSE from
        t == IF to < 0 THEN to + len ELSE to
        Clamp(n) == Greatest(Least(n, len - 1), 0)
    IN  IF len = 0 \/ (f >= len /\ t >= len) \/ (f < 0 /\ t < 0) THEN <<>>
        ELSE IF Clamp(f) < Clamp(t)
             THEN [k \in 1..(Clamp(t) - Clamp(f) + 1) |-> Clamp(f) + k - 1]
             ELSE [k \in 1..(Clamp(f) - Clamp(t) + 1) |-> Clamp(f) - k + 1]
RowOf(n, len) == LET k == IF n < 0 THEN n + len ELSE n
                 IN  IF k \in 0..(len - 1) THEN <<k>> ELSE <<>>
Picks(arg, len) == IF Len(arg) = 2 THEN RangeOf(arg[1], arg[2], len) ELSE RowOf(arg[1], len)

\* Each argument has its own block, as long as there are blocks; a block that
\* fails ends the command.  Here block i prints i before the character.
cmd_rows ==
    \E args \in Rows : \E blocks \in 0..Len(args) :
        LET cs == Characters(code, nextin)
            picks == FlattenSeq([i \in 1..Len(args) |->
                        LET ks == Picks(args[i], Len(cs))
                        IN  [k \in 1..Len(ks) |-> <<i, cs[ks[k] + 1]>>]])
            Text(n) == FlattenSeq([k \in 1..n |->
                        IF picks[k][1] <= blocks THEN <<48 + picks[k][1]>> \o picks[k][2]
                        ELSE picks[k][2]])
            command == [name |-> "rows", args |-> args, blocks |-> blocks]
        IN  \/ Prints(command, Text(Len(picks)), IF picks = <<>> THEN Read(TRUE) ELSE 0)
            \/ \E n \in 1..Len(picks) :
                    /\ typed.name = "none"
                    /\ picks[n][1] <= blocks
                    /\ typed' = command
                    /\ nextout' = nextout \o Text(n - 1)
                    /\ mRCode' = BlockFails
                    /\ returned' = FALSE
                    /\ UNCHANGED <<code, nextin>>

\* substr and substr_replace: the position and the length they end up with.
\* A length past the end comes out one too long: under a character code that
\* is the end all the same, in bytes it is behind the NUL.
Index(index, len) == Greatest(IF index < 0 THEN index + len ELSE index, 0)
LengthOf(length, index, len) ==
    LET l == IF length < 0 THEN len + length - index ELSE length
    IN  IF index + l > len THEN len - index + 1 ELSE l

Substr(c, text, index, length) ==
    LET len == str_kanjilen(c, text)
        i == Index(index, len)
        l == LengthOf(length, i, len)
    IN  IF i < len /\ l > 0
        THEN SubSeq(text \o <<NUL>>, str_kanjipos2pointer(c, text, i) + 1,
                                     str_kanjipos2pointer(c, text, i + l))
        ELSE <<>>

cmd_substr ==
    \E index \in Numbers, length \in Numbers \cup {str_kanjilen(code, nextin)} :
        Prints([name |-> "substr", index |-> index, length |-> length],
               Substr(code, nextin, index, length), Read(TRUE))

Replaced(c, text, word, index, length, stale) ==
    LET len == str_kanjilen(c, text)
        i == Index(index, len)
        l == LengthOf(length, i, len)
        end == str_kanjipos2pointer(c, text, i + l)
    IN  IF i < len /\ l >= 0
        THEN FirstOf(text, str_kanjipos2pointer(c, text, i)) \o word
             \o (IF end > Len(text) THEN stale ELSE After(text, end))
        ELSE word

cmd_substr_replace ==
    \E word \in Words, index \in Numbers, length \in Numbers \cup {str_kanjilen(code, nextin)},
       stale \in StaleTexts :
        Prints([name |-> "substr_replace", word |-> word, index |-> index, length |-> length],
               Replaced(code, nextin, word, index, length, stale), Read(TRUE))
-----------------------------------------------------------------------------
(* Lines.                                                                  *)

\* fd_split: the lines of a text with their ends.
Split(text, end) ==
    LET ls == SplitAt(text, end)
    IN  [n \in 1..Len(ls) |->
            IF n < Len(ls) \/ IsSuffix(end, text) THEN ls[n] \o end ELSE ls[n]]

\* join: the text loses its last line end, then each line its own.  A field
\* follows the last line too if it still had an end.
Joined(text, end, field) ==
    LET lines == Split(string_chomp(text), end)
        Chomped(line) == string_chomp(line)
        bare == [n \in 1..Len(lines) |-> Chomped(lines[n])]
    IN  IF lines = <<>> THEN <<>>
        ELSE FlattenSeq([n \in 1..(Len(lines) - 1) |-> bare[n] \o field]) \o Last(bare)
             \o (IF Last(bare) # Last(lines) THEN field ELSE <<>>) \o <<LF>>
cmd_join ==
    \E field \in Words \cup {<<LF>>}, lf \in DOMAIN Fields :
        Prints([name |-> "join", field |-> field, lf |-> lf],
               Joined(nextin, Fields[lf], field), Read(TRUE))

\* lines: a range is what it is for rows; a line that is not there is empty.
LinesOf(arg, lines, end) ==
    IF Len(arg) = 2
    THEN [k \in 1..Len(RangeOf(arg[1], arg[2], Len(lines))) |->
            lines[RangeOf(arg[1], arg[2], Len(lines))[k] + 1]]
    ELSE IF RowOf(arg[1], Len(lines)) = <<>> THEN <<end>>
    ELSE <<lines[RowOf(arg[1], Len(lines))[1] + 1]>>

cmd_lines ==
    \E args \in Rows, lf \in DOMAIN Fields : \E blocks \in 0..Len(args) :
        LET lines == Split(nextin, Fields[lf])
            picks == IF lines = <<>> THEN <<>>
                     ELSE FlattenSeq([i \in 1..Len(args) |->
                            LET ls == LinesOf(args[i], lines, Fields[lf])
                            IN  [k \in 1..Len(ls) |-> <<i, ls[k]>>]])
            Text(n) == FlattenSeq([k \in 1..n |->
                        IF picks[k][1] <= blocks THEN <<48 + picks[k][1]>> \o picks[k][2]
                        ELSE picks[k][2]])
            command == [name |-> "lines", args |-> args, blocks |-> blocks, lf |-> lf]
        IN  \/ Prints(command, Text(Len(picks)), IF picks = <<>> THEN Read(TRUE) ELSE 0)
            \/ \E n \in 1..Len(picks) :
                    /\ typed.name = "none"
                    /\ picks[n][1] <= blocks
                    /\ typed' = command
                    /\ nextout' = nextout \o Text(n - 1)
                    /\ mRCode' = BlockFails
                    /\ returned' = FALSE
                    /\ UNCHANGED <<code, nextin>>

\* combine: a line of each block in turn, of those that have one left.  A
\* block that fails ends the command before anything is printed.
LastRoundMissing(outs) == Len(outs[1])                                     \* slip
Rounds(outs) == CHOOSE n \in {Len(outs[i]) : i \in 1..Len(outs)} :
                    \A i \in 1..Len(outs) : Len(outs[i]) <= n
Combined(outs) ==
    FlattenSeq([n \in 1..Rounds(outs) |->
        FlattenSeq([i \in 1..Len(outs) |-> IF n <= Len(outs[i]) THEN outs[i][n] ELSE <<>>])])

cmd_combine ==
    \E texts \in Outputs, lf \in DOMAIN Fields :
        LET command == [name |-> "combine", texts |-> texts, lf |-> lf]
        IN  \/ Prints(command, Combined([i \in 1..Len(texts) |-> Split(texts[i], Fields[lf])]), 0)
            \/ /\ typed.name = "none"
               /\ typed' = command
               /\ mRCode' = BlockFails
               /\ returned' = FALSE
               /\ UNCHANGED <<code, nextin, nextout>>
-----------------------------------------------------------------------------
Next ==
    \/ NoArgument
    \/ cmd_quote \/ cmd_length \/ cmd_x \/ cmd_lc \/ cmd_uc \/ cmd_chomp \/ cmd_pomch \/ cmd_chop
    \/ cmd_strip \/ cmd_rstrip \/ cmd_lstrip \/ cmd_printf
    \/ cmd_add \/ cmd_del \/ cmd_rows \/ cmd_substr \/ cmd_substr_replace
    \/ cmd_join \/ cmd_lines \/ cmd_combine

Spec == Init /\ [][Next]_vars
-----------------------------------------------------------------------------
(* Properties.  They are about the text a command has printed.             *)

out == After(nextout, Len(Printed))
Ran(name) == typed.name = name
Length(text) == str_kanjilen(code, text)
\* A position that is there in a text of so many characters.
There(n, len) == n \in (-len)..(len - 1)

\* What add put in, del takes out again, with the same position when it counts
\* from the front and one that ends where the word ends when from the back;
\* and del leaves what is around the characters substr gives, and wherever its
\* position is takes one out.
AddAndDel ==
    /\ Ran("add") /\ Length(nextin) > 0 /\ There(typed.n, Length(nextin) + 1) =>
          LET w == Length(typed.word)
              n == IF typed.n < 0 THEN typed.n + 1 - w ELSE typed.n
          IN  \A stale \in StaleTexts : Deleted(code, out, n, w, stale) = nextin
    /\ Ran("del") /\ There(typed.index, Length(nextin)) /\ typed.number > 0 =>
          LET i == Index(typed.index, Length(nextin))
              cs == Characters(code, nextin)
              gone == SelectSeq(Substr(code, nextin, typed.index, typed.number),
                                LAMBDA byte : byte # NUL)
          IN  nextin = Bytes(SubSeq(cs, 1, i)) \o gone \o After(out, Len(Bytes(SubSeq(cs, 1, i))))
    /\ Ran("del") /\ typed.number > 0 /\ nextin # <<>> => Length(out) < Length(nextin)

\* substr with a negative length ends that many characters before the end, and
\* substr_replace puts back what substr took with a length from zero on, except
\* behind the end of a text of bytes.  (Of substr_replace with a negative length
\* nothing is said: the code reads it as substr does, its documentation prints
\* something else.)  rows gives the characters substr gives, and those of a
\* range backwards when it is given backwards.
SubstrAndRows ==
    /\ Ran("substr") /\ There(typed.index, Length(nextin)) =>
          LET i == Index(typed.index, Length(nextin))
              inside == code # "kByte" \/ i + typed.length <= Length(nextin)
          IN  /\ typed.length < 0 =>
                    out = Bytes(SubSeq(Characters(code, nextin), i + 1, Length(nextin) + typed.length))
              /\ inside /\ typed.length >= 0 /\ out # <<>> =>
                    \A stale \in StaleTexts :
                        Replaced(code, nextin, out, typed.index, typed.length, stale) = nextin
              /\ NUL \in ToSet(out) <=> ~inside
    /\ Ran("rows") /\ returned /\ typed.blocks = 0 /\ Len(typed.args) = 1 =>
          LET arg == typed.args[1]
              Of(n) == Substr(code, nextin, n, 1)
          IN  IF Len(arg) = 1 THEN There(arg[1], Length(nextin)) => out = Of(arg[1])
              ELSE There(arg[1], Length(nextin)) /\ There(arg[2], Length(nextin)) =>
                      /\ Length(out) > 0
                      /\ Of(arg[1]) = Bytes(<<Characters(code, out)[1]>>)
                      /\ Of(arg[2]) = Bytes(<<Last(Characters(code, out))>>)
                      /\ out \in {Bytes(SubSeq(cs, i, j)) :
                                    i, j \in 1..Length(nextin), cs \in
                                    {Characters(code, nextin), Reverse(Characters(code, nextin))}}

PositionsAgree == AddAndDel /\ SubstrAndRows

\* The ends of a text: chomp takes what pomch adds, and no more than one line
\* end; chop takes what chomp does where there is an end, and the last character
\* where there is none, but for \r\n under the codes that are not bytes (see
\* Chopped); strip is lstrip and rstrip in either order; a text is as many lines
\* as it has ends, and one more for what is behind the last.
EndsAgree ==
    /\ Ran("pomch") => /\ string_pomch(out, typed.lf) = out
                       /\ mRCode = 0 => string_chomp(out) = nextin
    /\ Ran("chomp") /\ mRCode = 0 => \E lf \in DOMAIN Fields : nextin = out \o Fields[lf]
    /\ Ran("chop") /\ (code = "kByte" \/ EndSize(nextin) < 2) =>
          out = IF EndSize(nextin) > 0 THEN string_chomp(nextin)
                ELSE Substr(code, nextin, 0, Length(nextin) - 1)
    /\ Ran("strip") /\ ~AllBlank(nextin) =>
          out = LStripped(RStripped(nextin)) /\ out = RStripped(LStripped(nextin))
    /\ Ran("length") /\ "lf" \in DOMAIN typed =>
          atoi(out) = Len(SplitAt(string_pomch(nextin, typed.lf), Fields[typed.lf]))
                      - (IF IsSuffix(Fields[typed.lf], nextin) THEN 0 ELSE 1)

\* The lines of a text: all of them are the text, forward or backward; each
\* number asked for is a line; joining them by a line end gives the text with
\* one; combine prints every line of every block, one of each at first, and
\* nothing else.
LinesAgree ==
    /\ Ran("lines") /\ returned /\ typed.blocks = 0 /\ nextin # <<>> =>
          LET lines == Split(nextin, Fields[typed.lf])
              one == Len(typed.args) = 1
              all == one /\ typed.args[1] = <<0, -1>>
          IN  /\ all => out = nextin
              /\ one /\ typed.args[1] = <<-1, 0>> => out = FlattenSeq(Reverse(lines))
              /\ one /\ Len(typed.args[1]) = 1 =>
                    out \in ToSet(lines) \/ ~There(typed.args[1][1], Len(lines))
    /\ Ran("join") /\ typed.lf = "kLF" /\ typed.field = <<LF>>
       /\ ToSet(nextin) \cap {CR, BEL} = {} /\ nextin \notin {<<>>, <<LF>>} =>
          out = string_pomch(nextin, "kLF")
    /\ Ran("combine") /\ returned =>
          LET all == FlattenSeq(typed.texts)
              Lines1(i) == Split(typed.texts[i], Fields[typed.lf])
          IN  /\ Len(out) = Len(all)
              /\ \A b \in ToSet(all) : Len(SelectSeq(out, LAMBDA c : c = b))
                                       = Len(SelectSeq(all, LAMBDA c : c = b))
              /\ (\A i \in 1..Len(typed.texts) : typed.texts[i] # <<>>) =>
                    IsPrefix(FlattenSeq([i \in 1..Len(typed.texts) |-> Lines1(i)[1]]), out)

\* A text without its quotes: a backslash is dropped, what is behind it kept.
Unquoted(c, text) ==
    LET cs == Characters(c, text)
        from[n \in 1..(Len(cs) + 2)] ==
            IF n > Len(cs) THEN <<>>
            ELSE IF cs[n] = <<92>> /\ n < Len(cs) THEN cs[n + 1] \o from[n + 2]
            ELSE cs[n] \o from[n + 1]
    IN  from[1]

\* No command splits a character: what it prints is made of characters of its
\* input and its arguments, except in bytes; and without its quotes a quoted
\* text is the text, though a character may end in the byte of a backslash.
\* Nothing is taken from what was printed before, except by strip and rstrip
\* of a text of blanks.
CharactersStayWhole ==
    /\ code # "kByte" /\ typed.name \in {"x", "chomp", "pomch", "chop", "strip", "lstrip", "rstrip",
                                         "add", "del", "substr", "substr_replace"} =>
          ToSet(Characters(code, out)) \subseteq
              ToSet(Characters(code, nextin)) \cup {<<LF>>, <<CR>>, <<BEL>>}
              \cup UNION {ToSet(Characters(code, w)) : w \in Words}
    /\ Ran("quote") => Unquoted(code, out) = nextin
    /\ IsPrefix(Printed, nextout) \/ (typed.name \in {"strip", "rstrip"} /\ AllBlank(nextin))
=============================================================================
