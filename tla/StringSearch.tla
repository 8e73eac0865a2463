---------------------------- MODULE StringSearch ----------------------------
(***************************************************************************)
(* cmd_str.c: the string commands that search -- index, rindex, scan, sub  *)
(* and split -- for a word or for a regex.  A behaviour is one command on  *)
(* one text, as in StringEdit.  Offsets count bytes from 0.                *)
(*                                                                         *)
(* Regexes are Onigmo's; here they are words, the longest run of a byte,   *)
(* which may be empty, a word in a group, and the empty place before one.  *)
(***************************************************************************)
EXTENDS Texts, TLC

CONSTANTS
    Inputs,         \* texts under each code
    Words,          \* words searched for
    Regexes,        \* [kind |-> "word" | "run" | "group" | "before", of |-> bytes]
    Starts,         \* arguments of -number
    Counts,         \* arguments of -count
    Replacements    \* of sub: sequences of bytes and of the items below

VARIABLES code, nextin, typed, nextout, mRCode, returned,
    set         \* the variables of the last match, the counts: gRootObject's

vars == <<code, nextin, typed, nextout, mRCode, returned, set>>


None  == -1         \* not found
Field == <<LF>>     \* the line field that ends what scan and split print

Unset == [MATCH |-> <<>>, PREMATCH |-> <<>>, POSTMATCH |-> <<>>, LAST_MATCH |-> <<>>,
          MATCH_NUMBER |-> 0, MATCH_COUNT |-> None, SUB_COUNT |-> None]

Init ==
    /\ code \in Codes
    /\ nextin \in Inputs[code]
    /\ typed = [name |-> "none"]
    /\ nextout = <<>>
    /\ mRCode = RCODE_NFUN_INVALID_USSING /\ returned = TRUE
    /\ set = Unset

Read == IF nextin = <<>> THEN RCODE_NFUN_NULL_INPUT ELSE 0

Prints(command, text, rcode) ==
    /\ typed.name = "none"
    /\ typed' = command
    /\ nextout' = nextout \o text
    /\ mRCode' = rcode
    /\ returned' = TRUE
    /\ UNCHANGED <<code, nextin>>
-----------------------------------------------------------------------------
(* Searching.                                                              *)

At(text, word, p) == p + Len(word) <= Len(text) /\ SubSeq(text, p + 1, p + Len(word)) = word
NotGiven == 1000    \* no -number: no text is that long

Least0(S)    == IF S = {} THEN None ELSE CHOOSE n \in S : \A m \in S : n <= m
Greatest0(S) == IF S = {} THEN None ELSE CHOOSE n \in S : \A m \in S : m <= n

strstr(text, word, p) == Least0({q \in p..(Len(text) - Len(word)) : At(text, word, q)})

\* strstr_back: the word ends at p or before it; the byte before a text is no
\* byte of a word.  An empty word is found one byte back.
strstr_back(text, word, p) ==
    IF word = <<>> THEN p - 1
    ELSE LET ends == {q \in Len(word)..p : q <= Len(text) /\ At(text, word, q - Len(word))}
         IN  IF ends = {} THEN None ELSE Greatest0(ends) - Len(word)

Folded(text, ignore) == IF ignore THEN [n \in 1..Len(text) |-> tolower(text[n])] ELSE text

\* Where a regex that begins at p ends.
MatchEnd(regex, text, p) ==
    IF regex.kind = "run"
    THEN Greatest0({n \in p..Len(text) : \A m \in (p + 1)..n : text[m] = regex.of[1]})
    ELSE IF ~At(text, regex.of, p) THEN None
    ELSE IF regex.kind = "before" THEN p ELSE p + Len(regex.of)
Groups(regex) == IF regex.kind = "group" THEN 1 ELSE 0

\* onig_search forward tries p and where the characters behind it begin,
\* backward where those of the text begin up to p.
Ahead(text, p) ==
    LET cs == Characters(code, After(text, p))
    IN  {p + Len(Bytes(SubSeq(cs, 1, n))) : n \in 0..Len(cs)}
onig_search(regex, text, p) ==
    Least0({q \in Ahead(text, p) : MatchEnd(regex, text, q) # None})
onig_search_back(regex, text, p) ==
    Greatest0({q \in Ahead(text, 0) : q <= p /\ MatchEnd(regex, text, q) # None})
-----------------------------------------------------------------------------
(* index and rindex.                                                       *)

\* A start is given in characters, from the end if negative.
StartAt(number, len, default) ==
    IF number = NotGiven THEN Greatest(default, 0)
    ELSE LET n == IF number < 0 THEN Greatest(number + len, 0) ELSE number
         IN  IF n >= len THEN Greatest(len - 1, 0) ELSE n
CountOf(count) == Greatest(count, 1)

\* (Here and below, a definition marked "slip" is one of the ways to get the
\* one after it wrong; the properties tell them apart.)
\* The n-th word is looked for behind the one before it, the n-th match of a
\* regex from the byte after the beginning of the one before.
NextWordOverlaps(p, word) == p + 1                                         \* slip
NextWord(p, word)         == p + Len(word)

index_word(text, word, start, count) ==
    LET from[n \in 1..count, p \in 0..(Len(text) + Len(word))] ==
            IF p >= Len(text) THEN None
            ELSE LET r == strstr(text, word, p)
                 IN  IF r = None \/ n = count THEN r ELSE from[n + 1, NextWord(r, word)]
    IN  from[1, start]

index_regex(text, regex, start, count) ==
    LET from[n \in 1..count, p \in 0..(Len(text) + 1)] ==
            IF p >= Len(text) THEN None
            ELSE LET r == onig_search(regex, text, p)
                 IN  IF r = None \/ n = count THEN r ELSE from[n + 1, r + 1]
    IN  from[1, start]

\* From the end, each search begins one byte before where the last one ended:
\* a word has to end there, a match to begin there.
rindex_word(text, word, start, count) ==
    LET from[n \in 1..count, p \in (-count - 2)..(Len(text) + 1)] ==
            IF p < 0 THEN None
            ELSE LET r == strstr_back(text, word, p)
                 IN  IF n = count THEN r
                     ELSE IF r = None /\ word # <<>> THEN None
                     ELSE from[n + 1, r - 1]
    IN  from[1, start]

rindex_regex(text, regex, start, count) ==
    LET from[n \in 1..count, p \in -1..Len(text)] ==
            IF p < 0 THEN None
            ELSE LET r == onig_search_back(regex, text, p)
                 IN  IF r = None \/ n = count THEN r ELSE from[n + 1, r - 1]
    IN  from[1, start]

\* The position is printed in characters.  (An empty word may be found one
\* byte before the text: that too is printed, and a success.)
Position(offset) ==
    IF code = "kByte" THEN offset ELSE str_pointer2kanjipos(code, nextin, offset)

Finds(command, offset, found) ==
    /\ Prints(command,
              IF command.quiet THEN <<>>
              ELSE Decimal(IF found THEN Position(offset) ELSE -1) \o <<LF>>,
              IF found THEN Read ELSE RCODE_NFUN_FALSE)
    /\ UNCHANGED set

Command(name, what, number, count, quiet) ==
    [name |-> name, what |-> what, number |-> number, count |-> count, quiet |-> quiet]
Len0 == str_kanjilen(code, nextin)

cmd_index_word ==
    \E word \in Words, number \in Starts \cup {NotGiven}, count \in Counts, quiet, ignore \in BOOLEAN :
        LET start == str_kanjipos2pointer(code, nextin, StartAt(number, Len0, 0))
            r == index_word(Folded(nextin, ignore), Folded(word, ignore), start, CountOf(count))
        IN  Finds(Command("index", word, number, count, quiet) @@ [ignore |-> ignore], r, r # None)

cmd_index_regex ==
    \E regex \in Regexes, number \in Starts \cup {NotGiven}, count \in Counts, quiet \in BOOLEAN :
        LET start == str_kanjipos2pointer(code, nextin, StartAt(number, Len0, 0))
            r == index_regex(nextin, regex, start, CountOf(count))
        IN  Finds(Command("index", regex, number, count, quiet), r, r # None)

\* Whether rindex_word went on to the count: with an empty word None is a place.
BackReaches(word, start, count) == word = <<>> /\ start - 2 * (count - 1) >= 0

cmd_rindex_word ==
    \E word \in Words, number \in Starts \cup {NotGiven}, count \in Counts, quiet, ignore \in BOOLEAN :
        LET start == str_kanjipos2pointer(code, nextin, StartAt(number, Len0, Len0 - 1) + 1)
            r == rindex_word(Folded(nextin, ignore), Folded(word, ignore), start, CountOf(count))
        IN  Finds(Command("rindex", word, number, count, quiet) @@ [ignore |-> ignore], r,
                  r # None \/ BackReaches(word, start, CountOf(count)))

cmd_rindex_regex ==
    \E regex \in Regexes, number \in Starts \cup {NotGiven}, count \in Counts, quiet \in BOOLEAN :
        LET start == str_kanjipos2pointer(code, nextin, StartAt(number, Len0, Len0 - 1))
            r == rindex_regex(nextin, regex, start, CountOf(count))
        IN  Finds(Command("rindex", regex, number, count, quiet), r, r # None)
-----------------------------------------------------------------------------
(* scan.                                                                   *)

\* The matches in order, each with where its search began.  After a match the
\* next search begins at its end, or one byte on if that search began there.
Scans(text, regex) ==
    LET from[p \in 0..(Len(text) + 1)] ==
            IF p >= Len(text) THEN <<>>
            ELSE LET beg == onig_search(regex, text, p)
                     end == MatchEnd(regex, text, beg)
                 IN  IF beg = None THEN <<>>
                     ELSE <<[p |-> p, beg |-> beg, end |-> end]>>
                          \o from[IF end = p THEN end + 1 ELSE end]
    IN  from[0]

Matched(text, m) == SubSeq(text, m.beg + 1, m.end)

\* The variables a block sees: PREMATCH begins where the search did.
MatchVariables(text, regex, m) ==
    [Unset EXCEPT !.MATCH = Matched(text, m),
                  !.PREMATCH = SubSeq(text, m.p + 1, m.beg),
                  !.POSTMATCH = After(text, m.end),
                  !.LAST_MATCH = Matched(text, m),
                  !.MATCH_NUMBER = Groups(regex) + 1]

\* A block gets each match as a line; here it prints it twice, or fails at one.
cmd_scan ==
    \E regex \in Regexes, block \in BOOLEAN :
        LET matches == Scans(nextin, regex)
            Lines(n) == FlattenSeq([k \in 1..n |->
                LET line == Matched(nextin, matches[k]) \o Field
                IN  IF block THEN line \o line ELSE line])
            Seen(n) == IF block /\ n > 0 THEN MatchVariables(nextin, regex, matches[n]) ELSE Unset
            Counted(seen) == [seen EXCEPT !.MATCH_COUNT = Len(matches)]
            command == [name |-> "scan", what |-> regex, block |-> block, failed |-> 0]
        IN  \/ /\ Prints(command, Lines(Len(matches)),
                         IF matches = <<>> THEN RCODE_NFUN_FALSE ELSE Read)
               /\ set' = Counted(Seen(Len(matches)))
            \/ \E n \in 1..Len(matches) :
                /\ block /\ typed.name = "none"
                /\ typed' = [command EXCEPT !.failed = n]
                /\ nextout' = nextout \o Lines(n - 1)
                /\ mRCode' = 1
                /\ returned' = FALSE
                /\ set' = Seen(n)
                /\ UNCHANGED <<code, nextin>>
-----------------------------------------------------------------------------
(* sub.                                                                    *)

\* Where the words and the matches are that sub replaces.  An empty match is
\* passed with the byte behind it, the NUL at the end of the text included.
SubWords(text, word) ==
    LET from[p \in 0..(Len(text) + 1)] ==
            LET r == strstr(text, word, p)
            IN  IF r = None THEN <<>>
                ELSE <<[p |-> p, beg |-> r, end |-> r + Len(word)]>> \o from[r + Len(word)]
    IN  from[0]
SubMatches(text, regex) ==
    LET from[p \in 0..(Len(text) + 1)] ==
            LET beg == IF p > Len(text) THEN None ELSE onig_search(regex, text, p)
                end == MatchEnd(regex, text, beg)
            IN  IF beg = None THEN <<>>
                ELSE <<[p |-> p, beg |-> beg, end |-> end]>>
                     \o from[IF beg = end THEN end + 1 ELSE end]
    IN  from[0]

\* What a replacement comes to: \0 and \& are the match, \1 the group, \` and
\* \' what is before and behind in the whole text; a group that is not there
\* stays as it is written.
Item(item, text, regex, m) ==
    CASE item \in {"\\0", "\\&", "\\+"} -> Matched(text, m)
      [] item = "\\1" -> IF Groups(regex) = 1 THEN Matched(text, m) ELSE <<92, 49>>
      [] item = "\\backquote" -> FirstOf(text, m.beg)
      [] item = "\\'" -> After(text, m.end)
      [] OTHER -> <<88>>
Destination(replace, text, regex, m) ==
    FlattenSeq([n \in 1..Len(replace) |-> Item(replace[n], text, regex, m)])

\* The text up to and with the last match, the matches replaced.
Passed(text, m) == IF m.beg = m.end THEN SubSeq(text \o <<NUL>>, m.beg + 1, m.beg + 1) ELSE <<>>
Replacing(text, matches, Dest(_)) ==
    FlattenSeq([k \in 1..Len(matches) |->
        LET m == matches[k]
        IN  SubSeq(text, m.p + 1, m.beg) \o Dest(m) \o Passed(text, m)])

\* The first match is replaced, or all of them.
Substituted(text, matches, global, Dest(_)) ==
    LET done == IF global THEN matches ELSE SubSeq(matches, 1, Least(Len(matches), 1))
        Behind(m) == IF m.beg = m.end THEN m.end + 1 ELSE m.end
    IN  Replacing(text, done, Dest)
        \o After(text, IF done = <<>> THEN 0 ELSE Behind(Last(done)))

SubCode(count) == IF count > 0 THEN Read ELSE RCODE_NFUN_FALSE

SubCommand(what, replace, global, quiet) ==
    [name |-> "sub", what |-> what, replace |-> replace, global |-> global, quiet |-> quiet]

\* A word is searched for in bytes; an empty one is found before the text,
\* and with -global again and again: only ^C ends that, and nothing if sub is
\* quiet, as then it writes nothing.
sub_word ==
    \E word \in Words, replace \in Words, global, quiet, ignore \in BOOLEAN :
        LET matches == SubWords(Folded(nextin, ignore), Folded(word, ignore))
            count == IF global THEN Len(matches) ELSE Least(Len(matches), 1)
            command == SubCommand(word, replace, global, quiet) @@ [ignore |-> ignore]
        IN  \/ /\ word # <<>>
               /\ Prints(command,
                         IF quiet THEN <<>>
                         ELSE Substituted(nextin, matches, global, LAMBDA m : replace),
                         SubCode(count))
               /\ set' = [set EXCEPT !.SUB_COUNT = count]
            \/ /\ word = <<>> /\ ~global
               /\ Prints(command, IF quiet THEN <<>> ELSE replace \o nextin, SubCode(1))
               /\ set' = [set EXCEPT !.SUB_COUNT = 1]
            \/ /\ word = <<>> /\ global /\ ~quiet /\ typed.name = "none"
               /\ typed' = command
               /\ \E n \in 0..2 : nextout' = nextout \o FlattenSeq([k \in 1..n |-> replace])
               /\ mRCode' = RCODE_SIGNAL_INTERRUPT
               /\ returned' = FALSE
               /\ UNCHANGED <<code, nextin, set>>

\* A quiet sub goes on after the first match, -global or not.
CountsAll(global, quiet) == global \/ quiet

sub_regex ==
    \E regex \in Regexes, replace \in Replacements, global, quiet \in BOOLEAN :
        LET matches == SubMatches(nextin, regex)
            count == IF CountsAll(global, quiet) THEN Len(matches) ELSE Least(Len(matches), 1)
        IN  /\ Prints(SubCommand(regex, replace, global, quiet),
                      IF quiet THEN <<>>
                      ELSE Substituted(nextin, matches, global,
                                LAMBDA m : Destination(replace, nextin, regex, m)),
                      SubCode(count))
            /\ set' = [set EXCEPT !.SUB_COUNT = count]

\* With a block the match is replaced by what the block prints for it, here
\* the match in capitals, and the variables are those of the last match.  A
\* block that fails ends the command behind the match before.
sub_block ==
    \E regex \in Regexes, global, quiet \in BOOLEAN :
        LET matches == SubMatches(nextin, regex)
            count == IF CountsAll(global, quiet) THEN Len(matches) ELSE Least(Len(matches), 1)
            Capitals(m) == [n \in 1..(m.end - m.beg) |-> toupper(nextin[m.beg + n])]
            Seen(n) == IF n = 0 THEN set ELSE MatchVariables(nextin, regex, matches[n])
            command == SubCommand(regex, <<"block">>, global, quiet)
        IN  \/ /\ Prints(command,
                         IF quiet THEN <<>> ELSE Substituted(nextin, matches, global, Capitals),
                         SubCode(count))
               /\ LET seen == Seen(count)
                  IN  set' = [seen EXCEPT !.SUB_COUNT = count]
            \/ \E n \in 1..count :
                /\ typed.name = "none"
                /\ typed' = command @@ [failed |-> n]
                /\ nextout' = nextout \o (IF quiet THEN <<>>
                                          ELSE Replacing(nextin, SubSeq(matches, 1, n - 1), Capitals))
                /\ mRCode' = 1
                /\ returned' = FALSE
                /\ set' = Seen(n)
                /\ UNCHANGED <<code, nextin>>

cmd_sub == sub_word \/ sub_regex \/ sub_block
-----------------------------------------------------------------------------
(* split.                                                                  *)

\* The pieces before each separator and what is left behind the last.  An
\* empty word splits after each byte, an empty match after each character.
SplitWord(text, word, ignore) ==
    LET from[p \in 0..(Len(text) + Len(word) + 1)] ==
            IF p >= Len(text) THEN [pieces |-> <<>>, rest |-> <<>>]
            ELSE LET r == IF word = <<>> THEN p + 1
                          ELSE strstr(Folded(text, ignore), Folded(word, ignore), p)
                     behind == from[r + Len(word)]
                 IN  IF r = None THEN [pieces |-> <<>>, rest |-> After(text, p)]
                     ELSE [behind EXCEPT !.pieces = <<SubSeq(text, p + 1, r)>> \o @]
    IN  from[0]
SplitRegex(text, regex) ==
    LET from[p \in 0..(Len(text) + 1)] ==
            IF p >= Len(text) THEN [pieces |-> <<>>, rest |-> <<>>]
            ELSE LET beg == onig_search(regex, text, p)
                     end == MatchEnd(regex, text, beg)
                     to == IF beg = end /\ beg = p
                           THEN p + str_kanjipos2pointer(code, After(text, p), 1) ELSE end
                     cut == IF beg = end /\ beg = p THEN to ELSE beg
                     group == IF Groups(regex) = 1 /\ end > beg
                              THEN <<SubSeq(text, beg + 1, end)>> ELSE <<>>
                     behind == from[to]
                 IN  IF beg = None THEN [pieces |-> <<>>, rest |-> After(text, p)]
                     ELSE [behind EXCEPT !.pieces = <<SubSeq(text, p + 1, cut)>> \o group \o @]
    IN  from[0]

\* Each piece is a line, and what is left another, even if it is nothing.
SplitPrints(command, split) ==
    /\ Prints(command,
              FlattenSeq([n \in 1..Len(split.pieces) |-> split.pieces[n] \o Field])
              \o split.rest \o Field,
              IF split.pieces # <<>> THEN Read ELSE 1)
    /\ UNCHANGED set

split_word ==
    \E word \in Words, ignore \in BOOLEAN :
        SplitPrints([name |-> "split", what |-> word, ignore |-> ignore],
                    SplitWord(nextin, word, ignore))
split_regex ==
    \E regex \in Regexes :
        SplitPrints([name |-> "split", what |-> regex], SplitRegex(nextin, regex))

cmd_split == split_word \/ split_regex

Next ==
    \/ cmd_index_word \/ cmd_index_regex \/ cmd_rindex_word \/ cmd_rindex_regex
    \/ cmd_scan \/ cmd_sub \/ cmd_split

Spec == Init /\ [][Next]_vars
-----------------------------------------------------------------------------
(* Properties.                                                             *)

Ran(name) == typed.name = name
Literal   == "ignore" \in DOMAIN typed          \* a word was looked for, no regex
Same      == IF Literal THEN Folded(nextin, typed.ignore) ELSE nextin
Word      == IF Literal THEN Folded(typed.what, typed.ignore) ELSE typed.what.of
IsWord    == Literal \/ typed.what.kind \in {"word", "group"}
PlacesOf(word) == {q \in IF Literal THEN 0..Len(nextin) ELSE Ahead(nextin, 0) : At(Same, word, q)}
FirstPlace == str_kanjipos2pointer(code, nextin, StartAt(typed.number, Len0, 0))

\* Where index says a word is, it is, counted in characters, and no place
\* between the start and it was left out; where rindex says, none behind it up
\* to the start.  The n-th word is there exactly if sub would replace n of
\* them.  Under Shift-JIS and EUC-JP a word is also found across characters.
SearchesAgree ==
    \/ typed.name \notin {"index", "rindex"} \/ typed.quiet \/ ~IsWord \/ Word = <<>>
    \/ LET found == mRCode # RCODE_NFUN_FALSE
           at == str_kanjipos2pointer(code, nextin, atoi(nextout))
           once == CountOf(typed.count) = 1
           all == typed.number = NotGiven
           letters == ~Literal \/ code \in {"kByte", "kUtf8"}
       IN  /\ found /\ letters => at \in PlacesOf(Word)
           /\ ~found => atoi(nextout) = -1
           /\ Ran("index") /\ once =>
                  /\ found <=> \E q \in PlacesOf(Word) : q >= FirstPlace
                  /\ found /\ letters => \A q \in PlacesOf(Word) : q >= at \/ q < FirstPlace
           /\ Ran("rindex") /\ once /\ all =>
                  /\ found <=> PlacesOf(Word) # {}
                  /\ found /\ letters => \A q \in PlacesOf(Word) : q <= at
           /\ Ran("index") /\ Literal /\ all =>
                  (found <=> Len(SubWords(Same, Word)) >= CountOf(typed.count))

Joined(pieces, word) == FlattenSeq([n \in 1..Len(pieces) |-> pieces[n] \o word])
Empties(matches) == {n \in 1..Len(matches) : matches[n].beg = matches[n].end}

\* The parts of a text that the commands tell apart fit together again: what
\* sub leaves and what it puts in, the pieces of split and the word, the
\* variables a block sees.  sub, scan and split find as many words, and sub -quiet
\* counts what sub -global replaces, if it is a regex.  An empty match at the
\* end of the text adds a NUL to it.
MatchesAgree ==
    /\ Ran("sub") /\ ~typed.quiet /\ returned =>
          LET n == set.SUB_COUNT
              same == \/ Literal /\ ~typed.ignore /\ typed.replace = typed.what
                      \/ ~Literal /\ typed.replace \in {<<"\\0">>, <<"\\&">>}
              sizes == Len(nextin) + n * (Len(typed.replace) - Len(typed.what))
          IN  /\ same => nextout \in {nextin, nextin \o <<NUL>>}
              /\ Literal => Len(nextout) = sizes
              /\ ~Literal /\ NUL \in ToSet(nextout) => Empties(SubMatches(nextin, typed.what)) # {}
    /\ Ran("sub") /\ returned /\ ~Literal /\ (typed.global \/ typed.quiet) =>
          /\ Empties(SubMatches(nextin, typed.what)) = {} =>
                set.SUB_COUNT = Len(Scans(nextin, typed.what))
          /\ mRCode = RCODE_NFUN_FALSE <=> SubMatches(nextin, typed.what) = <<>>
    /\ Ran("scan") /\ returned =>
          /\ typed.what.kind = "word" /\ code \in {"kByte", "kUtf8"} =>
                set.MATCH_COUNT = Len(SplitWord(nextin, typed.what.of, FALSE).pieces)
          /\ typed.what.kind = "before" => \* found twice, but where the search begins
                set.MATCH_COUNT = LET places == PlacesOf(typed.what.of)
                                  IN  2 * Cardinality(places) - Cardinality({q \in places : q - 1 \in places \cup {-1}})
    /\ Ran("scan") /\ typed.block /\ set # Unset /\ set.MATCH_NUMBER > 0 =>
          /\ IsSuffix(set.PREMATCH \o set.MATCH \o set.POSTMATCH, nextin)
          /\ set.LAST_MATCH = set.MATCH
    /\ Ran("split") /\ Literal =>
          LET split == SplitWord(nextin, typed.what, typed.ignore)
          IN  /\ Folded(Joined(split.pieces, typed.what) \o split.rest, typed.ignore) = Same
              /\ mRCode = 1 <=> (typed.what # <<>> /\ PlacesOf(Word) = {}) \/ nextin = <<>>
    /\ Ran("split") /\ ~Literal /\ typed.what.kind \in {"run", "before"} =>
          \* only a run of the separator is lost
          SelectSeq(nextin, LAMBDA b : b # typed.what.of[1] /\ b # LF)
              = SelectSeq(nextout, LAMBDA b : b # typed.what.of[1] /\ b # LF)
=============================================================================
