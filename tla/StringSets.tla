----------------------------- MODULE StringSets -----------------------------
(***************************************************************************)
(* cmd_str.c: the string commands that take sets of characters written as  *)
(* tr(1) does -- count, delete, squeeze and tr -- and succ.  A behaviour   *)
(* is one command on one text, as in StringEdit.                           *)
(*                                                                         *)
(* Sets hold fewer than the 128 characters their buffers have room for at  *)
(* first, and patterns do not end a range with a character of two bytes:   *)
(* what the code does with those is left to the memory behind them.        *)
(***************************************************************************)
EXTENDS Texts

CONSTANTS
    Inputs,         \* texts under each code
    Patterns,       \* sequences of patterns, arguments of count, delete, squeeze
    Pairs           \* pairs of patterns, arguments of tr

VARIABLES code, nextin, typed, nextout, mRCode, returned

vars == <<code, nextin, typed, nextout, mRCode, returned>>


Init ==
    /\ code \in Codes
    /\ nextin \in Inputs[code]
    /\ typed = [name |-> "none"]
    /\ nextout = <<>>
    /\ mRCode = RCODE_NFUN_INVALID_USSING /\ returned = TRUE

Prints(command, text) ==
    /\ typed.name = "none"
    /\ typed' = command
    /\ nextout' = nextout \o text
    /\ mRCode' = IF nextin = <<>> THEN RCODE_NFUN_NULL_INPUT ELSE 0
    /\ returned' = TRUE
    /\ UNCHANGED <<code, nextin>>
-----------------------------------------------------------------------------
(* Patterns.                                                               *)

Hyphen == 45
Caret  == 94

\* x-y is a range only within digits, small or capital letters; else the
\* three bytes are passed over.
Range3(x, y) ==
    IF \E class \in {Digits, Lowers, Uppers} : {x, y} \subseteq class
    THEN [k \in 1..Greatest(y - x + 1, 0) |-> <<x + k - 1>>] ELSE <<>>

Split(c, pattern) ==
    LET from[p \in 1..(Len(pattern) + 8)] ==
            IF p > Len(pattern) THEN <<>>
            ELSE LET size == SizeOf(c, pattern[p]) IN
                 IF size = 1 /\ p + 2 <= Len(pattern) /\ pattern[p + 1] = Hyphen
                 THEN Range3(pattern[p], pattern[p + 2]) \o from[p + 3]
                 ELSE <<SubSeq(pattern, p, Least(p + size - 1, Len(pattern)))>> \o from[p + size]
    IN  from[1]

on_byte(pattern)    == Split("kByte", pattern)
on_utf8(pattern)    == Split("kUtf8", pattern)
on_kanji(c, pattern) == Split(c, pattern)

PatternChars(c, pattern) ==
    CASE c = "kByte" -> on_byte(pattern)
      [] c = "kUtf8" -> on_utf8(pattern)
      [] OTHER       -> on_kanji(c, pattern)

Negated(pattern) == pattern # <<>> /\ pattern[1] = Caret

\* chars and rchars: what the arguments name and what those with a ^ name.
chars(c, args)  == UNION {ToSet(PatternChars(c, args[n])) :
                            n \in {m \in 1..Len(args) : ~Negated(args[m])}}
rchars(c, args) == UNION {ToSet(PatternChars(c, Tail(args[n]))) :
                            n \in {m \in 1..Len(args) : Negated(args[m])}}

\* In bytes the buffer of rchars is ended by the argument that fills it: when
\* there is none, whatever was in that memory is read.
StaleIsRead(c, args) == c = "kByte" /\ chars(c, args) # {} /\ ~\E n \in 1..Len(args) : Negated(args[n])
Stales(c, args) == IF StaleIsRead(c, args) THEN {{}} \cup {{ch} : ch \in chars(c, args)} ELSE {{}}
Given(c, args) == chars(c, args) \cup rchars(c, args) # {}

\* (Here and below, a definition marked "slip" is one of the ways to get the
\* one after it wrong; the properties tell them apart.)
SelectedUnion(c, args, stale) ==                                           \* slip
    {ch \in chars(c, args) \cup rchars(c, args) \cup stale : ch \notin rchars(c, args)}
Selected(c, args, stale) ==
    LET Of(cs) == IF chars(c, args) # {}
                  THEN (cs \cap chars(c, args)) \ (rchars(c, args) \cup stale)
                  ELSE cs \ rchars(c, args)
    IN  IF Given(c, args) THEN Of(ToSet(Characters(c, nextin))) ELSE {}
-----------------------------------------------------------------------------
(* The commands.                                                           *)

Counted(text, set) == Len(SelectSeq(Characters(code, text), LAMBDA ch : ch \in set))

count_on_byte(args)  == \E stale \in Stales(code, args) :
    Prints([name |-> "count", args |-> args],
           Decimal(Counted(nextin, Selected(code, args, stale))) \o <<LF>>)
count_on_chars(args) ==
    Prints([name |-> "count", args |-> args],
           Decimal(Counted(nextin, Selected(code, args, {}))) \o <<LF>>)

cmd_count == \E args \in Patterns :
    /\ args # <<>>
    /\ IF code = "kByte" THEN count_on_byte(args) ELSE count_on_chars(args)

\* delete writes nothing at all when the arguments name no character.
Kept(text, set) == Bytes(SelectSeq(Characters(code, text), LAMBDA ch : ch \notin set))

delete_on_byte(args)  == \E stale \in Stales(code, args) :
    Prints([name |-> "delete", args |-> args],
           IF Given(code, args) THEN Kept(nextin, Selected(code, args, stale)) ELSE <<>>)
delete_on_chars(args) ==
    Prints([name |-> "delete", args |-> args],
           IF Given(code, args) THEN Kept(nextin, Selected(code, args, {})) ELSE <<>>)

cmd_delete == \E args \in Patterns :
    /\ args # <<>>
    /\ IF code = "kByte" THEN delete_on_byte(args) ELSE delete_on_chars(args)

\* squeeze drops a character of the set that is the one before it in the text;
\* without arguments, any.
Squeezed(text, set) ==
    LET cs == Characters(code, text)
        stay == {n \in 1..Len(cs) : n = 1 \/ cs[n] # cs[n - 1] \/ cs[n] \notin set}
    IN  FlattenSeq([n \in 1..Len(cs) |-> IF n \in stay THEN cs[n] ELSE <<>>])

squeeze_on_byte(args)  == \E stale \in Stales(code, args) :
    Prints([name |-> "squeeze", args |-> args],
           IF Given(code, args) THEN Squeezed(nextin, Selected(code, args, stale)) ELSE <<>>)
squeeze_on_chars(args) ==
    Prints([name |-> "squeeze", args |-> args],
           IF Given(code, args) THEN Squeezed(nextin, Selected(code, args, {})) ELSE <<>>)
squeeze_all == Prints([name |-> "squeeze", args |-> <<>>],
                      Squeezed(nextin, ToSet(Characters(code, nextin))))

cmd_squeeze == \E args \in Patterns :
    CASE args = <<>>     -> squeeze_all
      [] code = "kByte"  -> squeeze_on_byte(args)
      [] OTHER           -> squeeze_on_chars(args)

\* tr: a pattern with ^ is split as UTF-8 under every code but kByte; the
\* characters that are not in it become the last one of the replacement.
ExceptChars(c, pattern) == IF c = "kByte" THEN on_byte(pattern) ELSE on_utf8(pattern)
tr_except(c, text, pattern, replace) ==
    LET keep == ToSet(ExceptChars(c, pattern))
        r == ExceptChars(c, replace)
        other == IF r = <<>> THEN <<>> ELSE Last(r)
        cs == Characters(c, text)
    IN  FlattenSeq([n \in 1..Len(cs) |-> IF cs[n] \in keep THEN cs[n] ELSE other])

\* Else a character becomes what is at the place it first has in the pattern,
\* the last one where the replacement is too short, nothing if it is empty.
tr_pattern(c, text, pattern, replace) ==
    LET from == PatternChars(c, pattern)
        r == PatternChars(c, replace)
        At(n) == IF r = <<>> THEN <<>> ELSE r[Least(n, Len(r))]
        First(ch) == CHOOSE n \in 1..Len(from) :
                        from[n] = ch /\ \A m \in 1..(n - 1) : from[m] # ch
        cs == Characters(c, text)
    IN  FlattenSeq([n \in 1..Len(cs) |->
            IF cs[n] \in ToSet(from) THEN At(First(cs[n])) ELSE cs[n]])

Translated(c, text, pattern, replace) ==
    IF Negated(pattern) THEN tr_except(c, text, Tail(pattern), replace)
    ELSE tr_pattern(c, text, pattern, replace)

cmd_tr == \E pair \in Pairs :
    Prints([name |-> "tr", pair |-> pair], Translated(code, nextin, pair[1], pair[2]))

\* succ: the control characters and bytes over 126 at the end are let be, the
\* first byte excepted; the bytes that carry are those back to one that does not.
Ignored(text) ==
    LET plain == {n \in 2..Len(text) : text[n] \in 32..126}
    IN  Len(text) - (IF plain = {} THEN 1 ELSE CHOOSE n \in plain : \A m \in plain : m <= n)
StopsCarry(byte)  == byte \in (Digits \cup Letters) \ {57, 90, 122}
Increased(text) ==
    LET last == Len(text) - Ignored(text)
        stops == {n \in 2..last : StopsCarry(text[n])}
    IN  last - (IF stops = {} THEN 1 ELSE CHOOSE n \in stops : \A m \in stops : m <= n) + 1
NextByte(byte, only) ==
    CASE byte = 57  -> 48
      [] byte = 90  -> 65
      [] byte = 122 -> 97
      [] byte \in Digits \cup Letters -> byte + 1
      [] OTHER -> IF only THEN (byte + 1) % 256 ELSE byte
\* What is put before a text all of whose bytes carry.
NewHead(text) ==
    LET words == {n \in 1..Len(text) : text[n] \in Digits \cup Letters}
        first == text[CHOOSE n \in words : \A m \in words : n <= m]
    IN  CASE words = {}  -> <<>>
          [] first = 57  -> <<49>>
          [] first = 90  -> <<65>>
          [] first = 122 -> <<97>>
          [] OTHER       -> <<>>
Succ(text) ==
    LET ignored == Ignored(text)
        increased == Increased(text)
        head == Len(text) - ignored - increased
    IN  (IF head = 0 THEN NewHead(text) ELSE FirstOf(text, head))
        \o [n \in 1..increased |-> NextByte(text[head + n], increased = 1)]
        \o After(text, Len(text) - ignored)

cmd_succ == Prints([name |-> "succ"], IF nextin = <<>> THEN <<>> ELSE Succ(nextin))

Next == cmd_count \/ cmd_delete \/ cmd_squeeze \/ cmd_tr \/ cmd_succ

Spec == Init /\ [][Next]_vars
-----------------------------------------------------------------------------
(* Properties.                                                             *)

Ran(name) == typed.name = name
Defined   == Given(code, typed.args) /\ ~StaleIsRead(code, typed.args)
Length(text) == str_kanjilen(code, text)
Opposite(pattern) == IF Negated(pattern) THEN Tail(pattern) ELSE <<Caret>> \o pattern

\* delete leaves as many characters out as count counts for the same sets, in
\* their order, and a set and its ^ share the text between them; what squeeze
\* has squeezed it leaves alone.  (Where bytes are read that nobody wrote, none
\* of this holds.)
SetsAgree ==
    /\ Ran("delete") /\ Defined =>
          LET set == Selected(code, typed.args, {})
          IN  /\ Length(nextout) + Counted(nextin, set) = Length(nextin)
              /\ Counted(nextout, set) = 0
              /\ Len(typed.args) = 1 /\ typed.args[1] # <<Caret>> =>
                    Counted(nextin, set)
                    + Counted(nextin, Selected(code, <<Opposite(typed.args[1])>>, {}))
                    = Length(nextin)
    /\ Ran("squeeze") /\ (typed.args = <<>> \/ Defined) =>
          LET set == IF typed.args = <<>> THEN ToSet(Characters(code, nextin))
                     ELSE Selected(code, typed.args, {})
              cs == Characters(code, nextout)
          IN  /\ Squeezed(nextout, set) = nextout
              /\ \A n \in 2..Len(cs) : cs[n] = cs[n - 1] => cs[n] \notin set
              /\ Kept(nextout, set) = Kept(nextin, set)
              /\ ToSet(cs) = ToSet(Characters(code, nextin))

\* tr changes no character outside its pattern and leaves none inside it that
\* the replacement does not bring; it keeps the number of characters, unless
\* the replacement is empty.  With ^ it keeps those in the pattern -- under the
\* codes with characters of two bytes only if the arguments have none.
TranslatesSet ==
    Ran("tr") =>
        LET pattern == typed.pair[1]
            body == IF Negated(pattern) THEN Tail(pattern) ELSE pattern
            set == ToSet(PatternChars(code, body))
            r == ToSet(PatternChars(code, typed.pair[2]))
            plain == code \in {"kByte", "kUtf8"} \/ \A n \in 1..Len(body \o typed.pair[2]) :
                                                        (body \o typed.pair[2])[n] < 128
            target(ch) == IF Negated(pattern) THEN ch \notin set ELSE ch \in set
            cs == Characters(code, nextin)
        IN  plain \/ ~Negated(pattern) =>
              /\ r # {} => Length(nextout) = Length(nextin)
              /\ r # {} => \A n \in 1..Len(cs) :
                    IF target(cs[n]) THEN Characters(code, nextout)[n] \in r
                    ELSE Characters(code, nextout)[n] = cs[n]
              /\ r = {} => nextout = Bytes(SelectSeq(cs, LAMBDA ch : ~target(ch)))

\* The successor of a number is the next number, that of a word of one case
\* the next word of its length or the first that is longer.
Base26(text, first) ==
    LET value[n \in 0..Len(text)] ==
            IF n = 0 THEN 0 ELSE value[n - 1] * 26 + (text[n] - first + 1)
    IN  value[Len(text)]
SuccIsNext ==
    Ran("succ") /\ nextin # <<>> =>
        /\ ToSet(nextin) \subseteq Digits => atoi(nextout) = atoi(nextin) + 1
        /\ \A class \in {Lowers, Uppers} : ToSet(nextin) \subseteq class =>
              LET first == CHOOSE n \in class : \A m \in class : n <= m
              IN  /\ ToSet(nextout) \subseteq class
                  /\ Base26(nextout, first) = Base26(nextin, first) + 1
=============================================================================
