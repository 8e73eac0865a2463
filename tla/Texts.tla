------------------------------- MODULE Texts -------------------------------
(***************************************************************************)
(* Texts as the string commands see them: sequences of bytes, and the      *)
(* characters kanji.c finds in them under a character code.  An EUC-JP or  *)
(* Shift-JIS character has two bytes and the second may be the code of a   *)
(* letter; that of UTF-8 says in its first byte how long it is.            *)
(***************************************************************************)
EXTENDS Integers, Sequences, SequencesExt

NUL == 0
BEL == 7
TAB == 9
LF  == 10
CR  == 13
SP  == 32

Uppers  == 65..90
Lowers  == 97..122
Digits  == 48..57
Blanks  == {BEL, TAB, LF, CR, SP}
Letters == Uppers \cup Lowers

\* What a command leaves for run to look at (xyzsh.h): run sets the first of
\* them before, and reports a command that has not changed it.
RCODE_NFUN_INVALID_USSING == 8192
RCODE_NFUN_NULL_INPUT     == 16384
RCODE_NFUN_FALSE          == 4096
RCODE_SIGNAL_INTERRUPT    == 2048

Codes  == {"kByte", "kUtf8", "kSjis", "kEucjp"}
Fields == [kLF |-> <<LF>>, kCR |-> <<CR>>, kCRLF |-> <<CR, LF>>, kBel |-> <<BEL>>]

Least(m, n)    == IF m < n THEN m ELSE n
Greatest(m, n) == IF m > n THEN m ELSE n

is_kanji(code, byte) ==
    CASE code = "kEucjp" -> byte \in 161..254 \/ byte = 142
      [] code = "kSjis"  -> byte \in 129..159 \/ byte >= 224
      [] code = "kUtf8"  -> byte > 127
      [] OTHER           -> FALSE

\* How long a character is: UTF-8 counts the first four bits.
Utf8Size(byte) == LET Bit(n) == (byte \div 2^n) % 2
                  IN  IF byte > 127 THEN Bit(7) + Bit(6) + Bit(5) + Bit(4) ELSE 1
SizeOf(code, byte) == IF code = "kUtf8" THEN Utf8Size(byte)
                    ELSE IF is_kanji(code, byte) THEN 2 ELSE 1

\* The text as a sequence of characters; each is a sequence of bytes.
Characters(code, text) ==
    LET from[p \in 1..(Len(text) + 8)] ==
            IF p > Len(text) THEN <<>>
            ELSE <<SubSeq(text, p, Least(p + SizeOf(code, text[p]) - 1, Len(text)))>>
                 \o from[p + SizeOf(code, text[p])]
    IN  from[1]

Bytes(characters) == FlattenSeq(characters)

str_kanjilen(code, text) == Len(Characters(code, text))

\* The offset of a character: a position before the text is its start and one
\* past it its end, but in bytes it is what it is.
str_kanjipos2pointer(code, text, pos) ==
    IF code = "kByte" THEN pos
    ELSE IF pos < 0 THEN 0
    ELSE LET cs == Characters(code, text)
         IN  Len(Bytes(SubSeq(cs, 1, Least(pos, Len(cs)))))

\* The character an offset is the start of.
str_pointer2kanjipos(code, text, offset) ==
    Len(Characters(code, SubSeq(text, 1, offset)))

FirstOf(text, n) == SubSeq(text, 1, n)
After(text, n)   == SubSeq(text, n + 1, Len(text))

\* string_tolower, string_toupper: a character of two bytes is passed over
\* under EUC-JP and Shift-JIS; else each byte is mapped.
Mapped(code, text, Map(_)) ==
    Bytes([k \in 1..str_kanjilen(code, text) |->
              LET c == Characters(code, text)[k]
              IN  IF code \in {"kSjis", "kEucjp"} /\ is_kanji(code, c[1]) THEN c
                  ELSE [n \in 1..Len(c) |-> Map(c[n])]])
tolower(byte) == IF byte \in Uppers THEN byte + 32 ELSE byte
toupper(byte) == IF byte \in Lowers THEN byte - 32 ELSE byte
string_tolower(code, text) == Mapped(code, text, tolower)
string_toupper(code, text) == Mapped(code, text, toupper)

\* How many bytes at the end of a text end its line.
EndSize(text) ==
    IF IsSuffix(<<CR, LF>>, text) THEN 2
    ELSE IF text # <<>> /\ Last(text) \in {CR, LF, BEL} THEN 1 ELSE 0

string_chomp(text)     == FirstOf(text, Len(text) - EndSize(text))
string_pomch(text, lf) == IF EndSize(text) > 0 THEN text ELSE text \o Fields[lf]

\* fd_split without line ends: a last line without one is a line unless empty.
SplitAt(text, end) ==
    LET from[p \in 0..(Len(text) + 1)] ==      \* p bytes are behind
            LET ends == {n \in p..(Len(text) - Len(end)) :
                            SubSeq(text, n + 1, n + Len(end)) = end}
                n == CHOOSE e \in ends : \A f \in ends : e <= f
            IN  IF ends # {} THEN <<SubSeq(text, p + 1, n)>> \o from[n + Len(end)]
                ELSE IF p < Len(text) THEN <<After(text, p)>> ELSE <<>>
    IN  from[0]

\* atoi, and a number as printf("%d") writes it.
atoi(text) ==
    LET spaces == 9..13 \cup {SP}
        start == CHOOSE n \in 1..(Len(text) + 1) :
                    /\ \A m \in 1..(n - 1) : text[m] \in spaces
                    /\ n > Len(text) \/ text[n] \notin spaces
        sign == IF start <= Len(text) THEN text[start] ELSE NUL
        minus == sign = 45
        first == start + (IF sign \in {43, 45} THEN 1 ELSE 0)
        value[n \in 0..Len(text)] ==           \* of the digits up to n
            IF n < first THEN 0 ELSE value[n - 1] * 10 + (text[n] - 48)
        last == CHOOSE n \in (first - 1)..Len(text) :
                    /\ \A m \in first..n : text[m] \in Digits
                    /\ n = Len(text) \/ text[n + 1] \notin Digits
    IN  IF minus THEN -value[last] ELSE value[last]

Decimal(number) ==
    LET size == IF number < 0 THEN -number ELSE number
        digits[n \in 0..size] == IF n < 10 THEN <<48 + n>>
                                 ELSE digits[n \div 10] \o <<48 + (n % 10)>>
    IN  IF number < 0 THEN <<45>> \o digits[size] ELSE digits[size]
=============================================================================
