----------------------------- MODULE Conditions -----------------------------
(***************************************************************************)
(* cmd_num.c and cmd_condition.c: the commands that reckon with the number *)
(* a text stands for, and those that ask something about a text, a number  *)
(* or a file and answer with their code.  Commands follow each other, as   *)
(* the variable of ++ and what =~ has matched are there for the next one.  *)
(*                                                                         *)
(* An overflow of an int is taken to wrap, as the build does.              *)
(***************************************************************************)
EXTENDS NativeCommand

CONSTANTS
    Half,           \* an int of w bits is in -Half..Half-1, for Half = 2^(w-1)
    Numerals,       \* texts read as numbers
    Compared,       \* texts compared with each other
    Files,          \* files by path, see NoFile
    Searched,        \* texts given to =~
    Regexes,        \* words it looks for, each the first or the second group or none
    MaxTests        \* bound

VARIABLES
    var,            \* the number a variable holds, or NotANumber if it has none
    set,            \* the variables =~ sets
    alive           \* the shell has not been ended by SIGFPE

testvars == <<var, set, typed, nextout, mRCode, returned, alive, commands>>

\* What stat says of a file (a link is followed), and lstat of its time.
NoFile == [kind |-> "missing", link |-> FALSE, mode |-> {}, owned |-> {}, size |-> 0, time |-> -1]
FileKinds == {"block", "character", "directory", "regular", "fifo", "socket", "missing"}
Modes     == {"S_ISGID", "S_ISVTX", "S_ISUID", "R_OK", "W_OK", "X_OK"}
FileRecords == [kind : FileKinds, link : BOOLEAN, mode : SUBSET Modes,
                owned : SUBSET {"user", "group"}, size : Nat, time : Int]

ASSUME HalfAssumption == Half \in Nat \ {0}
ASSUME TextsAssumption ==
    \A texts \in {Numerals, Compared, Searched, Regexes} : texts \subseteq Seq(Nat)
\* Of what is not there nothing is known, but the time of a link to it.
ASSUME FilesAssumption ==
    \A path \in DOMAIN Files :
        LET file == Files[path]
        IN  /\ file \in FileRecords
            /\ file.kind = "missing" => file = [NoFile EXCEPT !.link = file.link, !.time = file.time]

Unset == [MATCH |-> <<>>, PREMATCH |-> <<>>, POSTMATCH |-> <<>>, LAST_MATCH |-> <<>>, MATCH_NUMBER |-> 0]

IntMax == Half - 1
IntMin == -Half
Wrap(n) == ((n - IntMin) % (2 * Half)) + IntMin
Number(text) == Wrap(atoi(text))
NotANumber == IntMax + 1

TestsInit ==
    /\ var \in {Number(text) : text \in Numerals} \cup {NotANumber}
    /\ set = Unset
    /\ alive = TRUE
    /\ NoneCalled

Typed(command) ==
    /\ alive /\ commands < MaxTests
    /\ Called(command, {"++", "--", "=~"}, MaxTests)
-----------------------------------------------------------------------------
(* Numbers.                                                                *)

\* ++ and -- change a variable where it is.
Step(name, by) ==
    /\ Typed([name |-> name])
    /\ IF var = NotANumber
       THEN /\ returned' = FALSE /\ mRCode' = RCODE_NFUN_INVALID_USSING
            /\ UNCHANGED var
       ELSE /\ returned' = TRUE /\ mRCode' = 0
            /\ var' = Wrap(var + by)
    /\ nextout' = <<>>
    /\ UNCHANGED <<set, alive>>
cmd_plusplus   == Step("++", 1)
cmd_minusminus == Step("--", -1)

\* What the others make of the number of nextin and that of their argument.
Answers(name, text, arg, number) ==
    /\ Typed([name |-> name, text |-> text, arg |-> arg])
    /\ Ended(TRUE, IF text = <<>> THEN RCODE_NFUN_NULL_INPUT ELSE 0, Decimal(number) \o <<LF>>)
    /\ UNCHANGED <<var, set, alive>>

\* C divides towards zero and the remainder has the sign of the dividend.
\* (Here and below, a definition marked "slip" is one of the ways to get the
\* one after it wrong; the properties tell them apart.)
Abs(n) == IF n < 0 THEN -n ELSE n
QuotientDown(n, d) == IF d > 0 THEN n \div d ELSE (-n) \div (-d)           \* slip
Quotient(n, d) == IF (n < 0) = (d < 0) THEN Abs(n) \div Abs(d) ELSE -(Abs(n) \div Abs(d))
Remainder(n, d) == n - d * Quotient(n, d)

\* pow() in doubles, cut to an int; what is out of its range is IntMin.
Power(n, e) ==
    LET times[k \in 0..Greatest(e, 0)] == IF k = 0 THEN 1 ELSE n * times[k - 1]
        exact == IF e >= 0 THEN times[e]
                 ELSE IF n = 0 THEN IntMin
                 ELSE IF n = 1 THEN 1
                 ELSE IF n = -1 THEN (IF e % 2 = 0 THEN 1 ELSE -1) ELSE 0
    IN  IF exact \in IntMin..IntMax THEN exact ELSE IntMin

cmd_plus  == \E t, a \in Numerals : Answers("+", t, a, Wrap(Number(t) + Number(a)))
cmd_minus == \E t, a \in Numerals : Answers("-", t, a, Wrap(Number(t) - Number(a)))
cmd_mult  == \E t, a \in Numerals : Answers("*", t, a, Wrap(Number(t) * Number(a)))
cmd_pow   == \E t, a \in Numerals : Answers("pow", t, a, Power(Number(t), Number(a)))
cmd_abs   == \E t \in Numerals : Answers("abs", t, <<>>, Wrap(Abs(Number(t))))

\* A division the processor refuses ends the shell; div refuses 0 itself.
Dies(name, text, arg) ==
    /\ Typed([name |-> name, text |-> text, arg |-> arg])
    /\ alive' = FALSE
    /\ UNCHANGED <<var, set, nextout, mRCode, returned>>
NoInt(n, d) == d = 0 \/ (n = IntMin /\ d = -1)

cmd_div ==
    \E t, a \in Numerals :
        \/ /\ Number(a) = 0
           /\ Typed([name |-> "/", text |-> t, arg |-> a])
           /\ returned' = FALSE /\ mRCode' = RCODE_NFUN_INVALID_USSING
           /\ UNCHANGED <<var, set, nextout, alive>>
        \/ ~NoInt(Number(t), Number(a)) /\ Answers("/", t, a, Quotient(Number(t), Number(a)))
        \/ Number(a) # 0 /\ NoInt(Number(t), Number(a)) /\ Dies("/", t, a)
cmd_mod ==
    \E t, a \in Numerals :
        \/ ~NoInt(Number(t), Number(a)) /\ Answers("mod", t, a, Remainder(Number(t), Number(a)))
        \/ NoInt(Number(t), Number(a)) /\ Dies("mod", t, a)
-----------------------------------------------------------------------------
(* Conditions.                                                             *)

Says(command, yes) ==
    /\ Typed(command)
    /\ Ended(TRUE, IF yes THEN 0 ELSE RCODE_NFUN_FALSE, <<>>)
    /\ UNCHANGED <<var, set, alive>>

cmd_condition_empty ==
    \E t \in Compared :
        \/ Says([name |-> "-n", text |-> t], t # <<>>)
        \/ Says([name |-> "-z", text |-> t], t = <<>>)

\* strcmp and strcasecmp.
strcmp(s, t) ==
    LET differ == {n \in 1..Least(Len(s), Len(t)) : s[n] # t[n]}
        n == CHOOSE k \in differ : \A m \in differ : k <= m
    IN  IF differ = {} THEN Len(s) - Len(t) ELSE s[n] - t[n]
Cased(text, ignore) == IF ignore THEN [n \in 1..Len(text) |-> tolower(text[n])] ELSE text
Order(s, t, ignore) == strcmp(Cased(s, ignore), Cased(t, ignore))

Holds(name, order) ==
    CASE name \in {"=", "-eq"}     -> order = 0
      [] name \in {"!=", "-ne"}    -> order # 0
      [] name \in {"-slt", "-lt"}  -> order < 0
      [] name \in {"-sgt", "-gt"}  -> order > 0
      [] name \in {"-sle", "-le"}  -> order <= 0
      [] name \in {"-sge", "-ge"}  -> order >= 0

cmd_condition_texts ==
    \E name \in {"=", "!=", "-slt", "-sgt", "-sle", "-sge"}, t, a \in Compared, ignore \in BOOLEAN :
        Says([name |-> name, text |-> t, arg |-> a, ignore |-> ignore], Holds(name, Order(t, a, ignore)))
NumberOrder(t, a) == Number(t) - Number(a)
cmd_condition_numbers ==
    \E name \in {"-eq", "-ne", "-lt", "-gt", "-le", "-ge"}, t, a \in Numerals :
        Says([name |-> name, text |-> t, arg |-> a], Holds(name, NumberOrder(t, a)))

\* What is asked of a file.  -h and -L ask stat, which sees no link, and -t
\* and -ef say no.
Asked(name, file) ==
    CASE name = "-b" -> file.kind = "block"
      [] name = "-c" -> file.kind = "character"
      [] name = "-d" -> file.kind = "directory"
      [] name = "-f" -> file.kind = "regular"
      [] name = "-p" -> file.kind = "fifo"
      [] name = "-S" -> file.kind = "socket"
      [] name \in {"-h", "-L", "-t"} -> FALSE
      [] name = "-g" -> "S_ISGID" \in file.mode
      [] name = "-k" -> "S_ISVTX" \in file.mode
      [] name = "-u" -> "S_ISUID" \in file.mode
      [] name = "-r" -> "R_OK" \in file.mode
      [] name = "-w" -> "W_OK" \in file.mode
      [] name = "-x" -> "X_OK" \in file.mode
      [] name = "-O" -> "user" \in file.owned
      [] name = "-G" -> "group" \in file.owned
      [] name = "-e" -> file.kind # "missing"
      [] name = "-s" -> file.size > 0
Kinds == {"-b", "-c", "-d", "-f", "-p", "-S"}
Questions == Kinds \cup {"-h", "-L", "-t", "-g", "-k", "-u", "-r", "-w", "-x", "-O", "-G", "-e", "-s"}

cmd_condition_file ==
    \E name \in Questions, path \in DOMAIN Files :
        Says([name |-> name, path |-> path], Asked(name, Files[path]))

\* The times are the link's own, -ef is not there.
Exists(file) == file.time >= 0
cmd_condition_times ==
    \E path, arg \in DOMAIN Files :
        LET l == Files[path]  r == Files[arg]
        IN  \/ Says([name |-> "-nt", path |-> path, arg |-> arg], Exists(l) /\ Exists(r) /\ l.time > r.time)
            \/ Says([name |-> "-ot", path |-> path, arg |-> arg], Exists(l) /\ Exists(r) /\ l.time < r.time)
            \/ Says([name |-> "-ef", path |-> path, arg |-> arg], FALSE)

\* =~ clears the variables, then sets those of its match, if there is one.
Cleared(variables) == Unset
MatchOf(text, word, at) ==
    [MATCH |-> word, PREMATCH |-> FirstOf(text, at), POSTMATCH |-> After(text, at + Len(word)),
     LAST_MATCH |-> word, MATCH_NUMBER |-> 1]
cmd_condition_re ==
    \E text \in Searched, regex \in Regexes, offsets \in BOOLEAN :
        LET places == {n \in 0..(Len(text) - Len(regex)) : SubSeq(text, n + 1, n + Len(regex)) = regex}
            at == CHOOSE n \in places : \A m \in places : n <= m
            Line(n) == Decimal(str_pointer2kanjipos("kUtf8", text, n)) \o <<LF>>
        IN  /\ Typed([name |-> "=~", text |-> text, regex |-> regex, offsets |-> offsets])
            /\ returned' = TRUE
            /\ UNCHANGED <<var, alive>>
            /\ IF places = {}
               THEN /\ mRCode' = RCODE_NFUN_FALSE
                    /\ set' = Cleared(set)
                    /\ nextout' = <<>>
               ELSE /\ mRCode' = 0
                    /\ set' = MatchOf(text, regex, at)
                    /\ nextout' = IF offsets THEN Line(at) \o Line(at + Len(regex)) ELSE <<>>
-----------------------------------------------------------------------------
TestsNext ==
    \/ cmd_plusplus \/ cmd_minusminus
    \/ cmd_plus \/ cmd_minus \/ cmd_mult \/ cmd_div \/ cmd_mod \/ cmd_pow \/ cmd_abs
    \/ cmd_condition_empty \/ cmd_condition_texts \/ cmd_condition_numbers
    \/ cmd_condition_file \/ cmd_condition_times \/ cmd_condition_re

TestsSpec == TestsInit /\ [][TestsNext]_testvars
-----------------------------------------------------------------------------
(* Properties.                                                             *)

Asks(names) == alive /\ typed.name \in names
Yes        == mRCode = 0
L          == Number(typed.text)
R          == Number(typed.arg)
Result     == atoi(nextout)

\* The numbers fit together although they wrap: - undoes +, / and mod come to
\* the number again with a remainder that is nearer to 0 than the divisor and
\* never of the other sign; -lt and -gt order numbers whose difference wraps,
\* and only a division that has no int for an answer ends the shell.
NumbersAgree ==
    /\ Asks({"+"}) => Wrap(Result - R) = L
    /\ Asks({"-"}) => Wrap(Result + R) = L
    /\ Asks({"mod"}) => \E q \in IntMin..IntMax :
                        L = q * R + Result /\ Abs(Result) < Abs(R) /\ Result * L >= 0
    /\ Asks({"/"}) /\ returned => Abs(L - R * Result) < Abs(R) /\ (L - R * Result) * L >= 0
    /\ Asks({"pow"}) /\ R \in 1..2 /\ Result # IntMin => Result = IF R = 1 THEN L ELSE L * L
    /\ Asks({"abs"}) => Result >= 0 \/ L = IntMin
    /\ Asks({"-lt"}) => (Yes <=> \E d \in 1..(2 * Half) : L + d = R)
    /\ Asks({"-gt"}) => (Yes <=> \E d \in 1..(2 * Half) : R + d = L)
    /\ ~alive => typed.name \in {"/", "mod"} /\ (typed.name = "/" => R = -1)

\* What is asked of one thing in two ways is answered alike: a file is of one
\* kind or missing, not newer and older; texts in different cases are equal
\* when their case is ignored.  And what =~ has set is its own match, of which
\* nothing is left when the next one finds none.
ConditionsAgree ==
    /\ Asks(Kinds) /\ Yes => \A k \in Kinds \ {typed.name} : ~Asked(k, Files[typed.path])
    /\ Asks({"-e"}) => (Yes <=> \E k \in Kinds : Asked(k, Files[typed.path]))
    /\ Asks({"-s", "-r", "-g", "-O"}) /\ Yes => Asked("-e", Files[typed.path])
    /\ Asks({"-nt", "-ot"}) /\ typed.path = typed.arg => ~Yes
    /\ Asks({"="}) /\ Yes => Cased(typed.text, TRUE) = Cased(typed.arg, TRUE)
    /\ Asks({"-slt"}) /\ Yes => /\ Order(typed.arg, typed.text, typed.ignore) > 0
                               /\ typed.text # typed.arg
    /\ Asks({"=~"}) =>
          /\ Yes <=> set # Unset
          /\ Yes => /\ set.PREMATCH \o set.MATCH \o set.POSTMATCH = typed.text
                    /\ \A n \in 1..Len(set.PREMATCH) : ~IsPrefix(typed.regex, After(set.PREMATCH \o set.MATCH, n - 1))

\* What may be expected of the commands that reckon and ask.
TestsAgree == NumbersAgree /\ ConditionsAgree
=============================================================================
