---------------------------- MODULE ContextPipe ----------------------------
(***************************************************************************)
(* The pipe into a block, as the statements of the block take from it: the *)
(* whole of it, n lines of it ("|n cmd"), or through a command that splits *)
(* it into lines.  obj_fd.c keeps the lines of the last split beside the   *)
(* buffer, and beside them the number of lines taken so far.               *)
(*                                                                         *)
(* The buffer is a sequence of line numbers; only where lines end and      *)
(* whether their ends are kept matters here.                               *)
(***************************************************************************)
EXTENDS Integers, Sequences

CONSTANTS
    Size,       \* lines the front command has written
    Numbers     \* the n of "|n"

\* The other statements a block may have.
Uses == {"whole", "lines", "linesCR", "chomped", "sort", "redirect"}

Written    == [k \in 1..Size |-> k]     \* what the front command has written
Redirected == <<0>>                     \* what is in a redirected file

VARIABLES
    mBuf, mLines, mLinesLineField, mReadedLineNumber,   \* of the pipe
    taken,      \* history: the lines all "|n" statements so far were given
    last,       \* history: the last statement and what it was given
    used        \* history: the uses the block has made of the pipe

pipevars == <<mBuf, mLines, mLinesLineField, mReadedLineNumber, taken, last, used>>

PipeInit ==
    /\ mBuf = Written
    /\ mLines = <<>>
    /\ mLinesLineField = "crlf"
    /\ mReadedLineNumber = 0
    /\ taken = <<>>
    /\ last = [use |-> "none", n |-> 0, in |-> <<>>, ended |-> TRUE]
    /\ used = {}

\* A line is the part of the buffer it covers and whether it ends in its
\* line field; text whose lines end in \n is one line when split at \r.
Line(s, ended) == [text |-> s, ended |-> ended]
Split(lf, ended) ==
    IF lf = "lf" THEN [k \in 1..Len(mBuf) |-> Line(<<mBuf[k]>>, ended)]
    ELSE IF mBuf = <<>> THEN <<>> ELSE <<Line(mBuf, TRUE)>>

\* fd_split: another line field drops the lines and the count; lines that
\* are there are kept, however they were split.
Kept(lf)            == IF mLinesLineField = lf THEN mLines ELSE <<>>
LinesFor(lf, ended) == IF Kept(lf) = <<>> THEN Split(lf, ended) ELSE Kept(lf)
CountFor(lf)        == IF mLinesLineField = lf THEN mReadedLineNumber ELSE 0

fd_split(lf, ended) ==
    /\ mLines' = LinesFor(lf, ended)
    /\ mLinesLineField' = lf

\* (Here and below, a definition marked "slip" is one of the ways to get the
\* one after it wrong; the properties tell them apart.)
\* "|n": the count from the end for a negative n, within the lines.
Clip(n, lines) == IF n < 0 THEN 0 ELSE IF n > Len(lines) THEN Len(lines) ELSE n
LineNumber(n, lines) == Clip(IF n < 0 THEN n + Len(lines) + 1 ELSE n, lines)

Concat(lines) ==
    LET from[k \in 0..Len(lines)] ==
            IF k = 0 THEN <<>> ELSE from[k - 1] \o lines[k].text
    IN  from[Len(lines)]

\* The lines a "|n" statement is given, and where the count is left.
WindowFromStart(lines, read, n) ==      \* slip: the loop stops at line n
    SubSeq(lines, read + 1, IF n > Len(lines) THEN Len(lines) ELSE n)
Window(lines, read, n) ==
    SubSeq(lines, read + 1,
           IF read + n > Len(lines) THEN Len(lines) ELSE read + n)
Advance(read, n)     == read + n

ReadLines(n) ==
    LET lines == LinesFor("lf", TRUE)
        number == LineNumber(n, lines)
        window == Window(lines, CountFor("lf"), number)
        given == Concat(window)
    IN  /\ fd_split("lf", TRUE)
        /\ mReadedLineNumber' = Advance(CountFor("lf"), number)
        /\ taken' = taken \o given
        /\ last' = [use |-> "read", n |-> n, in |-> given,
                    ended |-> \A k \in 1..Len(window) : window[k].ended]
        /\ UNCHANGED <<mBuf, used>>

Given(use, in) == /\ last' = [use |-> use, n |-> 0, in |-> in, ended |-> TRUE]
                  /\ used' = used \cup {use}
                  /\ UNCHANGED taken

\* "| cmd", or a first command that reads its stdin: the pipe itself.
Whole ==
    /\ Given("whole", mBuf)
    /\ UNCHANGED <<mBuf, mLines, mLinesLineField, mReadedLineNumber>>

\* A command that takes the pipe line by line: as each does with lf \n or \r,
\* or as ary does, whose lines have no ends.
TakeLines(use, lf, ended) ==
    /\ Given(use, Concat(LinesFor(lf, ended)))
    /\ fd_split(lf, ended)
    /\ mReadedLineNumber' = CountFor(lf)
    /\ UNCHANGED mBuf

\* cmd_sort sorts the lines where they are.
Sorted(s) == CHOOSE t \in [1..Len(s) -> {s[k] : k \in 1..Len(s)}] :
                /\ \A j, k \in 1..Len(s) : j < k => t[j].text[1] >= t[k].text[1]
                /\ \A x \in {s[k] : k \in 1..Len(s)} : \E k \in 1..Len(s) : t[k] = x
cmd_sort ==
    LET sorted == Sorted(LinesFor("lf", TRUE)) IN
    /\ mLines' = sorted
    /\ mLinesLineField' = "lf"
    /\ mReadedLineNumber' = CountFor("lf")
    /\ Given("sort", Concat(sorted))
    /\ UNCHANGED mBuf

\* fd_put drops the lines of the text it replaces.
LinesAfterPut(lines) == <<>>

\* "cmd <file": ready_for_redirect puts the file into the buffer of nextin,
\* which is the pipe of the block.
Redirect ==
    /\ mBuf' = Redirected
    /\ mLines' = LinesAfterPut(mLines)
    /\ mReadedLineNumber' = 0
    /\ Given("redirect", Redirected)
    /\ UNCHANGED mLinesLineField

\* mReadedLineNumber may pass the end, and a change of the line field takes
\* it back: MaxTaken bounds for TLC how far either goes.
MaxTaken == Size + 2

PipeNext ==
    \/ \E n \in Numbers :
            /\ mReadedLineNumber < MaxTaken
            /\ Len(taken) < MaxTaken
            /\ ReadLines(n)
    \/ Whole
    \/ TakeLines("lines", "lf", TRUE)
    \/ TakeLines("linesCR", "cr", TRUE)
    \/ TakeLines("chomped", "lf", FALSE)
    \/ cmd_sort
    \/ Redirect

PipeSpec == PipeInit /\ [][PipeNext]_pipevars
-----------------------------------------------------------------------------
(* Properties.                                                             *)

Buffers == Seq(0..Size)

PipeTypeOK ==
    /\ mBuf \in Buffers
    /\ mLines \in Seq([text : Buffers, ended : BOOLEAN])
    /\ mLinesLineField \in {"crlf", "cr", "lf"}
    /\ mReadedLineNumber \in Nat
    /\ taken \in Buffers
    /\ last.in \in Buffers /\ last.ended \in BOOLEAN
    /\ used \subseteq Uses

Undisturbed == used \cap {"sort", "linesCR", "redirect"} = {}

\* Line after line, the "|n" statements of a block take what the front
\* command wrote: in order, none left out, none twice -- until a statement
\* sorts the pipe, splits it at another line field or redirects a file to it.
LinesInOrder ==
    Undisturbed => Len(taken) <= Size /\ taken = SubSeq(Written, 1, Len(taken))

\* "|n" gives n lines while there are as many, "|-1" all that are left, and
\* "|-n" at most what it gives at the start of the block.  They are whole
\* lines, unless a statement before has split the pipe without line ends.
ReadsAreSized ==
    last.use = "read" =>
        /\ Undisturbed =>
              IF last.n > 0
              THEN \/ Len(last.in) = last.n
                   \/ Len(taken) = Size /\ Len(last.in) < last.n
              ELSE /\ Len(last.in) <= LineNumber(last.n, Written)
                   /\ last.n = -1 => Len(taken) = Size
        /\ "chomped" \notin used => last.ended

\* The lines kept beside the buffer are those of the text that is in it now.
LinesAreCurrent ==
    mLines # <<>> =>
        {Concat(mLines)[k] : k \in 1..Len(Concat(mLines))} = {mBuf[k] : k \in 1..Len(mBuf)}

\* A statement that takes the whole pipe is given all the front command
\* wrote, whatever the statements before it did with the pipe, except to
\* redirect a file to it.
WholeIsFront == "redirect" \notin used /\ last.use = "whole" => last.in = Written

\* What a block may expect of its pipe.
PipeInOrder ==
    PipeTypeOK /\ LinesInOrder /\ ReadsAreSized /\ LinesAreCurrent /\ WholeIsFront
=============================================================================
