------------------------------ MODULE QuickSort -----------------------------
(***************************************************************************)
(* The sort command (cmd_ary.c) and vector_sort (obj_vector.c, vector.c),  *)
(* one quick sort in three copies.  The order is what a block of user code *)
(* answers for two lines, so it need not be an order at all; the block may *)
(* also fail, which ends the sort where it is.  With -shuffle the numbers  *)
(* of two positions are compared, and they do not move with the lines.     *)
(*                                                                         *)
(* Nothing but the answers and the place of the centre line stops the two  *)
(* scans: there is no comparison with the ends of the table.               *)
(***************************************************************************)
EXTENDS Integers, Sequences

CONSTANTS
    Count,      \* number of lines
    Numbers,    \* what rand() % 2560 gives
    Nothing     \* NULL

VARIABLES
    phase,      \* "idle", "left" scan, "right" scan, "sorted", "failed"
    mLines,     \* mTable of the vector
    shuffle_num,    \* the number of each position, Nothing without -shuffle
    before,     \* the block's answers: pairs it says 0 for
    left, right, center_item, i, j,
    pending,    \* ranges the calls that have not returned still have to sort
    nextout     \* the lines written

scan    == <<left, right, center_item, i, j, pending>>
sorting == <<phase, mLines, shuffle_num, before, scan, nextout>>

\* The lines, and their positions: a line is known by the place it came at.
Lines  == 1..Count

SortInit ==
    /\ phase = "idle"
    /\ mLines = [n \in Lines |-> n]
    /\ shuffle_num = Nothing /\ before = {}
    /\ left = 0 /\ right = 0 /\ center_item = Nothing /\ i = 0 /\ j = 0
    /\ pending = <<>> /\ nextout = <<>>

Middle(l, r) == (l + r) \div 2

\* quick_sort on the first range that has two lines; the calls for those
\* before it return at once.
Enter(table, ranges) ==
    LET two(n) == ranges[n][1] < ranges[n][2]
    IN  \/ /\ \A n \in 1..Len(ranges) : ~two(n)
           /\ phase' = "sorted" /\ nextout' = table
           /\ left' = 0 /\ right' = 0 /\ center_item' = Nothing /\ i' = 0 /\ j' = 0
           /\ pending' = <<>>
        \/ \E n \in 1..Len(ranges) :
              /\ two(n) /\ \A m \in 1..(n - 1) : ~two(m)
              /\ phase' = "left"
              /\ left' = ranges[n][1] /\ right' = ranges[n][2]
              /\ i' = left' /\ j' = right'
              /\ center_item' = table[Middle(left', right')]
              /\ pending' = SubSeq(ranges, n + 1, Len(ranges))
              /\ UNCHANGED nextout

\* cmd_sort: -shuffle, or a block.
cmd_sort ==
    /\ phase = "idle"
    /\ \/ shuffle_num' \in [Lines -> Numbers] /\ before' = {}
       \/ shuffle_num' = Nothing /\ before' \in SUBSET {pair \in Lines \X Lines : pair[1] # pair[2]}
    /\ UNCHANGED mLines
    /\ Enter(mLines, <<<<1, Count>>>>)

\* sort_fun on two lines, sort_fun_shuffle on two positions.  A line and
\* itself may get either answer.
fun(m, n, a, b) ==
    IF shuffle_num # Nothing THEN {shuffle_num[m] < shuffle_num[n]}
    ELSE IF a = b THEN BOOLEAN ELSE {(<<a, b>> \in before)}

LineAt(n) == IF n \in Lines THEN mLines[n] ELSE Nothing

\* The block fails or is interrupted: quick_sort returns FALSE all the way,
\* and nothing is written.
Fail ==
    /\ phase \in {"left", "right"} /\ shuffle_num = Nothing
    /\ phase' = "failed"
    /\ UNCHANGED <<mLines, shuffle_num, before, scan, nextout>>

StopsByAnswer(line, answer) == ~answer              \* slip
Stops(line, answer)         == line = center_item \/ ~answer

ScanLeft ==
    /\ phase = "left" /\ i \in Lines
    /\ \E answer \in fun(i, Middle(left, right), LineAt(i), center_item) :
          IF Stops(LineAt(i), answer)
          THEN phase' = "right" /\ UNCHANGED i
          ELSE i' = i + 1 /\ UNCHANGED phase
    /\ UNCHANGED <<mLines, shuffle_num, before, left, right, center_item, j, pending, nextout>>

\* The two ranges that are left to sort.
Parts(j2, i2) == <<<<left, j2>>, <<i2, right>>>>

Swapped == [mLines EXCEPT ![i] = mLines[j], ![j] = mLines[i]]

\* The second scan; where it stops the lines are swapped, if the scans have
\* not passed each other, and the loop goes on until they have.  Then the
\* two parts are sorted.
ScanRight ==
    /\ phase = "right" /\ j \in Lines
    /\ UNCHANGED <<shuffle_num, before>>
    /\ \E answer \in fun(Middle(left, right), j, center_item, LineAt(j)) :
          IF ~Stops(LineAt(j), answer)
          THEN /\ j' = j - 1
               /\ UNCHANGED <<phase, mLines, left, right, center_item, i, pending, nextout>>
          ELSE LET swap == i <= j
                   i2 == IF swap THEN i + 1 ELSE i
                   j2 == IF swap THEN j - 1 ELSE j
               IN  /\ mLines' = IF swap THEN Swapped ELSE mLines
                   /\ IF i2 <= j2
                      THEN /\ phase' = "left" /\ i' = i2 /\ j' = j2
                           /\ UNCHANGED <<left, right, center_item, pending, nextout>>
                      ELSE Enter(mLines', Parts(j2, i2) \o pending)

SortNext == cmd_sort \/ Fail \/ ScanLeft \/ ScanRight

SortSpec == SortInit /\ [][SortNext]_sorting
-----------------------------------------------------------------------------
(* Properties.                                                             *)

SortTypeOK ==
    /\ phase \in {"idle", "left", "right", "sorted", "failed"}
    /\ mLines \in [Lines -> Lines]
    /\ pending \in Seq(Nat \X Nat)
    /\ i \in 0..(Count + 1) /\ j \in 0..(Count + 1)

\* Whatever the block answers, as long as it answers the same for the same
\* two lines, no scan leaves the range it sorts, with -shuffle too; and the
\* lines are the same lines at every moment, a failure included.
ScansStayInside ==
    /\ phase = "left" => i \in left..right
    /\ phase = "right" => j \in left..right
    /\ \A m, n \in Lines : mLines[m] = mLines[n] => m = n

\* Answers that are a strict weak order.
IsOrder ==
    /\ \A a, b \in Lines : <<a, b>> \in before => <<b, a>> \notin before
    /\ \A a, b, c \in Lines :
          <<a, b>> \in before => <<a, c>> \in before \/ <<c, b>> \in before

\* If the answers are an order, what is written is all lines in that order.
SortedIfOrder ==
    phase = "sorted" /\ shuffle_num = Nothing /\ IsOrder =>
        /\ Len(nextout) = Count
        /\ \A line \in Lines : \E n \in 1..Len(nextout) : nextout[n] = line
        /\ \A m, n \in 1..Len(nextout) : m < n => <<nextout[n], nextout[m]>> \notin before

\* What the sort promises.
SortingHolds == SortTypeOK /\ ScansStayInside /\ SortedIfOrder
=============================================================================
