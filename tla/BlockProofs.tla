----------------------------- MODULE BlockProofs -----------------------------
(***************************************************************************)
(* What a block does, proved for blocks of any length.                     *)
(*                                                                         *)
(* Its statements (StatementList), whatever flags they have: an && or ||   *)
(* that refuses skips exactly the statements up to the next separator, and *)
(* the code of the block is that of the last statement that ran.           *)
(*                                                                         *)
(* Its pipe (ContextPipe), for any number of lines and any n of "|n": the  *)
(* statements take line after line of what the front command wrote, and    *)
(* the lines kept beside the buffer are those of the text in it.           *)
(***************************************************************************)
EXTENDS StatementList, ContextPipe, TLAPS, WellFoundedInduction, SequenceTheorems

Constants == MaxLen \in Nat

\* What is behind the statement run() is at has run or was refused; it and
\* what is ahead has not run; and nothing behind refuses it.
Behind   == \A k \in 1..Len(stmts) : k < i =>
                (~Ran(k) <=> \E j \in 1..(k - 1) : RefusedBy(j, k))
Ahead    == \A k \in 1..Len(stmts) : i <= k => ~Ran(k)
NotYet   == i \in 1..Len(stmts) => ~\E j \in 1..(i - 1) : RefusedBy(j, i)
IsResult == i > 1 => \E k \in 1..Len(stmts) :
                /\ k < i /\ code[k] = rcode
                /\ \A j \in (k + 1)..Len(stmts) : ~Ran(j)
AtEnd    == state = "ok" => i > Len(stmts)

\* The inductive invariant.  A block that failed promises nothing more.
IInv == TypeOK /\ AtEnd /\ (state # "failed" => Behind /\ Ahead /\ NotYet /\ IsResult)

-----------------------------------------------------------------------------
\* A number with a property is preceded by a least one.
LEMMA Least ==
    ASSUME NEW S \in SUBSET Nat, NEW n \in S
    PROVE  \E m \in S : \A k \in S : m <= k
<1> DEFINE R == {pair \in Nat \X Nat : pair[1] < pair[2]}
<1>1. IsWellFoundedOn(R, Nat)
  BY NatLessThanWellFounded DEF OpToRel
<1> HIDE DEF R
<1>2. PICK m \in S : \A k \in S : ~(<<k, m>> \in R)
  BY <1>1, WFMin
<1>3. ASSUME NEW k \in S PROVE m <= k
  <2>1. ~(<<k, m>> \in R)
    BY <1>2
  <2> QED BY <2>1 DEF R
<1> QED BY <1>3

\* A skip has one end: the next statement with the NORMAL flag.
LEMMA SkipEnds ==
    ASSUME TypeOK, NEW k \in 1..Len(stmts)
    PROVE  SkipTo(k) \in k..(Len(stmts) + 1) /\ IsSkipEnd(k, SkipTo(k))
<1> DEFINE S == {e \in k..(Len(stmts) + 1) : e = Len(stmts) + 1 \/ NORMAL \in Flags(e)}
<1>1. Len(stmts) \in Nat
  BY DEF TypeOK
<1>2. S \in SUBSET Nat /\ Len(stmts) + 1 \in S
  BY <1>1
<1>3. \A e \in S : e \in k..(Len(stmts) + 1) /\ (e = Len(stmts) + 1 \/ NORMAL \in Flags(e))
  OBVIOUS
<1>4. \A e \in k..(Len(stmts) + 1) : NORMAL \in Flags(e) => e \in S
  OBVIOUS
<1> HIDE DEF S
<1>5. PICK e \in S : \A m \in S : e <= m
  BY <1>2, Least
<1>6. \A j \in k..(e - 1) : NORMAL \notin Flags(j)
  BY <1>1, <1>3, <1>4, <1>5
<1>7. IsSkipEnd(k, e)
  BY <1>3, <1>5, <1>6 DEF IsSkipEnd
<1> QED BY <1>3, <1>5, <1>7 DEF SkipTo

-----------------------------------------------------------------------------
\* The invariant holds at first.
LEMMA InitInv == ASSUME Constants, BlockInit PROVE IInv
<1>1. PICK n \in 1..MaxLen : stmts \in [1..n -> Statements]
  BY DEF BlockInit
<1>2. n \in Nat /\ stmts \in Seq(Statements) /\ Len(stmts) = n
  BY <1>1 DEF Constants
<1>3. TypeOK
  BY <1>2 DEF BlockInit, TypeOK, Codes, Constants
<1> QED BY <1>2, <1>3 DEF BlockInit, IInv, AtEnd, Behind, Ahead, NotYet, IsResult, Ran

\* A statement returns a code, and run() goes on behind it or behind what it
\* refuses.
LEMMA DoneInv ==
    ASSUME IInv, AtStatement, NEW rc \in Codes, Done(rc),
           gpipe' \in Seq(1..Len(stmts))
    PROVE  IInv'
<1>1. /\ TypeOK /\ Behind /\ Ahead /\ NotYet /\ state = "run" /\ state' = "run"
      /\ stmts' = stmts /\ rcode' = rc /\ i' = NextIndex(rc)
      /\ Len(stmts) \in Nat /\ i \in 1..Len(stmts)
  BY DEF IInv, AtStatement, Done, CodeAfter, TypeOK
<1>2. /\ code' \in [1..Len(stmts) -> Codes \cup {"none"}] /\ code'[i] = rc
      /\ \A k \in 1..Len(stmts) : k # i => code'[k] = code[k]
      /\ rc # "none"
  BY <1>1 DEF Done, TypeOK, Codes
<1>3. \A k \in 1..Len(stmts) : Flags(k)' = Flags(k)
  BY <1>1 DEF Flags
<1>4. \A k \in 1..Len(stmts) : Ran(k)' <=> k = i \/ Ran(k)
  BY <1>1, <1>2 DEF Ran
<1>5. \A j, k \in 1..Len(stmts) : j # i => (RefusedBy(j, k)' <=> RefusedBy(j, k))
  <2> SUFFICES ASSUME NEW j \in 1..Len(stmts), NEW k \in 1..Len(stmts), j # i
               PROVE  RefusedBy(j, k)' <=> RefusedBy(j, k)
    OBVIOUS
  <2>1. \A l \in j..(k - 1) : l \in 1..Len(stmts)
    BY <1>1
  <2>2. Refuses(j, code[j])' <=> Refuses(j, code[j])
    BY <1>2, <1>3 DEF Refuses
  <2>3. Ran(j)' <=> Ran(j)
    BY <1>4
  <2> QED BY <1>3, <2>1, <2>2, <2>3 DEF RefusedBy
<1>6. PICK at \in 1..Len(stmts) : at = i
  BY <1>1
<1>7. \A k \in 1..Len(stmts) : RefusedBy(at, k)' <=>
          Refuses(at, rc) /\ \A l \in at..(k - 1) : NORMAL \notin Flags(l)
  <2> SUFFICES ASSUME NEW k \in 1..Len(stmts)
               PROVE  RefusedBy(at, k)' <=>
                          Refuses(at, rc) /\ \A l \in at..(k - 1) : NORMAL \notin Flags(l)
    OBVIOUS
  <2>1. \A l \in at..(k - 1) : l \in 1..Len(stmts)
    BY <1>1
  <2>2. Refuses(at, code[at])' <=> Refuses(at, rc)
    BY <1>2, <1>3, <1>6 DEF Refuses
  <2>3. Ran(at)'
    BY <1>4, <1>6
  <2> QED BY <1>3, <2>1, <2>2, <2>3 DEF RefusedBy
<1>8. PICK stop \in at..(Len(stmts) + 1) :
          /\ i' = stop + 1
          /\ Refuses(at, rc) => /\ stop = Len(stmts) + 1 \/ NORMAL \in Flags(stop)
                                /\ \A j \in at..(stop - 1) : NORMAL \notin Flags(j)
          /\ ~Refuses(at, rc) => stop = at
  <2>1. CASE Refuses(at, rc)
    <3>1. i' = SkipTo(at) + 1
      BY <1>1, <1>6, <2>1 DEF NextIndex
    <3> QED BY <1>1, <2>1, <3>1, SkipEnds DEF IsSkipEnd
  <2>2. CASE ~Refuses(at, rc)
    BY <1>1, <1>6, <2>2 DEF NextIndex
  <2> QED BY <2>1, <2>2
<1>9. TypeOK'
  <2>1. i' \in 1..(Len(stmts) + 2)
    BY <1>1, <1>8
  <2> QED BY <1>1, <1>2, <2>1 DEF TypeOK
<1>10. Behind'
  <2> SUFFICES ASSUME NEW k \in 1..Len(stmts), k < i'
               PROVE  ~Ran(k)' <=> \E j \in 1..(k - 1) : RefusedBy(j, k)'
    BY <1>1 DEF Behind
  <2>1. CASE k < at
    <3>1. \A j \in 1..(k - 1) : RefusedBy(j, k)' <=> RefusedBy(j, k)
      BY SMTT(30), <1>1, <1>5, <1>6, <2>1
    <3> QED BY <1>1, <1>4, <1>6, <2>1, <3>1 DEF Behind
  <2>2. CASE k = at
    <3>1. \A j \in 1..(at - 1) : RefusedBy(j, at)' <=> RefusedBy(j, at)
      BY <1>1, <1>5, <1>6
    <3>2. \A j \in 1..(at - 1) : ~RefusedBy(j, at)
      BY <1>1, <1>6 DEF NotYet
    <3>3. Ran(at)'
      BY <1>4, <1>6
    <3> QED BY <2>2, <3>1, <3>2, <3>3
  <2>3. CASE k > at
    <3>1. Refuses(at, rc) /\ \A l \in at..(k - 1) : NORMAL \notin Flags(l)
      BY <1>1, <1>8, <2>3
    <3>2. RefusedBy(at, k)' /\ at \in 1..(k - 1)
      BY <1>1, <1>7, <2>3, <3>1
    <3>3. ~Ran(k)'
      BY <1>1, <1>4, <1>6, <2>3 DEF Ahead
    <3>4. \E j \in 1..(k - 1) : RefusedBy(j, k)'
      BY <3>2
    <3> QED BY <3>3, <3>4
  <2> QED BY <1>1, <2>1, <2>2, <2>3
<1>11. Ahead'
  BY <1>1, <1>4, <1>6, <1>8 DEF Ahead
<1>12. NotYet'
  <2>1. \A j \in 1..stop, k \in 1..Len(stmts) : k = stop + 1 => ~RefusedBy(j, k)'
    <3> SUFFICES ASSUME NEW j \in 1..stop, NEW k \in 1..Len(stmts), k = stop + 1,
                        RefusedBy(j, k)'
                 PROVE  FALSE
      OBVIOUS
    <3>1. CASE j = at
      <4>1. Refuses(at, rc) /\ \A l \in at..(k - 1) : NORMAL \notin Flags(l)
        BY <1>7, <3>1
      <4> QED BY <1>1, <1>8, <4>1
    <3>2. CASE j < at
      <4>1. RefusedBy(j, k)
        BY SMTT(30), <1>1, <1>5, <1>6, <3>2
      <4>2. \A l \in j..(at - 1) : l \in j..(k - 1)
        BY <1>8
      <4>3. RefusedBy(j, at)
        BY <4>1, <4>2 DEF RefusedBy
      <4> QED BY <1>1, <1>6, <3>2, <4>3 DEF NotYet
    <3>3. CASE j > at
      <4>1. j \in 1..Len(stmts)
        BY <1>1
      <4>2. ~Ran(j)'
        BY <1>1, <1>4, <1>6, <3>3, <4>1 DEF Ahead
      <4> QED BY <4>2 DEF RefusedBy
    <3> QED BY <1>1, <1>8, <3>1, <3>2, <3>3
  <2>2. (i' - 1) = stop
    BY <1>8
  <2> QED BY <1>1, <1>8, <2>1, <2>2 DEF NotYet
<1>13. IsResult'
  <2>1. at < i' /\ code'[at] = rcode'
    BY <1>1, <1>2, <1>6, <1>8
  <2>2. \A j \in (at + 1)..Len(stmts) : ~Ran(j)'
    BY <1>1, <1>4, <1>6 DEF Ahead
  <2> QED BY <1>1, <2>1, <2>2 DEF IsResult
<1> QED BY <1>1, <1>9, <1>10, <1>11, <1>12, <1>13 DEF IInv, AtEnd

\* A statement left out keeps it.
LEMMA statment_treeInv == ASSUME IInv, statment_tree PROVE IInv'
<1>1. PICK rc \in {"0", "1"} : Done(IF REVERSE \in Flags(i) THEN Reversed(rc) ELSE rc)
  BY DEF statment_tree
<1> DEFINE c == IF REVERSE \in Flags(i) THEN Reversed(rc) ELSE rc
<1>2. c \in Codes
  BY DEF Codes, Reversed
<1>3. AtStatement /\ i \in 1..Len(stmts) /\ gpipe \in Seq(1..Len(stmts))
  BY DEF statment_tree, IInv, TypeOK, AtStatement
<1>4. gpipe' \in Seq(1..Len(stmts))
  <2>1. <<i>> \in Seq(1..Len(stmts)) /\ Append(gpipe, i) \in Seq(1..Len(stmts))
    BY <1>3
  <2> QED BY <1>3, <2>1 DEF statment_tree
<1>5. Done(c)
  BY <1>1
<1> HIDE DEF c
<1> QED BY <1>2, <1>3, <1>4, <1>5, DoneInv

\* One that is run keeps it.
LEMMA NodeTreeInv == ASSUME IInv, NodeTree PROVE IInv'
<1>1. PICK rc \in Codes : Done(rc)
  BY DEF NodeTree, Codes
<1>2. AtStatement /\ gpipe' \in Seq(1..Len(stmts))
  BY DEF NodeTree, IInv, TypeOK
<1> QED BY <1>1, <1>2, DoneInv

\* So every step keeps it.
LEMMA StepInv == ASSUME IInv, [BlockNext]_blockVars PROVE IInv'
<1>1. CASE statment_tree
  BY <1>1, statment_treeInv
<1>2. CASE NodeTree
  BY <1>2, NodeTreeInv
<1>3. CASE StatementFails
  BY <1>3 DEF StatementFails, IInv, TypeOK, AtEnd, Codes
<1>4. CASE EndBlock
  <2>1. TypeOK' /\ AtEnd'
    BY <1>4 DEF EndBlock, IInv, TypeOK, AtEnd
  <2>2. Behind' /\ Ahead' /\ NotYet' /\ IsResult'
    BY <1>4 DEF EndBlock, IInv, Behind, Ahead, NotYet, IsResult, Ran, RefusedBy, Refuses, Flags
  <2> QED BY <2>1, <2>2 DEF IInv
<1>5. CASE Returned \/ UNCHANGED blockVars
  BY <1>5 DEF Returned, blockVars, IInv, TypeOK, AtEnd, Behind, Ahead, NotYet, IsResult, Ran,
              RefusedBy, Refuses, Flags
<1> QED BY <1>1, <1>2, <1>3, <1>4, <1>5 DEF BlockNext

\* The invariant of the loop of run() over the statements of a block.
THEOREM Invariance == ASSUME Constants PROVE BlockSpec => []IInv
BY InitInv, StepInv, PTL DEF BlockSpec

\* When run() returns TRUE, the statements that did not run are exactly those
\* an earlier && or || refused, up to the next separator, and its code is
\* that of the last statement that ran; for blocks of any length.
THEOREM StatementsAlwaysSkip == ASSUME Constants PROVE BlockSpec => []StatementsSkip
<1>1. IInv => SkipsAreExact
  <2> SUFFICES ASSUME IInv, Over, NEW k \in 1..Len(stmts)
               PROVE  ~Ran(k) <=> \E j \in 1..(k - 1) : RefusedBy(j, k)
    BY DEF SkipsAreExact
  <2>1. k < i
    BY DEF IInv, TypeOK, AtEnd, Over
  <2> QED BY <2>1 DEF IInv, Behind, Over
<1>2. IInv => ResultIsLast
  BY DEF IInv, TypeOK, AtEnd, Over, IsResult, ResultIsLast
<1>3. IInv => StatementsSkip
  BY <1>1, <1>2 DEF IInv, StatementsSkip
<1> QED BY <1>3, Invariance, PTL

-----------------------------------------------------------------------------
(* The pipe of the block.                                                 *)

\* What is assumed of the constants of the pipe.
PipeConstants == Size \in Nat /\ Numbers \subseteq Int

LinesOfText == [text : Buffers, ended : BOOLEAN]

\* The lines of the buffer, split at \n: in its order, or as cmd_sort leaves
\* them, the last one first.
InOrder(lines, e)  == \A k \in 1..Len(lines) : lines[k] = Line(<<mBuf[k]>>, e)
Descends(lines, e) ==
    /\ \A k \in 1..Len(lines) : \E m \in 1..Len(mBuf) : lines[k] = Line(<<mBuf[m]>>, e)
    /\ \A m \in 1..Len(mBuf) : \E k \in 1..Len(lines) : lines[k] = Line(<<mBuf[m]>>, e)
    /\ \A j, k \in 1..Len(lines) : j < k => lines[j].text[1] >= lines[k].text[1]
ByNewline(lines, e) ==
    /\ Len(lines) = Len(mBuf)
    /\ InOrder(lines, e) \/ ("sort" \in used /\ Descends(lines, e))

\* The inductive invariant, in parts: what is in the buffer; how the lines
\* beside it were split; and how far the block has read, until a statement
\* disturbs the count.
BufferIs == mBuf = IF "redirect" \in used THEN Redirected ELSE Written
LinesAre ==
    mLines # <<>> =>
        \/ /\ mLinesLineField = "lf"
           /\ \E e \in BOOLEAN : ByNewline(mLines, e) /\ ("chomped" \notin used => e)
        \/ mLinesLineField = "cr" /\ mLines = <<Line(mBuf, TRUE)>>
CountIs ==
    Undisturbed =>
        /\ mLinesLineField # "cr"
        /\ mLinesLineField = "crlf" => mReadedLineNumber = 0
        /\ Len(taken) = IF mReadedLineNumber <= Size THEN mReadedLineNumber ELSE Size
        /\ \A k \in 1..Len(taken) : taken[k] = k
PipeInv == PipeTypeOK /\ BufferIs /\ LinesAre /\ CountIs /\ ReadsAreSized /\ WholeIsFront

-----------------------------------------------------------------------------
\* Concat is the one function that puts line after line.
LEMMA ConcatIs ==
    ASSUME NEW lines \in Seq(LinesOfText), NEW g,
           g = [k \in 0..Len(lines) |-> IF k = 0 THEN <<>> ELSE g[k - 1] \o lines[k].text]
    PROVE  Concat(lines) = g[Len(lines)]
<1> DEFINE N == Len(lines)
           Made(f) == f = [k \in 0..N |-> IF k = 0 THEN <<>> ELSE f[k - 1] \o lines[k].text]
           from == CHOOSE f : Made(f)
           Differ == {k \in 0..N : from[k] # g[k]}
<1>1. N \in Nat
  OBVIOUS
<1>2. Made(from)
  OBVIOUS
<1>3. Concat(lines) = from[N]
  BY DEF Concat
<1> HIDE DEF from, N
<1>4. /\ from[0] = <<>> /\ \A k \in 1..N : from[k] = from[k - 1] \o lines[k].text
      /\ g[0] = <<>> /\ \A k \in 1..N : g[k] = g[k - 1] \o lines[k].text
  <2>1. \A k \in 0..N : from[k] = IF k = 0 THEN <<>> ELSE from[k - 1] \o lines[k].text
    BY <1>2
  <2>2. \A k \in 0..N : g[k] = IF k = 0 THEN <<>> ELSE g[k - 1] \o lines[k].text
    BY DEF N
  <2>3. 0 \in 0..N /\ \A k \in 1..N : k \in 0..N /\ k # 0
    BY <1>1
  <2> QED BY <2>1, <2>2, <2>3
<1>5. ASSUME NEW n \in 0..N, from[n] # g[n] PROVE FALSE
  <2>1. Differ \in SUBSET Nat /\ n \in Differ
    BY <1>1, <1>5
  <2>2. \A k \in 0..N : k \notin Differ <=> from[k] = g[k]
    OBVIOUS
  <2>3. Differ \subseteq 1..N
    <3>1. 0 \notin Differ
      BY <1>1, <1>4, <2>2
    <3>2. Differ \subseteq 0..N
      OBVIOUS
    <3> HIDE DEF Differ
    <3> QED BY <1>1, <3>1, <3>2
  <2> HIDE DEF Differ
  <2>4. PICK m \in Differ : \A k \in Differ : m <= k
    BY <2>1, Least
  <2>5. m \in 1..N /\ m - 1 \in 0..N /\ m \in 0..N
    BY <1>1, <2>3
  <2>6. from[m - 1] = g[m - 1]
    <3>1. m - 1 \notin Differ
      BY <2>4, <2>5
    <3> QED BY <2>2, <2>5, <3>1
  <2>7. from[m] # g[m]
    BY <2>2, <2>5
  <2> QED BY <1>4, <2>5, <2>6, <2>7
<1> QED BY <1>1, <1>3, <1>5 DEF N

\* Lines of one character each give a text of as many.
LEMMA ConcatOnes ==
    ASSUME NEW lines \in Seq(LinesOfText), \A k \in 1..Len(lines) : Len(lines[k].text) = 1
    PROVE  /\ Concat(lines) \in Buffers /\ Len(Concat(lines)) = Len(lines)
           /\ \A k \in 1..Len(lines) : Concat(lines)[k] = lines[k].text[1]
<1> DEFINE N == Len(lines)
           ch(m) == lines[m].text[1]
           g == [k \in 0..N |-> [m \in 1..k |-> ch(m)]]
<1>1. N \in Nat
  OBVIOUS
<1>2. ASSUME NEW k \in 1..N PROVE ch(k) \in 0..Size /\ lines[k].text = <<ch(k)>>
  <2>1. lines[k] \in LinesOfText
    OBVIOUS
  <2> DEFINE t == lines[k].text
  <2>2. t \in Seq(0..Size)
    BY <2>1 DEF LinesOfText, Buffers
  <2>3. Len(t) = 1
    OBVIOUS
  <2> HIDE DEF t
  <2> DEFINE T == 0..Size
  <2>4. t \in Seq(T) /\ t[1] \in T
    <3>1. t \in Seq(T)
      BY <2>2
    <3> HIDE DEF T
    <3>2. 1 \in 1..Len(t)
      BY <2>3
    <3> QED BY <3>1, <3>2, ElementOfSeq
  <2> HIDE DEF T
  <2>5. t = <<t[1]>>
    <3> DEFINE u == <<t[1]>>
    <3>1. u \in Seq(T) /\ Len(u) = 1 /\ u[1] = t[1]
      BY <2>4
    <3>2. Len(t) = Len(u) /\ \A m \in 1..Len(t) : t[m] = u[m]
      BY <2>3, <3>1
    <3> HIDE DEF u
    <3>3. t = u
      BY <2>4, <3>1, <3>2, SeqEqual
    <3> QED BY <3>3 DEF u
  <2> QED BY <2>4, <2>5 DEF t, T
<1>3. \A k \in 1..N : ch(k) \in 0..Size /\ lines[k].text = <<ch(k)>>
  BY <1>2
<1> HIDE DEF ch, N
<1>4. \A k \in 0..N : g[k] = [m \in 1..k |-> ch(m)] /\ g[k] \in Seq(0..Size) /\ Len(g[k]) = k
  BY <1>1, <1>3
<1>5. ASSUME NEW k \in 1..N PROVE g[k] = g[k - 1] \o lines[k].text
  <2>1. k - 1 \in 0..N /\ k \in 0..N
    BY <1>1
  <2>2. g[k] \in Seq(0..Size) /\ Len(g[k]) = k /\ g[k - 1] \in Seq(0..Size) /\ Len(g[k - 1]) = k - 1
    BY <1>4, <2>1
  <2> DEFINE h == g[k - 1] \o <<ch(k)>>
  <2>3. h \in Seq(0..Size) /\ Len(h) = k
    BY <1>3, <2>2
  <2>4. ASSUME NEW m \in 1..k PROVE h[m] = g[k][m]
    <3>1. g[k][m] = ch(m)
      BY <1>4, <2>1
    <3>2. CASE m = k
      BY <1>3, <2>2, <3>1, <3>2
    <3>3. CASE m # k
      <4>1. m \in 1..(k - 1)
        BY <1>1, <3>3
      <4>2. g[k - 1][m] = ch(m)
        BY <1>4, <2>1, <4>1
      <4> QED BY <1>3, <2>2, <3>1, <4>1, <4>2
    <3> QED BY <3>2, <3>3
  <2>5. h = g[k]
    <3> HIDE DEF h, g
    <3> QED BY <2>2, <2>3, <2>4, SeqEqual
  <2> QED BY <1>3, <2>5
<1>6. g[0] = <<>>
  BY <1>1, <1>4
<1>7. g = [k \in 0..N |-> IF k = 0 THEN <<>> ELSE g[k - 1] \o lines[k].text]
  <2> DEFINE f == [k \in 0..N |-> IF k = 0 THEN <<>> ELSE g[k - 1] \o lines[k].text]
  <2>1. ASSUME NEW k \in 0..N PROVE g[k] = f[k]
    <3>1. f[k] = IF k = 0 THEN <<>> ELSE g[k - 1] \o lines[k].text
      OBVIOUS
    <3>2. CASE k = 0
      BY <1>6, <3>1, <3>2
    <3>3. CASE k # 0
      <4>1. k \in 1..N
        BY <1>1, <3>3
      <4> HIDE DEF f
      <4> QED BY <1>5, <3>1, <3>3, <4>1
    <3> QED BY <3>2, <3>3
  <2>2. DOMAIN g = 0..N /\ DOMAIN f = 0..N
    OBVIOUS
  <2>3. g = [k \in 0..N |-> g[k]] /\ f = [k \in 0..N |-> f[k]]
    OBVIOUS
  <2> QED BY <2>1, <2>2, <2>3
<1> HIDE DEF g
<1>8. Concat(lines) = g[N]
  BY <1>7, ConcatIs DEF N
<1>9. g[N] \in Seq(0..Size) /\ Len(g[N]) = N /\ \A k \in 1..N : g[N][k] = ch(k)
  <2>1. g[N] = [m \in 1..N |-> ch(m)] /\ g[N] \in Seq(0..Size) /\ Len(g[N]) = N
    BY <1>1, <1>4
  <2> QED BY <2>1
<1>10. /\ Concat(lines) \in Buffers /\ Len(Concat(lines)) = N
       /\ \A k \in 1..N : Concat(lines)[k] = ch(k)
  BY <1>8, <1>9 DEF Buffers
<1> QED BY <1>10 DEF N, ch

\* The text of one line.
LEMMA ConcatOne ==
    ASSUME NEW line \in LinesOfText
    PROVE  Concat(<<line>>) = line.text
<1> DEFINE ls == <<line>>
           g == [k \in 0..1 |-> IF k = 0 THEN <<>> ELSE line.text]
<1>1. ls \in Seq(LinesOfText) /\ Len(ls) = 1 /\ ls[1] = line
  OBVIOUS
<1>2. line.text \in Seq(0..Size)
  BY DEF LinesOfText, Buffers
<1>3. <<>> \o line.text = line.text
  BY <1>2
<1> HIDE DEF ls
<1>4. g = [k \in 0..Len(ls) |-> IF k = 0 THEN <<>> ELSE g[k - 1] \o ls[k].text]
  BY <1>1, <1>3
<1>5. Concat(ls) = g[Len(ls)]
  <2> HIDE DEF g
  <2> QED BY <1>1, <1>4, ConcatIs
<1> QED BY <1>1, <1>5 DEF ls

-----------------------------------------------------------------------------
\* What fd_split leaves for a command that takes the lines at \n: each line
\* of the buffer, with its end if none was ever split without.
LEMMA NewlineLines ==
    ASSUME PipeConstants, PipeInv, NEW e \in BOOLEAN
    PROVE  /\ LinesFor("lf", e) \in Seq(LinesOfText)
           /\ \E f \in BOOLEAN : /\ ByNewline(LinesFor("lf", e), f)
                                 /\ f = e \/ ("chomped" \notin used => f)
           /\ \A k \in 1..Len(mBuf) : Len(LinesFor("lf", e)[k].text) = 1
<1>1. /\ mBuf \in Seq(0..Size) /\ Len(mBuf) \in Nat /\ \A k \in 1..Len(mBuf) : mBuf[k] \in 0..Size
      /\ mLines \in Seq(LinesOfText)
  <2> DEFINE T == 0..Size
  <2>1. mBuf \in Seq(T) /\ mLines \in Seq(LinesOfText)
    BY DEF PipeInv, PipeTypeOK, Buffers, LinesOfText
  <2> HIDE DEF T
  <2>2. Len(mBuf) \in Nat /\ \A k \in 1..Len(mBuf) : mBuf[k] \in T
    BY <2>1
  <2> QED BY <2>1, <2>2 DEF T
<1>2. ASSUME NEW x \in 0..Size, NEW f \in BOOLEAN
      PROVE  Line(<<x>>, f) \in LinesOfText /\ Len(Line(<<x>>, f).text) = 1
  <2>1. <<x>> \in Seq(0..Size) /\ Len(<<x>>) = 1
    OBVIOUS
  <2> QED BY <2>1 DEF Line, LinesOfText, Buffers
<1>3. CASE Kept("lf") = <<>>
  <2> DEFINE ls == [k \in 1..Len(mBuf) |-> Line(<<mBuf[k]>>, e)]
  <2>1. LinesFor("lf", e) = ls
    BY <1>3 DEF LinesFor, Split
  <2>2. \A k \in 1..Len(mBuf) : ls[k] = Line(<<mBuf[k]>>, e) /\ ls[k] \in LinesOfText
                                /\ Len(ls[k].text) = 1
    BY <1>1, <1>2
  <2>3. ls \in Seq(LinesOfText) /\ Len(ls) = Len(mBuf)
    <3>1. ls \in [1..Len(mBuf) -> LinesOfText]
      BY <1>1, <1>2
    <3> HIDE DEF ls
    <3> QED BY <1>1, <3>1
  <2> HIDE DEF ls
  <2>4. ByNewline(ls, e)
    BY <2>2, <2>3 DEF ByNewline, InOrder
  <2> QED BY <2>1, <2>2, <2>3, <2>4
<1>4. CASE Kept("lf") # <<>>
  <2>1. LinesFor("lf", e) = mLines /\ mLines # <<>> /\ mLinesLineField = "lf"
    BY <1>4 DEF LinesFor, Kept
  <2>2. PICK f \in BOOLEAN : ByNewline(mLines, f) /\ ("chomped" \notin used => f)
    BY <2>1 DEF PipeInv, LinesAre
  <2>3. ASSUME NEW k \in 1..Len(mBuf) PROVE Len(mLines[k].text) = 1
    <3>1. \E m \in 1..Len(mBuf) : mLines[k] = Line(<<mBuf[m]>>, f)
      BY <2>2 DEF ByNewline, InOrder, Descends
    <3> QED BY <1>1, <1>2, <3>1
  <2> QED BY <1>1, <2>1, <2>2, <2>3
<1> QED BY <1>3, <1>4

\* The text of such lines has the characters of the buffer and no others.
LEMMA TextOfLines ==
    ASSUME PipeConstants, PipeTypeOK, NEW lines \in Seq(LinesOfText), NEW e \in BOOLEAN,
           ByNewline(lines, e)
    PROVE  /\ Concat(lines) \in Buffers /\ Len(Concat(lines)) = Len(mBuf)
           /\ \A k \in 1..Len(mBuf) : Concat(lines)[k] = lines[k].text[1]
           /\ InOrder(lines, e) => \A k \in 1..Len(mBuf) : Concat(lines)[k] = mBuf[k]
           /\ {Concat(lines)[k] : k \in 1..Len(Concat(lines))} = {mBuf[k] : k \in 1..Len(mBuf)}
<1>1. Len(mBuf) \in Nat /\ Len(lines) = Len(mBuf)
  BY DEF PipeTypeOK, Buffers, ByNewline
<1>2. \A x : Line(<<x>>, e).text[1] = x /\ Len(Line(<<x>>, e).text) = 1
  BY DEF Line
<1>3. /\ \A k \in 1..Len(mBuf) : \E m \in 1..Len(mBuf) : lines[k] = Line(<<mBuf[m]>>, e)
      /\ \A m \in 1..Len(mBuf) : \E k \in 1..Len(mBuf) : lines[k] = Line(<<mBuf[m]>>, e)
  BY <1>1 DEF ByNewline, InOrder, Descends
<1>4. \A k \in 1..Len(lines) : Len(lines[k].text) = 1
  <2> SUFFICES ASSUME NEW k \in 1..Len(lines) PROVE Len(lines[k].text) = 1
    OBVIOUS
  <2>1. PICK m \in 1..Len(mBuf) : lines[k] = Line(<<mBuf[m]>>, e)
    BY <1>1, <1>3
  <2> QED BY <1>2, <2>1
<1>5. /\ Concat(lines) \in Buffers /\ Len(Concat(lines)) = Len(mBuf)
      /\ \A k \in 1..Len(mBuf) : Concat(lines)[k] = lines[k].text[1]
  BY <1>1, <1>4, ConcatOnes
<1>6. InOrder(lines, e) => \A k \in 1..Len(mBuf) : Concat(lines)[k] = mBuf[k]
  BY <1>1, <1>2, <1>5 DEF InOrder
<1>7. /\ \A k \in 1..Len(mBuf) : \E m \in 1..Len(mBuf) : Concat(lines)[k] = mBuf[m]
      /\ \A m \in 1..Len(mBuf) : \E k \in 1..Len(mBuf) : Concat(lines)[k] = mBuf[m]
  <2>1. ASSUME NEW k \in 1..Len(mBuf)
        PROVE  \E m \in 1..Len(mBuf) : Concat(lines)[k] = mBuf[m]
    <3>1. PICK m \in 1..Len(mBuf) : lines[k] = Line(<<mBuf[m]>>, e)
      BY <1>3
    <3> QED BY <1>2, <1>5, <3>1
  <2>2. ASSUME NEW m \in 1..Len(mBuf)
        PROVE  \E k \in 1..Len(mBuf) : Concat(lines)[k] = mBuf[m]
    <3>1. PICK k \in 1..Len(mBuf) : lines[k] = Line(<<mBuf[m]>>, e)
      BY <1>3
    <3> QED BY <1>2, <1>5, <3>1
  <2> QED BY <2>1, <2>2
<1>8. {Concat(lines)[k] : k \in 1..Len(Concat(lines))} = {mBuf[k] : k \in 1..Len(mBuf)}
  <2> DEFINE t == Concat(lines)
  <2>1. /\ Len(t) = Len(mBuf)
        /\ \A k \in 1..Len(mBuf) : \E m \in 1..Len(mBuf) : t[k] = mBuf[m]
        /\ \A m \in 1..Len(mBuf) : \E k \in 1..Len(mBuf) : t[k] = mBuf[m]
    BY <1>5, <1>7
  <2> HIDE DEF t
  <2>2. ASSUME NEW x \in {t[k] : k \in 1..Len(t)} PROVE x \in {mBuf[k] : k \in 1..Len(mBuf)}
    <3>1. PICK k \in 1..Len(mBuf) : x = t[k]
      BY <2>1
    <3>2. PICK m \in 1..Len(mBuf) : t[k] = mBuf[m]
      BY <2>1
    <3> QED BY <3>1, <3>2
  <2>3. ASSUME NEW x \in {mBuf[k] : k \in 1..Len(mBuf)} PROVE x \in {t[k] : k \in 1..Len(t)}
    <3>1. PICK m \in 1..Len(mBuf) : x = mBuf[m]
      OBVIOUS
    <3>2. PICK k \in 1..Len(mBuf) : t[k] = mBuf[m]
      BY <2>1
    <3> QED BY <2>1, <3>1, <3>2
  <2>4. {t[k] : k \in 1..Len(t)} = {mBuf[k] : k \in 1..Len(mBuf)}
    BY <2>2, <2>3
  <2> QED BY <2>4 DEF t
<1> QED BY <1>5, <1>6, <1>8

\* cmd_sort: there is an order of the lines from the last to the first, and
\* it is one of them.
LEMMA SortedIs ==
    ASSUME PipeConstants, PipeInv, NEW s \in Seq(LinesOfText), NEW e \in BOOLEAN, ByNewline(s, e)
    PROVE  Sorted(s) \in Seq(LinesOfText) /\ Len(Sorted(s)) = Len(mBuf) /\ Descends(Sorted(s), e)
<1> DEFINE N == Len(mBuf)
           S == {s[k] : k \in 1..Len(s)}
           IsSorted(t) == /\ \A j, k \in 1..Len(s) : j < k => t[j].text[1] >= t[k].text[1]
                          /\ \A x \in S : \E k \in 1..Len(s) : t[k] = x
<1>1. /\ N \in Nat /\ Len(s) = N /\ \A k \in 1..N : s[k] \in LinesOfText /\ mBuf[k] \in Int
      /\ \A j, k \in 1..N : j < k => mBuf[j] <= mBuf[k]
  <2>1. N \in Nat /\ Len(s) = N /\ \A k \in 1..N : s[k] \in LinesOfText
    BY DEF PipeInv, PipeTypeOK, Buffers, ByNewline
  <2>2. mBuf = Written \/ mBuf = Redirected
    BY DEF PipeInv, BufferIs
  <2>3. CASE mBuf = Written
    BY <2>1, <2>3 DEF Written, PipeConstants
  <2>4. CASE mBuf = Redirected
    BY <2>1, <2>4 DEF Redirected
  <2> QED BY <2>1, <2>2, <2>3, <2>4
<1>2. \A x : Line(<<x>>, e).text[1] = x
  BY DEF Line
<1>3. \E t \in [1..Len(s) -> S] : IsSorted(t)
  <2>1. CASE InOrder(s, e)
    <3> DEFINE t == [k \in 1..N |-> s[N + 1 - k]]
    <3>1. \A k \in 1..N : N + 1 - k \in 1..N /\ N + 1 - (N + 1 - k) = k
      BY <1>1
    <3>2. \A k \in 1..N : t[k] = s[N + 1 - k]
      OBVIOUS
    <3>3. t \in [1..N -> S]
      BY <1>1, <3>1
    <3>4. \A k \in 1..N : s[k].text[1] = mBuf[k]
      BY <1>1, <1>2, <2>1 DEF InOrder
    <3> HIDE DEF t, N
    <3>5. \A j, k \in 1..N : j < k => t[j].text[1] >= t[k].text[1]
      <4> SUFFICES ASSUME NEW j \in 1..N, NEW k \in 1..N, j < k PROVE t[j].text[1] >= t[k].text[1]
        OBVIOUS
      <4>1. t[j].text[1] = mBuf[N + 1 - j] /\ t[k].text[1] = mBuf[N + 1 - k]
        BY <3>1, <3>2, <3>4
      <4>2. mBuf[N + 1 - k] <= mBuf[N + 1 - j] /\ mBuf[N + 1 - k] \in Int /\ mBuf[N + 1 - j] \in Int
        <5>1. N + 1 - k < N + 1 - j
          BY <1>1
        <5> QED BY <1>1, <3>1, <5>1
      <4> QED BY <4>1, <4>2
    <3>6. \A k \in 1..N : t[N + 1 - k] = s[k]
      BY <3>1, <3>2
    <3>7. ASSUME NEW x \in S PROVE \E k \in 1..N : t[k] = x
      <4>1. PICK m \in 1..N : s[m] = x
        BY <1>1
      <4>2. N + 1 - m \in 1..N /\ t[N + 1 - m] = x
        BY <3>1, <3>6, <4>1
      <4> QED BY <4>2
    <3>8. Len(s) = N
      BY <1>1
    <3> HIDE DEF S
    <3>9. IsSorted(t)
      BY <3>5, <3>7, <3>8
    <3> QED BY <3>3, <3>8, <3>9
  <2>2. CASE Descends(s, e)
    <3>1. s \in [1..Len(s) -> S]
      OBVIOUS
    <3> QED BY <2>2, <3>1 DEF Descends
  <2> QED BY <2>1, <2>2 DEF ByNewline
<1> DEFINE t == CHOOSE u \in [1..Len(s) -> S] : IsSorted(u)
<1>4. Sorted(s) = t
  BY DEF Sorted
<1>5. t \in [1..Len(s) -> S] /\ IsSorted(t)
  BY <1>3
<1> HIDE DEF t
<1>6. ASSUME NEW k \in 1..N PROVE \E m \in 1..N : t[k] = s[m]
  <2>1. t[k] \in S
    BY <1>1, <1>5
  <2> QED BY <1>1, <2>1
<1>7. ASSUME NEW m \in 1..N PROVE \E k \in 1..N : t[k] = s[m]
  <2>1. s[m] \in S
    BY <1>1
  <2> QED BY <1>1, <1>5, <2>1
<1>8. t \in Seq(LinesOfText) /\ Len(t) = N
  <2>1. t \in [1..N -> LinesOfText]
    BY <1>1, <1>5
  <2> QED BY <1>1, <2>1
<1>9. /\ \A k \in 1..N : \E m \in 1..N : s[k] = Line(<<mBuf[m]>>, e)
      /\ \A m \in 1..N : \E k \in 1..N : s[k] = Line(<<mBuf[m]>>, e)
  BY <1>1 DEF ByNewline, InOrder, Descends
<1>10. \A j, k \in 1..N : j < k => t[j].text[1] >= t[k].text[1]
  BY <1>1, <1>5
<1>11. /\ \A k \in 1..N : \E m \in 1..N : t[k] = Line(<<mBuf[m]>>, e)
       /\ \A m \in 1..N : \E k \in 1..N : t[k] = Line(<<mBuf[m]>>, e)
  <2>1. ASSUME NEW k \in 1..N PROVE \E m \in 1..N : t[k] = Line(<<mBuf[m]>>, e)
    <3>1. PICK l \in 1..N : t[k] = s[l]
      BY <1>6
    <3>2. PICK m \in 1..N : s[l] = Line(<<mBuf[m]>>, e)
      BY <1>9
    <3> QED BY <3>1, <3>2
  <2>2. ASSUME NEW m \in 1..N PROVE \E k \in 1..N : t[k] = Line(<<mBuf[m]>>, e)
    <3>1. PICK l \in 1..N : s[l] = Line(<<mBuf[m]>>, e)
      BY <1>9
    <3> QED BY <1>7, <3>1
  <2> QED BY <2>1, <2>2
<1>12. Descends(t, e)
  BY <1>8, <1>10, <1>11 DEF Descends
<1> QED BY <1>4, <1>8, <1>12

-----------------------------------------------------------------------------
\* The invariant holds at first.
LEMMA PipeInitInv == ASSUME PipeConstants, PipeInit PROVE PipeInv
<1>1. mBuf \in Buffers /\ <<>> \in Buffers
  BY DEF PipeInit, PipeConstants, Written, Buffers
<1>2. PipeTypeOK
  BY <1>1 DEF PipeInit, PipeTypeOK
<1> QED BY <1>2 DEF PipeInit, PipeConstants, PipeInv, BufferIs, LinesAre, CountIs, ReadsAreSized, WholeIsFront

\* A step that leaves the lines as fd_split leaves them for \n.
LEMMA SplitKeeps ==
    ASSUME PipeConstants, PipeInv, NEW e \in BOOLEAN, e \/ "chomped" \in used',
           used \subseteq used', mBuf' = mBuf, mLinesLineField' = "lf",
           mLines' = LinesFor("lf", e)
    PROVE  LinesAre' /\ mLines' \in Seq(LinesOfText)
<1> DEFINE lines == LinesFor("lf", e)
<1>1. PICK f \in BOOLEAN : /\ ByNewline(lines, f) /\ lines \in Seq(LinesOfText)
                           /\ f = e \/ ("chomped" \notin used => f)
  BY NewlineLines
<1>2. mLines' = lines
  OBVIOUS
<1> HIDE DEF lines
<1>3. ByNewline(mLines, f)'
  <2>1. InOrder(lines, f) => InOrder(mLines, f)'
    BY <1>2 DEF InOrder, Line
  <2>2. Descends(lines, f) => Descends(mLines, f)'
    <3> SUFFICES ASSUME Descends(lines, f) PROVE Descends(mLines, f)'
      OBVIOUS
    <3>1. /\ \A k \in 1..Len(lines) : \E m \in 1..Len(mBuf) : lines[k] = Line(<<mBuf[m]>>, f)
          /\ \A m \in 1..Len(mBuf) : \E k \in 1..Len(lines) : lines[k] = Line(<<mBuf[m]>>, f)
          /\ \A j, k \in 1..Len(lines) : j < k => lines[j].text[1] >= lines[k].text[1]
      BY DEF Descends
    <3>2. \A k \in 1..Len(mLines') : \E m \in 1..Len(mBuf') : mLines'[k] = Line(<<mBuf'[m]>>, f)
      BY <1>2, <3>1
    <3>3. \A m \in 1..Len(mBuf') : \E k \in 1..Len(mLines') : mLines'[k] = Line(<<mBuf'[m]>>, f)
      BY <1>2, <3>1
    <3>4. \A j, k \in 1..Len(mLines') : j < k => mLines'[j].text[1] >= mLines'[k].text[1]
      BY <1>2, <3>1
    <3> QED BY <3>2, <3>3, <3>4 DEF Descends, Line
  <2>3. Len(mLines') = Len(mBuf') /\ (InOrder(mLines, f)' \/ ("sort" \in used' /\ Descends(mLines, f)'))
    BY <1>1, <1>2, <2>1, <2>2 DEF ByNewline
  <2> QED BY <2>3 DEF ByNewline
<1>4. "chomped" \notin used' => f
  BY <1>1
<1> QED BY <1>1, <1>2, <1>3, <1>4 DEF LinesAre

\* "|n": the next n lines, and the count goes on by n.
LEMMA ReadInv == ASSUME PipeConstants, PipeInv, NEW n \in Numbers, ReadLines(n) PROVE PipeInv'
<1> DEFINE lines == LinesFor("lf", TRUE)
           N == Len(mBuf)
           r == CountFor("lf")
           c == LineNumber(n, lines)
           m == IF r + c > N THEN N ELSE r + c
           w == Window(lines, r, c)
           given == Concat(w)
<1>1. /\ lines \in Seq(LinesOfText) /\ Len(lines) = N /\ N \in Nat
      /\ \A k \in 1..N : Len(lines[k].text) = 1
  <2>1. TRUE \in BOOLEAN
    OBVIOUS
  <2>2. /\ lines \in Seq(LinesOfText) /\ \E f \in BOOLEAN : ByNewline(lines, f)
        /\ \A k \in 1..N : Len(lines[k].text) = 1
    BY <2>1, NewlineLines
  <2>3. N \in Nat
    BY DEF PipeInv, PipeTypeOK, Buffers
  <2> QED BY <2>2, <2>3 DEF ByNewline
<1>2. PICK e \in BOOLEAN : ByNewline(lines, e) /\ ("chomped" \notin used => e)
  BY NewlineLines
<1>3. r \in Nat /\ n \in Int
  BY DEF CountFor, PipeInv, PipeTypeOK, PipeConstants
<1>4. /\ mLines' = lines /\ mLinesLineField' = "lf" /\ mReadedLineNumber' = r + c
      /\ taken' = taken \o given /\ mBuf' = mBuf /\ used' = used
      /\ last' = [use |-> "read", n |-> n, in |-> given, ended |-> \A k \in 1..Len(w) : w[k].ended]
  BY DEF ReadLines, fd_split, Advance
<1> HIDE DEF lines, r
<1>5. /\ c \in 0..N
      /\ n > 0 => c = IF n > N THEN N ELSE n
      /\ n = -1 => c = N
  BY <1>1, <1>3 DEF LineNumber, Clip
<1>6. w = SubSeq(lines, r + 1, m)
  BY <1>1 DEF Window
<1> HIDE DEF c, w
<1>7. m \in Nat /\ m <= N
  BY <1>1, <1>3, <1>5
<1> HIDE DEF m
<1>8. /\ w \in Seq(LinesOfText) /\ Len(w) = IF r < m THEN m - r ELSE 0
      /\ \A k \in 1..Len(w) : w[k] = lines[r + k] /\ r + k \in 1..N
  <2>1. CASE r < m
    <3>1. /\ w \in Seq(LinesOfText) /\ Len(w) = m - r
          /\ \A k \in 1..(m - r) : w[k] = lines[r + k]
      BY <1>1, <1>3, <1>6, <1>7, <2>1
    <3> QED BY <1>1, <1>3, <1>7, <2>1, <3>1
  <2>2. CASE ~(r < m)
    <3>1. w = <<>>
      BY <1>1, <1>3, <1>6, <1>7, <2>2, SubSeqEmpty
    <3> QED BY <1>3, <1>7, <2>2, <3>1
  <2> QED BY <2>1, <2>2
<1>9. /\ given \in Buffers /\ Len(given) = Len(w)
      /\ \A k \in 1..Len(w) : given[k] = lines[r + k].text[1]
  <2>1. \A k \in 1..Len(w) : Len(w[k].text) = 1
    BY <1>1, <1>8
  <2> QED BY <1>8, <2>1, ConcatOnes
<1> HIDE DEF given
<1>10. LinesAre' /\ mLines' \in Seq(LinesOfText)
  BY <1>4, SplitKeeps DEF lines
<1>11. taken \in Seq(0..Size) /\ given \in Seq(0..Size)
  BY <1>9 DEF PipeInv, PipeTypeOK, Buffers
<1>12. PipeTypeOK'
  <2>1. taken' \in Buffers
    BY <1>4, <1>11 DEF Buffers
  <2>2. mReadedLineNumber' \in Nat
    BY <1>1, <1>3, <1>4, <1>5
  <2>3. last'.in \in Buffers /\ last'.ended \in BOOLEAN
    BY <1>4, <1>9
  <2>4. mLines' \in Seq([text : Buffers, ended : BOOLEAN])
    BY <1>10 DEF LinesOfText
  <2> QED BY <1>4, <2>1, <2>2, <2>3, <2>4 DEF PipeInv, PipeTypeOK, Buffers
<1>13. BufferIs' /\ WholeIsFront'
  BY <1>4 DEF PipeInv, BufferIs, WholeIsFront
<1>14. ASSUME Undisturbed
       PROVE  /\ N = Size /\ r = mReadedLineNumber
              /\ Len(taken) = IF r <= N THEN r ELSE N
              /\ \A k \in 1..Len(taken) : taken[k] = k
              /\ \A k \in 1..Len(w) : given[k] = r + k
              /\ Len(taken') = Len(taken) + Len(w)
  <2>1. "redirect" \notin used /\ "sort" \notin used
    BY <1>14 DEF Undisturbed
  <2>2. mBuf = Written
    BY <2>1 DEF PipeInv, BufferIs
  <2>3. N = Size
    BY <2>2 DEF Written, PipeConstants
  <2>4. /\ mLinesLineField # "cr"
        /\ mLinesLineField = "crlf" => mReadedLineNumber = 0
        /\ Len(taken) = IF mReadedLineNumber <= Size THEN mReadedLineNumber ELSE Size
        /\ \A k \in 1..Len(taken) : taken[k] = k
    BY <1>14 DEF PipeInv, CountIs
  <2>5. r = mReadedLineNumber
    BY <2>4 DEF PipeInv, PipeTypeOK, CountFor, r
  <2>6. InOrder(lines, e)
    BY <1>2, <2>1 DEF ByNewline
  <2>7. ASSUME NEW k \in 1..Len(w) PROVE given[k] = r + k
    <3>1. r + k \in 1..N
      BY <1>8
    <3>2. lines[r + k] = Line(<<mBuf[r + k]>>, e) /\ mBuf[r + k] = r + k
      BY <1>1, <2>2, <2>3, <2>6, <3>1 DEF InOrder, Written
    <3>3. lines[r + k].text[1] = r + k
      BY <3>2 DEF Line
    <3> QED BY <1>9, <3>3
  <2>8. Len(taken') = Len(taken) + Len(w)
    <3> DEFINE T == 0..Size
    <3>1. taken \in Seq(T) /\ given \in Seq(T)
      BY <1>11
    <3> HIDE DEF T
    <3>2. Len(taken \o given) = Len(taken) + Len(given)
      BY <3>1, ConcatProperties
    <3> QED BY <1>4, <1>9, <3>2
  <2> QED BY <2>3, <2>4, <2>5, <2>7, <2>8
<1>15. ASSUME Undisturbed
       PROVE  Len(taken') = IF r + c <= N THEN r + c ELSE N
  BY <1>1, <1>3, <1>5, <1>8, <1>14, <1>15 DEF m
<1>16. CountIs'
  <2> SUFFICES ASSUME Undisturbed'
               PROVE  /\ Len(taken') = IF mReadedLineNumber' <= Size THEN mReadedLineNumber' ELSE Size
                      /\ \A k \in 1..Len(taken') : taken'[k] = k
    BY <1>4 DEF CountIs
  <2>1. Undisturbed
    BY <1>4 DEF Undisturbed
  <2>2. Len(taken') = IF mReadedLineNumber' <= Size THEN mReadedLineNumber' ELSE Size
    BY <1>4, <1>14, <1>15, <2>1
  <2>3. ASSUME NEW k \in 1..Len(taken') PROVE taken'[k] = k
    <3> DEFINE l == Len(taken)
    <3>1. l \in Nat /\ Len(given) \in Nat /\ Len(taken') = l + Len(given)
      BY <1>4, <1>11
    <3>2. CASE k <= l
      <4>1. taken'[k] = taken[k] /\ k \in 1..l
        BY <1>4, <1>11, <3>1, <3>2
      <4> QED BY <1>14, <2>1, <4>1
    <3>3. CASE ~(k <= l)
      <4>1. k - l \in 1..Len(given)
        BY <3>1, <3>3
      <4>2. taken'[k] = given[k - l]
        BY <1>4, <1>11, <3>1, <3>3
      <4>3. given[k - l] = r + (k - l)
        BY <1>9, <1>14, <2>1, <4>1
      <4>4. r = l
        <5>1. r < m
          BY <1>8, <1>9, <4>1
        <5>2. r <= N
          BY <1>1, <1>3, <1>7, <5>1
        <5> QED BY <1>14, <2>1, <5>2
      <4> QED BY <3>1, <4>2, <4>3, <4>4
    <3> QED BY <3>1, <3>2, <3>3
  <2> QED BY <2>2, <2>3
<1>17. ReadsAreSized'
  <2>1. last'.use = "read" /\ last'.n = n /\ last'.in = given
        /\ last'.ended = \A k \in 1..Len(w) : w[k].ended
    BY <1>4
  <2>2. ASSUME "chomped" \notin used PROVE \A k \in 1..Len(w) : w[k].ended
    <3> SUFFICES ASSUME NEW k \in 1..Len(w) PROVE w[k].ended
      OBVIOUS
    <3>1. w[k] = lines[r + k] /\ r + k \in 1..N /\ e = TRUE
      BY <1>2, <1>8, <2>2
    <3>2. \E l \in 1..N : lines[r + k] = Line(<<mBuf[l]>>, e)
      BY <1>1, <1>2, <3>1 DEF ByNewline, InOrder, Descends
    <3> QED BY <3>1, <3>2 DEF Line
  <2>3. ASSUME Undisturbed
        PROVE  IF n > 0 THEN Len(given) = n \/ (Len(taken') = Size /\ Len(given) < n)
               ELSE Len(given) <= c /\ (n = -1 => Len(taken') = Size)
    <3>1. N = Size /\ Len(given) = IF r < m THEN m - r ELSE 0
      BY <1>8, <1>9, <1>14, <2>3
    <3>2. Len(taken') = IF r + c <= N THEN r + c ELSE N
      BY <1>15, <2>3
    <3> QED BY <1>1, <1>3, <1>5, <1>7, <3>1, <3>2 DEF m
  <2>4. ASSUME Undisturbed PROVE c = LineNumber(n, Written)
    <3>1. N = Size /\ Len(Written) = Size
      BY <1>14, <2>4 DEF Written, PipeConstants
    <3> QED BY <1>1, <3>1 DEF c, LineNumber, Clip
  <2>5. Undisturbed' = Undisturbed /\ used' = used
    BY <1>4 DEF Undisturbed
  <2>6. "chomped" \notin used' => last'.ended
    BY <2>1, <2>2, <2>5
  <2>7. Written' = Written
    BY DEF Written
  <2>8. \A k \in Int : LineNumber(k, Written)' = LineNumber(k, Written)
    BY DEF LineNumber, Clip, Written
  <2> QED BY <1>3, <2>1, <2>3, <2>4, <2>5, <2>6, <2>8 DEF ReadsAreSized, LineNumber, Clip, Written
<1> QED BY <1>10, <1>12, <1>13, <1>16, <1>17 DEF PipeInv

\* What the other statements have in common: they take nothing by count.
LEMMA GivenKeeps ==
    ASSUME PipeConstants, PipeInv, NEW use \in Uses, NEW in \in Buffers, Given(use, in)
    PROVE  /\ ReadsAreSized' /\ used \subseteq used' /\ use \in used' /\ used' \subseteq Uses
           /\ taken' = taken /\ (Undisturbed' => Undisturbed)
           /\ last'.in \in Buffers /\ last'.ended \in BOOLEAN
           /\ last'.use = use /\ last'.in = in
<1>1. /\ last' = [use |-> use, n |-> 0, in |-> in, ended |-> TRUE]
      /\ used' = used \cup {use} /\ taken' = taken
  BY DEF Given
<1>2. last'.use = use /\ last'.in = in /\ last'.ended = TRUE /\ use # "read"
  BY <1>1 DEF Uses
<1> QED BY <1>1, <1>2 DEF ReadsAreSized, Undisturbed, PipeInv, PipeTypeOK

\* Commands on all of the input keep it.
LEMMA WholeInv == ASSUME PipeConstants, PipeInv, Whole PROVE PipeInv'
<1>1. /\ Given("whole", mBuf) /\ mBuf' = mBuf /\ mLines' = mLines /\ "whole" \in Uses
      /\ mLinesLineField' = mLinesLineField /\ mReadedLineNumber' = mReadedLineNumber
      /\ mBuf \in Buffers
  BY DEF Whole, PipeInv, PipeTypeOK, Uses
<1>2. used' = used \cup {"whole"}
  BY <1>1 DEF Given
<1>3. PipeTypeOK'
  BY <1>1, GivenKeeps DEF PipeInv, PipeTypeOK, Buffers
<1>4. BufferIs'
  BY <1>1, <1>2 DEF PipeInv, BufferIs
<1>5. LinesAre'
  BY <1>1, <1>2 DEF PipeInv, LinesAre, ByNewline, InOrder, Descends, Line
<1>6. CountIs'
  BY <1>1, GivenKeeps DEF PipeInv, CountIs
<1>7. WholeIsFront'
  BY <1>1, <1>2, GivenKeeps DEF PipeInv, BufferIs, WholeIsFront
<1> QED BY <1>1, <1>3, <1>4, <1>5, <1>6, <1>7, GivenKeeps DEF PipeInv

\* The lines are taken as each and ary take them, and the count is kept.
LEMMA NewlinesInv ==
    ASSUME PipeConstants, PipeInv, NEW use \in Uses \ {"whole", "redirect"}, NEW e \in BOOLEAN,
           e \/ use = "chomped", TakeLines(use, "lf", e)
    PROVE  PipeInv'
<1> DEFINE lines == LinesFor("lf", e)
<1>1. /\ Given(use, Concat(lines)) /\ mLines' = lines /\ mLinesLineField' = "lf"
      /\ mReadedLineNumber' = CountFor("lf") /\ mBuf' = mBuf
  BY DEF TakeLines, fd_split
<1>2. PICK f \in BOOLEAN : ByNewline(lines, f) /\ lines \in Seq(LinesOfText)
  BY NewlineLines
<1> HIDE DEF lines
<1>3. Concat(lines) \in Buffers
  BY <1>2, TextOfLines DEF PipeInv
<1>4. /\ ReadsAreSized' /\ used \subseteq used' /\ use \in used' /\ used' \subseteq Uses
      /\ taken' = taken /\ (Undisturbed' => Undisturbed)
      /\ last'.in \in Buffers /\ last'.ended \in BOOLEAN
      /\ last'.use = use
  BY <1>1, <1>3, GivenKeeps
<1>5. LinesAre' /\ mLines' \in Seq(LinesOfText)
  BY <1>1, <1>4, SplitKeeps DEF lines
<1>6. CountFor("lf") \in Nat
  BY DEF CountFor, PipeInv, PipeTypeOK
<1>7. PipeTypeOK'
  BY <1>1, <1>4, <1>5, <1>6 DEF PipeInv, PipeTypeOK, LinesOfText, Buffers
<1>8. BufferIs'
  <2>1. used' = used \cup {use}
    BY <1>1 DEF Given
  <2> QED BY <1>1, <2>1 DEF PipeInv, BufferIs
<1>9. CountIs'
  <2> SUFFICES ASSUME Undisturbed' PROVE CountIs'
    BY DEF CountIs
  <2>1. Undisturbed
    BY <1>4
  <2>2. CountFor("lf") = mReadedLineNumber
    BY <2>1 DEF PipeInv, PipeTypeOK, CountIs, CountFor
  <2> QED BY <1>1, <1>4, <2>1, <2>2 DEF PipeInv, CountIs
<1>10. WholeIsFront'
  BY <1>4 DEF WholeIsFront
<1> QED BY <1>4, <1>5, <1>7, <1>8, <1>9, <1>10 DEF PipeInv

\* The same at \r, where the text is one line.
LEMMA ReturnsInv == ASSUME PipeConstants, PipeInv, TakeLines("linesCR", "cr", TRUE) PROVE PipeInv'
<1> DEFINE lines == LinesFor("cr", TRUE)
<1>1. /\ Given("linesCR", Concat(lines)) /\ mLines' = lines /\ mLinesLineField' = "cr"
      /\ mReadedLineNumber' = CountFor("cr") /\ mBuf' = mBuf
  BY DEF TakeLines, fd_split
<1>2. lines = <<>> \/ lines = <<Line(mBuf, TRUE)>>
  <2>1. CASE Kept("cr") = <<>>
    BY <2>1 DEF LinesFor, Split
  <2>2. CASE Kept("cr") # <<>>
    <3>1. lines = mLines /\ mLines # <<>> /\ mLinesLineField = "cr"
      BY <2>2 DEF LinesFor, Kept
    <3> QED BY <3>1 DEF PipeInv, LinesAre
  <2> QED BY <2>1, <2>2
<1> HIDE DEF lines
<1>3. Line(mBuf, TRUE) \in LinesOfText /\ Line(mBuf, TRUE).text \in Buffers
  BY DEF PipeInv, PipeTypeOK, Line, LinesOfText
<1>4. lines \in Seq(LinesOfText) /\ Concat(lines) \in Buffers
  <2>1. CASE lines = <<>>
    <3>1. lines \in Seq(LinesOfText) /\ Len(lines) = 0
      BY <2>1
    <3>2. \A k \in 1..Len(lines) : Len(lines[k].text) = 1
      BY <3>1
    <3>3. Concat(lines) \in Buffers
      BY <3>1, <3>2, ConcatOnes
    <3> QED BY <3>1, <3>3
  <2>2. CASE lines = <<Line(mBuf, TRUE)>>
    <3> DEFINE l == Line(mBuf, TRUE)
    <3>1. l \in LinesOfText /\ l.text \in Buffers /\ lines = <<l>>
      BY <1>3, <2>2
    <3> HIDE DEF l
    <3>2. lines \in Seq(LinesOfText)
      BY <3>1
    <3>3. Concat(lines) = l.text
      BY <3>1, ConcatOne
    <3> QED BY <3>1, <3>2, <3>3
  <2> QED BY <1>2, <2>1, <2>2
<1>5. "linesCR" \in Uses
  BY DEF Uses
<1>6. /\ ReadsAreSized' /\ used' \subseteq Uses /\ "linesCR" \in used' /\ taken' = taken
      /\ last'.in \in Buffers /\ last'.ended \in BOOLEAN
      /\ last'.use = "linesCR"
  BY <1>1, <1>4, <1>5, GivenKeeps
<1>7. LinesAre'
  BY <1>1, <1>2 DEF LinesAre, Line
<1>8. CountFor("cr") \in Nat
  BY DEF CountFor, PipeInv, PipeTypeOK
<1>9. PipeTypeOK'
  BY <1>1, <1>4, <1>6, <1>8 DEF PipeInv, PipeTypeOK, LinesOfText, Buffers
<1>10. BufferIs'
  <2>1. used' = used \cup {"linesCR"}
    BY <1>1 DEF Given
  <2> QED BY <1>1, <2>1 DEF PipeInv, BufferIs
<1>11. CountIs' /\ WholeIsFront'
  BY <1>6 DEF CountIs, Undisturbed, WholeIsFront
<1> QED BY <1>6, <1>7, <1>9, <1>10, <1>11 DEF PipeInv

\* sort keeps it.
LEMMA cmd_sortInv == ASSUME PipeConstants, PipeInv, cmd_sort PROVE PipeInv'
<1> DEFINE lines == LinesFor("lf", TRUE)
           sorted == Sorted(lines)
<1>1. /\ Given("sort", Concat(sorted)) /\ mLines' = sorted /\ mLinesLineField' = "lf"
      /\ mReadedLineNumber' = CountFor("lf") /\ mBuf' = mBuf
  BY DEF cmd_sort
<1>2. PICK e \in BOOLEAN : /\ ByNewline(lines, e) /\ lines \in Seq(LinesOfText)
                           /\ "chomped" \notin used => e
  <2>1. TRUE \in BOOLEAN
    OBVIOUS
  <2> QED BY <2>1, NewlineLines
<1> HIDE DEF lines
<1>3. sorted \in Seq(LinesOfText) /\ Len(sorted) = Len(mBuf) /\ Descends(sorted, e)
  BY <1>2, SortedIs
<1> HIDE DEF sorted
<1>4. /\ \A k \in 1..Len(sorted) : \E m \in 1..Len(mBuf) : sorted[k] = Line(<<mBuf[m]>>, e)
      /\ \A m \in 1..Len(mBuf) : \E k \in 1..Len(sorted) : sorted[k] = Line(<<mBuf[m]>>, e)
      /\ \A j, k \in 1..Len(sorted) : j < k => sorted[j].text[1] >= sorted[k].text[1]
  BY <1>3 DEF Descends
<1>5. Concat(sorted) \in Buffers
  <2> SUFFICES ASSUME NEW k \in 1..Len(sorted) PROVE Len(sorted[k].text) = 1
    BY <1>3, ConcatOnes
  <2>1. PICK m \in 1..Len(mBuf) : sorted[k] = Line(<<mBuf[m]>>, e)
    BY <1>4
  <2> QED BY <2>1 DEF Line
<1>6. "sort" \in Uses
  BY DEF Uses
<1>7. /\ ReadsAreSized' /\ used' \subseteq Uses /\ "sort" \in used' /\ taken' = taken
      /\ last'.in \in Buffers /\ last'.ended \in BOOLEAN
      /\ last'.use = "sort" /\ used \subseteq used'
  BY <1>1, <1>5, <1>6, GivenKeeps
<1>8. Descends(mLines, e)'
  <2>1. /\ \A k \in 1..Len(mLines') : \E m \in 1..Len(mBuf') : mLines'[k] = Line(<<mBuf'[m]>>, e)
        /\ \A m \in 1..Len(mBuf') : \E k \in 1..Len(mLines') : mLines'[k] = Line(<<mBuf'[m]>>, e)
        /\ \A j, k \in 1..Len(mLines') : j < k => mLines'[j].text[1] >= mLines'[k].text[1]
    BY <1>1, <1>4, Zenon
  <2> QED BY <2>1 DEF Descends, Line
<1>9. LinesAre'
  <2>1. ByNewline(mLines, e)'
    BY <1>1, <1>3, <1>7, <1>8 DEF ByNewline
  <2>2. "chomped" \notin used' => e
    BY <1>2, <1>7
  <2> QED BY <1>1, <2>1, <2>2 DEF LinesAre
<1>10. CountFor("lf") \in Nat
  BY DEF CountFor, PipeInv, PipeTypeOK
<1>11. PipeTypeOK'
  BY <1>1, <1>3, <1>7, <1>10 DEF PipeInv, PipeTypeOK, LinesOfText, Buffers
<1>12. BufferIs'
  <2>1. used' = used \cup {"sort"}
    BY <1>1 DEF Given
  <2> QED BY <1>1, <2>1 DEF PipeInv, BufferIs
<1>13. CountIs' /\ WholeIsFront'
  BY <1>7 DEF CountIs, Undisturbed, WholeIsFront
<1> QED BY <1>7, <1>9, <1>11, <1>12, <1>13 DEF PipeInv

\* Redirections keep it.
LEMMA RedirectInv == ASSUME PipeConstants, PipeInv, Redirect PROVE PipeInv'
<1>1. Redirected \in Buffers /\ "redirect" \in Uses
  BY DEF Redirected, Buffers, PipeConstants, Uses
<1>2. /\ mBuf' = Redirected /\ mLines' = <<>> /\ mReadedLineNumber' = 0
      /\ mLinesLineField' = mLinesLineField /\ Given("redirect", Redirected)
  BY DEF Redirect, LinesAfterPut
<1>3. /\ ReadsAreSized' /\ used' \subseteq Uses /\ "redirect" \in used' /\ taken' = taken
      /\ last'.in \in Buffers /\ last'.ended \in BOOLEAN
  BY <1>1, <1>2, GivenKeeps
<1>4. PipeTypeOK'
  BY <1>1, <1>2, <1>3 DEF PipeInv, PipeTypeOK, Buffers
<1>5. BufferIs' /\ LinesAre' /\ CountIs' /\ WholeIsFront'
  BY <1>2, <1>3 DEF BufferIs, Redirected, LinesAre, CountIs, Undisturbed, WholeIsFront
<1> QED BY <1>3, <1>4, <1>5 DEF PipeInv

\* So every step keeps it.
LEMMA PipeStepInv == ASSUME PipeConstants, PipeInv, [PipeNext]_pipevars PROVE PipeInv'
<1>1. CASE \E n \in Numbers : ReadLines(n)
  BY <1>1, ReadInv
<1>2. CASE Whole
  BY <1>2, WholeInv
<1>3. CASE TakeLines("lines", "lf", TRUE)
  BY <1>3, NewlinesInv DEF Uses
<1>4. CASE TakeLines("linesCR", "cr", TRUE)
  BY <1>4, ReturnsInv
<1>5. CASE TakeLines("chomped", "lf", FALSE)
  BY <1>5, NewlinesInv DEF Uses
<1>6. CASE cmd_sort
  BY <1>6, cmd_sortInv
<1>7. CASE Redirect
  BY <1>7, RedirectInv
<1>8. CASE UNCHANGED pipevars
  <2>1. /\ mBuf' = mBuf /\ mLines' = mLines /\ mLinesLineField' = mLinesLineField
        /\ mReadedLineNumber' = mReadedLineNumber
        /\ taken' = taken /\ last' = last /\ used' = used
    BY <1>8 DEF pipevars
  <2>2. PipeTypeOK' /\ BufferIs' /\ WholeIsFront'
    BY <2>1 DEF PipeInv, PipeTypeOK, BufferIs, WholeIsFront
  <2>3. LinesAre'
    BY <2>1 DEF PipeInv, LinesAre, ByNewline, InOrder, Descends, Line
  <2>4. CountIs'
    BY <2>1 DEF PipeInv, CountIs, Undisturbed
  <2>5. ReadsAreSized'
    BY <2>1 DEF PipeInv, ReadsAreSized, Undisturbed
  <2> QED BY <2>2, <2>3, <2>4, <2>5 DEF PipeInv
<1> QED BY <1>1, <1>2, <1>3, <1>4, <1>5, <1>6, <1>7, <1>8 DEF PipeNext

\* The invariant of the pipe of a block, under all that its statements do.
THEOREM PipeInvariance == ASSUME PipeConstants PROVE PipeSpec => []PipeInv
BY PipeInitInv, PipeStepInv, PTL DEF PipeSpec

\* "|n" statements take line after line of what the front command wrote, as
\* many as they name, whole; the lines kept beside the buffer are those of
\* the text in it; and a statement that takes the whole pipe is given all of
\* it: for any number of lines and any n (obj_fd.c, run.c).
THEOREM PipeAlwaysInOrder == ASSUME PipeConstants PROVE PipeSpec => []PipeInOrder
<1>1. PipeInv => LinesInOrder
  <2> SUFFICES ASSUME PipeInv, Undisturbed
               PROVE  Len(taken) <= Size /\ taken = SubSeq(Written, 1, Len(taken))
    BY DEF LinesInOrder
  <2>1. /\ Size \in Nat /\ Len(taken) \in Nat /\ taken \in Seq(0..Size) /\ mReadedLineNumber \in Nat
    BY DEF PipeInv, PipeTypeOK, Buffers, PipeConstants
  <2>2. Len(taken) <= Size /\ \A k \in 1..Len(taken) : taken[k] = k
    BY <2>1 DEF PipeInv, CountIs
  <2> DEFINE t == SubSeq(Written, 1, Len(taken))
  <2>3. t \in Seq(0..Size) /\ Len(t) = Len(taken) /\ \A k \in 1..Len(taken) : t[k] = k
    <3> DEFINE T == 0..Size
    <3>1. Written \in Seq(T) /\ Len(Written) = Size /\ \A k \in 1..Size : Written[k] = k
      BY <2>1 DEF Written
    <3> HIDE DEF T
    <3>2. t \in Seq(T) /\ Len(t) = Len(taken) /\ \A k \in 1..Len(taken) : t[k] = Written[k]
      BY <2>1, <2>2, <3>1
    <3> QED BY <2>1, <2>2, <3>1, <3>2 DEF T
  <2> HIDE DEF t
  <2>4. taken = t
    BY <2>1, <2>2, <2>3, SeqEqual
  <2> QED BY <2>2, <2>4 DEF t
<1>2. PipeInv => LinesAreCurrent
  <2> SUFFICES ASSUME PipeInv, mLines # <<>>
               PROVE  {Concat(mLines)[k] : k \in 1..Len(Concat(mLines))} = {mBuf[k] : k \in 1..Len(mBuf)}
    BY DEF LinesAreCurrent
  <2>1. PipeTypeOK /\ mLines \in Seq(LinesOfText)
    BY DEF PipeInv, PipeTypeOK, LinesOfText
  <2>2. CASE \E e \in BOOLEAN : ByNewline(mLines, e)
    BY <2>1, <2>2, TextOfLines
  <2>3. CASE mLines = <<Line(mBuf, TRUE)>>
    <3>1. Line(mBuf, TRUE) \in LinesOfText /\ Line(mBuf, TRUE).text = mBuf
      BY <2>1 DEF PipeTypeOK, Line, LinesOfText
    <3>2. Concat(mLines) = mBuf
      BY <2>3, <3>1, ConcatOne
    <3> QED BY <3>2
  <2> QED BY <2>2, <2>3 DEF PipeInv, LinesAre
<1>3. PipeInv => PipeInOrder
  BY <1>1, <1>2 DEF PipeInv, PipeInOrder
<1> QED BY <1>3, PipeInvariance, PTL
=============================================================================
