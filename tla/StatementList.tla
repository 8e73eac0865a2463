--------------------------- MODULE StatementList ---------------------------
(***************************************************************************)
(* The statements of one block: the flags read_statment gives each of them *)
(* from its text, and the loop of run() that walks them, skipping after && *)
(* and || by the return code of the statement before.                      *)
(*                                                                         *)
(* A statement is what was written: a pipeline or a ':' expression, with   *)
(* or without '!', sending its output nowhere special, to the global pipe  *)
(* (|>) or to the end of it (|>>), and what it ends with.                  *)
(***************************************************************************)
EXTENDS Integers, Sequences

CONSTANTS
    MaxLen,     \* statements of a block
    Terms,      \* what a pipeline may end with
    Outs,       \* where its output may go
    Bangs       \* whether it may begin with '!'

AllTerms == {"andand", "oror", "amp", "newline", "semi", "comment", "end"}
AllOuts  == {"pipeout", "global", "append"}

\* STATMENT_FLAGS_ constants, by the bit they set in mFlags.
REVERSE            == 16
BACKGROUND         == 17
GLOBAL_PIPE_OUT    == 19
NORMAL             == 21
OROR               == 22
ANDAND             == 23
GLOBAL_PIPE_APPEND == 24
KIND_NODETREE      == 24

Pipelines  == [kind : {"pipeline"}, bang : Bangs, out : Outs, term : Terms]
Expression == [kind |-> "node", bang |-> FALSE, out |-> "pipeout", term |-> "none"]
Statements == Pipelines \cup {Expression}

\* read_statment: the flags of a statement.  A '#' ends a pipeline as a ')'
\* does, without a flag; an expression gets no flag for what follows it.
FlagsOf(s) ==
    IF s.kind = "node" THEN {KIND_NODETREE}
    ELSE (IF s.bang THEN {REVERSE} ELSE {})
         \cup (CASE s.out = "global"  -> {GLOBAL_PIPE_OUT}
                 [] s.out = "append"  -> {GLOBAL_PIPE_APPEND}
                 [] s.out = "pipeout" -> {})
         \cup (CASE s.term = "andand" -> {ANDAND}
                 [] s.term = "oror"   -> {OROR}
                 [] s.term = "amp"    -> {BACKGROUND}
                 [] s.term \in {"newline", "semi", "end"} -> {NORMAL}
                 [] s.term = "comment" -> {})

VARIABLES
    stmts,      \* the statements of the block, as written
    i,          \* the statement run() is at
    rcode,      \* runinfo.mRCode
    code,       \* what each statement returned, "none" if it was not run
    gpipe,      \* the statements whose output is in gGlobalPipe
    state

blockVars == <<stmts, i, rcode, code, gpipe, state>>

Flags(k) == FlagsOf(stmts[k])

BlockInit ==
    /\ stmts \in UNION {[1..n -> Statements] : n \in 1..MaxLen}
    /\ \A k \in 1..(Len(stmts) - 1) : stmts[k].term # "end"
    /\ i = 1
    /\ rcode = "0"
    /\ code = [k \in 1..Len(stmts) |-> "none"]
    /\ gpipe = <<>>
    /\ state = "run"

-----------------------------------------------------------------------------
\* Statement k, which returned rc, refuses the one after it.
\* (Here and below, a definition marked "slip" is one of the ways to get the
\* one after it wrong; the properties tell them apart.)
Refuses(k, rc)    == \/ OROR \in Flags(k) /\ rc = "0"
                     \/ ANDAND \in Flags(k) /\ rc # "0"

\* The statement at which skipping from k ends: the next one, k included,
\* that has the NORMAL flag, or past the last.
IsSkipEnd(k, e) == /\ e = Len(stmts) + 1 \/ NORMAL \in Flags(e)
                   /\ \A j \in k..(e - 1) : NORMAL \notin Flags(j)
SkipToNext(k)   == k + 1                                                 \* slip
SkipTo(k)       == CHOOSE e \in k..(Len(stmts) + 1) : IsSkipEnd(k, e)

\* run() after statement i returned rc: skip or not, then the for loop's i++.
NextIndex(rc)      == IF Refuses(i, rc) THEN SkipTo(i) + 1 ELSE i + 1

CodeAfter(rc)    == rc

Done(rc) ==
    /\ rcode' = CodeAfter(rc)
    /\ code' = [code EXCEPT ![i] = rc]
    /\ i' = NextIndex(rc)
    /\ UNCHANGED <<stmts, state>>

AtStatement == state = "run" /\ i <= Len(stmts)

Reversed(rc) == IF rc = "0" THEN "1" ELSE "0"

\* statment_tree runs the commands of a pipeline; ready_for_redirect sends
\* the output of the last one to the global pipe, emptied for |>.
statment_tree ==
    /\ AtStatement /\ KIND_NODETREE \notin Flags(i)
    /\ \E rc \in {"0", "1"} :
          Done(IF REVERSE \in Flags(i) THEN Reversed(rc) ELSE rc)
    /\ gpipe' = IF GLOBAL_PIPE_OUT \in Flags(i) THEN <<i>>
                ELSE IF GLOBAL_PIPE_APPEND \in Flags(i) THEN Append(gpipe, i)
                ELSE gpipe

\* node_tree runs the expressions of a statement; one that has none, as a
\* pipeline has, leaves mRCode at 0.
NodeTree ==
    /\ AtStatement /\ KIND_NODETREE \in Flags(i)
    /\ \E rc \in IF stmts[i].kind = "node" THEN {"0", "1"} ELSE {"0"} : Done(rc)
    /\ UNCHANGED gpipe

\* A statement fails: run() returns FALSE and nothing after it is run.
StatementFails ==
    /\ AtStatement
    /\ state' = "failed"
    /\ rcode' = "1"
    /\ UNCHANGED <<stmts, i, code, gpipe>>

\* No statement is left: run() returns TRUE and the last code.
EndBlock ==
    /\ state = "run" /\ i > Len(stmts)
    /\ state' = "ok"
    /\ UNCHANGED <<stmts, i, rcode, code, gpipe>>

Returned == state \in {"ok", "failed"} /\ UNCHANGED blockVars

BlockNext == statment_tree \/ NodeTree \/ StatementFails \/ EndBlock \/ Returned
BlockSpec == BlockInit /\ [][BlockNext]_blockVars
-----------------------------------------------------------------------------
(* Properties.                                                             *)

Codes == {"0", "1"}

TypeOK ==
    /\ stmts \in Seq(Statements) /\ Len(stmts) \in 1..MaxLen
    /\ i \in 1..(Len(stmts) + 2)
    /\ rcode \in Codes
    /\ code \in [1..Len(stmts) -> Codes \cup {"none"}]
    /\ gpipe \in Seq(1..Len(stmts))
    /\ state \in {"run", "ok", "failed"}

Ran(k)       == code[k] # "none"
Over         == state = "ok"
Preceded(k)  == k \in 2..Len(stmts)

\* The statement j < k refuses k: it ran, was followed by && or || that its
\* code does not satisfy, and no separator stands between them.
RefusedBy(j, k) == /\ Ran(j) /\ Refuses(j, code[j])
                   /\ \A l \in j..(k - 1) : NORMAL \notin Flags(l)

\* When run() returns TRUE the statements that did not run are exactly those
\* that an earlier one refused: a skip never runs past a separator, nothing
\* else is skipped, and no statement runs behind an operator that refuses it.
SkipsAreExact ==
    Over => \A k \in 1..Len(stmts) :
        ~Ran(k) <=> \E j \in 1..(k - 1) : RefusedBy(j, k)

\* The code of a block is that of the last statement that ran in it.
ResultIsLast ==
    Over => \E k \in 1..Len(stmts) : /\ code[k] = rcode
                                     /\ \A j \in (k + 1)..Len(stmts) : ~Ran(j)

\* What && and || promise of a block.
StatementsSkip == TypeOK /\ SkipsAreExact /\ ResultIsLast

-----------------------------------------------------------------------------
(* What the documentation says.                                            *)

\* The code of the last statement that ran before k.
PreviousCode(k) ==
    LET ranBefore == {j \in 1..(k - 1) : Ran(j)}
    IN  code[CHOOSE j \in ranBefore : \A l \in ranBefore : l <= j]

\* "|| If previous statment return code is false, run the next command",
\* "&& If previous statment return code is true, run the next command".
PreviousDecides ==
    Over => \A k \in 1..Len(stmts) : Preceded(k) =>
        /\ OROR \in Flags(k - 1) => (Ran(k) <=> PreviousCode(k) # "0")
        /\ ANDAND \in Flags(k - 1) => (Ran(k) <=> PreviousCode(k) = "0")

\* "If you want to append data to global pipe, you can use |>>": the output
\* of a statement that ran and ends with |>> is in the pipe until a |>.
AppendedIsKept ==
    Over => \A k \in 1..Len(stmts) :
        /\ Ran(k) /\ stmts[k].out = "append"
        /\ \A j \in (k + 1)..Len(stmts) : stmts[j].out # "global"
        => \E n \in 1..Len(gpipe) : gpipe[n] = k
=============================================================================
