----------------------------- MODULE Expression ----------------------------
(***************************************************************************)
(* The ':' statements (exp.c, colon_statment of parser.c): expressions with *)
(* C's operators, read character by character with one level of recursive  *)
(* descent for each precedence, and run by walking the tree.               *)
(*                                                                         *)
(* The value of a variable is its object and not what the object holds, so *)
(* an operator reads its left operand only after its right one has run.    *)
(* ++ and the like write into the object, = puts a new object in its place.*)
(* Both 'my $name' and '$name' read the local object of that name first;    *)
(* 'my $name =' makes a local one and '$name =' one of the current object.  *)
(*                                                                         *)
(* Left out: the limits of 128 characters of a name or a number, the       *)
(* output of ':@', what the arguments of a called function say, and a       *)
(* backslash as the last character of a text, in a string value: reading    *)
(* then goes on behind the text.                                           *)
(***************************************************************************)
EXTENDS Integers, Sequences, SequencesExt, FiniteSetsExt, Folds, TLC

CONSTANTS
    Width,          \* bits of an int
    STATMENT_NODE_MAX,
    Trees,          \* expressions that are written
    Strays,         \* other statements, as sequences of characters
    Stores,         \* the variables before one: [objects, locals, globals]
    Answers         \* what a function called with & may do

VARIABLES
    text, meant,            \* what is written, for which tree (NULL if for none)
    nodes, phase,           \* "parse", "run", "end", "failed", "killed"
    n,                      \* the expression node_tree is at
    objects,                \* what each object holds
    locals, globals,        \* the object a name stands for, 0 for none
    answers,                \* what a function called with & does
    value, mRCode

vars == <<text, meant, nodes, phase, n, objects, locals, globals, answers, value, mRCode>>

Digits  == <<"0", "1", "2", "3", "4", "5", "6", "7", "8", "9">>
Letters == {"a", "b", "c", "e", "f", "g", "l", "m", "n", "p", "q", "r", "t", "v", "x", "y", "_"}
NULL    == <<>>

-----------------------------------------------------------------------------
(* Reading.  A result has the place where reading stopped and the node; a   *)
(* failed one says whether *node was written, and whether a pointer nobody  *)
(* wrote was given to sNodeTree_free on the way.                            *)

At(t, p) == IF p \in 1..Len(t) THEN t[p] ELSE ""

Past(t, p, set) ==
    LET q == SelectInSubSeq(t, p, Len(t), LAMBDA ch : ch \notin set)
    IN  IF q = 0 THEN Len(t) + 1 ELSE q

skip_spaces(t, p) == Past(t, p, {" "})

Read(node, p)         == [ok |-> TRUE, node |-> node, p |-> p, set |-> TRUE, garbage |-> FALSE]
Refuse(set, garbage)  == [ok |-> FALSE, node |-> NULL, p |-> 0, set |-> set, garbage |-> garbage]

Operand(op, left, right, middle) == <<0, op, left, right, middle>>
Value(number)     == <<1, number>>
Var(name)         == <<2, name>>
GlobalVar(name)   == <<3, name>>
StringValue(word) == <<4, word>>
Function(calls)   == <<5, calls>>
IsVar(node)       == node # NULL /\ node[1] \in {2, 3}

Wrap(number) == ((number + 2 ^ (Width - 1)) % 2 ^ Width) - 2 ^ (Width - 1)

\* atoi, which passes over blanks.
Blanks == {" ", "\t", "\n", "\r"}
atoi(word) ==
    LET first    == Past(word, 1, Blanks)
        negative == At(word, first) = "-"
        from   == IF At(word, first) \in {"-", "+"} THEN first + 1 ELSE first
        digits == SubSeq(word, from, Past(word, from, ToSet(Digits)) - 1)
        size   == FoldLeft(LAMBDA sum, ch : 10 * sum + IndexFirstSubSeq(<<ch>>, Digits) - 1, 0, digits)
    IN  Wrap(IF negative THEN -size ELSE size)

RECURSIVE DigitsOf(_)
DigitsOf(size)   == IF size < 10 THEN <<Digits[size + 1]>>
                    ELSE Append(DigitsOf(size \div 10), Digits[(size % 10) + 1])
NumberText(size) == IF size < 0 THEN <<"-">> \o DigitsOf(-size) ELSE DigitsOf(size)

\* The letters that name a control character behind a backslash.
Control   == "n" :> "\n" @@ "t" :> "\t" @@ "r" :> "\r" @@ "a" :> "bel"
Behind(ch) == IF ch \in DOMAIN Control THEN Control[ch] ELSE ch

\* The characters of a string value up to its closing quote.
RECURSIVE StringFrom(_, _, _)
StringFrom(t, p, word) ==
    CASE At(t, p) = "\"" -> Read(StringValue(word), skip_spaces(t, p + 1))
      [] At(t, p) = "\\" -> StringFrom(t, p + 2, Append(word, Behind(At(t, p + 1))))
      [] At(t, p) = ""   -> Refuse(FALSE, FALSE)
      [] OTHER           -> StringFrom(t, p + 1, Append(word, At(t, p)))

\* The calls of a chain &f(argument).g.
RECURSIVE CallsFrom(_, _, _)
CallsFrom(t, p, calls) ==
    LET end   == Past(t, p, Letters)
        name  == SubSeq(t, p, end - 1)
        open  == skip_spaces(t, end)
        close == SelectInSubSeq(t, open, Len(t), LAMBDA ch : ch = ")")
        next  == IF At(t, open) = "(" THEN skip_spaces(t, close + 1) ELSE open
    IN  IF At(t, open) = "(" /\ close = 0 THEN Refuse(FALSE, FALSE)
        ELSE IF At(t, next) = "." THEN CallsFrom(t, skip_spaces(t, next + 1), Append(calls, name))
        ELSE Read(Function(Append(calls, name)), next)

\* A variable just read may have ++ or -- after it.
WithPostfix(t, node, p) ==
    CASE At(t, p) = "+" /\ At(t, p + 1) = "+" ->
            Read(Operand("kOpPlusPlus2", node, NULL, NULL), skip_spaces(t, p + 2))
      [] At(t, p) = "-" /\ At(t, p + 1) = "-" ->
            Read(Operand("kOpMinusMinus2", node, NULL, NULL), skip_spaces(t, p + 2))
      [] OTHER -> Read(node, p)

NumberFrom(t, p) ==
    LET end == Past(t, IF At(t, p) \in {"-", "+"} THEN p + 1 ELSE p, ToSet(Digits))
    IN  Read(Value(atoi(SubSeq(t, p, end - 1))), skip_spaces(t, end))

\* $name.
VariableFrom(t, p) ==
    LET end == Past(t, p, Letters)
    IN  WithPostfix(t, GlobalVar(SubSeq(t, p, end - 1)), skip_spaces(t, end))

\* my $name.
MyFrom(t, p) ==
    LET from == skip_spaces(t, p)
        end  == Past(t, from + 1, Letters)
    IN  IF At(t, from) # "$" \/ At(t, from + 1) \notin Letters THEN Refuse(FALSE, FALSE)
        ELSE WithPostfix(t, Var(SubSeq(t, from + 1, end - 1)), skip_spaces(t, end))

-----------------------------------------------------------------------------
(* The operators of each level, with what may not follow their characters. *)

Op(chars, unless, op) == [chars |-> chars, unless |-> unless, op |-> op]

expression_mult_div ==
    {Op(<<"*">>, {"="}, "kOpMult"), Op(<<"/">>, {"="}, "kOpDiv"), Op(<<"%">>, {"="}, "kOpMod")}
expression_add_sub ==
    {Op(<<"+">>, {"=", "+"}, "kOpAdd"), Op(<<"-">>, {"="}, "kOpSub"), Op(<<".">>, {}, "kOpStrAdd")}
expression_shift ==
    {Op(<<"<", "<">>, {"="}, "kOpLeftShift"), Op(<<">", ">">>, {"="}, "kOpRightShift")}
NumbersCompared ==
    {Op(<<">", "=">>, {}, "kOpGte"), Op(<<">">>, {"=", ">"}, "kOpGt"),
     Op(<<"<", "=">>, {}, "kOpLte"), Op(<<"<">>, {"=", "<"}, "kOpLt")}
StringsCompared ==
    {Op(<<"l", "t">>, {}, "kOpStrLt"), Op(<<"g", "t">>, {}, "kOpStrGt"),
     Op(<<"l", "e">>, {}, "kOpStrLe"), Op(<<"g", "e">>, {}, "kOpStrGe")}
expression_gtlt == NumbersCompared \cup StringsCompared
expression_eqeq ==
    {Op(<<"=", "=">>, {}, "kOpEqEq"), Op(<<"!", "=">>, {}, "kOpNotEqEq"),
     Op(<<"e", "q">>, {}, "kOpStrEqEq"), Op(<<"n", "e">>, {}, "kOpStrNotEqEq"),
     Op(<<"c", "m", "p">>, {}, "kOpStrCmp")}
expression_and     == {Op(<<"&">>, {"&", "="}, "kOpAnd")}
expression_xor     == {Op(<<"^">>, {"="}, "kOpXor")}
expression_or      == {Op(<<"|">>, {"|", "="}, "kOpOr")}
expression_andnand == {Op(<<"&", "&">>, {}, "kOpAndAnd")}
expression_oror    == {Op(<<"|", "|">>, {}, "kOpOrOr")}
ArithmeticEqual ==
    {Op(<<"+", "=">>, {}, "kOpEqualPlus"),
     Op(<<"-", "=">>, {}, "kOpEqualMinus"), Op(<<"*", "=">>, {}, "kOpEqualMult"),
     Op(<<"/", "=">>, {}, "kOpEqualDiv"), Op(<<"%", "=">>, {}, "kOpEqualMod")}
BitsEqual ==
    {Op(<<"<", "<", "=">>, {}, "kOpEqualShiftLeft"), Op(<<">", ">", "=">>, {}, "kOpEqualShiftRight"),
     Op(<<"&", "=">>, {}, "kOpEqualAnd"), Op(<<"|", "=">>, {}, "kOpEqualOr"),
     Op(<<"^", "=">>, {}, "kOpEqualXor")}
expression_equal == {Op(<<"=">>, {}, "kOpEqual")} \cup ArithmeticEqual \cup BitsEqual

Question == 11
Equal    == 12
Levels   == <<expression_mult_div, expression_add_sub, expression_shift, expression_gtlt,
              expression_eqeq, expression_and, expression_xor, expression_or,
              expression_andnand, expression_oror, {}, expression_equal>>

OpsAt(t, p, level) ==
    {o \in Levels[level] :
        /\ \A k \in 1..Len(o.chars) : At(t, p + k - 1) = o.chars[k]
        /\ At(t, p + Len(o.chars)) \notin o.unless}

\* The level of the right operand: every level takes its own from the one
\* below, but = takes it from its own.
OwnLevel(level)   == level                                              \* slip
RightLevel(level) == IF level = Equal THEN Equal ELSE level - 1

RECURSIVE Expr(_, _, _), Rest(_, _, _)

InBrackets(t, inside, close) ==
    IF ~inside.ok THEN inside
    ELSE IF At(t, close) # ")" \/ inside.node = NULL THEN Refuse(TRUE, FALSE)
    ELSE Read(inside.node, skip_spaces(t, close + 1))

expression_node(t, p) ==
    LET Closed(inside) == InBrackets(t, inside, skip_spaces(t, inside.p))
    IN  CASE At(t, p) \in ToSet(Digits) \cup {"-", "+"} -> NumberFrom(t, p)
          [] At(t, p) = "\"" -> StringFrom(t, p + 1, <<>>)
          [] At(t, p) = "("  -> Closed(Expr(t, Equal, skip_spaces(t, p + 1)))
          [] At(t, p) = "&" /\ At(t, p + 1) \in Letters -> CallsFrom(t, p + 1, <<>>)
          [] At(t, p) = "$" /\ At(t, p + 1) \in Letters -> VariableFrom(t, p + 1)
          [] At(t, p) = "m" /\ At(t, p + 1) = "y" -> MyFrom(t, p + 2)
          [] At(t, p) = ";" -> Read(NULL, p)
          [] OTHER -> Refuse(TRUE, FALSE)

expression_node_prefix(t, p) ==
    LET twice  == At(t, p) \in {"+", "-"} /\ At(t, p + 1) = At(t, p)
        single == At(t, p) \in {"~", "!"}
        op     == CASE At(t, p) = "+" -> "kOpPlusPlus" [] At(t, p) = "-" -> "kOpMinusMinus"
                    [] At(t, p) = "~" -> "kOpTilda"    [] At(t, p) = "!" -> "kOpExclamation"
        Prefixed(inside) ==
            IF ~inside.ok \/ ~(twice \/ single) THEN inside
            ELSE IF inside.node = NULL \/ (twice /\ ~IsVar(inside.node)) THEN Refuse(TRUE, FALSE)
            ELSE Read(Operand(op, inside.node, NULL, NULL), inside.p)
    IN  Prefixed(expression_node(t, CASE twice  -> skip_spaces(t, p + 2)
                                      [] single -> skip_spaces(t, p + 1)
                                      [] OTHER  -> p))

\* What comes after the left operand of a level.
Rest(t, level, left) ==
    LET ops == OpsAt(t, left.p, level)
        o   == CHOOSE op \in ops : TRUE
        With(right) ==
            IF ~right.ok THEN Refuse(TRUE, right.garbage \/ ~right.set)
            ELSE IF left.node = NULL \/ right.node = NULL THEN Refuse(TRUE, FALSE)
            ELSE IF level = Equal /\ ~IsVar(left.node) THEN Refuse(TRUE, FALSE)
            ELSE Rest(t, level, Read(Operand(o.op, left.node, right.node, NULL), right.p))
    IN  IF ops = {} THEN left
        ELSE With(Expr(t, RightLevel(level), skip_spaces(t, left.p + Len(o.chars))))

RECURSIVE expression_question(_, _)
expression_question(t, left) ==
    LET With(middle, right) ==
            IF ~right.ok THEN Refuse(TRUE, right.garbage \/ ~right.set)
            ELSE IF NULL \in {left.node, middle.node, right.node} THEN Refuse(TRUE, FALSE)
            ELSE expression_question(t, Read(Operand("kOpQuestion", left.node, right.node,
                                                     middle.node), right.p))
        Between(middle, colon) ==
            IF ~middle.ok THEN Refuse(TRUE, middle.garbage \/ ~middle.set)
            ELSE IF At(t, colon) # ":" THEN Refuse(TRUE, FALSE)
            ELSE With(middle, Expr(t, Equal, skip_spaces(t, colon + 1)))
        After(middle) == Between(middle, skip_spaces(t, middle.p))
    IN  IF At(t, left.p) # "?" THEN left
        ELSE After(Expr(t, Equal, skip_spaces(t, left.p + 1)))

Expr(t, level, p) ==
    LET After(left) == IF ~left.ok THEN left
                       ELSE IF level = Question THEN expression_question(t, left)
                       ELSE Rest(t, level, left)
    IN  IF level = 0 THEN expression_node_prefix(t, p) ELSE After(Expr(t, level - 1, p))

node_expression(t, p) == Expr(t, Equal, p)

\* colon_statment: expressions with ',' between them, up to what ends them.
RECURSIVE Statement(_, _, _)
Statement(t, p, list) ==
    LET After(one) ==
            IF ~one.ok THEN [ok |-> FALSE, list |-> list, garbage |-> one.garbage \/ ~one.set]
            ELSE IF Len(list) + 1 = STATMENT_NODE_MAX
            THEN [ok |-> FALSE, list |-> list, garbage |-> FALSE]
            ELSE IF At(t, one.p) = ","
            THEN Statement(t, skip_spaces(t, one.p + 1), Append(list, one.node))
            ELSE [ok |-> TRUE, list |-> Append(list, one.node), garbage |-> FALSE]
    IN  IF At(t, p) \in {"", ")", "]", "backquote", "}", "\n", ";"}
        THEN [ok |-> TRUE, list |-> list, garbage |-> FALSE]
        ELSE After(node_expression(t, p))

colon_statment(t) == Statement(t, 1, <<>>)

-----------------------------------------------------------------------------
(* Running.  A value is an INT, a STRING on the stack, or the object of a   *)
(* variable itself.  Names are looked up among the local objects of the     *)
(* running function first.                                                  *)

Now == [objects |-> objects, locals |-> locals, globals |-> globals]

Gives(kind, data, st) == [how |-> "ok", value |-> <<kind, data>>, st |-> st]
Fails(st)             == [how |-> "failed", value |-> NULL, st |-> st]
Killed(st)            == [how |-> "killed", value |-> NULL, st |-> st]

object_to_str(st, v) == CASE v[1] = "int"    -> NumberText(v[2])
                          [] v[1] = "string" -> v[2]
                          [] v[1] = "object" -> st.objects[v[2]]
object_to_int(st, v) == IF v[1] = "int" THEN v[2] ELSE atoi(object_to_str(st, v))

access_object(st, name) ==
    CASE name \in DOMAIN st.locals  -> st.locals[name]
      [] name \in DOMAIN st.globals -> st.globals[name]
      [] OTHER -> 0

\* uobject_put of a new string.
Put(st, where, name, word) ==
    LET o == Append(st.objects, word) IN
    CASE where = "locals"  -> [st EXCEPT !.objects = o, !.locals = (name :> Len(o)) @@ @]
      [] where = "globals" -> [st EXCEPT !.objects = o, !.globals = (name :> Len(o)) @@ @]

Quotient(l, r) == LET q == (IF l < 0 THEN -l ELSE l) \div (IF r < 0 THEN -r ELSE r)
                  IN  IF (l < 0) = (r < 0) THEN q ELSE -q
Bits(number)   == {b \in 0..(Width - 1) : number % 2 ^ (b + 1) >= 2 ^ b}
FromBits(set)  == Wrap(MapThenSumSet(LAMBDA b : 2 ^ b, set))
Truth(holds)   == IF holds THEN 1 ELSE 0

\* The division that raises SIGFPE, which nothing catches: by zero, and of
\* the least int by -1.
Traps(op, l, r) ==
    op \in {"kOpDiv", "kOpMod"} /\ (r = 0 \/ (r = -1 /\ l = -(2 ^ (Width - 1))))

\* The operators on two ints; a shift uses the low bits of its count.
Arithmetic(op, l, r) ==
    CASE op = "kOpAdd"  -> Wrap(l + r)
      [] op = "kOpSub"  -> Wrap(l - r)
      [] op = "kOpMult" -> Wrap(l * r)
      [] op = "kOpDiv"  -> Quotient(l, r)
      [] op = "kOpMod"  -> l - r * Quotient(l, r)
Comparison(op, l, r) ==
    CASE op = "kOpEqEq" -> Truth(l = r)
      [] op = "kOpNotEqEq" -> Truth(l # r)
      [] op = "kOpGt"   -> Truth(l > r)
      [] op = "kOpGte"  -> Truth(l >= r)
      [] op = "kOpLt"   -> Truth(l < r)
      [] op = "kOpLte"  -> Truth(l <= r)
BitOp(op, l, r) ==
    CASE op = "kOpAnd"  -> FromBits(Bits(l) \cap Bits(r))
      [] op = "kOpOr"   -> FromBits(Bits(l) \cup Bits(r))
      [] op = "kOpXor"  -> FromBits((Bits(l) \ Bits(r)) \cup (Bits(r) \ Bits(l)))
Shift(op, l, r) ==
    CASE op = "kOpLeftShift"  -> Wrap(l * 2 ^ (r % Width))
      [] op = "kOpRightShift" -> l \div 2 ^ (r % Width)
Logical(op, l, r) ==
    CASE op = "kOpOrOr"   -> Truth(l # 0 \/ r # 0)
      [] op = "kOpAndAnd" -> Truth(l # 0 /\ r # 0)

ArithmeticOps == {"kOpAdd", "kOpSub", "kOpMult", "kOpDiv", "kOpMod"}
BitwiseOps    == {"kOpAnd", "kOpOr", "kOpXor"}
ShiftOps      == {"kOpLeftShift", "kOpRightShift"}
LogicalOps    == {"kOpOrOr", "kOpAndAnd"}
ComparisonOps == {"kOpEqEq", "kOpNotEqEq", "kOpGt", "kOpGte", "kOpLt", "kOpLte"}
IntOps        == ArithmeticOps \cup BitwiseOps \cup ShiftOps \cup LogicalOps \cup ComparisonOps

IntResult(op, l, r) ==
    CASE op \in ArithmeticOps -> Arithmetic(op, l, r)
      [] op \in ComparisonOps -> Comparison(op, l, r)
      [] op \in BitwiseOps    -> BitOp(op, l, r)
      [] op \in ShiftOps      -> Shift(op, l, r)
      [] op \in LogicalOps    -> Logical(op, l, r)

\* strcmp.
Characters    == <<"bel", "\t", "\n", "\r", " ", "\"", "-">> \o Digits
                 \o <<"\\", "a", "b", "n", "t", "x", "y">>
CharLess(c, d) == IndexFirstSubSeq(<<c>>, Characters) < IndexFirstSubSeq(<<d>>, Characters)
Before(l, r) ==
    \E k \in 1..Len(r) : /\ \A m \in 1..(k - 1) : At(l, m) = At(r, m)
                         /\ At(l, k) # At(r, k)
                         /\ At(l, k) = "" \/ CharLess(At(l, k), At(r, k))

\* An operator on two strings.
StringResult(op, l, r) ==
    CASE op = "kOpStrEqEq"    -> Truth(l = r)
      [] op = "kOpStrNotEqEq" -> Truth(l # r)
      [] op = "kOpStrCmp"     -> IF l = r THEN 0 ELSE IF Before(l, r) THEN -1 ELSE 1
      [] op = "kOpStrLt"      -> Truth(Before(l, r))
      [] op = "kOpStrLe"      -> Truth(l = r \/ Before(l, r))
      [] op = "kOpStrGt"      -> Truth(Before(r, l))
      [] op = "kOpStrGe"      -> Truth(l = r \/ Before(r, l))

PlainOf == [kOpEqualPlus |-> "kOpAdd", kOpEqualMinus |-> "kOpSub", kOpEqualMult |-> "kOpMult",
            kOpEqualDiv |-> "kOpDiv", kOpEqualMod |-> "kOpMod",
            kOpEqualShiftLeft |-> "kOpLeftShift", kOpEqualShiftRight |-> "kOpRightShift",
            kOpEqualAnd |-> "kOpAnd", kOpEqualOr |-> "kOpOr", kOpEqualXor |-> "kOpXor"]
Steps   == [kOpPlusPlus |-> 1, kOpMinusMinus |-> -1, kOpPlusPlus2 |-> 1, kOpMinusMinus2 |-> -1]

\* get_variable_from_node.  What it finds for '$name' is the current object,
\* where = would put the name, and not what is there under it.  That object
\* is no string, so the caller fails.
get_variable_from_node(st, node) == IF node[1] = 2 THEN access_object(st, node[2]) ELSE 0

\* What ++ and -- give before a variable, and after it.
StepGivesNew(op, old, new) == new                                       \* slip
StepGives(op, old, new)    == IF op \in {"kOpPlusPlus2", "kOpMinusMinus2"} THEN old ELSE new

RECURSIVE run_node(_, _)

\* ++ and --.
RunStep(node, st) ==
    LET id  == get_variable_from_node(st, node[3])
        new == Wrap(atoi(st.objects[id]) + Steps[node[2]])
        old == Wrap(new - Steps[node[2]])
    IN  IF id = 0 THEN Fails(st)
        ELSE Gives("int", StepGives(node[2], old, new),
                   [st EXCEPT !.objects[id] = NumberText(new)])

RunEqual(node, st) ==
    LET right == run_node(node[4], st)
        word  == object_to_str(right.st, right.value)
        where == IF node[3][1] = 2 THEN "locals" ELSE "globals"
        after == Put(right.st, where, node[3][2], word)
    IN  IF right.how # "ok" THEN right
        ELSE IF right.value[1] = "int" THEN Gives("int", right.value[2], after)
        ELSE Gives("string", word, after)

RunCompound(node, st) ==
    LET id    == get_variable_from_node(st, node[3])
        right == run_node(node[4], st)
        l     == atoi(right.st.objects[id])
        r     == object_to_int(right.st, right.value)
        op    == PlainOf[node[2]]
        new   == IntResult(op, l, r)
    IN  IF id = 0 THEN Fails(st)
        ELSE IF right.how # "ok" THEN right
        ELSE IF Traps(op, l, r) THEN Killed(right.st)
        ELSE Gives("int", new, [right.st EXCEPT !.objects[id] = NumberText(new)])

RunQuestion(node, st) ==
    LET left   == run_node(node[3], st)
        chosen == run_node(node[IF object_to_int(left.st, left.value) # 0 THEN 5 ELSE 4], left.st)
    IN  IF left.how # "ok" THEN left
        ELSE IF chosen.how # "ok" THEN chosen
        ELSE Gives("int", object_to_int(chosen.st, chosen.value), chosen.st)

\* Both operands are run, those of && and || too, and read after that.
RunBinary(node, st) ==
    LET left  == run_node(node[3], st)
        right == run_node(node[4], left.st)
        op    == node[2]
        l     == object_to_int(right.st, left.value)
        r     == object_to_int(right.st, right.value)
        lword == object_to_str(right.st, left.value)
        rword == object_to_str(right.st, right.value)
    IN  IF left.how # "ok" THEN left
        ELSE IF right.how # "ok" THEN right
        ELSE IF op = "kOpStrAdd" THEN Gives("string", lword \o rword, right.st)
        ELSE IF op \notin IntOps THEN Gives("int", StringResult(op, lword, rword), right.st)
        ELSE IF Traps(op, l, r) THEN Killed(right.st)
        ELSE Gives("int", IntResult(op, l, r), right.st)

RunUnary(node, st) ==
    LET left   == run_node(node[3], st)
        number == object_to_int(left.st, left.value)
    IN  IF left.how # "ok" THEN left
        ELSE Gives("int", IF node[2] = "kOpTilda" THEN -number - 1 ELSE Truth(number = 0), left.st)

\* xyzsh_eval of the chain of calls, with local objects of its own.  What it
\* prints is the value; if it prints nothing the value is whether its code
\* was 0.
RunFunction(node, st) ==
    LET answer == answers[node[2]]
        after  == IF answer.puts = NULL THEN st ELSE Put(st, "globals", answer.puts, answer.out)
    IN  IF ~answer.ok THEN Fails(after)
        ELSE IF answer.out = <<>> THEN Gives("int", Truth(answer.rcode = 0), after)
        ELSE Gives("string", answer.out, after)

RunVariable(node, st) ==
    LET id == access_object(st, node[2]) IN IF id = 0 THEN Fails(st) ELSE Gives("object", id, st)

run_node(node, st) ==
    CASE node[1] = 1        -> Gives("int", node[2], st)
      [] node[1] \in {2, 3} -> RunVariable(node, st)
      [] node[1] = 4        -> Gives("string", node[2], st)
      [] node[1] = 5        -> RunFunction(node, st)
      [] node[1] = 0        ->
            CASE node[2] \in DOMAIN Steps   -> RunStep(node, st)
              [] node[2] = "kOpEqual"       -> RunEqual(node, st)
              [] node[2] \in DOMAIN PlainOf -> RunCompound(node, st)
              [] node[2] = "kOpQuestion"    -> RunQuestion(node, st)
              [] node[2] \in {"kOpTilda", "kOpExclamation"} -> RunUnary(node, st)
              [] OTHER                      -> RunBinary(node, st)

-----------------------------------------------------------------------------
(* How a tree is written with no more brackets than C needs.               *)

OpRecord  == LET all == UNION ToSet(Levels) IN
             [name \in {o.op : o \in all} |-> CHOOSE o \in all : o.op = name]
LevelOfOp == [name \in DOMAIN OpRecord |-> CHOOSE k \in 1..Equal : OpRecord[name] \in Levels[k]]
LevelOf(node) ==
    IF node[1] # 0 \/ node[2] \in {"kOpPlusPlus2", "kOpMinusMinus2"} THEN -1
    ELSE IF node[4] = NULL THEN 0
    ELSE IF node[2] = "kOpQuestion" THEN Question
    ELSE LevelOfOp[node[2]]

RECURSIVE Written(_), Within(_, _)
Within(node, level) == IF LevelOf(node) > level THEN <<"(">> \o Written(node) \o <<")">>
                       ELSE Written(node)
\* A string value has a backslash before a quote or a backslash, and the
\* letter of a control character behind one.
InQuotes(word) ==
    FlattenSeq([k \in 1..Len(word) |->
        IF word[k] \in {"\"", "\\"} THEN <<"\\", word[k]>>
        ELSE IF word[k] \in Range(Control)
        THEN <<"\\", CHOOSE ch \in DOMAIN Control : Control[ch] = word[k]>>
        ELSE <<word[k]>>])

\* A '.' after a call goes on with the chain of calls, so a call that is
\* the left operand of '.' has brackets too.
Written(node) ==
    CASE node[1] = 1 -> NumberText(node[2])
      [] node[1] = 2 -> <<"m", "y", " ", "$">> \o node[2]
      [] node[1] = 3 -> <<"$">> \o node[2]
      [] node[1] = 4 -> <<"\"">> \o InQuotes(node[2]) \o <<"\"">>
      [] node[1] = 5 -> <<"&">> \o node[2][1]
      [] node[1] = 0 /\ node[2] = "kOpPlusPlus2"   -> Written(node[3]) \o <<"+", "+">>
      [] node[1] = 0 /\ node[2] = "kOpMinusMinus2" -> Written(node[3]) \o <<"-", "-">>
      [] node[1] = 0 /\ LevelOf(node) = 0 ->
            (CASE node[2] = "kOpPlusPlus"    -> <<"+", "+">>
               [] node[2] = "kOpMinusMinus"  -> <<"-", "-">>
               [] node[2] = "kOpTilda"       -> <<"~">>
               [] node[2] = "kOpExclamation" -> <<"!">>) \o Within(node[3], -1)
      [] node[1] = 0 /\ LevelOf(node) = Question ->
            Within(node[3], Question - 1) \o <<" ", "?", " ">> \o Written(node[5])
            \o <<" ", ":", " ">> \o Written(node[4])
      [] node[1] = 0 /\ LevelOf(node) = Equal ->
            Within(node[3], Question) \o <<" ">> \o OpRecord[node[2]].chars \o <<" ">>
            \o Written(node[4])
      [] node[1] = 0 /\ LevelOf(node) \in 1..10 ->
            (IF node[3][1] = 5 /\ node[2] = "kOpStrAdd"
             THEN <<"(">> \o Written(node[3]) \o <<")">>
             ELSE Within(node[3], LevelOf(node)))
            \o <<" ">> \o OpRecord[node[2]].chars \o <<" ">> \o Within(node[4], LevelOf(node) - 1)

-----------------------------------------------------------------------------
Init ==
    /\ \/ meant \in Trees /\ text = Written(meant)
       \/ meant = NULL /\ text \in Strays
    /\ \E st \in Stores : objects = st.objects /\ locals = st.locals /\ globals = st.globals
    /\ answers \in Answers
    /\ nodes = <<>> /\ phase = "parse" /\ n = 1 /\ value = NULL /\ mRCode = 0

\* read_statment after the ':'.  What free does with a pointer nobody wrote
\* is anything: nothing, or the end of the shell.
Parse ==
    /\ phase = "parse"
    /\ \E read \in {colon_statment(text)} :
          /\ nodes' = read.list
          /\ \/ phase' = "run"    /\ read.ok
             \/ phase' = "failed" /\ ~read.ok
             \/ phase' = "killed" /\ ~read.ok /\ read.garbage
    /\ UNCHANGED <<text, meant, n, objects, locals, globals, answers, value, mRCode>>

\* node_tree, for one expression.
node_tree ==
    /\ phase = "run" /\ n <= Len(nodes)
    /\ UNCHANGED <<text, meant, nodes, answers>>
    /\ \E ran \in {run_node(nodes[n], Now)} :
          /\ objects' = ran.st.objects /\ locals' = ran.st.locals /\ globals' = ran.st.globals
          /\ value' = ran.value
          /\ \/ /\ ran.how = "ok"
                /\ mRCode' = IF ran.value[1] = "int" THEN Truth(ran.value[2] = 0) ELSE 0
                /\ n' = n + 1 /\ UNCHANGED phase
             \/ /\ ran.how # "ok" /\ phase' = ran.how
                /\ UNCHANGED <<n, mRCode>>

End ==
    /\ phase = "run" /\ n > Len(nodes)
    /\ phase' = "end"
    /\ UNCHANGED <<text, meant, nodes, n, objects, locals, globals, answers, value, mRCode>>

Next == Parse \/ node_tree \/ End

Spec == Init /\ [][Next]_vars
-----------------------------------------------------------------------------
(* Properties.                                                             *)

Nodes == {node \in ToSet(nodes) : node # NULL}

\* Every tree can be written with only the brackets C needs, and is read
\* back from that: the precedence and the associativity are C's.  And what
\* is accepted of any other text means the same written in that way.
ReadsBackAsWritten ==
    /\ meant # NULL => phase = "parse" \/ nodes = <<meant>>
    /\ phase = "run" /\ meant = NULL => \A node \in Nodes :
          node_expression(Written(node), 1) = Read(node, Len(Written(node)) + 1)

RECURSIVE Parts(_)
Parts(node) == IF node = NULL THEN {}
               ELSE IF node[1] # 0 THEN {node}
               ELSE {node} \cup Parts(node[3]) \cup Parts(node[4]) \cup Parts(node[5])

Updated(node) == {p[3][2] : p \in {q \in Parts(node) :
                    q[1] = 0 /\ q[2] \in DOMAIN Steps \cup DOMAIN PlainOf}}
Replaced(node) == {p[3][2] : p \in {q \in Parts(node) : q[1] = 0 /\ q[2] = "kOpEqual"}}
                  \cup {answers[p[2]].puts : p \in {q \in Parts(node) : q[1] = 5}}

\* No variable is named as a left operand and updated in the right one, and
\* none is replaced while it waits to be updated itself.
Independent(node) ==
    \A p \in Parts(node) : p[1] = 0 /\ p[4] # NULL /\ IsVar(p[3]) /\ p[2] # "kOpEqual" =>
        /\ p[3][2] \notin Updated(p[4])
        /\ p[2] \in DOMAIN PlainOf => p[3][2] \notin Replaced(p[4])

Words(names) == [name \in DOMAIN names |-> objects[names[name]]]

\* What a tree means if every operand is a value the moment it is run.
RECURSIVE Means(_, _)
Means(node, env) ==
    LET m(k)     == Means(node[k], env)
        read(name, e) == IF name \in DOMAIN e.locals THEN e.locals[name] ELSE e.globals[name]
        name     == node[3][2]
        stored(e, word) == IF name \in DOMAIN e.locals THEN [e EXCEPT !.locals[name] = word]
                           ELSE [e EXCEPT !.globals[name] = word]
        is(word, e) == [word |-> word, env |-> e]
        number(k, e) == is(NumberText(k), e)
    IN  CASE node[1] = 1 -> is(NumberText(node[2]), env)
          [] node[1] = 4 -> is(node[2], env)
          [] node[1] \in {2, 3} -> is(read(node[2], env), env)
          [] node[1] = 5 ->
                LET answer == answers[node[2]]
                    after  == IF answer.puts = NULL THEN env
                              ELSE [env EXCEPT !.globals = (answer.puts :> answer.out) @@ @]
                IN  IF answer.out = <<>> THEN number(Truth(answer.rcode = 0), after)
                    ELSE is(answer.out, after)
          [] node[1] = 0 ->
                CASE node[2] \in DOMAIN Steps ->
                        LET new == Wrap(atoi(read(name, env)) + Steps[node[2]]) IN
                        [word |-> IF node[2] \in {"kOpPlusPlus", "kOpMinusMinus"}
                                  THEN NumberText(new) ELSE NumberText(Wrap(new - Steps[node[2]])),
                         env |-> stored(env, NumberText(new))]
                  [] node[2] = "kOpEqual" ->
                        is(m(4).word,
                           IF node[3][1] = 2
                           THEN [m(4).env EXCEPT !.locals = (name :> m(4).word) @@ @]
                           ELSE [m(4).env EXCEPT !.globals = (name :> m(4).word) @@ @])
                  [] node[2] \in DOMAIN PlainOf ->
                        LET new == IntResult(PlainOf[node[2]], atoi(read(name, env)), atoi(m(4).word))
                        IN  number(new, stored(m(4).env, NumberText(new)))
                  [] node[2] = "kOpQuestion" ->
                        LET chosen == Means(node[IF atoi(m(3).word) # 0 THEN 5 ELSE 4], m(3).env)
                        IN  number(atoi(chosen.word), chosen.env)
                  [] node[2] = "kOpTilda"       -> number(-atoi(m(3).word) - 1, m(3).env)
                  [] node[2] = "kOpExclamation" -> number(Truth(atoi(m(3).word) = 0), m(3).env)
                  [] OTHER ->
                        LET right == Means(node[4], m(3).env) IN
                        IF node[2] = "kOpStrAdd" THEN is(m(3).word \o right.word, right.env)
                        ELSE IF node[2] \in IntOps
                        THEN number(IntResult(node[2], atoi(m(3).word), atoi(right.word)), right.env)
                        ELSE number(StringResult(node[2], m(3).word, right.word), right.env)

\* Where a part of an expression may fail: a name that stands for nothing, a
\* called function that fails, and ++ or += of a name without my.
MayFail(p) ==
    \/ IsVar(p) /\ p[2] \notin DOMAIN locals \cup DOMAIN globals
    \/ p[1] = 5 /\ ~answers[p[2]].ok
    \/ p[1] = 0 /\ p[2] \in DOMAIN Steps \cup DOMAIN PlainOf /\ p[3][1] = 3

\* An expression that names no variable as an operand before it changes it
\* gives, and leaves in the variables, what it does if every operand is read
\* the moment it is run: although values are read late, and an assignment
\* replaces the object that another one may have in its hand.  It is for
\* MayFail that one fails, and only a division ends the shell.
ValueAsRead ==
    /\ phase = "run" /\ n' = n + 1 /\ Independent(nodes[n]) =>
        LET expected == Means(nodes[n], [locals |-> Words(locals), globals |-> Words(globals)])
        IN  /\ expected.word = object_to_str(Now', value')
            /\ expected.env = [locals |-> Words(locals)', globals |-> Words(globals)']
    /\ phase = "run" /\ phase' = "failed" => \E p \in Parts(nodes[n]) : MayFail(p)
    /\ phase = "run" /\ phase' = "killed" => \E p \in Parts(nodes[n]) :
          p[1] = 0 /\ p[2] \in {"kOpDiv", "kOpMod", "kOpEqualDiv", "kOpEqualMod"}
ValuesAsRead == [][ValueAsRead]_vars

=============================================================================
