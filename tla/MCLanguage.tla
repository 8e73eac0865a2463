------------------------------- MODULE MCLanguage ------------------------------
(***************************************************************************)
(* Instances of the language for TLC: StatementList, Expression, and        *)
(* Expansion with the Parser.  A behaviour is of one of them, its subject,  *)
(* and the others rest; what they have in common is one set of variables.   *)
(***************************************************************************)
EXTENDS Expression, StatementList

VARIABLES
    subject,
    way, alias, output, external, block, command, args, options, redirects, ran

ofExpression == <<nodes, n, objects, globals, answers, value>>
ofExpansion  == <<way, alias, output, external, block, command, args, options, redirects, ran>>
allVars == <<subject, text, meant, locals, mRCode, phase, blockVars, ofExpression, ofExpansion>>

-----------------------------------------------------------------------------
\* Expressions: every operator group as an operand of every other, with
\* numbers, a string, a name that is a local object and one that is of the
\* current object, both written with my and without, and a call that answers
\* or sets one of them.  Strings that hold what must be escaped, and ++ and the
\* like of a name without my, are beside every operator group.
NameX   == <<"x">>
NameY   == <<"y">>
Called  == << <<"f">> >>
X       == Var(NameX)
Y       == GlobalVar(NameY)
Leaves  == {Value(2), X, StringValue(<<"3">>)}
Binaries == {"kOpMult", "kOpSub", "kOpStrAdd", "kOpAndAnd", "kOpOr", "kOpLt", "kOpStrCmp",
             "kOpLeftShift"}
Binary(lefts, rights) == {Operand(o, l, r, NULL) : o \in Binaries, l \in lefts, r \in rights}
Assigning(names, rights) ==
    {Operand(o, l, r, NULL) : o \in {"kOpEqual", "kOpEqualPlus", "kOpEqualDiv"},
                              l \in names, r \in rights}
Storing(rights) == Assigning({X}, rights) \cup {Operand("kOpEqual", Y, r, NULL) : r \in rights}
Unary  == {Operand("kOpPlusPlus", X, NULL, NULL), Operand("kOpMinusMinus2", X, NULL, NULL),
           Operand("kOpExclamation", Y, NULL, NULL), Function(Called)}
Simple == Leaves \cup Unary
Deeper == Unary \cup Binary(Leaves, {Value(2), X}) \cup Storing({Value(2), X})
          \cup {Operand("kOpQuestion", X, Value(2), Y),
                Operand("kOpEqual", GlobalVar(NameX), X, NULL),
                Operand("kOpEqualPlus", Var(NameY), Value(2), NULL)}
Escapes == {StringValue(<<"\n", "1">>), StringValue(<<"\"", "n", "\\">>), StringValue(<<"bel", "\t">>)}
Global  == Assigning({Y, GlobalVar(NameX)}, {X, Y})
           \cup {Operand("kOpPlusPlus", Y, NULL, NULL), Operand("kOpMinusMinus2", Y, NULL, NULL),
                 Operand("kOpPlusPlus2", GlobalVar(NameX), NULL, NULL)}
MCTrees == Binary(Deeper, Simple) \cup Binary(Simple, Deeper) \cup Storing(Deeper)
           \cup Binary(Escapes, Escapes \cup Simple) \cup Storing(Escapes)
           \cup Binary(Global, Leaves) \cup Binary(Leaves, Global) \cup Storing(Global)
           \cup {Operand("kOpQuestion", k, l, m) : k \in Simple, l \in Deeper, m \in Leaves}
MCStrays == LET short == UNION {[1..k -> {"$", "x", "1", "+", "="}] : k \in 0..4}
            IN  short \cup {<<"m", "y">> \o s : s \in short}
                \cup {<<"m", "y", " ", "$", "x", " ", "=", "$", "x", "-", "-">>,
                      <<"$", "x", " ", "+", " ", "\"", "x">>, <<"\"", "\n", "\\", "m", "\"">>,
                      <<"1", ",", "2">>}
MCStores == {[objects |-> << <<"2">>, <<"-", "7">> >>,
              locals |-> (NameX :> 1), globals |-> (NameY :> 2)]}
MCAnswers == {Called :> [ok |-> TRUE, out |-> <<"4">>, rcode |-> 0, puts |-> NameX],
              Called :> [ok |-> TRUE, out |-> <<>>, rcode |-> 1, puts |-> NULL]}

-----------------------------------------------------------------------------
\* Texts: all short ones of the characters that begin or end something, every
\* word of two characters in every way to quote it, and calls, of a command
\* and of an alias, with every two of the kinds of arguments.
Chars   == {"a", "n", " ", "'", "\"", "\\", "$", "*", "~", "-", "#", "(", ")", ">", "1",
            "backquote", "\n"}
MCMeanings == {<<word, <<"a">> >> : word \in UNION {[1..k -> Chars] : k \in 0..2}}
MCTexts == UNION {[1..k -> {"a", " ", "'", "$", "(", ")", "backquote", "|", ">", "\\", "#", "&"}]
                  : k \in 0..4}
           \cup {<<"c", " ", "\"", "\\", "n", "\"">>,
                 <<"$", "(", "a", " ", "$", "(", "a", ")", ")">>,
                 <<"c", " ", "(", "a", " ", "backquote", "$", "(", "a", ")", "backquote", ")">>}
MCAliases == {<<>>, <<"c", " ", "-", "b", " ", "$", "y">>, <<"c", " ", "a", ";", "c">>,
              <<"c", " ", "$", "(", "a", ")">>, <<"c", " ", "\"", "$", "(", "a", ")", "\"">>}
Pieces == {<<"$", "x">>, <<"\"", "$", "x", "\"">>, <<"$", "(", "a", ")">>, <<"a", "*">>,
           <<"$", "y", "[", "1", "]">>, <<"$", "k", "[", "$", "x", "]">>, <<"-", "a">>,
           <<"-", "b">>, <<"$", "-", "x">>, <<"$", "-", "y">>, <<"$", "{", "w", "=", "a", "}">>,
           <<"$", "w">>, <<">", "$", "x">>, <<">", "a">>, <<"$", "q">>, <<"*", "$", "-", "y">>}
MCCalls   == {<<"c", " ">> \o p \o <<" ">> \o q : p \in Pieces, q \in Pieces}
MCLocals  == <<"u">> :> [kind |-> "string", text |-> <<"n">>]
MCGlobals == (<<"x">> :> [kind |-> "string", text |-> <<"a", "b">>])
             @@ (<<"y">> :> [kind |-> "vector", items |-> << <<"-", "a">>, <<"b">>, <<"c">> >>])
             @@ (<<"k">> :> [kind |-> "hash", items |-> (<<"a", "b">> :> <<"m">>)])

A == INSTANCE Expansion WITH
        STATMENT_COMMANDS_MAX <- 3, gAppType <- "kATConsole", Homes <- <<>>, Freed <- <<"name">>,
        Texts <- MCTexts, Meanings <- MCMeanings, Calls <- MCCalls, Aliases <- MCAliases,
        Locals <- MCLocals, Globals <- MCGlobals, Environ <- (<<"q">> :> <<"t">>),
        Outputs <- {<<>>, <<"a", "\n", "b", "\n">>, <<"a", "\n">>, <<"b">>},
        Files <- (<<"a", "*">> :> << <<"a", "a">>, <<"a", "b">> >>),
        WithArgument <- {<<"-", "a">>}

-----------------------------------------------------------------------------
StatementsRest == /\ stmts = <<Expression>> /\ i = 1 /\ rcode = "0" /\ code = <<"none">>
                  /\ gpipe = <<>> /\ state = "run"
ExpressionRests == /\ nodes = NULL /\ n = 0 /\ objects = NULL /\ globals = NULL
                   /\ answers = NULL /\ value = NULL
ExpansionRests == /\ way = "none" /\ alias = NULL /\ output = NULL /\ external = FALSE
                  /\ block = NULL /\ command = NULL /\ args = NULL /\ options = NULL
                  /\ redirects = NULL /\ ran = NULL

LanguageInit ==
    \/ /\ subject = "statements" /\ BlockInit
       /\ text = NULL /\ meant = NULL /\ locals = NULL /\ mRCode = "0" /\ phase = "end"
       /\ ExpressionRests /\ ExpansionRests
    \/ subject = "expression" /\ Init /\ StatementsRest /\ ExpansionRests
    \/ /\ subject = "expansion" /\ A!ExpansionInit
       /\ mRCode = "0" /\ StatementsRest /\ ExpressionRests

LanguageNext ==
    /\ UNCHANGED subject
    /\ \/ /\ subject = "statements" /\ BlockNext
          /\ UNCHANGED <<text, meant, locals, mRCode, phase, ofExpression, ofExpansion>>
       \/ subject = "expression" /\ Next /\ UNCHANGED <<blockVars, ofExpansion>>
       \/ /\ subject = "expansion" /\ A!ExpansionNext
          /\ UNCHANGED <<mRCode, blockVars, ofExpression>>

LanguageSpec == LanguageInit /\ [][LanguageNext]_allVars

\* The properties of expressions and expansion, under their own names.
TreesReadBack      == subject = "expression" => ReadsBackAsWritten
LateReads          == [][subject = "expression" => ValueAsRead]_allVars
ReadingEnds        == subject = "expansion" => A!ReadingEnds
ReadsAsMeant       == subject = "expansion" => A!ReadsAsMeant /\ A!SourceReadsAgain
AliasPassesOn      == subject = "expansion" => A!AliasPassesOn
===============================================================================
