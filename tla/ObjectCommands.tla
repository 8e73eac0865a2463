--------------------------- MODULE ObjectCommands ---------------------------
(***************************************************************************)
(* cmd_obj.c: the commands that make, read and name objects -- var, ary,   *)
(* hash, object, run, def, class, alias, ref, export, unset, defined,      *)
(* typeof, objinfo, show and pwo -- over the tree of named objects, the    *)
(* local variables of the running function and the environment.            *)
(*                                                                         *)
(* A text is a sequence of words and line ends; an argument is the         *)
(* sequence of names between its "::", the first of them "" when it begins *)
(* at the root.  The -L options choose among line ends, and there is one   *)
(* here; the native functions of an object are all the one object Native.  *)
(* What is garbage is never collected here: Collector does that.  A class  *)
(* that is run gets no local variables; -copy-stackframe is left out.      *)
(***************************************************************************)
EXTENDS Integers, SequencesExt, TLC

CONSTANTS
    Starts,         \* [heap, locals, current] a command line may begin with
    Inputs,         \* texts that come from a pipe
    Arguments,      \* sequences of arguments
    Sources,        \* the texts of blocks
    Unparsable,     \* the texts parse() refuses
    Indexes,        \* arguments of -index and -insert
    Address(_),     \* what printf("%p") makes of an address
    MaxCommands, MaxObjects, MaxBlocks      \* bounds

VARIABLES
    heap,           \* the objects, by address
    locals,         \* mLocalObjects of the running function
    current,        \* runinfo->mCurrentObject
    environ,        \* the environment
    gObjectsInPipe, \* the objects whose address a pipe may hold
    blocks,         \* the blocks that run, the innermost last
    last,           \* the last command, for the properties
    written,        \* SFD(nextout): what the commands wrote
    mRCode, returned, alive, commands

objects == <<heap, locals, current, environ, gObjectsInPipe, blocks, last, written, mRCode,
          returned, alive, commands>>

RCODE_NFUN_INVALID_USSING == 8192
RCODE_NFUN_NULL_INPUT     == 16384
RCODE_NFUN_FALSE          == 4096

NULL   == 0
Root   == 1
Native == 2

\* What uobject_init puts into an object, newest first.
InitialItems(self, parent) ==
    << <<<<"show">>, Native>>, <<<<"parent">>, parent>>, <<<<"root">>, Root>>,
       <<<<"self">>, self>>, <<<<"run">>, Native>> >>
UserObject(self, parent, name) ==
    [type |-> "object", name |-> name, parent |-> parent, items |-> InitialItems(self, parent)]

ObjectsInit ==
    /\ \E s \in Starts : heap = s.heap /\ locals = s.locals /\ current = s.current
    /\ environ = <<>> /\ gObjectsInPipe = {} /\ blocks = <<>>
    /\ last = [name |-> "none"] /\ written = <<>>
    /\ mRCode = 0 /\ returned = TRUE /\ alive = TRUE /\ commands = 0
-----------------------------------------------------------------------------
(* Texts and tables.                                                       *)

End       == "\n"
Line(s)   == Append(s, End)
Text(lines) == FlattenSeq([n \in DOMAIN lines |-> Line(lines[n])])

\* fd_split without line ends; one at the end of the text begins no line.
LinesOf(text) ==
    LET Read(so, c) == IF c = End THEN [all |-> Append(so.all, so.now), now |-> <<>>]
                       ELSE [so EXCEPT !.now = Append(@, c)]
        read[n \in 0..Len(text)] ==
            IF n = 0 THEN [all |-> <<>>, now |-> <<>>] ELSE Read(read[n - 1], text[n])
        Whole(so) == IF so.now = <<>> THEN so.all ELSE Append(so.all, so.now)
    IN  Whole(read[Len(text)])
From(lines, n) == SubSeq(lines, n, Len(lines))

\* hash_put, uobject_put and their lookups, as HashTable has them: what is
\* new comes first, what is there keeps its place.
Has(table, key) == \E n \in DOMAIN table : table[n][1] = key
At(table, key)  == table[CHOOSE n \in DOMAIN table : table[n][1] = key][2]
\* (Here and below, a definition marked "slip" is one of the ways to get the
\* one after it wrong; the properties tell them apart.)
Put(table, key, item) ==
    IF Has(table, key)
    THEN [n \in DOMAIN table |-> IF table[n][1] = key THEN <<key, item>> ELSE table[n]]
    ELSE << <<key, item>> >> \o table
TakeWhileNot(s, x) ==
    SubSeq(s, 1, CHOOSE n \in 0..Len(s) : /\ \A m \in 1..n : s[m] # x
                                          /\ n = Len(s) \/ s[n + 1] = x)
-----------------------------------------------------------------------------
(* object.c: how an argument is looked up, in a world of objects, local    *)
(* variables and a current object.                                         *)

World == [heap |-> heap, locals |-> locals, current |-> current, ok |-> TRUE]

Typed(w, object) == IF object = NULL THEN "" ELSE w.heap[object].type

IsUser(w, o) == o \in DOMAIN w.heap /\ w.heap[o].type = "object"

uobject_item(w, object, name) ==
    IF Has(w.heap[object].items, name) THEN At(w.heap[object].items, name) ELSE NULL

\* What each object has under a name, itself or from its parents.
Inherited(w, name) ==
    LET from[o \in 0..Len(w.heap)] ==
            IF ~IsUser(w, o) THEN NULL
            ELSE IF uobject_item(w, o, name) # NULL \/ o = Root THEN uobject_item(w, o, name)
            ELSE from[w.heap[o].parent]
    IN  from
access_object(w, name) ==
    IF Has(w.locals, name) THEN At(w.locals, name) ELSE Inherited(w, name)[w.current]

\* The object in front of the last "::", and the one last looked at if there
\* is none.
Prefix(w, argument) ==
    LET In(item) == [ok |-> Typed(w, item) = "object", object |-> item, first |-> FALSE]
        Step(at, name) ==
            IF ~at.ok THEN at
            ELSE IF name = "" /\ ~at.first THEN [at EXCEPT !.ok = FALSE]
            ELSE In(IF name = "" THEN Root
                    ELSE IF at.first THEN access_object(w, <<name>>)
                    ELSE uobject_item(w, at.object, <<name>>))
        at[n \in 0..(Len(argument) - 1)] ==
            IF n = 0 THEN [ok |-> TRUE, object |-> w.current, first |-> TRUE]
            ELSE Step(at[n - 1], argument[n])
    IN  at[Len(argument) - 1]

get_object_from_argument(w, argument) ==
    LET Item(at, name) == IF at.first THEN access_object(w, name)
                          ELSE uobject_item(w, at.object, name)
        Answer(item)   == [ok |-> item # NULL, object |-> item]
        Behind(at)     == IF at.ok THEN Answer(Item(at, <<Last(argument)>>))
                          ELSE [ok |-> FALSE, object |-> at.object]
    IN  Behind(Prefix(w, argument))

\* A name is put where its prefix says, and into the current object without
\* one; with -local the argument as it is written is the name.
PutAtRoot(w, argument) ==                                                   \* slip
    LET at == Prefix(w, argument) IN IF at.first THEN [at EXCEPT !.object = Root] ELSE at
get_object_prefix_and_name_from_argument(w, argument) == Prefix(w, argument)

PutLocal(w, key, object)    == [w EXCEPT !.locals = Put(@, key, object)]
PutItem(w, o, key, object)  == [w EXCEPT !.heap[o].items = Put(@, key, object)]
PutValue(w, o, value)       == [w EXCEPT !.heap[o].value = value]
Fails(w)                    == [w EXCEPT !.ok = FALSE]

Bind(w, argument, object, local) ==
    LET at == get_object_prefix_and_name_from_argument(w, argument)
    IN  IF ~w.ok THEN w
        ELSE IF local THEN PutLocal(w, argument, object)
        ELSE IF at.ok THEN PutItem(w, at.object, <<Last(argument)>>, object)
        ELSE Fails(w)

New(w)        == Len(w.heap) + 1
Made(w, item) == IF w.ok THEN [w EXCEPT !.heap = Append(@, item)] ELSE w
BindOver(w, argument, item, local) ==                                       \* slip
    LET at == get_object_from_argument(w, argument)
    IN  IF at.ok /\ Typed(w, at.object) = item.type /\ w.ok
        THEN [w EXCEPT !.heap[at.object] = item] ELSE Bind(Made(w, item), argument, New(w), local)
BindNew(w, argument, item, local) == Bind(Made(w, item), argument, New(w), local)
-----------------------------------------------------------------------------
(* Commands.                                                               *)

Goes == alive /\ commands < MaxCommands /\ (returned \/ blocks = <<>>)

Find(argument) == get_object_from_argument(World, argument)

NoPipe == [filter |-> FALSE, text |-> <<>>]
\* What a filter reads: another text, or what the command before it wrote.
Filters ==
    {[filter |-> TRUE, text |-> t] :
        t \in Inputs \cup (IF blocks = <<>> /\ returned THEN {written} ELSE {})}
ReadCode(in) == IF in.text = <<>> THEN RCODE_NFUN_NULL_INPUT ELSE 0

\* The code a command that fails leaves.  run() has set it before the command,
\* and these set it anew with each argument they are done with.
Types == {"var", "array", "hash", "object", "function", "class", "alias", "native function"}
TypesOfEach ==
    [name \in {"var"} |-> {"var"}]
    @@ [name \in {"ary -size", "ary -index", "ary"} |-> {"array"}]
    @@ [name \in {"hash -size", "hash -key", "hash"} |-> {"hash"}]
    @@ [name \in {"typeof", "ref"} |-> Types]
FailedCode(command) ==
    IF command.name \in DOMAIN TypesOfEach
    THEN LET at == Find(command.args[1])
         IN  IF at.ok /\ Typed(World, at.object) \in TypesOfEach[command.name]
             THEN 0 ELSE RCODE_NFUN_INVALID_USSING
    ELSE RCODE_NFUN_INVALID_USSING

\* run() takes a command that has not set its code, or has failed, for the
\* end of what it runs.
Ran(command, w, out, rcode) ==
    /\ Goes
    /\ \E then \in {w}, wrote \in {out} :
        /\ Len(then.heap) <= MaxObjects
        /\ heap' = then.heap /\ locals' = then.locals
        /\ written' = IF blocks = <<>> THEN wrote ELSE written \o wrote
        /\ last' = [command EXCEPT !.out = wrote]
        /\ mRCode' = IF then.ok THEN rcode ELSE FailedCode(command)
        /\ returned' = (then.ok /\ rcode # RCODE_NFUN_INVALID_USSING)
    /\ commands' = commands + 1

Rest == UNCHANGED <<current, environ, gObjectsInPipe, blocks, alive>>

Command(name, args, in) == [name |-> name, args |-> args, in |-> in.text, out |-> <<>>,
                            local |-> FALSE, shift |-> FALSE, n |-> 0]
Local(command, local) == [command EXCEPT !.local = local]
Shift(command, shift) == [command EXCEPT !.shift = shift]

\* The commands that print something of each argument, up to the first that
\* is not of one of the types.
Printed(w, args, types, shown) ==
    LET Next1(so, at) ==
            IF ~so.ok \/ ~at.ok \/ Typed(w, at.object) \notin types THEN Fails(so)
            ELSE [ok |-> TRUE, out |-> so.out \o shown[at.object], of |-> so.of \cup {at.object}]
        so[n \in 0..Len(args)] ==
            IF n = 0 THEN [ok |-> TRUE, out |-> <<>>, of |-> {}]
            ELSE Next1(so[n - 1], get_object_from_argument(w, args[n]))
    IN  so[Len(args)]
Prints(name, args, n, types, shown) ==
    \E printed \in {Printed(World, args, types, shown)} :
        /\ Ran([Command(name, args, NoPipe) EXCEPT !.n = n], [World EXCEPT !.ok = printed.ok],
               printed.out, 0)
        /\ Rest

\* What printf("%d") makes of a number; the proofs know that it is a string.
Numeral(n) == IF ToString(n) \in STRING THEN ToString(n) ELSE ""
Decimal(n) == Line(<<Numeral(n)>>)

\* With -new: an object without a name, whose address is printed.
PrintsNew(command, item, rest, rcode) ==
    /\ Ran(command, Made(World, item), Line(<<Address(New(World))>>) \o rest, rcode)
    /\ gObjectsInPipe' = gObjectsInPipe \cup {New(World)}
    /\ UNCHANGED <<current, environ, blocks, alive>>

\* What -shift passes on: the lines from the n-th.
Passed(shift, lines, n)      == IF shift THEN Text(From(lines, n)) ELSE <<>>

VarsBound(w, args, lines, local) ==
    LET Var(so, n) == BindNew(so, args[n], [type |-> "var", value |->
                                 IF n <= Len(lines) THEN lines[n] ELSE <<>>], local)
        so[n \in 0..Len(args)] == IF n = 0 THEN w ELSE Var(so[n - 1], n)
    IN  so[Len(args)]

cmd_var ==
    \/ \E args \in Arguments :
        Prints("var", args, 0, {"var"}, [o \in DOMAIN heap |-> Line(heap[o].value)])
    \/ \E args \in Arguments, in \in Filters, local, shift \in BOOLEAN :
        LET lines == LinesOf(in.text)
            w == VarsBound(World, args, lines, local)
        IN  /\ Ran(Shift(Local(Command("| var", args, in), local), shift), w,
                   IF w.ok THEN Passed(shift, lines, Len(args) + 1) ELSE <<>>, ReadCode(in))
            /\ Rest
    \/ \E in \in Filters, shift \in BOOLEAN :
        LET lines == LinesOf(in.text)
        IN  PrintsNew(Shift(Command("| var -new", <<>>, in), shift),
                      [type |-> "var", value |-> IF lines = <<>> THEN <<>> ELSE lines[1]],
                      Passed(shift, lines, 2), ReadCode(in))
-----------------------------------------------------------------------------
(* Arrays and hashes.                                                      *)

\* The array or hash -insert and -append add to.  When there is none, only
\* the current object gets one, and under the argument as it is written.
Growing(w, type, argument, local) ==
    LET at   == get_object_prefix_and_name_from_argument(w, argument)
        item == IF local THEN (IF Has(w.locals, argument) THEN At(w.locals, argument) ELSE NULL)
                ELSE IF at.ok THEN uobject_item(w, at.object, <<Last(argument)>>) ELSE NULL
        made == Made(w, [type |-> type, value |-> <<>>])
    IN  IF Typed(w, item) = type THEN [world |-> w, object |-> item]
        ELSE IF local THEN [world |-> PutLocal(made, argument, New(w)), object |-> New(w)]
        ELSE IF at.ok /\ at.object = w.current
        THEN [world |-> PutItem(made, w.current, argument, New(w)), object |-> New(w)]
        ELSE [world |-> Fails(w), object |-> NULL]

Grows(command, to, value, in) ==
    /\ Ran(command, IF to.world.ok THEN PutValue(to.world, to.object, value) ELSE to.world,
           <<>>, ReadCode(in))
    /\ Rest
Holding(to) == to.world.heap[to.object].value

\* -insert counts from the end with negative numbers, of which -1 is behind
\* the last item; -index counts so the items there are.
PlaceShort(n, count) == LET k == IF n < 0 THEN n + count ELSE n                 \* slip
                        IN  IF k < 0 THEN 0 ELSE IF k > count THEN count ELSE k
PlaceOf(n, count) == LET k == IF n < 0 THEN n + count + 1 ELSE n
                   IN  IF k < 0 THEN 0 ELSE IF k > count THEN count ELSE k
Inserted(items, n, lines) ==
    LET k == PlaceOf(n, Len(items))
        new == IF lines = <<>> THEN << <<>> >> ELSE lines
    IN  SubSeq(items, 1, k) \o new \o From(items, k + 1)

Indexed(items, n) ==
    LET k == IF n < 0 THEN n + Len(items) ELSE n
    IN  IF items = <<>> THEN <<>>
        ELSE IF k \in 0..(Len(items) - 1) THEN Line(items[k + 1]) ELSE Line(<<>>)

cmd_ary ==
    \/ \E args \in Arguments :
        Prints("ary -size", args, 0, {"array"}, [o \in DOMAIN heap |-> Decimal(Len(heap[o].value))])
    \/ \E args \in Arguments, n \in Indexes :
        Prints("ary -index", args, n, {"array"}, [o \in DOMAIN heap |-> Indexed(heap[o].value, n)])
    \/ \E args \in Arguments :
        Prints("ary", args, 0, {"array"}, [o \in DOMAIN heap |-> Text(heap[o].value)])
    \/ \E in \in Filters :
        PrintsNew(Command("| ary -new", <<>>, in), [type |-> "array", value |-> LinesOf(in.text)],
                  <<>>, ReadCode(in))
    \/ \E args \in Arguments, in \in Filters, local \in BOOLEAN, n \in Indexes \cup {-1} :
        /\ Len(args) = 1
        /\ \E to \in {Growing(World, "array", args[1], local)} :
              Grows([Local(Command("| ary -insert", args, in), local) EXCEPT !.n = n], to,
                    Inserted(Holding(to), n, LinesOf(in.text)), in)
    \/ \E args \in Arguments, in \in Filters, local \in BOOLEAN :
        /\ Len(args) = 1
        /\ Ran(Local(Command("| ary", args, in), local),
               BindNew(World, args[1], [type |-> "array", value |-> LinesOf(in.text)], local),
               <<>>, ReadCode(in))
        /\ Rest

\* Lines are keys and items by turns; a key at the end gets "".
PairsPut(table, lines) ==
    LET Pair(so, n) == Put(so, lines[2 * n - 1],
                           IF 2 * n <= Len(lines) THEN lines[2 * n] ELSE <<>>)
        so[n \in 0..((Len(lines) + 1) \div 2)] == IF n = 0 THEN table ELSE Pair(so[n - 1], n)
    IN  so[(Len(lines) + 1) \div 2]
PairsText(table) == Text(FlattenSeq(table))

cmd_hash ==
    \/ \E args \in Arguments :
        Prints("hash -size", args, 0, {"hash"}, [o \in DOMAIN heap |-> Decimal(Len(heap[o].value))])
    \/ \E args \in Arguments, key \in UNION {ToSet(LinesOf(t)) : t \in Inputs} :
        Prints("hash -key", args, 0, {"hash"}, [o \in DOMAIN heap |->
               Line(IF Has(heap[o].value, key) THEN At(heap[o].value, key) ELSE <<>>)])
    \/ \E args \in Arguments :
        Prints("hash", args, 0, {"hash"}, [o \in DOMAIN heap |-> PairsText(heap[o].value)])
    \/ \E in \in Filters :
        PrintsNew(Command("| hash -new", <<>>, in),
                  [type |-> "hash", value |-> PairsPut(<<>>, LinesOf(in.text))], <<>>, ReadCode(in))
    \/ \E args \in Arguments, in \in Filters, local \in BOOLEAN :
        /\ Len(args) = 1
        /\ \E to \in {Growing(World, "hash", args[1], local)} :
              Grows(Local(Command("| hash -append", args, in), local), to,
                    PairsPut(Holding(to), LinesOf(in.text)), in)
    \/ \E args \in Arguments, in \in Filters, local \in BOOLEAN :
        /\ Len(args) = 1
        /\ Ran(Local(Command("| hash", args, in), local),
               BindNew(World, args[1], [type |-> "hash", value |-> PairsPut(<<>>, LinesOf(in.text))], local),
               <<>>, ReadCode(in))
        /\ Rest
-----------------------------------------------------------------------------
(* Objects and the blocks that run with one as the current object.         *)

\* What a block remembers: where it came from, and what is left to do.
Block(kind) == [kind |-> kind, args |-> <<>>, local |-> FALSE, object |-> NULL,
                current |-> current, locals |-> locals]

\* run begins: the code of a block that runs no command is 0.
Enters(block, w, object) ==
    /\ heap' = w.heap /\ locals' = w.locals /\ current' = object
    /\ blocks' = Append(blocks, block)
    /\ mRCode' = 0 /\ returned' = TRUE

\* An object has the argument as it is written for a name and the current
\* object for a parent, wherever it is put.
WithObject(w, argument, local) ==
    BindNew(w, argument, UserObject(New(w), w.current, argument), local)

ObjectsMade(w, args, local) ==
    LET so[n \in 0..Len(args)] == IF n = 0 THEN w ELSE WithObject(so[n - 1], args[n], local)
    IN  so[Len(args)]

cmd_object ==
    \/ \E args \in Arguments, local \in BOOLEAN :
        /\ Ran(Local(Command("object", args, NoPipe), local),
               ObjectsMade(World, args, local), <<>>, 0)
        /\ Rest
    \/ /\ PrintsNew(Command("object -new", <<>>, NoPipe),
                    UserObject(New(World), current, <<"anonymous">>), <<>>, 0)
    \/ \E args \in Arguments, local \in BOOLEAN :
        \E w \in {WithObject(World, args[1], local)} :
        /\ Goes /\ Len(blocks) < MaxBlocks /\ Len(w.heap) <= MaxObjects
        /\ \/ w.ok /\ Enters([Block("object") EXCEPT !.args = Tail(args), !.local = local],
                             w, New(World))
           \/ ~w.ok /\ returned' = FALSE /\ mRCode' = RCODE_NFUN_INVALID_USSING
              /\ UNCHANGED <<heap, locals, current, blocks>>
        /\ last' = [Command("object (", args, NoPipe) EXCEPT !.local = local]
        /\ written' = IF blocks = <<>> THEN <<>> ELSE written
        /\ commands' = commands + 1
        /\ UNCHANGED <<environ, gObjectsInPipe, alive>>
    \/ LET w == Made(World, UserObject(New(World), current, <<"anonymous">>)) IN
        /\ Goes /\ Len(blocks) < MaxBlocks /\ Len(w.heap) <= MaxObjects
        /\ Enters([Block("object -new") EXCEPT !.object = New(World)], w, New(World))
        /\ last' = Command("object (", <<>>, NoPipe)
        /\ written' = IF blocks = <<>> THEN <<>> ELSE written
        /\ commands' = commands + 1
        /\ UNCHANGED <<environ, gObjectsInPipe, alive>>

\* An object's run: a block with the object as the current one, or a class,
\* which also gets local variables of its own.
cmd_mrun ==
    \E argument \in UNION {ToSet(args) : args \in Arguments} :
        \E at \in {Find(argument)} :
        /\ Goes /\ Len(blocks) < MaxBlocks
        /\ at.ok /\ heap[at.object].type = "object"
        /\ \/ Enters(Block("run"), World, at.object)
           \/ \E class \in UNION {ToSet(args) : args \in Arguments} :
                /\ Len(class) = 1
                /\ LET item == access_object(World, class)
                   IN  \/ /\ Typed(World, item) = "class"
                          /\ Enters(Block("class"), [World EXCEPT !.locals = <<>>], at.object)
                       \/ /\ Typed(World, item) # "class"
                          /\ returned' = FALSE /\ mRCode' = RCODE_NFUN_INVALID_USSING
                          /\ UNCHANGED <<heap, locals, current, blocks>>
        /\ last' = Command("run", <<argument>>, NoPipe)
        /\ written' = IF blocks = <<>> THEN <<>> ELSE written
        /\ commands' = commands + 1
        /\ UNCHANGED <<environ, gObjectsInPipe, alive>>

\* A block ends: the next of object's arguments, or back.
Innermost == Last(blocks)
Back(rcode, ok, out, made) ==
    /\ current' = Innermost.current
    /\ locals' = IF Innermost.kind = "class" THEN Innermost.locals ELSE locals
    /\ blocks' = Front(blocks)
    /\ mRCode' = rcode /\ returned' = ok
    /\ written' = written \o out
    /\ gObjectsInPipe' = gObjectsInPipe \cup made

BlockEnds ==
    /\ blocks # <<>> /\ returned /\ alive
    /\ \/ /\ Innermost.kind \in {"run", "class"}
          /\ Back(mRCode, TRUE, <<>>, {}) /\ UNCHANGED heap
       \/ /\ Innermost.kind = "object -new"
          /\ Back(mRCode, TRUE, Line(<<Address(Innermost.object)>>), {Innermost.object})
          /\ UNCHANGED heap
       \/ /\ Innermost.kind = "object" /\ Innermost.args = <<>>
          /\ Back(mRCode, TRUE, <<>>, {}) /\ UNCHANGED heap
       \/ /\ Innermost.kind = "object" /\ Innermost.args # <<>>
          /\ \E next \in {WithObject([World EXCEPT !.current = Innermost.current],
                                     Innermost.args[1], Innermost.local)} :
                \/ /\ next.ok /\ Len(next.heap) <= MaxObjects
                   /\ heap' = next.heap /\ locals' = next.locals /\ current' = New(World)
                   /\ blocks' = [blocks EXCEPT ![Len(blocks)].args = Tail(@)]
                   /\ mRCode' = 0
                   /\ UNCHANGED <<returned, written, gObjectsInPipe>>
                \/ /\ ~next.ok
                   /\ Back(mRCode, FALSE, <<>>, {}) /\ UNCHANGED heap
    /\ last' = [name |-> ")"]
    /\ UNCHANGED <<environ, alive, commands>>

\* What failed inside ends every block around it, without what they do last.
BlockFails ==
    /\ blocks # <<>> /\ ~returned /\ alive
    /\ Back(mRCode, FALSE, <<>>, {})
    /\ last' = [name |-> ")"]
    /\ UNCHANGED <<heap, environ, alive, commands>>
-----------------------------------------------------------------------------
(* Asking.                                                                 *)

\* defined takes no notice of whether the lookup succeeded, only of what it
\* left, and stops at the first argument that left nothing.
Left(w, argument) == get_object_from_argument(w, argument).object # NULL
cmd_defined ==
    \E args \in Arguments :
        /\ Ran(Command("defined", args, NoPipe), World, <<>>,
               IF \A argument \in ToSet(args) : Left(World, argument) THEN 0 ELSE RCODE_NFUN_FALSE)
        /\ Rest

\* objinfo has no text for an alias and ends the shell; it forgets to say
\* that it succeeded, so that run() takes what is left for an answer.
Counted(object) ==
    IF object.type \in {"array", "hash", "var"} THEN Len(object.value)
    ELSE IF object.type = "object" THEN Len(object.items) ELSE 0
object_info(object) == Line(<<"Type: ", object.type, Numeral(Counted(object))>>)
cmd_objinfo ==
    \E args \in Arguments, answer \in BOOLEAN :
        \E at \in {Find(args[1])} :
        LET alias == at.ok /\ heap[at.object].type = "alias"
        IN  /\ Len(args) = 1
            /\ Ran(Command("objinfo", args, NoPipe), [World EXCEPT !.ok = at.ok /\ ~alias /\ answer],
                   IF at.ok /\ ~alias THEN object_info(heap[at.object]) ELSE <<>>, 0)
            /\ alive' = ~alias
            /\ UNCHANGED <<current, environ, gObjectsInPipe, blocks>>

Kind(object) == Line(<<object.type>>)
PrintsKinds(name) == \E args \in Arguments :
    Prints(name, args, 0, Types, [o \in DOMAIN heap |-> Kind(heap[o])])
cmd_typeof == PrintsKinds("typeof")

\* show: the items of the object it is called on.
Written(argument) == FlattenSeq([n \in DOMAIN argument |->
                        IF n = 1 THEN <<argument[1]>> ELSE <<"::", argument[n]>>])
cmd_mshow ==
    \E argument \in UNION {ToSet(args) : args \in Arguments} :
        \E at \in {Find(argument)} :
        LET items == heap[at.object].items
        IN  /\ at.ok /\ heap[at.object].type = "object"
            /\ Ran(Command("show", <<argument>>, NoPipe), World,
                   FlattenSeq([n \in DOMAIN items |->
                       Line(Written(items[n][1]) \o <<": ", heap[items[n][2]].type>>)]), 0)
            /\ Rest

\* pwo: the names of the current object and of its parents up to the root.
output_cwo(object) ==
    LET from[o \in 0..Len(heap)] ==
            IF ~IsUser(World, o) THEN <<>>
            ELSE IF o = Root THEN Written(heap[o].name) \o <<"::">>
            ELSE from[heap[o].parent] \o Written(heap[o].name) \o <<"::">>
    IN  from[object]
cmd_pwo == Ran(Command("pwo", <<>>, NoPipe), World, Line(Front(output_cwo(current))), 0) /\ Rest
-----------------------------------------------------------------------------
(* Functions, classes and aliases.                                         *)

\* The source of a function gets a line end when it has none; of an empty
\* one, the byte before it decides.
Pomched(source) == {IF source # <<>> /\ Last(source) = End THEN source ELSE Line(source)}
                   \cup (IF source = <<>> THEN {source} ELSE {})

\* -inherit wants a function of the same kind under the name, and the names
\* of options in -option-with-argument may be refused.
Inherits(type, parent) ==
    \/ type = "function" /\ parent \in {"function", "native function"}
    \/ type = "class" /\ parent = "class"
entry_fun(type, argument, source, options) ==
    LET at == get_object_prefix_and_name_from_argument(World, argument)
        parent == IF at.ok THEN uobject_item(World, at.object, <<Last(argument)>>) ELSE NULL
        refused == \/ options = "-inherit" /\ ~Inherits(type, Typed(World, parent))
                   \/ options = "bad names"
    IN  IF refused THEN [World EXCEPT !.ok = FALSE]
        ELSE BindNew(World, argument, [type |-> type, value |-> source], FALSE)

Defines(name, type) ==
    \/ \E args \in Arguments, source \in Sources, options \in {"none", "-inherit", "bad names"} :
        /\ Len(args) = 1
        /\ Ran(Command(name, args, NoPipe), entry_fun(type, args[1], source, options), <<>>, 0)
        /\ Rest
    \/ \E args \in Arguments, in \in Filters :
        /\ Len(args) = 1
        /\ Ran(Command(name, args, in),
               IF in.text \in Unparsable THEN [World EXCEPT !.ok = FALSE]
               ELSE entry_fun(type, args[1], in.text, "none"), <<>>, ReadCode(in))
        /\ Rest
    \/ \E args \in Arguments :
        \E at \in {Find(args[1])} :
        LET found == at.ok /\ heap[at.object].type = type
        IN  /\ Len(args) = 1
            /\ \E out \in IF found THEN Pomched(heap[at.object].value) ELSE {<<>>} :
                   Ran(Command(name, args, NoPipe), [World EXCEPT !.ok = found], out, 0)
            /\ Rest
cmd_def   == Defines("def", "function")
cmd_class == Defines("class", "class")

\* The alias read from a pipe frees its argument, which run frees again.
cmd_alias ==
    \/ \E args \in Arguments, source \in Sources, local \in BOOLEAN :
        /\ Len(args) = 1
        /\ Ran(Local(Command("alias", args, NoPipe), local),
               BindNew(World, args[1], [type |-> "alias", value |-> source], local), <<>>, 0)
        /\ Rest
    \/ \E args \in Arguments, in \in Filters, local, survives \in BOOLEAN :
        /\ Len(args) = 1
        /\ LET w == IF in.text \in Unparsable THEN [World EXCEPT !.ok = FALSE]
                    ELSE BindNew(World, args[1], [type |-> "alias", value |-> in.text], local)
           IN  /\ Ran(Local(Command("alias", args, in), local), w, <<>>, 0)
               /\ w.ok \/ survives
        /\ alive' = survives
        /\ UNCHANGED <<current, environ, gObjectsInPipe, blocks>>
    \/ \E args \in Arguments :
        Len(args) = 1 /\ Prints("alias", args, 0, {"alias"}, [o \in DOMAIN heap |-> Line(heap[o].value)])
-----------------------------------------------------------------------------
(* Addresses in pipes, and the environment.                                *)

\* The object a line is the address of, if a pipe may hold it.
AddressOf(line) ==
    IF \E o \in gObjectsInPipe : line = <<Address(o)>>
    THEN CHOOSE o \in gObjectsInPipe : line = <<Address(o)>> ELSE NULL

Shorter(s, t) == IF Len(s) < Len(t) THEN Len(s) ELSE Len(t)

\* -shift passes addresses on without line ends: fd_split took them off.
RefsBound(w, args, lines, local) ==
    LET Ref(so, n) == IF AddressOf(lines[n]) = NULL THEN Fails(so)
                      ELSE Bind(so, args[n], AddressOf(lines[n]), local)
        so[n \in 0..Shorter(lines, args)] == IF n = 0 THEN w ELSE Ref(so[n - 1], n)
    IN  so[Shorter(lines, args)]

cmd_ref ==
    \/ \E args \in Arguments :
        \E printed \in {Printed(World, args, Types, [o \in DOMAIN heap |-> Line(<<Address(o)>>)])} :
            /\ Ran(Command("ref", args, NoPipe), [World EXCEPT !.ok = printed.ok], printed.out, 0)
            /\ gObjectsInPipe' = gObjectsInPipe \cup printed.of
            /\ UNCHANGED <<current, environ, blocks, alive>>
    \/ PrintsKinds("ref -type")
    \/ \E in \in Filters :
        LET named == [n \in DOMAIN LinesOf(in.text) |-> AddressOf(LinesOf(in.text)[n])]
            ok == \A n \in DOMAIN named : named[n] # NULL
        IN  /\ Ran(Command("| ref -type", <<>>, in), [World EXCEPT !.ok = ok],
                   FlattenSeq([n \in DOMAIN TakeWhileNot(named, NULL) |-> Kind(heap[named[n]])]),
                   ReadCode(in))
            /\ Rest
    \/ \E args \in Arguments, in \in Filters, local, shift \in BOOLEAN :
        LET lines == LinesOf(in.text)
            w == RefsBound(World, args, lines, local)
        IN  /\ Ran(Shift(Local(Command("| ref", args, in), local), shift), w,
                   IF w.ok /\ shift THEN FlattenSeq(From(lines, Shorter(lines, args) + 1)) ELSE <<>>,
                   ReadCode(in))
            /\ Rest

\* setenv refuses the empty name, which export does not look at.
Exported(argument) == argument # <<"">>
SetAll(env, args, lines) ==
    LET Set1(so, n) == IF Exported(args[n])
                       THEN [a \in DOMAIN so \cup {args[n]} |->
                                IF a # args[n] THEN so[a] ELSE IF n <= Len(lines) THEN lines[n] ELSE <<>>]
                       ELSE so
        so[n \in 0..Len(args)] == IF n = 0 THEN env ELSE Set1(so[n - 1], n)
    IN  so[Len(args)]

cmd_export ==
    \/ \E args \in Arguments :
        /\ Ran(Command("export", args, NoPipe), World,
               FlattenSeq([n \in DOMAIN args |->
                   IF args[n] \in DOMAIN environ THEN Line(environ[args[n]]) ELSE <<>>]), 0)
        /\ Rest
    \/ \E args \in Arguments, in \in Filters, shift \in BOOLEAN :
        LET lines == LinesOf(in.text)
        IN  /\ Ran(Shift(Command("| export", args, in), shift), World,
                   Passed(shift, lines, Len(args) + 1), ReadCode(in))
            /\ environ' = SetAll(environ, args, lines)
            /\ UNCHANGED <<current, gObjectsInPipe, blocks, alive>>

cmd_unset ==
    \E args \in Arguments :
        LET good == TakeWhileNot(args, <<"">>)
        IN  /\ Ran(Command("unset", args, NoPipe), [World EXCEPT !.ok = good = args], <<>>, 0)
            /\ environ' = [a \in DOMAIN environ \ ToSet(good) |-> environ[a]]
            /\ UNCHANGED <<current, gObjectsInPipe, blocks, alive>>

\* The outermost run ends: what its pipes held may be forgotten.
CommandLineEnds ==
    /\ blocks = <<>> /\ alive /\ commands # 0 /\ commands < MaxCommands
    /\ gObjectsInPipe' = {} /\ written' = <<>> /\ last' = [name |-> "none"] /\ returned' = TRUE
    /\ mRCode' = 0
    /\ UNCHANGED <<heap, locals, current, environ, blocks, alive, commands>>

ObjectsNext ==
    \/ cmd_var \/ cmd_ary \/ cmd_hash \/ cmd_object \/ cmd_mrun \/ BlockEnds \/ BlockFails
    \/ cmd_defined \/ cmd_objinfo \/ cmd_typeof \/ cmd_mshow \/ cmd_pwo
    \/ cmd_def \/ cmd_class \/ cmd_alias \/ cmd_ref \/ cmd_export \/ cmd_unset
    \/ CommandLineEnds

ObjectsSpec == ObjectsInit /\ [][ObjectsNext]_objects
-----------------------------------------------------------------------------
(* Types.                                                                  *)

\* The strings; those the code writes itself are named for the provers.
Words   == STRING \cup Types \cup {End, "", "::", ": ", "Type: ", "anonymous",
                                 "show", "parent", "root", "self", "run"}
Texts   == Seq(Words)
ALine   == Seq(Words \ {End})
Names   == Seq(Words) \ {<<>>}
KeysOnce(t) == \A m, n \in DOMAIN t : t[m][1] = t[n][1] => m = n
Pairs(K, S) == {t \in Seq(K \X S) : KeysOnce(t)}

Objects ==
    [type : {"var"}, value : ALine] \cup [type : {"array"}, value : Seq(ALine)]
    \cup [type : {"hash"}, value : Pairs(ALine, ALine)]
    \cup [type : {"function", "class", "alias"}, value : Texts]
    \cup [type : {"native function"}]
    \cup [type : {"object"}, name : Names, parent : Nat, items : Pairs(Names, Nat)]
Worlds == [heap : Seq(Objects), locals : Pairs(Names, Nat), current : Nat, ok : BOOLEAN]

\* Every name leads to an object there is, and parents were there before
\* their children.
Sound(w) ==
    /\ Native \in DOMAIN w.heap /\ IsUser(w, Root) /\ IsUser(w, w.current)
    /\ \A n \in DOMAIN w.locals : w.locals[n][2] \in DOMAIN w.heap
    /\ \A o \in DOMAIN w.heap : w.heap[o].type = "object" =>
          /\ IsUser(w, w.heap[o].parent) /\ (o # Root => w.heap[o].parent < o)
          /\ \A n \in DOMAIN w.heap[o].items : w.heap[o].items[n][2] \in DOMAIN w.heap

ASSUME StartsAssumption ==
    \A s \in Starts :
        LET w == [heap |-> s.heap, locals |-> s.locals, current |-> s.current, ok |-> TRUE]
        IN  w \in Worlds /\ Sound(w) /\ Len(s.heap) <= MaxObjects
ASSUME ArgumentsAssumption ==
    Inputs \cup Sources \subseteq Texts /\ Arguments \subseteq Seq(Names) \ {<<>>} /\ Indexes \subseteq Int
ASSUME AddressAssumption ==
    \A o, p \in 1..MaxObjects :
        Address(o) \in Words \ {End} /\ (Address(o) = Address(p) => o = p)
ASSUME BoundsAssumption == MaxCommands \in Nat /\ MaxObjects \in Nat /\ MaxBlocks \in Nat
-----------------------------------------------------------------------------
(* Properties.                                                             *)

Blocks == [kind : {"object", "object -new", "run", "class"}, args : Seq(Names), local : BOOLEAN,
           object : Nat, current : Nat, locals : Pairs(Names, Nat)]

ObjectsTyped ==
    /\ World \in Worlds /\ Sound(World) /\ Len(heap) <= MaxObjects
    /\ DOMAIN environ \subseteq Names \ {<<"">>} /\ environ = [a \in DOMAIN environ |-> environ[a]]
    /\ \A a \in DOMAIN environ : environ[a] \in ALine
    /\ gObjectsInPipe \subseteq DOMAIN heap /\ written \in Texts
    /\ blocks \in Seq(Blocks) /\ Len(blocks) <= MaxBlocks
    /\ \A n \in DOMAIN blocks :
          /\ Sound([World EXCEPT !.current = blocks[n].current, !.locals = blocks[n].locals])
          /\ blocks[n].kind = "object -new" => blocks[n].object \in DOMAIN heap
    /\ commands \in 0..MaxCommands /\ (blocks = <<>> => alive \/ commands > 0)

Succeeded(name) == last.name = name /\ returned
Held(argument)  == heap[Find(argument).object]

\* What is written under a name is read back under it, by whatever command
\* and through whatever object, and what ref binds is the object whose address
\* it got; unless a local variable of that name hides it, or what is written
\* takes the place of a name in front of it (var self::self).  (With -local a
\* name of several parts is written but never found.)
Shadowed(argument) == Len(argument) = 1 /\ ~last.local /\ Has(locals, argument)
Readable(argument) == ~Shadowed(argument) /\ (last.local => Len(argument) = 1)
Overwritten(n) ==
    \/ Last(last.args[n]) \in ToSet(Front(last.args[n]))
    \/ \E m \in DOMAIN last.args : m > n /\ Last(last.args[m]) \in ToSet(last.args[n])
Hidden(n) == Overwritten(n) \/ ~Readable(last.args[n])
Reads(n, item) ==
    Hidden(n) \/ (Find(last.args[n]).ok /\ Held(last.args[n]) = item)
WrittenIsRead ==
    /\ Succeeded("| var") => \A n \in DOMAIN last.args :
          Reads(n, [type |-> "var", value |->
              IF n <= Len(LinesOf(last.in)) THEN LinesOf(last.in)[n] ELSE <<>>])
    /\ Succeeded("| ary") => Reads(1, [type |-> "array", value |-> LinesOf(last.in)])
    /\ Succeeded("| hash") =>
          Reads(1, [type |-> "hash", value |-> PairsPut(<<>>, LinesOf(last.in))])
    /\ \A pair \in {<<"def", "function">>, <<"class", "class">>, <<"alias", "alias">>} :
          Succeeded(pair[1]) /\ last.in # <<>> => Reads(1, [type |-> pair[2], value |-> last.in])
    /\ Succeeded("| ref") => \A n \in 1..Shorter(LinesOf(last.in), last.args) :
          Hidden(n) \/ Find(last.args[n]) = [ok |-> TRUE, object |-> AddressOf(LinesOf(last.in)[n])]
    /\ Succeeded("| export") => \A n \in DOMAIN last.args :
          \/ \E m \in DOMAIN last.args : m > n /\ last.args[m] = last.args[n]
          \/ /\ last.args[n] \in DOMAIN environ <=> Exported(last.args[n])
             /\ Exported(last.args[n]) => environ[last.args[n]] =
                   IF n <= Len(LinesOf(last.in)) THEN LinesOf(last.in)[n] ELSE <<>>

\* A filter with -shift loses no line and gives none twice: those it binds
\* and those it passes on are those it read.
RestIsPassed ==
    /\ \A name \in {"| var", "| export"} : Succeeded(name) /\ last.shift =>
          LET lines == LinesOf(last.in)
          IN  LinesOf(last.out) = From(lines, Shorter(lines, last.args) + 1)
    /\ Succeeded("| var -new") /\ last.shift =>
          LinesOf(last.in) = <<>> \/ <<heap[Len(heap)].value>> \o Tail(LinesOf(last.out)) = LinesOf(last.in)

\* defined says of a name that can be looked up that it is there, and of one
\* that cannot that it is not, but for a name behind one of no object, or
\* with an empty part: there it says what was found so far.
DefinedIfFound ==
    last.name = "defined" =>
        LET found(argument) == Find(argument).ok
            behind(argument) == ~Prefix(World, argument).ok
        IN  /\ (\A a \in ToSet(last.args) : found(a)) => mRCode = 0
            /\ mRCode = 0 => \A a \in ToSet(last.args) : found(a) \/ behind(a)

NamesReadBack == ObjectsTyped /\ WrittenIsRead /\ RestIsPassed /\ DefinedIfFound

\* Arrays: the lines -index reads one by one are those printed together,
\* from either end; what -insert n puts in is what -index n reads, its first
\* line from the start and its last from the end.  (An array made for a name
\* behind "::" is not found under it.)
ArraysAgree ==
    /\ \A o \in DOMAIN heap : heap[o].type = "array" =>
          LET items == heap[o].value
              each(from) == FlattenSeq([n \in DOMAIN items |-> Indexed(items, n - 1 + from)])
          IN  each(0) = Text(items) /\ each(-Len(items)) = Text(items) /\ LinesOf(Text(items)) = items
    /\ Succeeded("| ary -insert") /\ Readable(last.args[1])
       /\ (Len(last.args[1]) > 1 => Find(last.args[1]).ok /\ Held(last.args[1]).type = "array") =>
          LET items == Held(last.args[1]).value
              lines == IF last.in = <<>> THEN << <<>> >> ELSE LinesOf(last.in)
          IN  /\ last.n >= 0 /\ last.n <= Len(items) - Len(lines) =>
                    Indexed(items, last.n) = Line(lines[1])
              /\ last.n < 0 /\ -last.n <= Len(items) - Len(lines) + 1 =>
                    Indexed(items, last.n) = Line(Last(lines))

\* Hashes: no key is there twice, and a hash made of the text of another has
\* the same items.
HashesAgree ==
    \A o \in DOMAIN heap : heap[o].type = "hash" =>
        LET table == heap[o].value
        IN  /\ \A m, n \in DOMAIN table : table[m][1] = table[n][1] => m = n
            /\ ToSet(PairsPut(<<>>, LinesOf(PairsText(table)))) = ToSet(table)

ListsAgree == ArraysAgree /\ HashesAgree

\* Objects that pipes, names and other objects share are never changed under
\* the hands of one another: a command may put new items into an object, and
\* -insert and -append may grow what is under a name; nothing else changes.
ValueStays ==
    /\ Len(heap') >= Len(heap)
    /\ \A o \in DOMAIN heap :
            /\ heap'[o].type = heap[o].type
            /\ heap[o].type = "object" =>
                 /\ heap'[o].parent = heap[o].parent /\ heap'[o].name = heap[o].name
                 /\ \A n \in DOMAIN heap[o].items : Has(heap'[o].items, heap[o].items[n][1])
            /\ heap[o].type \notin {"object", "native function"} /\ heap'[o] # heap[o] =>
                 /\ last'.name \in {"| ary -insert", "| hash -append"}
                 /\ Len(heap') = Len(heap) /\ Len(heap'[o].value) >= Len(heap[o].value)
ValuesStay == [][ValueStays]_objects

\* help.xyzsh:3947: "Append to the end of array. If the array doesn't exist,
\* create new array".
AppendCreates ==
    last.name = "| ary -insert" /\ ~last.local /\ Prefix(World, last.args[1]).ok
    /\ ~Shadowed(last.args[1]) =>
        Find(last.args[1]).ok /\ Held(last.args[1]).type = "array"
=============================================================================
