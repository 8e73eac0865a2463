----------------------------- MODULE Collector -----------------------------
(***************************************************************************)
(* The mark-and-sweep collector of xyzsh (gc.c) under the interpreter that *)
(* uses it (run.c, cmd_obj.c).  Objects live in slots of a pool that       *)
(* doubles when its free list runs out.  A sweep runs when a run() ends,   *)
(* once in SweepPeriod ends, and on the command "sweep": it may therefore  *)
(* run at any statement, under any number of activations of run() whose C  *)
(* code still holds pointers into the pool.  What those pointers refer to  *)
(* survives only if it can be reached from gRootObject or gXyzshObject.    *)
(*                                                                         *)
(* Marking and sweeping are steps of their own (a generation of children,  *)
(* a slot), so what holds between two of them can be stated.  Not kept:    *)
(* the objects of start-up, which the program cannot drop; the values of   *)
(* strings; ARGV and OPTIONS, which a new stack frame refers to as it      *)
(* refers to any other local variable; objects on the C-side stack, which  *)
(* no sweep frees.                                                         *)
(***************************************************************************)
EXTENDS Integers, Sequences, FiniteSets

CONSTANTS
    InitPool,       \* slots of the first pool
    MaxPool,        \* bound: slots the pool may grow to
    MaxNest,        \* the nest_level at which run() refuses to start (50)
    SweepPeriod,    \* a sweep every so many ends of run() (32)
    MaxPipe,        \* bound: objects whose address was printed in a command
    MaxStatements,  \* bound: statements and lines of the program
    Name            \* names of variables and functions

ASSUME PoolAssumption   == InitPool \in Nat /\ MaxPool \in Nat /\ 2 <= InitPool
                           /\ InitPool <= MaxPool
ASSUME PeriodAssumption == SweepPeriod \in Nat \ {0} /\ MaxNest \in Nat \ {0}
ASSUME BoundAssumption  == MaxPipe \in Nat /\ MaxStatements \in Nat
ASSUME NameAssumption   == Name \cap {"block", "parent", "locals", "args"} = {}

Slot == 1..MaxPool
Null == 0
Root == 1                                    \* the slot of gRootObject

\* Pointers a GC object holds: mBlock, mParent, mLocalObjects and mArgBlocks
\* of a function, the item "parent" and the variables of a user object.
Field  == {"block", "parent", "locals", "args"} \cup Name
Kind   == {"free", "object", "fun", "copyfun", "block", "vector", "string"}
Object == [kind : Kind, ref : [Field -> Slot \cup {Null}]]
Nil    == [f \in Field |-> Null]
Free   == [kind |-> "free", ref |-> Nil]
IsFun(o) == o.kind \in {"fun", "copyfun"}     \* copyfun: def -copy-stackframe

\* An activation of run(): who called it, its running_object (Null for the
\* function of a file, which is not a GC object) and current_object, how many
\* stack frames there are with its own, and what run_function() keeps in C
\* variables meanwhile, mLocalObjects and mArgBlocks of the function.
Activation == [what : {"load", "fun", "object", "named"},
               running : Slot \cup {Null}, current : Slot, depth : Nat,
               locals : Slot \cup {Null}, args : Slot \cup {Null}]

VARIABLES
    pool,               \* slots allocated so far (gPoolSize * SLOT_SIZE)
    heap,               \* what each slot holds
    free,               \* the list at gFreeObjectHead
    marked, grey,       \* marked slots; those whose children are to be marked
    n,                  \* static n of run()
    gStackFrames, gRunningObjects, gObjectsInPipe,    \* held by gXyzshObject
    acts,               \* activations, outermost first
    left,               \* statements and lines the program may still run
    pc, resume          \* what is done next, and after the sweep under way

gcVars  == <<marked, grey, resume>>
memVars == <<pool, heap, free>>
runVars == <<n, gStackFrames, gRunningObjects, acts>>
vars    == <<pool, heap, free, marked, grey, n, gStackFrames,
             gRunningObjects, gObjectsInPipe, acts, left, pc, resume>>

Framed(a) == a.what \in {"load", "fun"}      \* it pushed a stack frame
Last(s)  == s[Len(s)]
Front(s) == SubSeq(s, 1, Len(s) - 1)
Items(s) == {s[i] : i \in 1..Len(s)}
Pointers(o) == {o.ref[f] : f \in Field} \ {Null}

-----------------------------------------------------------------------------
(* gc_get_free_object(): the head of the free list; a pool whose list is   *)
(* empty is doubled first.  (A definition marked "slip" is one of the ways *)
(* to get the one after it wrong; the properties tell them apart.)         *)

NewSlotsFromNext == [i \in 1..pool |-> pool + i + 1]       \* slip
NewSlots == [i \in 1..pool |-> pool + i]
Supply(k)  == IF Len(free) < k THEN free \o NewSlots ELSE free
Obtain(k)  == /\ Len(free) < k => 2 * pool <= MaxPool      \* bound
              /\ pool' = IF Len(free) < k THEN 2 * pool ELSE pool
              /\ free' = SubSeq(Supply(k), k + 1, Len(Supply(k)))
Cell(kind, ref) == [kind |-> kind, ref |-> ref]
With(ref, f, s) == [ref EXCEPT ![f] = s]
Put(h, o, name, s) == [h EXCEPT ![o].ref[name] = s]       \* uobject_put()

-----------------------------------------------------------------------------
(* gc_sweep().  The roots are gRootObject and gXyzshObject, which holds    *)
(* the three vectors.                                                      *)

RootsWithoutRunning(pipe) == ({Root} \cup Items(gStackFrames) \cup Items(pipe)) \ {Null}  \* slip
Roots(pipe) == ({Root} \cup Items(gStackFrames) \cup Items(gRunningObjects)
                  \cup Items(pipe)) \ {Null}
StartMark(pipe, then) == /\ marked' = Roots(pipe)
                         /\ grey' = Roots(pipe)
                         /\ pc' = "mark"
                         /\ resume' = then

\* object_gc_children_mark() of every object just marked.
Mark ==
    /\ pc = "mark"
    /\ LET children == UNION {Pointers(heap[s]) : s \in grey}
       IN  /\ marked' = marked \cup children
           /\ grey' = children \ marked
           /\ pc' = IF children \subseteq marked THEN "sweep" ELSE "mark"
    /\ UNCHANGED <<left, memVars, runVars, gObjectsInPipe, resume>>

\* A freed slot heads the free list.
PushedAlone(s) == <<s>>       \* slip
Pushed(s) == <<s>> \o free

\* sweep() walks the pool in order: a slot in use and not marked is cleared
\* and pushed.
Garbage == {s \in 1..pool : heap[s].kind # "free" /\ s \notin marked}
Sweep ==
    /\ pc = "sweep"
    /\ \E s \in Garbage : /\ \A t \in Garbage : s <= t
                          /\ heap' = [heap EXCEPT ![s] = Free]
                          /\ free' = Pushed(s)
    /\ UNCHANGED <<left, pool, gcVars, pc, runVars, gObjectsInPipe>>

SweepEnds ==
    /\ pc = "sweep"
    /\ Garbage = {}
    /\ pc' = resume
    /\ marked' = {}      \* the marks are cleared before they are next used
    /\ UNCHANGED <<left, memVars, runVars, gObjectsInPipe, grey, resume>>

-----------------------------------------------------------------------------
(* Names.                                                                  *)

Current == Last(acts).current
\* SFUN(runinfo->mRunningObject).mLocalObjects
Running == Last(acts).running
Locals  == IF Running = Null THEN gStackFrames[1] ELSE heap[Running].ref["locals"]

\* access_object(): local variables, then the current object and its parents.
\* The receiver is the object that had the name, or the current one.
Ancestor[k \in 0..MaxPool] ==
    IF k = 0 THEN Current
    ELSE IF Ancestor[k - 1] = Null THEN Null
         ELSE heap[Ancestor[k - 1]].ref["parent"]
Holders(name) == {k \in 0..MaxPool : /\ Ancestor[k] # Null
                                     /\ heap[Ancestor[k]].ref[name] # Null}
Nearest(name) == Ancestor[CHOOSE k \in Holders(name) : \A j \in Holders(name) : k <= j]
IsLocal(name) == heap[Locals].ref[name] # Null

Access(name) == IF IsLocal(name) THEN heap[Locals].ref[name]
                ELSE IF Holders(name) = {} THEN Null
                ELSE heap[Nearest(name)].ref[name]
Reciever(name) == IF IsLocal(name) \/ Holders(name) = {} THEN Current ELSE Nearest(name)

\* A statement runs on its current object; one that was swept is cleared
\* memory (a table of size 0) or, its slot used again, some other object.
MayRun    == pc = "body" /\ heap[Current].kind = "object" /\ left > 0
Statement == MayRun /\ left' = left - 1
Crash == /\ pc = "body"
         /\ heap[Current].kind # "object"
         /\ pc' = "dead"
         /\ UNCHANGED <<left, memVars, runVars, gObjectsInPipe, gcVars>>

\* Where a statement may put a name: in the current object, in that of a prefix
\* (:: for the root, name:: for an object), with -local in the stack frame.
Prefixed == IF MayRun THEN {Current, Root} \cup
                           {s \in Slot : /\ \E name \in Name \cup {"parent"} : s = Access(name)
                                         /\ heap[s].kind = "object"}
            ELSE {}
Targets  == IF MayRun THEN Prefixed \cup {Locals} ELSE {}

-----------------------------------------------------------------------------
(* run() and its callers.                                                  *)

\* run(): running_object and block are kept in gRunningObjects.
Enter(what, running, block, current, frames, locals, args) ==
    /\ acts' = Append(acts, [what |-> what, running |-> running, current |-> current,
                             depth |-> frames, locals |-> locals, args |-> args])
    /\ gRunningObjects' = gRunningObjects \o <<running, block>>
    /\ pc' = "body"

\* A file, or a line of the prompt: a function of the C-side stack whose
\* local variables are a new stack frame.
ReadCommand ==
    /\ pc = "ready"
    /\ left > 0 /\ left' = left - 1                                    \* bound
    /\ LET frame == Supply(1)[1]
       IN  /\ Obtain(1)
           /\ heap' = [heap EXCEPT ![frame] = Cell("object", Nil)]
           /\ gStackFrames' = Append(gStackFrames, frame)
           /\ Enter("load", Null, Null, Root, 1, Null, Null)
    /\ UNCHANGED <<n, gObjectsInPipe, gcVars>>

\* run_function() up to its call of run(): the fields of the function are
\* kept in C variables and replaced, with -copy-stackframe by a copy of the
\* innermost frame.  At the last nest level run() refuses and they go back.
RunFunction(fun, current) ==
    LET frame == Supply(2)[1]
        args  == Supply(2)[2]
        names == IF heap[fun].kind = "copyfun" THEN heap[Last(gStackFrames)].ref ELSE Nil
        made  == [heap EXCEPT ![frame] = Cell("object", names),
                              ![args] = Cell("vector", Nil)]
    IN  /\ Obtain(2)
        /\ IF Len(acts) + 1 < MaxNest
           THEN /\ heap' = [made EXCEPT
                       ![fun].ref = With(With(@, "locals", frame), "args", args)]
                /\ gStackFrames' = Append(gStackFrames, frame)
                /\ Enter("fun", fun, heap[fun].ref["block"], current, Len(gStackFrames) + 1,
                         heap[fun].ref["locals"], heap[fun].ref["args"])
           ELSE /\ heap' = made
                /\ UNCHANGED <<gStackFrames, gRunningObjects, acts, pc>>
        /\ UNCHANGED <<n, gObjectsInPipe, gcVars>>

\* A function runs in its receiver: called by its name, or sent to an object.
Send(fun, reciever) == /\ Statement
                       /\ fun \in Slot /\ reciever \in Slot
                       /\ IsFun(heap[fun])
                       /\ RunFunction(fun, reciever)
CallFun(name) == MayRun /\ Send(Access(name), Reciever(name))
SendTo(name, o) == Send(heap[o].ref[name], o)

\* "inherit": the function that the running one replaced.  The name is found
\* in the root, which is the receiver.
Inherit == /\ Statement
           /\ Running # Null
           /\ heap[Running].ref["parent"] # Null
           /\ RunFunction(heap[Running].ref["parent"], Root)

\* cmd_object() with a block, which runs with the new object as its current
\* object: "object -new" names the object nowhere, "object name" puts it first.
NewObject(what, o, name) ==
    /\ Statement
    /\ Obtain(1)
    /\ LET new  == Supply(1)[1]
           made == [heap EXCEPT ![new] = Cell("object", With(Nil, "parent", Current))]
       IN  /\ heap' = IF what = "named" THEN Put(made, o, name, new) ELSE made
           /\ IF Len(acts) + 1 < MaxNest
              THEN Enter(what, Running, Null, new, Len(gStackFrames), Null, Null)
              ELSE UNCHANGED <<gRunningObjects, acts, pc>>
    /\ UNCHANGED <<n, gStackFrames, gObjectsInPipe, gcVars>>

\* Every way out of run(): the pipe of the outermost one is forgotten, the
\* sweep that may be due runs, and only then is gRunningObjects popped.
RunEnds ==
    /\ pc = "body"
    /\ LET pipe == IF Len(acts) = 1 THEN <<>> ELSE gObjectsInPipe
       IN  /\ gObjectsInPipe' = pipe
           /\ IF n = 0 THEN StartMark(pipe, "pop")
              ELSE pc' = "pop" /\ UNCHANGED gcVars
    /\ n' = (n + 1) % SweepPeriod
    /\ UNCHANGED <<left, memVars, gStackFrames, gRunningObjects, acts>>

\* run() pops gRunningObjects and its caller goes on: run_function() pops its
\* frame and restores the fields, "object -new" prints the address of its
\* object unless the run failed.
CallerGoesOn ==
    /\ pc = "pop"
    /\ LET a == Last(acts)
       IN  /\ acts' = Front(acts)
           /\ gRunningObjects' = SubSeq(gRunningObjects, 1, Len(gRunningObjects) - 2)
           /\ gStackFrames' = IF Framed(a) THEN Front(gStackFrames) ELSE gStackFrames
           /\ heap' = IF a.what = "fun"
                      THEN [heap EXCEPT ![a.running].ref =
                               With(With(@, "locals", a.locals), "args", a.args)]
                      ELSE heap
           /\ \/ UNCHANGED gObjectsInPipe
              \/ /\ a.what = "object"
                 /\ Len(gObjectsInPipe) < MaxPipe                      \* bound
                 /\ gObjectsInPipe' = Append(gObjectsInPipe, a.current)
           /\ pc' = IF Len(acts) = 1 THEN "ready" ELSE "body"
    /\ UNCHANGED <<left, pool, free, n, gcVars>>

-----------------------------------------------------------------------------
(* Commands that make, name and drop objects.                              *)

\* cmd_def(): a function and its block, under -inherit on top of what had the name.
Def(name, o, kind, inherit) ==
    /\ Statement
    /\ inherit => heap[o].ref[name] \in Slot /\ IsFun(heap[heap[o].ref[name]])
    /\ Obtain(2)
    /\ LET fun   == Supply(2)[1]
           block == Supply(2)[2]
           under == IF inherit THEN heap[o].ref[name] ELSE Null
           made  == [heap EXCEPT
                       ![fun]   = Cell(kind, With(With(Nil, "block", block), "parent", under)),
                       ![block] = Cell("block", Nil)]
       IN  heap' = Put(made, o, name, fun)
    /\ UNCHANGED <<runVars, gObjectsInPipe, pc, gcVars>>

\* cmd_var(): a new string under a name.
Var(name, o) ==
    /\ Statement
    /\ Obtain(1)
    /\ heap' = Put([heap EXCEPT ![Supply(1)[1]] = Cell("string", Nil)],
                   o, name, Supply(1)[1])
    /\ UNCHANGED <<runVars, gObjectsInPipe, pc, gcVars>>

\* var -new: a string whose only holder is the pipe.
VarNew ==
    /\ Statement
    /\ Len(gObjectsInPipe) < MaxPipe                                   \* bound
    /\ Obtain(1)
    /\ heap' = [heap EXCEPT ![Supply(1)[1]] = Cell("string", Nil)]
    /\ gObjectsInPipe' = Append(gObjectsInPipe, Supply(1)[1])
    /\ UNCHANGED <<runVars, pc, gcVars>>

\* ref name: the address of an object is printed.
RefOut(name) ==
    /\ Statement
    /\ Access(name) \in Slot
    /\ Len(gObjectsInPipe) < MaxPipe                                   \* bound
    /\ gObjectsInPipe' = Append(gObjectsInPipe, Access(name))
    /\ UNCHANGED <<memVars, runVars, pc, gcVars>>

\* gc_valid_object() and contained_in_pipe(): may this address be named?
ValidIfPrinted(s) == s \in Items(gObjectsInPipe)       \* slip
Valid(s) == heap[s].kind # "free" /\ s \in Items(gObjectsInPipe)

\* ... | ref name: an address read from text, which may be any at all.
RefIn(s, name, o) ==
    /\ Statement
    /\ Valid(s)
    /\ heap' = Put(heap, o, name, s)
    /\ UNCHANGED <<pool, free, runVars, gObjectsInPipe, pc, gcVars>>

\* sweep name: the current object forgets a name.
Erase(name) ==
    /\ Statement
    /\ heap[Current].ref[name] # Null
    /\ heap' = Put(heap, Current, name, Null)
    /\ UNCHANGED <<pool, free, runVars, gObjectsInPipe, pc, gcVars>>

\* sweep: gc_sweep() in the middle of a program.
SweepCommand ==
    /\ Statement
    /\ StartMark(gObjectsInPipe, "body")
    /\ UNCHANGED <<memVars, runVars, gObjectsInPipe>>

-----------------------------------------------------------------------------
Init ==
    /\ pool = InitPool
    /\ heap = [s \in Slot |-> IF s = Root THEN Cell("object", Nil) ELSE Free]
    /\ free = [i \in 1..InitPool - 1 |-> i + 1]
    /\ marked = {} /\ grey = {} /\ n = 0
    /\ gStackFrames = <<>> /\ gRunningObjects = <<>> /\ gObjectsInPipe = <<>>
    /\ acts = <<>> /\ left = MaxStatements /\ pc = "ready" /\ resume = "body"

Next ==
    \/ ReadCommand \/ Inherit \/ RunEnds \/ CallerGoesOn \/ VarNew \/ SweepCommand \/ Crash
    \/ Mark \/ Sweep \/ SweepEnds
    \/ \E name \in Name :
          \/ CallFun(name) \/ RefOut(name) \/ Erase(name)
          \/ \E o \in Targets :
                \/ Var(name, o)
                \/ \E what \in {"object", "named"} : NewObject(what, o, name)
                \/ \E s \in Slot : RefIn(s, name, o)
          \/ \E o \in Prefixed :
                \/ SendTo(name, o)
                \/ \E kind \in {"fun", "copyfun"}, inherit \in BOOLEAN :
                      Def(name, o, kind, inherit)

Spec == Init /\ [][Next]_vars

-----------------------------------------------------------------------------
(* Type invariant: every pointer is a slot, and only slots of the pool are *)
(* in use, marked or free.                                                 *)
TypeOK ==
    /\ pool \in InitPool..MaxPool
    /\ heap \in [Slot -> Object]
    /\ free \in Seq(1..pool)
    /\ marked \in SUBSET Slot /\ grey \in SUBSET marked
    /\ n \in 0..SweepPeriod - 1
    /\ gStackFrames \in Seq(Slot)
    /\ gRunningObjects \in Seq(Slot \cup {Null})
    /\ gObjectsInPipe \in Seq(Slot)
    /\ acts \in Seq(Activation)
    /\ left \in 0..MaxStatements
    /\ pc \in {"ready", "body", "mark", "sweep", "pop", "dead"}
    /\ resume \in {"body", "pop"}

\* The free list holds every unused slot of the pool once and nothing else,
\* also between the steps of a sweep and after the pool has grown: no slot is
\* handed out twice and none is lost.
FreeListExact ==
    /\ \A i, j \in 1..Len(free) : free[i] = free[j] => i = j
    /\ Items(free) = {s \in 1..pool : heap[s].kind = "free"}
    /\ \A s \in Slot : s > pool => heap[s].kind = "free"

\* The functions that C activations run and the stack frames they pushed are
\* not swept under them, and mLocalObjects of a function is always the frame
\* of its innermost activation: a function sees its own local variables again
\* after it called itself, whatever was redefined or swept meanwhile.
FramesKept ==
    \A i \in 1..Len(acts) :
        LET a == acts[i]
        IN  /\ heap[gStackFrames[a.depth]].kind = "object"
            /\ a.what = "fun" =>
                 /\ IsFun(heap[a.running])
                 /\ (\A j \in i+1..Len(acts) : acts[j].what = "fun" => acts[j].running # a.running)
                       => heap[a.running].ref["locals"] = gStackFrames[a.depth]

\* What a name, a function's block, its parent or its local variables refer to
\* is in use, and what a function inherits is a function: no program gets at a
\* swept slot through a name, although the addresses it may name are text, and
\* cmd_inherit() may call what it finds.  (While sweep() walks, of marked objects.)
Fits(o, f, target) == /\ target.kind # "free"
                      /\ IsFun(o) /\ f = "parent" => IsFun(target)
NamesLive ==
    \A s \in Slot : (heap[s].kind # "free" /\ (pc = "sweep" => s \in marked)) =>
        \A f \in Field \ {"args"} :
            heap[s].ref[f] # Null => Fits(heap[s], f, heap[heap[s].ref[f]])

\* USAGE.ja says that what the collector manages must be reachable from
\* gRootObject or gXyzshObject, or a sweep erases it: what C code still points
\* to (the object of "object -new", the blocks of an outer call) is in use.
InUseIsLive ==
    \A i \in 1..Len(acts) :
        /\ heap[acts[i].current].kind # "free"
        /\ acts[i].args # Null => heap[acts[i].args].kind # "free"
=============================================================================
