---------------------------- MODULE Interpreter ----------------------------
(***************************************************************************)
(* The control stack of the xyzsh interpreter: run() and everything that   *)
(* calls it back.  run() walks the statements of a block; a command of a   *)
(* statement may be a native function, an external program, or something   *)
(* that calls run() again: a function, an alias, a block, or a native such *)
(* as if, while, try, load, eval and $(...) expansion.                     *)
(*                                                                         *)
(* The program being interpreted is abstracted away: every statement may   *)
(* be any command.  What is kept is every counter and vector that run()    *)
(* and its callers raise and must lower again on every path out, and the   *)
(* return code that travels with a failing run() to the construct that is  *)
(* meant to stop it.                                                       *)
(***************************************************************************)
EXTENDS Integers, Sequences, FiniteSets

CONSTANTS
    MaxNest,      \* the nest_level at which run() refuses to start (50)
    MaxStack,     \* MAX_STACK: frames of the stack of temporary objects (256)
    Sites         \* the callers of run() that the program may use

\* The C call sites of run().
AllSites == {"top", "fun", "alias", "block", "sub", "time", "ifCond", "whileCond",
             "whileBody", "loop", "tryBody", "tryHandler", "load", "evalStr",
             "expand", "ablock"}

\* Callers that push a stack frame of local variables on gStackFrames.
FrameSites == {"top", "fun", "alias", "load"}
\* Callers that open a frame of temporary objects (stack_start_stack).
StackSites == {"top", "load", "evalStr"}
\* Callers that replace gRunInfoOfRunningObject.
InfoSites  == {"fun", "alias"}
\* Callers that pass the address of an int they never initialised.
UninitSites == {"whileCond", "time", "expand"}     \* "time" and eval (block)

ASSUME NestAssumption  == MaxNest \in Nat /\ MaxNest >= 2
ASSUME StackAssumption == MaxStack \in Nat /\ 2 * MaxNest < MaxStack
ASSUME SitesAssumption == /\ Sites \subseteq AllSites
                          /\ "whileCond" \in Sites => "whileBody" \in Sites
                          /\ "ifCond" \in Sites => "sub" \in Sites

\* Return codes, by what the code compares them with: "0" is success, "1"
\* any other plain code, "130" is 128+SIGINT, the rest are RCODE_ flags;
\* "RETURN0" and "RETURN1" carry a code in their low byte.
Returns == {"RETURN0", "RETURN1"}
Codes   == {"0", "1", "130", "FALSE", "BREAK", "EXIT", "SIGINT", "INVALID"} \cup Returns

Activations == [site : AllSites, at : {"stmt", "cmd"}, rc : Codes,
                init : Codes \cup {"uninit"}, saved : Nat]
Results     == [site : AllSites, ok : BOOLEAN, rc : Codes, saved : Nat]
Phases      == {"idle", "body", "fail", "ret", "exited"}

VARIABLES
    phase,      \* what the interpreter does next
    ctl,        \* activations of run(), outermost first
    ret,        \* what the run() that just returned gave its caller
    nest,       \* static nest_level of run()
    running,    \* vector_count(gRunningObjects)
    stk,        \* frames of temporary objects (gStackFrame of stack.c)
    frames,     \* vector_count(gStackFrames)
    info,       \* gRunInfoOfRunningObject: index of its activation, 0 is NULL
    inPipe      \* gObjectsInPipe is not empty

vars == <<phase, ctl, ret, nest, running, stk, frames, info, inPipe>>

Top == ctl[Len(ctl)]
One(b) == IF b THEN 1 ELSE 0
NoResult == [site |-> "top", ok |-> TRUE, rc |-> "0", saved |-> 0]

\* What reading an int that may be uninitialised can give.
ReadOf(c) == IF c = "uninit" THEN Codes ELSE {c}

WithTop(a) == [ctl EXCEPT ![Len(ctl)] = a]
Code(rc)   == WithTop([Top EXCEPT !.rc = rc])

Init ==
    /\ phase = "idle"
    /\ ctl = <<>>
    /\ ret = NoResult
    /\ nest = 0
    /\ running = 0
    /\ stk = 1
    /\ frames = 0
    /\ info = 0
    /\ inPipe = FALSE

-----------------------------------------------------------------------------
(* run(): entry and exit.                                                  *)

\* nest_level was raised and has reached the limit.  (Here and below, a
\* definition marked "slip" is one of the ways to get the one after it wrong;
\* the properties tell them apart.)
AtLimitLate == nest = MaxNest       \* slip
AtLimit     == nest + 1 = MaxNest

\* Whether objects of a pipe are still held when run() is back at a level.
HeldInPipeEarly(level) == inPipe /\ level # 1       \* slip
HeldInPipe(level)      == inPipe /\ level # 0

\* A caller at site s, with control stack c, prepares its own frames and
\* calls run() with *rcode = init.  At the nesting limit run() takes back
\* what it pushed and fails without writing *rcode.
Call(c, s, init) ==
    /\ s \in Sites
    /\ frames' = frames + One(s \in FrameSites)
    /\ info' = IF s \in InfoSites THEN Len(c) ELSE info
    /\ UNCHANGED inPipe
    /\ IF AtLimit
       THEN /\ \E rc \in ReadOf(init) :
                  ret' = [site |-> s, ok |-> FALSE, rc |-> rc, saved |-> info]
            /\ phase' = "ret"
            /\ ctl' = c
            /\ stk' = stk + One(s \in StackSites)
            /\ UNCHANGED <<nest, running>>
       ELSE /\ ctl' = Append(c, [site |-> s, at |-> "stmt", rc |-> "0",
                                 init |-> init, saved |-> info])
            /\ phase' = "body"
            /\ nest' = nest + 1
            /\ running' = running + 2
            /\ stk' = stk + 1 + One(s \in StackSites)
            /\ ret' = NoResult

\* run() returns ok with *rcode = rc to its caller.
Leave(ok, rc) ==
    /\ ctl' = SubSeq(ctl, 1, Len(ctl) - 1)
    /\ ret' = [site |-> Top.site, ok |-> ok, rc |-> rc, saved |-> Top.saved]
    /\ phase' = "ret"
    /\ nest' = nest - 1
    /\ running' = running - 2
    /\ stk' = stk - 1
    /\ inPipe' = HeldInPipe(nest - 1)
    /\ UNCHANGED <<frames, info>>

\* The current command of the top activation fails with mRCode = rc:
\* statment_tree returns FALSE to run().
Fail(rc) ==
    /\ phase' = "fail"
    /\ ctl' = Code(rc)
    /\ ret' = NoResult

\* The top activation goes on with its statement, mRCode = rc.
Proceed(rc) ==
    /\ phase' = "body"
    /\ ctl' = Code(rc)
    /\ ret' = NoResult

KeepCounters == UNCHANGED <<nest, running, stk, frames, info, inPipe>>

AtCommand == phase = "body" /\ Top.at = "cmd"

\* run(): the next statement begins with mRCode = 0.
BeginStatement ==
    /\ phase = "body" /\ Top.at = "stmt"
    /\ ctl' = WithTop([Top EXCEPT !.at = "cmd", !.rc = "0"])
    /\ KeepCounters /\ UNCHANGED <<phase, ret>>

\* run(): no statement left, return TRUE with the last code.
EndBlock ==
    /\ phase = "body" /\ Top.at = "stmt"
    /\ Leave(TRUE, Top.rc)

\* The pipeline is done, its code perhaps reversed by '!'; no signal is seen.
EndStatement ==
    /\ AtCommand
    /\ \E rc \in {Top.rc, IF Top.rc = "0" THEN "1" ELSE "0"} :
          /\ rc # "130"
          /\ ctl' = WithTop([Top EXCEPT !.at = "stmt", !.rc = rc])
    /\ KeepCounters /\ UNCHANGED <<phase, ret>>

\* Flushing gStdout or gStderr is interrupted, SIGINT is seen at the end of
\* the statement, or its last program was killed by SIGINT.
EndInterrupted ==
    /\ AtCommand
    /\ Leave(FALSE, "SIGINT")

\* SIGUSR1 was seen: run() fails but leaves *rcode as its caller set it.
EndUserSignal ==
    /\ AtCommand
    /\ \E rc \in ReadOf(Top.init) : Leave(FALSE, rc)

\* node_tree or statment_tree returned FALSE.
StatementFails ==
    /\ phase = "fail"
    /\ Leave(FALSE, Top.rc)

-----------------------------------------------------------------------------
(* Commands that do not call run().                                        *)

\* A native returns TRUE; it may have added an object to gObjectsInPipe.
NativeSucceeds ==
    /\ AtCommand
    /\ \E rc \in {"0", "1", "FALSE"} : Proceed(rc)
    /\ inPipe' \in {inPipe, TRUE}
    /\ UNCHANGED <<nest, running, stk, frames, info>>

\* A native returns FALSE before or after it set mRCode to 0, or TRUE with
\* the code it was given (invalid command using), or was interrupted.
NativeFails ==
    /\ AtCommand
    /\ \E rc \in {"0", "INVALID", "SIGINT"} : Fail(rc)
    /\ inPipe' \in {inPipe, TRUE}
    /\ UNCHANGED <<nest, running, stk, frames, info>>

cmd_break  == AtCommand /\ Fail("BREAK") /\ KeepCounters
cmd_return == AtCommand /\ (\E rc \in Returns : Fail(rc)) /\ KeepCounters
cmd_exit   == AtCommand /\ Fail("EXIT") /\ KeepCounters

\* An external program ran; "1" stands for a code that is not zero.
ExternalExits ==
    /\ AtCommand
    /\ \E rc \in {"0", "1", "130"} : Proceed(rc)
    /\ KeepCounters

\* The command was not found, a redirect or an expansion failed: the code
\* is that of the command before it in the pipeline, or 127.
CommandRefused ==
    /\ AtCommand
    /\ \E rc \in {Top.rc, "1"} : Fail(rc)
    /\ KeepCounters

-----------------------------------------------------------------------------
(* Commands that call run().                                               *)

\* temulator_fun: a line was read and parsed.
ReadCommand ==
    /\ phase = "idle"
    /\ Call(ctl, "top", "0")

\* run_function, run_alias and run_block, reached through run_object.  A
\* native has set mRCode to 0 before it calls run() itself; the others
\* leave mRCode as it was.
CallObject ==
    /\ AtCommand
    /\ \E s \in {"fun", "alias", "block", "expand"} :
          Call(ctl, s, IF s \in UninitSites THEN "uninit" ELSE "0")

CallNative ==
    /\ AtCommand
    /\ \E s \in {"ifCond", "whileCond", "loop", "load"} :
          Call(Code("0"), s, IF s \in UninitSites THEN "uninit" ELSE "0")

\* Natives that call run() with mRCode still at RCODE_NFUN_INVALID_USSING
\* (the loop is times).
CallNativeUnset ==
    /\ AtCommand
    /\ \E s \in {"sub", "time", "loop", "tryBody", "evalStr", "ablock"} :
          Call(Code("INVALID"), s, IF s \in UninitSites THEN "uninit" ELSE "0")

-----------------------------------------------------------------------------
(* What each caller does when run() returns.                               *)

Returned(s) == phase = "ret" /\ ret.site = s

\* The caller takes back the frames it opened for the call.
DropFramesOfFun ==      \* slip: an alias leaves its stack frame
    /\ frames' = frames - One(ret.site \in FrameSites \ {"alias"})
    /\ stk' = stk - One(ret.site \in StackSites)
    /\ info' = IF ret.site \in InfoSites THEN ret.saved ELSE info
    /\ UNCHANGED <<nest, running, inPipe>>

DropFramesIfOk ==       \* slip: an error path keeps the run info
    /\ frames' = frames - One(ret.site \in FrameSites)
    /\ stk' = stk - One(ret.site \in StackSites)
    /\ info' = IF ret.site \in InfoSites /\ ret.ok THEN ret.saved ELSE info
    /\ UNCHANGED <<nest, running, inPipe>>

DropFrames ==
    /\ frames' = frames - One(ret.site \in FrameSites)
    /\ stk' = stk - One(ret.site \in StackSites)
    /\ info' = IF ret.site \in InfoSites THEN ret.saved ELSE info
    /\ UNCHANGED <<nest, running, inPipe>>

\* temulator_fun leaves its loop on RCODE_EXIT only.
RetTop ==
    /\ Returned("top")
    /\ phase' = IF ~ret.ok /\ ret.rc = "EXIT" THEN "exited" ELSE "idle"
    /\ ret' = NoResult
    /\ DropFrames
    /\ UNCHANGED ctl

\* run_function: a return stops here, its code is the low byte.
RetFun ==
    /\ Returned("fun")
    /\ IF ret.ok THEN Proceed(ret.rc)
       ELSE IF ret.rc \in Returns
            THEN Proceed(IF ret.rc = "RETURN0" THEN "0" ELSE "1")
            ELSE Fail(ret.rc)
    /\ DropFrames

\* run_alias never stores the code of its body.
RetAlias ==
    /\ Returned("alias")
    /\ IF ret.ok THEN Proceed(Top.rc) ELSE Fail(Top.rc)
    /\ DropFrames

\* run_block stores it only when the body fails; expand_env does the same.
RetBlock ==
    /\ phase = "ret" /\ ret.site \in {"block", "expand"}
    /\ IF ret.ok THEN Proceed(Top.rc) ELSE Fail(ret.rc)
    /\ DropFrames

\* subshell, the chosen block of if, and try's second block.
RetSub ==
    /\ phase = "ret" /\ ret.site \in {"sub", "tryHandler"}
    /\ IF ret.ok THEN Proceed(ret.rc) ELSE Fail(ret.rc)
    /\ DropFrames

\* time is done, or interrupted while it writes what it measured.
RetTime ==
    /\ Returned("time")
    /\ \/ ret.ok /\ Proceed(ret.rc)
       \/ ret.ok /\ Fail("SIGINT")
       \/ ~ret.ok /\ Fail(ret.rc)
    /\ DropFrames

\* eval of a text; a text read from an empty pipe gives its own code.
RetEvalStr ==
    /\ Returned("evalStr")
    /\ IF ret.ok THEN \E rc \in {ret.rc, "1"} : Proceed(rc) ELSE Fail(ret.rc)
    /\ DropFrames

\* ablock -run forgets the code of a block that succeeds.
RetAblock ==
    /\ Returned("ablock")
    /\ IF ret.ok THEN Proceed("0") ELSE Fail(ret.rc)
    /\ DropFrames

\* load: exit ends the loaded file, not the shell.
RetLoad ==
    /\ Returned("load")
    /\ IF ret.ok \/ ret.rc = "EXIT" THEN Proceed(Top.rc) ELSE Fail(ret.rc)
    /\ DropFrames

\* cmd_if after a condition: fail, take its block, or try the next
\* condition, the else block, or none.
RetIfCond ==
    /\ Returned("ifCond")
    /\ \/ ~ret.ok /\ Fail(ret.rc) /\ KeepCounters
       \/ ret.ok /\ ret.rc = "0" /\ Call(ctl, "sub", "0")
       \/ /\ ret.ok /\ ret.rc # "0"
          /\ \E s \in {"ifCond", "sub"} : Call(ctl, s, "0")
       \/ ret.ok /\ ret.rc # "0" /\ Proceed(Top.rc) /\ KeepCounters

\* cmd_while after its condition; the body gets the condition's rcode.
RetWhileCond ==
    /\ Returned("whileCond")
    /\ \/ ~ret.ok /\ Fail(ret.rc) /\ KeepCounters
       \/ ret.ok /\ ret.rc # "0" /\ Proceed(Top.rc) /\ KeepCounters
       \/ ret.ok /\ ret.rc = "0" /\ Call(ctl, "whileBody", "0")

\* cmd_while after its body: break keeps the code of the previous round.
RetWhileBody ==
    /\ Returned("whileBody")
    /\ \/ ret.ok /\ Call(Code(ret.rc), "whileCond", "uninit")
       \/ ~ret.ok /\ ret.rc = "BREAK" /\ Proceed(Top.rc) /\ KeepCounters
       \/ ~ret.ok /\ ret.rc # "BREAK" /\ Fail(ret.rc) /\ KeepCounters

\* for, times and each: another round or none; break sets the code to 0;
\* each can be interrupted while it writes the lines of the next round.
RetLoop ==
    /\ Returned("loop")
    /\ \/ ret.ok /\ Call(Code(ret.rc), "loop", "0")
       \/ ret.ok /\ Proceed(ret.rc) /\ KeepCounters
       \/ ret.ok /\ Fail("SIGINT") /\ KeepCounters
       \/ ~ret.ok /\ ret.rc = "BREAK" /\ Proceed("0") /\ KeepCounters
       \/ ~ret.ok /\ ret.rc # "BREAK" /\ Fail(ret.rc) /\ KeepCounters

\* Codes that try hands on instead of running its second block.
RethrownButExit == {"FALSE", "BREAK"} \cup Returns       \* slip
Rethrown == {"FALSE", "BREAK", "EXIT"} \cup Returns

\* cmd_try after its first block.  The second block is run with the rcode
\* of the first, or is not reached because writing gErrMsg was interrupted.
RetTry ==
    /\ Returned("tryBody")
    /\ \/ ret.ok /\ Proceed(ret.rc) /\ KeepCounters
       \/ ~ret.ok /\ ret.rc \in Rethrown /\ Fail(ret.rc) /\ KeepCounters
       \/ ~ret.ok /\ ret.rc \notin Rethrown /\ Fail("SIGINT") /\ KeepCounters
       \/ ~ret.ok /\ ret.rc \notin Rethrown /\ Call(ctl, "tryHandler", ret.rc)

\* The shell is gone.
Exited == phase = "exited" /\ UNCHANGED vars

RetAny == \/ RetTop \/ RetFun \/ RetAlias \/ RetBlock \/ RetSub \/ RetTime
          \/ RetEvalStr \/ RetAblock \/ RetLoad \/ RetIfCond \/ RetWhileCond
          \/ RetWhileBody \/ RetLoop \/ RetTry

Next == \/ ReadCommand \/ BeginStatement \/ EndBlock \/ EndStatement
        \/ EndInterrupted \/ EndUserSignal \/ StatementFails
        \/ NativeSucceeds \/ NativeFails \/ cmd_break \/ cmd_return \/ cmd_exit
        \/ ExternalExits \/ CommandRefused
        \/ CallObject \/ CallNative \/ CallNativeUnset
        \/ RetAny \/ Exited

\* The interpreter is one thread: a failing run() always returns and its
\* caller always handles what it returned.
Fairness == WF_vars(StatementFails \/ RetAny)

Spec     == Init /\ [][Next]_vars
FairSpec == Spec /\ Fairness
-----------------------------------------------------------------------------
(* Properties.                                                             *)

TypeOK ==
    /\ phase \in Phases
    /\ ctl \in Seq(Activations)
    /\ ret \in Results
    /\ nest \in 0..(MaxNest - 1)
    /\ running \in Nat /\ stk \in Nat /\ frames \in Nat /\ info \in Nat
    /\ inPipe \in BOOLEAN
    /\ ctl = <<>> <=> (phase \in {"idle", "exited"} \/ (phase = "ret" /\ ret.site = "top"))

\* The activations in c called from a site in S, and whether the caller of
\* one more has not yet handled its result.
IndicesIn(c, S) == {i \in 1..Len(c) : c[i].site \in S}
CountIn(c, S)   == Cardinality(IndicesIn(c, S))
Pending(S)      == One(phase = "ret" /\ ret.site \in S)

\* Whatever path run() and its callers leave by -- a failing statement, a
\* signal, the nesting limit, break, return, exit -- nest_level, the running
\* objects, the frames of temporaries and the stack frames are exactly those
\* of the activations still alive; at the prompt all are back.
BalancedNest    == nest = Len(ctl) /\ running = 2 * Len(ctl)
BalancedStack   == stk = 1 + Len(ctl) + CountIn(ctl, StackSites) + Pending(StackSites)
BalancedFrames  == frames = CountIn(ctl, FrameSites) + Pending(FrameSites)
Balanced        == BalancedNest /\ BalancedStack /\ BalancedFrames

\* stack_start_stack has no bound check: the nesting limit of run() alone
\* keeps the frame index inside gStackFrame[MAX_STACK].
StackInBounds == stk < MaxStack

\* v is the activation that called the innermost function or alias among
\* the first n of c, or 0 if there is none.
IsCallerInfo(c, n, v) ==
    LET callees == {i \in 1..n : c[i].site \in InfoSites}
    IN  IF callees = {} THEN v = 0
        ELSE v + 1 \in callees /\ \A i \in callees : i <= v + 1

\* gRunInfoOfRunningObject is always the run info of the caller of the
\* innermost function or alias, and NULL outside of them: each level
\* restores the one it replaced, also when its body fails.
InfoIsCaller == IF Pending(InfoSites) = 1 THEN info = Len(ctl)
                ELSE IsCallerInfo(ctl, Len(ctl), info)

\* Objects waiting in a pipe are kept from the collector only while some
\* run() is active.
PipeObjectsDropped == inPipe => nest > 0

\* A failing run() or command carries code c outwards.
InFlight(c) == \/ phase = "ret" /\ ~ret.ok /\ ret.rc = c
               \/ phase = "fail" /\ Top.rc = c

\* Where a code may stop: break at a loop body, return at a function, exit
\* at the end of a loaded file.  An alias loses every code, the top level
\* reports it.
CatchersOf(c) == CASE c = "BREAK" -> {"whileBody", "loop", "alias", "top"}
                   [] c = "EXIT"  -> {"load", "alias", "top"}
                   [] OTHER       -> {"fun", "alias", "top"}

\* A break, return or exit is carried outwards, unchanged, until a caller
\* meant to stop it: no if, try, eval, subshell, ablock, expansion or
\* condition in between may swallow it or turn it into something else.
JumpsLand ==
    [][\A c \in {"BREAK", "EXIT"} \cup Returns :
          InFlight(c) /\ ~(phase = "ret" /\ ret.site \in CatchersOf(c))
             => InFlight(c)']_vars

\* No alias and no loaded file is between an exit and the top level.
ExitFree ==
    /\ InFlight("EXIT")
    /\ CountIn(ctl, {"alias", "load"}) = 0
    /\ phase = "ret" => ret.site \notin {"alias", "load"}

\* exit, however deep in functions, blocks, loops and tries, ends the shell:
\* nothing but an alias or a loaded file stops it on its way.
ExitLeavesShell == ExitFree ~> phase = "exited"
=============================================================================
