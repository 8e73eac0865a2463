-------------------------- MODULE ExternalCommand --------------------------
(***************************************************************************)
(* run_external_command: one program run by the shell, with the processes  *)
(* and pipes around it.  The shell forks the program, forks a writer that  *)
(* feeds it a memory buffer, reads its stdout to the end and then its      *)
(* stderr, and at last waits for the writer and the program.  Terminal     *)
(* signals fall in anywhere.                                               *)
(*                                                                         *)
(* Bytes are counted in blocks; a pipe holds Cap of them.                  *)
(***************************************************************************)
EXTENDS Integers, FiniteSets

CONSTANTS
    AppTypes,       \* gAppType: "optC", "xApp", "console"
    Ins,            \* stdin: "none" (nothing was piped), "fd", "buffer"
    Outs,           \* stdout: "stdout", "fd" (a redirect), "buffer"
    Places,         \* "inner" (not mLastProgram), "last", "background"
    Cap,            \* blocks a pipe holds
    MaxIn,          \* blocks of the buffer on stdin
    MaxOut, MaxErr, \* most blocks the program writes
    MaxInterrupts,  \* ^C typed while the command runs
    MaxStops        \* ^Z typed while the program has the terminal

\* The named limits bound what the environment does, not the shell.

ASSUME CountAssumption ==
    /\ Cap \in Nat \ {0}
    /\ {MaxIn, MaxOut, MaxErr, MaxInterrupts, MaxStops} \subseteq Nat

Streams == {"out", "err"}

VARIABLES
    cmd,        \* how the command is run; never changes
    pc,         \* where the shell is in run_external_command
    ok,         \* FALSE once a reader has failed
    child,      \* the program: its state, the call it is in and its exit code
    written,    \* blocks the program has written to each stream
    writer,     \* the writer process
    pipe,       \* blocks in each pipe
    open,       \* read ends of pipeoutfds and pipeerrfds open in the shell
    got,        \* blocks the shell has stored of each stream
    tty,        \* which process group the terminal is given to
    gXyzshSigInt,
    mRCode,
    jobs,       \* number of entries made in gJobs for the program
    typed       \* history: ^C and ^Z typed, and whether a ^C reached the shell

vars == <<cmd, pc, ok, child, written, writer, pipe, open, got, tty, gXyzshSigInt,
          mRCode, jobs, typed>>

Commands == [app : AppTypes, in : Ins, out : Outs, place : Places]

\* The pipes run_external_command makes, from what nextin and nextout are.
Piped(s) == CASE s = "in"  -> cmd.in = "buffer"
              [] s = "out" -> cmd.out = "buffer"
              [] s = "err" -> cmd.out # "stdout"

Alive(st)    == st \in {"forked", "running", "stopped"}
Unreaped(st) == st \in {"exited", "signaled"}

Init ==
    /\ cmd \in Commands
    /\ pc = "start" /\ ok = TRUE
    /\ child = [st |-> "none", want |-> "none", code |-> "none"]
    /\ written = [s \in Streams |-> 0]
    /\ writer = [st |-> "none", left |-> 0]
    /\ pipe = [s \in {"in", "out", "err"} |-> 0]
    /\ open = {}
    /\ got = [s \in Streams |-> 0]
    /\ tty = "shell"
    /\ gXyzshSigInt = FALSE
    /\ mRCode = "0"
    /\ jobs = 0
    /\ typed = [int |-> 0, stop |-> 0, hit |-> FALSE]

-----------------------------------------------------------------------------
(* The program and the writer.                                             *)

\* After fork: a process group of its own and, in the foreground of a
\* terminal, the terminal; the default signal actions; exec.
TakesTerminal == cmd.app = "console" /\ cmd.place # "background"

ChildStarts ==
    /\ child.st = "forked"
    /\ child' = [child EXCEPT !.st = "running"]
    /\ tty' = IF TakesTerminal THEN "child" ELSE tty
    /\ UNCHANGED <<cmd, pc, ok, written, writer, pipe, open, got, gXyzshSigInt, mRCode, jobs,
                   typed>>

Running == child.st = "running"
ChildOnly == UNCHANGED <<cmd, pc, ok, writer, open, got, tty, gXyzshSigInt,
                         mRCode, jobs, typed>>

Most(s) == IF s = "out" THEN MaxOut ELSE MaxErr

\* The program enters a call that may block.
ChildCalls ==
    /\ Running /\ child.want = "none"
    /\ \E s \in Streams \cup {"in"} :
          /\ s \in Streams => written[s] < Most(s)
          /\ s = "in" => Piped("in")
          /\ child' = [child EXCEPT !.want = s]
    /\ UNCHANGED <<pipe, written>> /\ ChildOnly

Killed(c) == [c EXCEPT !.st = "signaled", !.want = "none", !.code = "signal"]

\* write() to a pipe blocks while it is full and is fatal once the shell has
\* closed the read end; elsewhere it just returns.
ChildWrites ==
    /\ Running /\ child.want \in Streams
    /\ LET s == child.want IN
          IF Piped(s) /\ s \notin open
          THEN /\ child' = Killed(child)
               /\ UNCHANGED <<pipe, written>>
          ELSE /\ Piped(s) => pipe[s] < Cap
               /\ pipe' = IF Piped(s) THEN [pipe EXCEPT ![s] = @ + 1] ELSE pipe
               /\ written' = [written EXCEPT ![s] = @ + 1]
               /\ child' = [child EXCEPT !.want = "none"]
    /\ ChildOnly

\* read() from the pipe on stdin blocks until there is data or no writer.
ChildReads ==
    /\ Running /\ child.want = "in"
    /\ pipe["in"] > 0 \/ ~Alive(writer.st)
    /\ pipe' = [pipe EXCEPT !["in"] = IF @ > 0 THEN @ - 1 ELSE 0]
    /\ child' = [child EXCEPT !.want = "none"]
    /\ UNCHANGED written /\ ChildOnly

\* The program ends, with what it has left to write or not; 127 is also what
\* run_exec_cprog exits with when there is no such program.
ChildExits ==
    /\ Running /\ child.want = "none"
    /\ \E code \in {"0", "1", "127"} :
          child' = [child EXCEPT !.st = "exited", !.code = code]
    /\ UNCHANGED <<pipe, written>> /\ ChildOnly

\* bufsiz_write in the writer, which ends at EPIPE too.
\* (Here and below, a definition marked "slip" is one of the ways to get the
\* one after it wrong; the properties tell them apart.)
WriterDone        == writer.left = 0 \/ ~Alive(child.st)
WriterSteps ==
    /\ writer.st = "running"
    /\ IF WriterDone
       THEN writer' = [writer EXCEPT !.st = "exited"] /\ UNCHANGED pipe
       ELSE /\ pipe["in"] < Cap
            /\ pipe' = [pipe EXCEPT !["in"] = @ + 1]
            /\ writer' = [writer EXCEPT !.left = @ - 1]
    /\ UNCHANGED <<cmd, pc, ok, child, written, open, got, tty, gXyzshSigInt, mRCode, jobs, typed>>

-----------------------------------------------------------------------------
(* The shell.                                                              *)

Reading   == {"checkOut", "readOut", "checkErr", "readErr"}
StreamAt  == IF pc \in {"checkOut", "readOut"} THEN "out" ELSE "err"
Waiting   == IF Piped("in") THEN "waitWriter" ELSE "waitChild"
FirstRead == IF Piped("out") THEN "checkOut" ELSE IF Piped("err") THEN "checkErr" ELSE Waiting
NotErr    == Waiting                                                    \* slip
OutAgain  == IF Piped("err") THEN "checkOut" ELSE Waiting               \* slip
AfterRead == IF StreamAt = "out" /\ Piped("err") THEN "checkErr" ELSE Waiting

\* pipe(), fork(), nextin_writer, and the write ends closed.  A writer that
\* inherits a pending interrupt stops after the first block.
Fork ==
    /\ pc = "start"
    /\ child' = [child EXCEPT !.st = "forked"]
    /\ writer' = IF Piped("in")
                 THEN [st |-> "running",
                       left |-> IF gXyzshSigInt /\ MaxIn > 1 THEN 1 ELSE MaxIn]
                 ELSE writer
    /\ open' = {s \in Streams : Piped(s)}
    /\ pc' = FirstRead
    /\ UNCHANGED <<cmd, ok, written, pipe, got, tty, gXyzshSigInt, mRCode, jobs, typed>>

\* nextout_reader gives up on a pending interrupt, leaving its pipe open.
ReaderFails ==
    /\ gXyzshSigInt' = FALSE
    /\ mRCode' = "interrupt"
    /\ ok' = FALSE
    /\ pc' = Waiting
    /\ UNCHANGED <<open, got>>

ReaderOnly == UNCHANGED <<cmd, child, written, writer, tty, jobs, typed>>

\* The top of nextout_reader's loop.
CheckReader ==
    /\ pc \in {"checkOut", "checkErr"}
    /\ IF gXyzshSigInt THEN ReaderFails
       ELSE /\ pc' = IF pc = "checkOut" THEN "readOut" ELSE "readErr"
            /\ UNCHANGED <<ok, open, got, gXyzshSigInt, mRCode>>
    /\ UNCHANGED pipe /\ ReaderOnly

\* read() returns data; fd_write stores it, or drops it when interrupted.
ReadData ==
    /\ pc \in {"readOut", "readErr"} /\ pipe[StreamAt] > 0
    /\ pipe' = [pipe EXCEPT ![StreamAt] = 0]
    /\ IF gXyzshSigInt THEN ReaderFails
       ELSE /\ got' = [got EXCEPT ![StreamAt] = @ + pipe[StreamAt]]
            /\ pc' = IF pc = "readOut" THEN "checkOut" ELSE "checkErr"
            /\ UNCHANGED <<ok, open, gXyzshSigInt, mRCode>>
    /\ ReaderOnly

\* read() returns 0 once the program, the only writer, is gone.
EndOfData(s) == pipe[s] = 0 /\ ~Alive(child.st)

ReadEnd ==
    /\ pc \in {"readOut", "readErr"} /\ EndOfData(StreamAt)
    /\ open' = open \ {StreamAt}
    /\ pc' = AfterRead
    /\ UNCHANGED <<ok, pipe, got, gXyzshSigInt, mRCode>> /\ ReaderOnly

\* run_external_command returns TRUE only if no reader failed before.
Return(true) == pc' = IF ok /\ true THEN "true" ELSE "false"
WaitOnly     == UNCHANGED <<cmd, ok, written, pipe, open, got, gXyzshSigInt, typed>>

WaitWriter ==
    /\ pc = "waitWriter" /\ Unreaped(writer.st)
    /\ writer' = [writer EXCEPT !.st = "reaped"]
    /\ pc' = "waitChild"
    /\ UNCHANGED <<child, tty, mRCode, jobs>> /\ WaitOnly

Reap == child' = [child EXCEPT !.st = "reaped"]

\* How the wait came out, and the outcomes after which the shell calls
\* tcsetpgrp: all of them in a console.
Outcome == IF child.st = "exited" /\ child.code = "127" THEN "127" ELSE child.st
TakesBackLate(outcome) == cmd.app = "console" /\ outcome # "127"     \* slip
TakesBack(outcome)     == cmd.app = "console"
BackToShell(outcome)   == tty' = IF TakesBack(outcome) THEN "shell" ELSE tty

\* An inner program has ended; its code is not kept.
WaitInner ==
    /\ pc = "waitChild" /\ cmd.place = "inner" /\ Unreaped(child.st)
    /\ Reap /\ BackToShell(Outcome)
    /\ Return(IF cmd.app = "optC" THEN Outcome # "signaled" ELSE Outcome = "exited")
    /\ UNCHANGED <<writer, mRCode, jobs>> /\ WaitOnly

\* An inner program has stopped: it is killed, and waited for again.
WaitInnerStopped ==
    /\ pc = "waitChild" /\ cmd.place = "inner" /\ child.st = "stopped"
    /\ child' = [child EXCEPT !.st = "signaled"]
    /\ pc' = "waitKilled"
    /\ UNCHANGED <<writer, tty, mRCode, jobs>> /\ WaitOnly

WaitKilled ==
    /\ pc \in {"waitKilled", "waitAnyKilled"}
    /\ \/ Unreaped(child.st) /\ Reap /\ UNCHANGED writer
       \/ /\ pc = "waitAnyKilled" /\ Unreaped(writer.st)
          /\ writer' = [writer EXCEPT !.st = "reaped"] /\ UNCHANGED child
    /\ tty' = "shell"
    /\ Return(FALSE)
    /\ UNCHANGED <<mRCode, jobs>> /\ WaitOnly

\* The same after an interrupted wait whose garbage status reads "stopped":
\* the pid is -1, so every process the shell may signal is killed.
KillAll ==
    /\ pc = "killAll"
    /\ child' = Killed(child)
    /\ writer' = IF Alive(writer.st) THEN [writer EXCEPT !.st = "signaled"] ELSE writer
    /\ pc' = "waitAnyKilled"
    /\ UNCHANGED <<tty, mRCode, jobs>> /\ WaitOnly

\* A background program becomes a job and is not waited for.
WaitBackground ==
    /\ pc = "waitChild" /\ cmd.place = "background"
    /\ jobs' = jobs + 1
    /\ Return(TRUE)
    /\ UNCHANGED <<child, writer, tty, mRCode>> /\ WaitOnly

\* The program in the foreground has ended; a script or -c drops its code.
CodeOf(c)      == c.code
WaitLast ==
    /\ pc = "waitChild" /\ cmd.place = "last" /\ Unreaped(child.st)
    /\ Reap /\ BackToShell(Outcome)
    /\ mRCode' = IF cmd.app = "optC" THEN mRCode ELSE CodeOf(child)
    /\ Return(cmd.app = "optC" \/ Outcome # "127")
    /\ UNCHANGED <<writer, jobs>> /\ WaitOnly

\* It has stopped: it becomes a job.
NotAJob == 0        \* slip
NewJob  == 1
WaitLastStopped ==
    /\ pc = "waitChild" /\ cmd.place = "last" /\ child.st = "stopped"
    /\ jobs' = jobs + NewJob
    /\ mRCode' = "stop"
    /\ BackToShell("stopped")
    /\ Return(TRUE)
    /\ UNCHANGED <<child, writer>> /\ WaitOnly

\* waitpid(-1) in a script or -c, after a retry that lost the pid: any child
\* is reaped, the program as well as the writer.
WaitAny ==
    /\ pc \in {"waitAnyWriter", "waitAnyInner"}
    /\ \/ /\ Unreaped(writer.st)
          /\ writer' = [writer EXCEPT !.st = "reaped"] /\ UNCHANGED child
          /\ IF pc = "waitAnyWriter" THEN pc' = "waitChild" ELSE Return(TRUE)
       \/ /\ Unreaped(child.st)
          /\ Reap /\ UNCHANGED writer
          /\ IF child.st = "signaled" THEN pc' = "false"
             ELSE IF pc = "waitAnyWriter" THEN pc' = "waitChild" ELSE Return(TRUE)
    /\ UNCHANGED <<tty, mRCode, jobs>> /\ WaitOnly

\* The program was reaped in place of the writer: waitpid fails, and the
\* status an inner program is judged by was never set.
WaitGone ==
    /\ pc = "waitChild" /\ cmd.app = "optC" /\ child.st = "reaped"
    /\ cmd.place # "background"
    /\ IF cmd.place = "last" THEN Return(TRUE) ELSE \E b \in BOOLEAN : Return(b)
    /\ UNCHANGED <<child, writer, tty, mRCode, jobs>> /\ WaitOnly

-----------------------------------------------------------------------------
(* The terminal.                                                           *)

Returned == pc \in {"true", "false"}

\* A script and its children are one process group; otherwise the program
\* and its writer have their own.
ShellIsHit    == cmd.app = "optC" \/ tty = "shell"
ProgramIsHit  == cmd.app = "optC" \/ tty = "child"
WriterGivesUp == IF ProgramIsHit THEN [writer EXCEPT !.left = 0] ELSE writer

\* The handler is not SA_RESTART: a blocked call of the shell fails with
\* EINTR.  A reader takes that for the end of the data.  A wait takes a
\* status that is 0 (WaitLast) or was never set, or in a script tries again,
\* for any child where the first try has overwritten the pid.
BreakRead ==
    /\ pc \in {"readOut", "readErr"} /\ ~EndOfData(StreamAt) /\ pipe[StreamAt] = 0
    /\ open' = open \ {StreamAt}
    /\ pc' = AfterRead
    /\ UNCHANGED <<tty, mRCode>>
BreakWaitWriter ==
    /\ pc = "waitWriter" /\ Alive(writer.st)
    /\ IF cmd.app = "optC" THEN pc' = "waitAnyWriter" ELSE pc' \in {"false", "waitChild"}
    /\ UNCHANGED <<open, tty, mRCode>>
BreakWaitLast ==
    /\ pc = "waitChild" /\ cmd.place = "last" /\ cmd.app # "optC" /\ Alive(child.st)
    /\ Return(TRUE) /\ BackToShell("exited")
    /\ mRCode' = "0"
    /\ UNCHANGED open
BreakWaitInner ==
    /\ pc = "waitChild" /\ cmd.place = "inner" /\ Alive(child.st)
    /\ IF cmd.app = "optC" THEN pc' = "waitAnyInner" /\ UNCHANGED tty
       ELSE \/ tty' = "shell" /\ \E b \in BOOLEAN : Return(b)
            \/ pc' = "killAll" /\ UNCHANGED tty
    /\ UNCHANGED <<open, mRCode>>
Carry == UNCHANGED <<pc, open, tty, mRCode>>

\* ^C: the shell's handler sets gXyzshSigInt, the writer gives up at its next
\* block, and the program dies of it or handles it.
Interrupt ==
    /\ ~Returned /\ typed.int < MaxInterrupts
    /\ \/ child' = child
       \/ ProgramIsHit /\ Running /\ child' = Killed(child)
    /\ writer' = WriterGivesUp
    /\ typed' = [typed EXCEPT !.int = @ + 1, !.hit = @ \/ ShellIsHit]
    /\ gXyzshSigInt' = (gXyzshSigInt \/ ShellIsHit)
    /\ IF ShellIsHit
       THEN Carry \/ BreakRead \/ BreakWaitWriter \/ BreakWaitLast \/ BreakWaitInner
       ELSE Carry
    /\ UNCHANGED <<cmd, ok, written, pipe, got, jobs>>

\* ^Z: the program stops; its writer, which has the shell's handler, gives up.
Stop ==
    /\ ~Returned /\ typed.stop < MaxStops /\ tty = "child" /\ Running
    /\ child' = [child EXCEPT !.st = "stopped"]
    /\ writer' = WriterGivesUp
    /\ typed' = [typed EXCEPT !.stop = @ + 1]
    /\ UNCHANGED <<cmd, pc, ok, written, pipe, open, got, tty, gXyzshSigInt, mRCode, jobs>>

-----------------------------------------------------------------------------
Over == Returned /\ ~Running /\ child.st # "forked" /\ UNCHANGED vars

Program == ChildStarts \/ ChildCalls \/ ChildWrites \/ ChildReads \/ ChildExits
Shell   == \/ Fork \/ CheckReader \/ ReadData \/ ReadEnd \/ WaitWriter
           \/ WaitInner \/ WaitInnerStopped \/ WaitKilled \/ KillAll \/ WaitBackground
           \/ WaitLast \/ WaitLastStopped \/ WaitAny \/ WaitGone

Next == Program \/ WriterSteps \/ Shell \/ Interrupt \/ Stop \/ Over

\* The system runs every process that can run, and a program that can end
\* again and again ends.
Fairness == /\ WF_vars(Shell) /\ WF_vars(WriterSteps)
            /\ WF_vars(ChildStarts) /\ WF_vars(ChildWrites) /\ WF_vars(ChildReads)
            /\ SF_vars(ChildExits)

Spec     == Init /\ [][Next]_vars
FairSpec == Spec /\ Fairness
-----------------------------------------------------------------------------
(* Properties.                                                             *)

Pcs == {"start", "checkOut", "readOut", "checkErr", "readErr", "waitWriter",
        "waitChild", "waitKilled", "killAll", "waitAnyKilled", "waitAnyWriter", "waitAnyInner", "true", "false"}
States == {"none", "forked", "running", "stopped", "exited", "signaled", "reaped"}

TypeOK ==
    /\ cmd \in Commands /\ pc \in Pcs /\ ok \in BOOLEAN
    /\ child \in [st : States, want : {"none", "in", "out", "err"},
                   code : {"none", "0", "1", "127", "signal"}]
    /\ written \in [Streams -> Nat] /\ \A s \in Streams : written[s] <= Most(s)
    /\ writer \in [st : States, left : 0..MaxIn]
    /\ pipe \in [{"in", "out", "err"} -> 0..Cap]
    /\ open \subseteq Streams
    /\ got \in [Streams -> Nat]
    /\ tty \in {"shell", "child"} /\ gXyzshSigInt \in BOOLEAN
    /\ mRCode \in {"0", "1", "127", "signal", "stop", "interrupt"}
    /\ jobs \in 0..1
    /\ typed \in [int : 0..MaxInterrupts, stop : 0..MaxStops, hit : BOOLEAN]

\* When run_external_command returns, whichever way, the terminal is the
\* shell's again, unless a ^C hit the shell itself while it waited.
TerminalBack == Returned /\ tty = "child" => typed.hit

\* When it returns TRUE, all the program wrote to a captured stream is in the
\* buffer, also where a ^C has ended the reading.
NothingLost ==
    pc = "true" => \A s \in Streams : Piped(s) => got[s] = written[s]

\* Unless the shell was interrupted, no read end is left open, no child is
\* left as a zombie, and the program is reaped or is one job.
NothingLeaks ==
    TypeOK /\ (Returned /\ ~typed.hit =>
        /\ open = {}
        /\ writer.st \in {"none", "reaped"}
        /\ IF child.st = "reaped" THEN jobs = 0 \/ cmd.place = "background" ELSE jobs = 1)

\* Left alone by the user, the shell gets back from the program: it does not
\* wait at a pipe nobody writes to while the program waits at a full one.
Returns == <>(Returned \/ typed.int + typed.stop > 0)
=============================================================================
