----------------------------- MODULE JobControl -----------------------------
(***************************************************************************)
(* gJobs: the programs put in the background or stopped, from the command  *)
(* line that starts them to the prompt that reaps them.  The shell runs    *)
(* one command at a time; the programs run, stop and end on their own.     *)
(*                                                                         *)
(* What run_external_command does in between (ExternalCommand) is seen     *)
(* here by its results only: the program has ended and is reaped, or has   *)
(* stopped and is a job.                                                   *)
(***************************************************************************)
EXTENDS Integers, Sequences

CONSTANT Programs       \* process groups; each is started at most once

ASSUME ProgramAssumption == "shell" \notin Programs /\ "none" \notin Programs

VARIABLES
    proc,       \* state of each program
    gJobs,      \* the vector of jobs
    tty,        \* whose the terminal is
    pc,         \* "prompt", "command", "fg", "reap" or "gone"
    current,    \* the program waited for
    num,        \* index in gJobs of the job fg waits for
    listed,     \* history: gJobs as `jobs' last printed it, <<>> once
                \* xyzsh_job_done has reported a job
    forced      \* history: the shell was left with exit -force

vars == <<proc, gJobs, tty, pc, current, num, listed, forced>>

Init ==
    /\ proc = [p \in Programs |-> "none"]
    /\ gJobs = <<>>
    /\ tty = "shell"
    /\ pc = "prompt" /\ current = "none" /\ num = 0
    /\ listed = <<>>
    /\ forced = FALSE

AtPrompt == pc = "prompt"

\* vector_erase.  (Here and below, a definition marked "slip" is one of the
\* ways to get the one after it wrong; the properties tell them apart.)
EraseLast(s, n) == SubSeq(s, 1, Len(s) - 1)                         \* slip
Erase(s, n)     == [k \in 1..(Len(s) - 1) |-> IF k < n THEN s[k] ELSE s[k + 1]]

\* The shell takes the terminal back, however the wait came out.
TakesBackIfEnded(st) == tty' = IF st = "ended" THEN "shell" ELSE tty    \* slip
TakesBack(st)        == tty' = "shell"

-----------------------------------------------------------------------------
(* Commands of the shell.  Each one is followed by the reaping before the  *)
(* next prompt.                                                            *)

\* prog &
RunBackground(p) ==
    /\ AtPrompt /\ proc[p] = "none"
    /\ proc' = [proc EXCEPT ![p] = "running"]
    /\ gJobs' = Append(gJobs, p)
    /\ pc' = "reap"
    /\ UNCHANGED <<tty, current, num, listed, forced>>

\* prog
RunForeground(p) ==
    /\ AtPrompt /\ proc[p] = "none"
    /\ proc' = [proc EXCEPT ![p] = "running"]
    /\ tty' = p
    /\ pc' = "command" /\ current' = p
    /\ UNCHANGED <<gJobs, num, listed, forced>>

CommandEnds ==
    /\ pc = "command" /\ proc[current] = "ended"
    /\ proc' = [proc EXCEPT ![current] = "reaped"]
    /\ TakesBack("ended")
    /\ pc' = "reap" /\ current' = "none"
    /\ UNCHANGED <<gJobs, num, listed, forced>>

Added          == Append(gJobs, current)
CommandStops ==
    /\ pc = "command" /\ proc[current] = "stopped"
    /\ gJobs' = Added
    /\ TakesBack("stopped")
    /\ pc' = "reap" /\ current' = "none"
    /\ UNCHANGED <<proc, num, listed, forced>>

\* cmd_jobs
cmd_jobs ==
    /\ AtPrompt
    /\ listed' = gJobs
    /\ pc' = "reap"
    /\ UNCHANGED <<proc, gJobs, tty, current, num, forced>>

\* forground_job up to its waitpid.
Cont(p) == [proc EXCEPT ![p] = IF @ = "stopped" THEN "running" ELSE @]
forground_job(n) ==
    /\ AtPrompt /\ n \in 1..Len(gJobs)
    /\ tty' = gJobs[n]
    /\ proc' = Cont(gJobs[n])
    /\ pc' = "fg" /\ current' = gJobs[n] /\ num' = n
    /\ UNCHANGED <<gJobs, listed, forced>>

\* fg with a number that is no job's.
fg_invalid ==
    /\ AtPrompt
    /\ pc' = "reap"
    /\ UNCHANGED <<proc, gJobs, tty, current, num, listed, forced>>

\* The job waited for has ended, normally or from a signal.
FgEnds ==
    /\ pc = "fg" /\ proc[current] = "ended"
    /\ proc' = [proc EXCEPT ![current] = "reaped"]
    /\ gJobs' = Erase(gJobs, num)
    /\ listed' = <<>>
    /\ TakesBack("ended")
    /\ pc' = "reap" /\ current' = "none" /\ num' = 0
    /\ UNCHANGED forced

\* It has stopped again: it keeps its number.
Restopped      == gJobs
FgStops ==
    /\ pc = "fg" /\ proc[current] = "stopped"
    /\ gJobs' = Restopped
    /\ TakesBack("stopped")
    /\ pc' = "reap" /\ current' = "none" /\ num' = 0
    /\ UNCHANGED <<proc, listed, forced>>

\* background_job, for programs that embed the shell.
background_job(n) ==
    /\ AtPrompt /\ n \in 1..Len(gJobs)
    /\ proc' = Cont(gJobs[n])
    /\ UNCHANGED <<gJobs, tty, pc, current, num, listed, forced>>

\* xyzsh_wait_background_job: at most one child is reaped; none is waited for.
CandidatesHead == {p \in Programs : /\ proc[p] = "ended"
                                    /\ gJobs # <<>> /\ gJobs[1] = p}    \* slip
Candidates     == {p \in Programs : proc[p] = "ended"}
Reap(p) ==
    /\ pc = "reap" /\ p \in Candidates
    /\ proc' = [proc EXCEPT ![p] = "reaped"]
    /\ \/ /\ \A n \in 1..Len(gJobs) : gJobs[n] # p
          /\ UNCHANGED <<gJobs, listed>>
       \/ \E n \in 1..Len(gJobs) : /\ gJobs[n] = p
                                   /\ gJobs' = Erase(gJobs, n)
                                   /\ listed' = <<>>
    /\ pc' = "prompt"
    /\ UNCHANGED <<tty, current, num, forced>>
ReapNone ==
    /\ pc = "reap" /\ Candidates = {}
    /\ pc' = "prompt"
    /\ UNCHANGED <<proc, gJobs, tty, current, num, listed, forced>>

\* An empty line: editline returns and the loop reaps.
EmptyLine ==
    /\ AtPrompt
    /\ pc' = "reap"
    /\ UNCHANGED <<proc, gJobs, tty, current, num, listed, forced>>

\* Leaving the shell: exit and end of file are refused while there are jobs;
\* xyzsh_kill_all_jobs follows.
LeaveUnasked == UNCHANGED forced                        \* slip
Leave        == (gJobs = <<>> /\ UNCHANGED forced) \/ forced' = TRUE
Exit ==
    /\ AtPrompt
    /\ Leave
    /\ proc' = [p \in Programs |-> IF \E n \in 1..Len(gJobs) : gJobs[n] = p
                                   THEN "ended" ELSE proc[p]]
    /\ gJobs' = <<>>
    /\ pc' = "gone"
    /\ UNCHANGED <<tty, current, num, listed>>
ExitRefused ==
    /\ AtPrompt /\ gJobs # <<>>
    /\ pc' = "reap"
    /\ UNCHANGED <<proc, gJobs, tty, current, num, listed, forced>>

-----------------------------------------------------------------------------
(* The programs.                                                           *)

ProcEnds(p) ==
    /\ pc # "gone"
    /\ proc[p] \in {"running", "stopped"}
    /\ proc' = [proc EXCEPT ![p] = "ended"]
    /\ UNCHANGED <<gJobs, tty, pc, current, num, listed, forced>>

\* ^Z in the foreground, reading the terminal in the background.
ProcStops(p) ==
    /\ pc # "gone"
    /\ proc[p] = "running"
    /\ proc' = [proc EXCEPT ![p] = "stopped"]
    /\ UNCHANGED <<gJobs, tty, pc, current, num, listed, forced>>

Gone == pc = "gone" /\ UNCHANGED vars

Settle == CommandEnds \/ CommandStops \/ FgEnds \/ FgStops
Reaps  == ReapNone \/ \E p \in Programs : Reap(p)

Next ==
    \/ \E p \in Programs : \/ RunBackground(p) \/ RunForeground(p)
                           \/ ProcEnds(p) \/ ProcStops(p)
    \/ \E n \in 1..Len(gJobs) : forground_job(n) \/ background_job(n)
    \/ Settle \/ Reaps
    \/ cmd_jobs \/ fg_invalid \/ EmptyLine \/ Exit \/ ExitRefused \/ Gone

Spec == Init /\ [][Next]_vars

\* A program in the foreground ends, or the user stops it.
ForegroundEnds == \E p \in Programs : p = current /\ ProcEnds(p)

\* The loop of the shell goes on, and the user keeps coming back to it.
FairSpec == Spec /\ WF_vars(Settle) /\ WF_vars(Reaps)
                 /\ WF_vars(ForegroundEnds) /\ SF_vars(EmptyLine)
-----------------------------------------------------------------------------
(* Properties.                                                             *)

TypeOK ==
    /\ proc \in [Programs -> {"none", "running", "stopped", "ended", "reaped"}]
    /\ gJobs \in Seq(Programs)
    /\ tty \in Programs \cup {"shell"}
    /\ pc \in {"prompt", "command", "fg", "reap", "gone"}
    /\ current \in Programs \cup {"none"}
    /\ num \in Nat
    /\ listed \in Seq(Programs)
    /\ forced \in BOOLEAN

Child(p) == proc[p] \in {"running", "stopped", "ended"}

\* The jobs are the live and the unreaped children, each once, but for the one
\* being waited for: none is lost, and no job is a process already reaped, so
\* that a job's number is never another process's by reuse.  The numbers `jobs'
\* printed hold until a job is reported done.
JobsAreChildren ==
    /\ TypeOK
    /\ \A m, n \in 1..Len(gJobs) : gJobs[m] = gJobs[n] => m = n
    /\ \A n \in 1..Len(gJobs) : Child(gJobs[n])
    /\ pc # "gone" =>
          \A p \in Programs : Child(p) => p = current \/ \E n \in 1..Len(gJobs) : gJobs[n] = p
    /\ pc # "gone" => \A n \in 1..Len(listed) : n <= Len(gJobs) /\ gJobs[n] = listed[n]

\* At the prompt the terminal is the shell's; while the shell waits it is
\* that of the program waited for, which fg still finds at its index.
TerminalOfWaited ==
    /\ pc \in {"prompt", "reap"} => tty = "shell"
    /\ pc \in {"command", "fg"} => tty = current
    /\ pc = "fg" => num \in 1..Len(gJobs) /\ gJobs[num] = current

\* Without -force the shell is not left while a program it started is alive.
ExitAsksFirst ==
    [][pc' = "gone" /\ pc # "gone" /\ ~forced' => \A p \in Programs : ~Child(p)]_vars

\* Every job that ends is reaped, though each prompt reaps only one.
EndedIsReaped == \A p \in Programs : proc[p] = "ended" ~> proc[p] = "reaped" \/ pc = "gone"
=============================================================================
