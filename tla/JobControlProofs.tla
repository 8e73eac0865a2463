--------------------------- MODULE JobControlProofs ---------------------------
(***************************************************************************)
(* Theorems about JobControl, for every set of programs.  The inductive    *)
(* invariant adds to the properties of the module what the shell waits for *)
(* at each point: nothing at the prompt, a child of its own that is not    *)
(* yet a job while a command runs, and the job numbered num in fg.         *)
(***************************************************************************)
EXTENDS JobControl, TLAPS

\* What the shell waits for, and that it is a child.
WaitsForChild ==
    /\ pc \in {"prompt", "reap", "gone"} => current = "none"
    /\ pc \in {"command", "fg"} => current \in Programs /\ Child(current)
    /\ pc = "command" => \A n \in 1..Len(gJobs) : gJobs[n] # current

IInv == JobsAreChildren /\ TerminalOfWaited /\ WaitsForChild

-----------------------------------------------------------------------------
(* The vector of jobs.                                                     *)

Distinct(s)  == \A m, n \in 1..Len(s) : s[m] = s[n] => m = n
In(p, s)     == \E n \in 1..Len(s) : s[n] = p

\* Appending a job that is not there keeps the jobs distinct, at their numbers.
LEMMA AppendJob ==
    ASSUME NEW s \in Seq(Programs), NEW p \in Programs, Distinct(s), ~In(p, s)
    PROVE  /\ Append(s, p) \in Seq(Programs)
           /\ Distinct(Append(s, p))
           /\ \A n \in 1..Len(s) : n \in 1..Len(Append(s, p)) /\ Append(s, p)[n] = s[n]
           /\ \A q : In(q, Append(s, p)) <=> q = p \/ In(q, s)
  <1> DEFINE t == Append(s, p)
  <1>1. /\ t \in Seq(Programs) /\ Len(s) \in Nat /\ Len(t) = Len(s) + 1
        /\ t[Len(s) + 1] = p
        /\ \A n \in 1..Len(s) : t[n] = s[n]
    OBVIOUS
  <1> HIDE DEF t
  <1>2. \A n \in 1..Len(t) : n \in 1..Len(s) \/ n = Len(s) + 1
    BY <1>1
  <1>3. Distinct(t)
    BY <1>1, <1>2 DEF Distinct, In
  <1>4. \A q : In(q, t) <=> q = p \/ In(q, s)
    BY <1>1, <1>2 DEF In
  <1>5. \A n \in 1..Len(s) : n \in 1..Len(t)
    BY <1>1
  <1> QED
    BY <1>1, <1>3, <1>4, <1>5 DEF t

\* vector_erase takes out the job of that number and no other.
LEMMA EraseJob ==
    ASSUME NEW s \in Seq(Programs), Distinct(s), NEW n \in 1..Len(s)
    PROVE  /\ Erase(s, n) \in Seq(Programs)
           /\ Distinct(Erase(s, n))
           /\ \A q : In(q, Erase(s, n)) <=> q # s[n] /\ In(q, s)
  <1> DEFINE t == Erase(s, n)
  <1>1. Len(s) \in Nat /\ \A k \in 1..Len(s) : s[k] \in Programs
    OBVIOUS
  <1>2. t = [k \in 1..(Len(s) - 1) |-> IF k < n THEN s[k] ELSE s[k + 1]]
    BY DEF Erase
  <1>3. Len(s) - 1 \in Nat /\ \A k \in 1..(Len(s) - 1) : t[k] \in Programs
    BY <1>1, <1>2
  <1>4. t \in Seq(Programs) /\ Len(t) = Len(s) - 1
    BY <1>2, <1>3
  <1> DEFINE at(k) == IF k < n THEN k ELSE k + 1
  <1>5. \A k \in 1..Len(t) : at(k) \in 1..Len(s) /\ at(k) # n /\ t[k] = s[at(k)]
    BY <1>1, <1>2, <1>4
  <1>a. \A k, m \in 1..Len(t) : at(k) = at(m) => k = m
    BY <1>4
  <1>b. \A m \in 1..Len(s) : m # n => \E k \in 1..Len(t) : at(k) = m
    <2> TAKE m \in 1..Len(s)
    <2> HAVE m # n
    <2>1. CASE m < n
      <3>1. m \in 1..Len(t) /\ at(m) = m
        BY <1>1, <1>4, <2>1
      <3> QED
        BY <3>1
    <2>2. CASE m > n
      <3>1. m - 1 \in 1..Len(t) /\ at(m - 1) = m
        BY <1>1, <1>4, <2>2
      <3> QED
        BY <3>1
    <2> QED
      BY <1>1, <2>1, <2>2
  <1> HIDE DEF t, at
  <1>6. Distinct(t)
    BY <1>5, <1>a DEF Distinct
  <1>7. ASSUME NEW q, In(q, t)
        PROVE  q # s[n] /\ In(q, s)
    BY <1>5, <1>7 DEF In, Distinct
  <1>8. ASSUME NEW q, q # s[n], In(q, s)
        PROVE  In(q, t)
    BY <1>5, <1>b, <1>8 DEF In
  <1> QED
    BY <1>4, <1>6, <1>7, <1>8 DEF t

-----------------------------------------------------------------------------
(* The invariant.                                                          *)

\* The conjuncts of JobsAreChildren, by what they say of the vector of jobs.
JobsLive    == \A p : In(p, gJobs) => Child(p)
NoneLost    == pc # "gone" => \A p \in Programs : Child(p) => p = current \/ In(p, gJobs)
NumbersHold == pc # "gone" => \A n \in 1..Len(listed) : n <= Len(gJobs) /\ gJobs[n] = listed[n]
Parts       == Distinct(gJobs) /\ JobsLive /\ NoneLost /\ NumbersHold

\* The property and its parts.
LEMMA SameParts == JobsAreChildren <=> TypeOK /\ Parts
  BY DEF JobsAreChildren, Parts, Distinct, In, JobsLive, NoneLost, NumbersHold

\* The invariant holds at first.
LEMMA InitInv == Init => IInv
  <1> SUFFICES ASSUME Init PROVE IInv
    OBVIOUS
  <1>1. TypeOK
    <2>1. proc \in [Programs -> {"none", "running", "stopped", "ended", "reaped"}]
      BY DEF Init
    <2>2. gJobs \in Seq(Programs) /\ listed \in Seq(Programs)
      BY DEF Init
    <2> QED
      BY <2>1, <2>2 DEF Init, TypeOK
  <1>2. Parts
    BY DEF Init, Parts, Distinct, In, JobsLive, NoneLost, NumbersHold, Child
  <1>3. TerminalOfWaited /\ WaitsForChild
    BY DEF Init, TerminalOfWaited, WaitsForChild
  <1> QED
    BY <1>1, <1>2, <1>3, SameParts DEF IInv

\* A job is one of the programs.
LEMMA JobsTyped ==
    ASSUME TypeOK
    PROVE  /\ \A n \in 1..Len(gJobs) : gJobs[n] \in Programs
           /\ \A p : In(p, gJobs) => p \in Programs
           /\ Len(gJobs) \in Nat /\ Len(listed) \in Nat
  BY DEF TypeOK, In

\* Steps that change neither the jobs nor what was listed, nor make or lose a
\* child, keep the parts about them.
LEMMA SameJobs ==
    ASSUME TypeOK, Parts, UNCHANGED <<gJobs, listed>>, pc # "gone",
           \A p \in Programs : Child(p)' <=> Child(p),
           \A p \in Programs : Child(p) /\ p = current => p = current' \/ In(p, gJobs)
    PROVE  Parts'
  <1>1. Distinct(gJobs)' /\ NumbersHold'
    BY DEF Parts, NumbersHold, Distinct
  <1>2. JobsLive'
    BY JobsTyped DEF Parts, JobsLive, In
  <1>3. NoneLost'
    BY DEF Parts, NoneLost, In
  <1> QED
    BY <1>1, <1>2, <1>3 DEF Parts

\* A child that was not a job, as the program waited for or a new one, is
\* appended.
LEMMA AppendedParts ==
    ASSUME TypeOK, Parts, NEW q \in Programs, ~In(q, gJobs),
           gJobs' = Append(gJobs, q), UNCHANGED listed, pc # "gone",
           Child(q)', \A p \in Programs : p # q => (Child(p)' <=> Child(p)),
           \A p \in Programs : Child(p) /\ p = current => p = current' \/ p = q
    PROVE  Parts'
  <1>1. gJobs \in Seq(Programs) /\ Distinct(gJobs)
    BY DEF TypeOK, Parts
  <1>2. /\ Distinct(gJobs')
        /\ \A n \in 1..Len(gJobs) : n \in 1..Len(gJobs') /\ gJobs'[n] = gJobs[n]
        /\ \A p : In(p, gJobs') <=> p = q \/ In(p, gJobs)
    BY <1>1, AppendJob
  <1>3. JobsLive'
    BY <1>2, JobsTyped DEF Parts, JobsLive, In
  <1>4. NoneLost'
    BY <1>2 DEF Parts, NoneLost, In
  <1>5. NumbersHold'
    <2>1. ASSUME NEW n \in 1..Len(listed)
          PROVE  n <= Len(gJobs') /\ gJobs'[n] = listed[n]
      <3>1. n \in 1..Len(gJobs) /\ gJobs[n] = listed[n]
        BY JobsTyped DEF Parts, NumbersHold
      <3> QED
        BY <1>2, <3>1
    <2> QED
      BY <2>1 DEF NumbersHold
  <1> QED
    BY <1>2, <1>3, <1>4, <1>5 DEF Parts, Distinct

\* A reaped job is erased, and its number may be used again.
LEMMA ErasedParts ==
    ASSUME TypeOK, Parts, NEW n \in 1..Len(gJobs), NEW q, q = gJobs[n],
           gJobs' = Erase(gJobs, n), listed' = <<>>, pc # "gone",
           ~Child(q)', \A p \in Programs : p # q => (Child(p)' <=> Child(p)),
           \A p \in Programs : Child(p) /\ p = current => p = current' \/ p = q
    PROVE  gJobs' \in Seq(Programs) /\ Parts'
  <1>1. gJobs \in Seq(Programs) /\ Distinct(gJobs)
    BY DEF TypeOK, Parts
  <1>2. /\ gJobs' \in Seq(Programs)
        /\ Distinct(gJobs')
        /\ \A p : In(p, gJobs') <=> p # q /\ In(p, gJobs)
    BY <1>1, EraseJob
  <1>3. JobsLive'
    BY <1>2, JobsTyped DEF Parts, JobsLive, In
  <1>4. NoneLost'
    BY <1>2 DEF Parts, NoneLost, In
  <1>5. NumbersHold'
    BY DEF NumbersHold
  <1> QED
    BY <1>2, <1>3, <1>4, <1>5 DEF Parts, Distinct

\* TypeOK and what the shell waits for, given the jobs' type and that every
\* job is a child after the step.
LEMMA TypeStep ==
    ASSUME IInv, [Next]_vars
    PROVE  TypeOK'
  <1> USE DEF Child
  <1>0. TypeOK /\ WaitsForChild /\ Distinct(gJobs)
    BY SameParts DEF IInv, Parts
  <1>j. \A n \in 1..Len(gJobs) : gJobs[n] \in Programs /\ Erase(gJobs, n) \in Seq(Programs)
    BY <1>0, JobsTyped, EraseJob DEF TypeOK
  <1>e. <<>> \in Seq(Programs)
    OBVIOUS
  <1>1. ASSUME NEW p \in Programs, RunBackground(p) PROVE TypeOK'
    BY <1>0, <1>1 DEF RunBackground, TypeOK
  <1>2. ASSUME NEW p \in Programs, RunForeground(p) PROVE TypeOK'
    BY <1>0, <1>2 DEF RunForeground, TypeOK
  <1>3. CASE CommandEnds
    BY <1>0, <1>3 DEF CommandEnds, TypeOK, WaitsForChild, TakesBack
  <1>4. CASE CommandStops
    BY <1>0, <1>4 DEF CommandStops, TypeOK, WaitsForChild, TakesBack, Added
  <1>5. ASSUME NEW n \in 1..Len(gJobs), forground_job(n) PROVE TypeOK'
    BY <1>0, <1>j, <1>5 DEF forground_job, Cont, TypeOK
  <1>6. ASSUME NEW n \in 1..Len(gJobs), background_job(n) PROVE TypeOK'
    BY <1>0, <1>j, <1>6 DEF background_job, Cont, TypeOK
  <1>7. CASE FgEnds
    <2>1. num \in 1..Len(gJobs)
      BY <1>7 DEF FgEnds, IInv, TerminalOfWaited
    <2> QED
      BY <1>0, <1>j, <1>e, <1>7, <2>1 DEF FgEnds, TypeOK, WaitsForChild, TakesBack
  <1>8. CASE FgStops
    BY <1>0, <1>8 DEF FgStops, Restopped, TypeOK, WaitsForChild, TakesBack
  <1>9. ASSUME NEW p \in Programs, Reap(p) PROVE TypeOK'
    BY <1>0, <1>j, <1>e, <1>9 DEF Reap, TypeOK
  <1>10. CASE Exit
    <2>1. proc' \in [Programs -> {"none", "running", "stopped", "ended", "reaped"}]
      BY <1>0, <1>10 DEF Exit, TypeOK
    <2>2. forced' \in BOOLEAN
      BY <1>0, <1>10 DEF Exit, Leave, TypeOK
    <2> QED
      BY <1>0, <1>e, <1>10, <2>1, <2>2 DEF Exit, TypeOK
  <1>11. ASSUME NEW p \in Programs, ProcEnds(p) \/ ProcStops(p) PROVE TypeOK'
    BY <1>0, <1>11 DEF ProcEnds, ProcStops, TypeOK
  <1>12. CASE cmd_jobs \/ fg_invalid \/ EmptyLine \/ ExitRefused \/ ReapNone
    BY <1>0, <1>12 DEF cmd_jobs, fg_invalid, EmptyLine, ExitRefused, ReapNone, TypeOK
  <1>13. CASE Gone \/ UNCHANGED vars
    BY <1>0, <1>13 DEF Gone, vars, TypeOK
  <1> QED
    BY <1>1, <1>2, <1>3, <1>4, <1>5, <1>6, <1>7, <1>8, <1>9, <1>10, <1>11, <1>12, <1>13
       DEF Next, Settle, Reaps

\* The parts about the jobs, one step per action.
LEMMA PartsStep ==
    ASSUME IInv, [Next]_vars
    PROVE  Parts'
  <1> USE DEF Child
  <1>0. TypeOK /\ Parts /\ WaitsForChild /\ TerminalOfWaited
    BY SameParts DEF IInv
  <1>p. proc \in [Programs -> {"none", "running", "stopped", "ended", "reaped"}]
    BY <1>0 DEF TypeOK
  <1>1. ASSUME NEW p \in Programs, RunBackground(p) PROVE Parts'
    <2>1. ~In(p, gJobs)
      BY <1>0, <1>1 DEF RunBackground, Parts, JobsLive
    <2> QED
      BY <1>0, <1>p, <1>1, <2>1, AppendedParts DEF RunBackground, AtPrompt
  <1>2. ASSUME NEW p \in Programs, RunForeground(p) PROVE Parts'
    <2> USE <1>2 DEF RunForeground, AtPrompt
    <2>1. Distinct(gJobs)' /\ NumbersHold'
      BY <1>0 DEF Parts, NumbersHold, Distinct
    <2>0. Child(p)' /\ ~Child(p) /\ \A q \in Programs : q # p => (Child(q)' <=> Child(q))
      BY <1>p
    <2>2. JobsLive' /\ NoneLost'
      BY <1>0, <2>0, JobsTyped, ProgramAssumption
         DEF Parts, JobsLive, NoneLost, In, WaitsForChild
    <2> QED
      BY <2>1, <2>2 DEF Parts
  <1>3. CASE CommandEnds
    <2> USE <1>3 DEF CommandEnds
    <2>0. current \in Programs /\ ~In(current, gJobs)
      BY <1>0 DEF WaitsForChild, In
    <2>1. Distinct(gJobs)' /\ NumbersHold'
      BY <1>0 DEF Parts, NumbersHold, Distinct
    <2>2. JobsLive' /\ NoneLost'
      BY <1>0, <1>p, <2>0, JobsTyped DEF Parts, JobsLive, NoneLost, In
    <2> QED
      BY <2>1, <2>2 DEF Parts
  <1>4. CASE CommandStops
    <2>1. current \in Programs /\ Child(current) /\ ~In(current, gJobs)
      BY <1>0, <1>4 DEF CommandStops, WaitsForChild, In
    <2> QED
      BY <1>0, <1>4, <2>1, AppendedParts DEF CommandStops, Added
  <1>5. ASSUME NEW n \in 1..Len(gJobs), forground_job(n) PROVE Parts'
    BY <1>0, <1>p, <1>5, SameJobs, ProgramAssumption
       DEF forground_job, Cont, AtPrompt, WaitsForChild, TypeOK
  <1>6. ASSUME NEW n \in 1..Len(gJobs), background_job(n) PROVE Parts'
    BY <1>0, <1>p, <1>6, SameJobs DEF background_job, Cont, AtPrompt
  <1>7. CASE FgEnds
    <2>1. num \in 1..Len(gJobs) /\ current = gJobs[num] /\ current \in Programs
      BY <1>0, <1>7 DEF FgEnds, WaitsForChild, TerminalOfWaited
    <2>2. PICK q \in Programs : q = current
      BY <2>1
    <2>3. ~Child(q)' /\ pc # "gone" /\ \A p \in Programs : p # q => (Child(p)' <=> Child(p))
      BY <1>p, <1>7, <2>2 DEF FgEnds
    <2> QED
      BY <1>0, <1>7, <2>1, <2>2, <2>3, ErasedParts DEF FgEnds
  <1>8. CASE FgStops
    <2>1. num \in 1..Len(gJobs) /\ current = gJobs[num]
      BY <1>0, <1>8 DEF FgStops, WaitsForChild, TerminalOfWaited
    <2> QED
      BY <1>0, <1>8, <2>1, SameJobs DEF FgStops, Restopped, In
  <1>9. ASSUME NEW p \in Programs, Reap(p) PROVE Parts'
    <2> USE <1>9 DEF Reap
    <2>0. pc = "reap" /\ current = "none" /\ current' = current /\ ~Child(p)'
          /\ \A q \in Programs : q # p => (Child(q)' <=> Child(q))
      BY <1>0, <1>p DEF WaitsForChild
    <2>1. CASE (\A n \in 1..Len(gJobs) : gJobs[n] # p) /\ UNCHANGED <<gJobs, listed>>
      <3>1. ~In(p, gJobs)
        BY <2>1 DEF In
      <3>2. Distinct(gJobs)' /\ NumbersHold'
        BY <1>0, <2>0, <2>1 DEF Parts, NumbersHold, Distinct
      <3>3. JobsLive' /\ NoneLost'
        BY <1>0, <2>0, <2>1, <3>1, JobsTyped DEF Parts, JobsLive, NoneLost, In
      <3> QED
        BY <3>2, <3>3 DEF Parts
    <2>2. CASE \E n \in 1..Len(gJobs) : /\ gJobs[n] = p
                                        /\ gJobs' = Erase(gJobs, n)
                                        /\ listed' = <<>>
      BY <1>0, <2>0, <2>2, ErasedParts
    <2> QED
      BY <2>1, <2>2
  <1>10. CASE Exit
    BY <1>10 DEF Exit, Parts, Distinct, In, JobsLive, NoneLost, NumbersHold
  <1>11. ASSUME NEW p \in Programs, ProcEnds(p) \/ ProcStops(p) PROVE Parts'
    BY <1>0, <1>p, <1>11, SameJobs DEF ProcEnds, ProcStops
  <1>12. CASE fg_invalid \/ EmptyLine \/ ExitRefused \/ ReapNone
    BY <1>0, <1>12, SameJobs DEF fg_invalid, EmptyLine, ExitRefused, ReapNone, AtPrompt
  <1>13. CASE cmd_jobs
    <2> USE <1>13 DEF cmd_jobs, AtPrompt
    <2>1. Distinct(gJobs)' /\ NumbersHold'
      BY <1>0, JobsTyped DEF Parts, NumbersHold, Distinct
    <2>2. JobsLive' /\ NoneLost'
      BY <1>0 DEF Parts, JobsLive, NoneLost, In
    <2> QED
      BY <2>1, <2>2 DEF Parts
  <1>14. CASE Gone \/ UNCHANGED vars
    BY <1>0, <1>14 DEF Gone, vars, Parts, Distinct, In, JobsLive, NoneLost, NumbersHold
  <1> QED
    BY <1>1, <1>2, <1>3, <1>4, <1>5, <1>6, <1>7, <1>8, <1>9, <1>10, <1>11, <1>12, <1>13, <1>14
       DEF Next, Settle, Reaps

\* The terminal and the program waited for.
LEMMA WaitStep ==
    ASSUME IInv, [Next]_vars
    PROVE  TerminalOfWaited' /\ WaitsForChild'
  <1> DEFINE W == TerminalOfWaited /\ WaitsForChild
  <1> USE DEF TerminalOfWaited, WaitsForChild, Child
  <1>0. TypeOK /\ Parts /\ W
    BY SameParts DEF IInv
  <1>p. proc \in [Programs -> {"none", "running", "stopped", "ended", "reaped"}]
    BY <1>0 DEF TypeOK
  <1>1. ASSUME NEW p \in Programs, RunBackground(p) PROVE W'
    BY <1>0, <1>1 DEF RunBackground, AtPrompt
  <1>2. ASSUME NEW p \in Programs, RunForeground(p) PROVE W'
    <2>1. ~In(p, gJobs)
      BY <1>0, <1>2 DEF RunForeground, Parts, JobsLive
    <2> QED
      BY <1>0, <1>p, <1>2, <2>1 DEF RunForeground, In
  <1>3. CASE CommandEnds
    BY <1>0, <1>3 DEF CommandEnds, TakesBack
  <1>4. CASE CommandStops
    BY <1>0, <1>4 DEF CommandStops, TakesBack
  <1>5. ASSUME NEW n \in 1..Len(gJobs), forground_job(n) PROVE W'
    <2>1. PICK p \in Programs : p = gJobs[n] /\ Child(p)
      BY <1>0, JobsTyped DEF Parts, JobsLive, In
    <2>2. Child(p)'
      BY <1>p, <1>5, <2>1 DEF forground_job, Cont
    <2>3. pc' = "fg" /\ current' = p /\ tty' = p /\ num' \in 1..Len(gJobs') /\ gJobs'[num'] = p
      BY <1>5, <2>1 DEF forground_job
    <2> QED
      BY <2>2, <2>3
  <1>6. ASSUME NEW n \in 1..Len(gJobs), background_job(n) PROVE W'
    BY <1>0, <1>6 DEF background_job, AtPrompt
  <1>7. CASE FgEnds
    BY <1>0, <1>7 DEF FgEnds, TakesBack
  <1>8. CASE FgStops
    BY <1>0, <1>8 DEF FgStops, TakesBack
  <1>9. ASSUME NEW p \in Programs, Reap(p) PROVE W'
    BY <1>0, <1>9 DEF Reap
  <1>10. CASE Exit
    BY <1>0, <1>10 DEF Exit, AtPrompt
  <1>11. ASSUME NEW p \in Programs, ProcEnds(p) \/ ProcStops(p) PROVE W'
    BY <1>0, <1>p, <1>11 DEF ProcEnds, ProcStops
  <1>12. CASE cmd_jobs \/ fg_invalid \/ EmptyLine \/ ExitRefused \/ ReapNone
    BY <1>0, <1>12 DEF cmd_jobs, fg_invalid, EmptyLine, ExitRefused, ReapNone, AtPrompt
  <1>13. CASE Gone \/ UNCHANGED vars
    BY <1>0, <1>13 DEF Gone, vars
  <1> QED
    BY <1>1, <1>2, <1>3, <1>4, <1>5, <1>6, <1>7, <1>8, <1>9, <1>10, <1>11, <1>12, <1>13
       DEF Next, Settle, Reaps

\* So every step keeps it.
LEMMA NextInv == IInv /\ [Next]_vars => IInv'
  <1> SUFFICES ASSUME IInv, [Next]_vars PROVE IInv'
    OBVIOUS
  <1>1. TypeOK' /\ Parts'
    BY TypeStep, PartsStep
  <1>2. JobsAreChildren'
    BY <1>1 DEF JobsAreChildren, Parts, Distinct, In, JobsLive, NoneLost, NumbersHold
  <1> QED
    BY <1>2, WaitStep DEF IInv

-----------------------------------------------------------------------------
(* The theorems.                                                           *)

\* The inductive invariant holds however many programs are started, stopped,
\* continued, listed and reaped, in whatever order they end.
THEOREM Invariance == Spec => []IInv
  BY InitInv, NextInv, PTL DEF Spec

\* The vector of jobs: every live or unreaped child is in gJobs once or is
\* the program waited for, no job is a process that was reaped, and the
\* numbers that jobs printed hold until a job is reported done.
THEOREM JobsAlwaysChildren == Spec => []JobsAreChildren
  <1>1. IInv => JobsAreChildren
    BY DEF IInv
  <1> QED
    BY <1>1, Invariance, PTL

\* The terminal: the shell's whenever it reads a command or reaps, whichever
\* way the wait before it came out, and the waited program's otherwise.
THEOREM TerminalAlwaysOfWaited == Spec => []TerminalOfWaited
  <1>1. IInv => TerminalOfWaited
    BY DEF IInv
  <1> QED
    BY <1>1, Invariance, PTL

\* exit and end of file: the step that leaves the shell leaves no live or
\* unreaped child behind, unless -force was given.
THEOREM ExitAlwaysAsks == Spec => ExitAsksFirst
  <1> DEFINE A == pc' = "gone" /\ pc # "gone" /\ ~forced' => \A p \in Programs : ~Child(p)
  <1>1. IInv /\ [Next]_vars => [A]_vars
    <2> SUFFICES ASSUME IInv, Next, pc' = "gone", pc # "gone", ~forced'
                 PROVE  \A p \in Programs : ~Child(p)
      OBVIOUS
    <2>1. Exit
      BY DEF Next, Settle, Reaps, RunBackground, RunForeground, ProcEnds, ProcStops,
             forground_job, background_job, CommandEnds, CommandStops, FgEnds, FgStops,
             ReapNone, Reap, cmd_jobs, fg_invalid, EmptyLine, ExitRefused, Gone
    <2>2. gJobs = <<>> /\ current = "none"
      BY <2>1 DEF Exit, Leave, AtPrompt, IInv, WaitsForChild
    <2>3. NoneLost /\ \A p : ~In(p, gJobs)
      BY <2>2, SameParts DEF IInv, Parts, In
    <2> QED
      BY <2>2, <2>3, ProgramAssumption DEF NoneLost
  <1>2. Spec => [][A]_vars
    BY <1>1, Invariance, PTL DEF Spec
  <1> QED
    BY <1>2 DEF ExitAsksFirst
=============================================================================
