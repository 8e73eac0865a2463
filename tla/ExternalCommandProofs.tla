------------------------ MODULE ExternalCommandProofs ------------------------
(***************************************************************************)
(* Theorems about ExternalCommand, for pipes of any size, programs that    *)
(* write any amount, and any number of ^C and ^Z.  The inductive invariant *)
(* follows a block from the program through the pipe to the buffer, says   *)
(* which read ends are open at each point of the shell, and that whatever  *)
(* leaves the normal course was begun by a ^C that hit the shell.          *)
(***************************************************************************)
EXTENDS ExternalCommand, TLAPS

\* A program that is about to write has something left to write.
WantsRoom == \A s \in Streams : child.want = s => written[s] < Most(s)

\* A program that ended by itself has an exit code.
EndsWithCode == child.st \in {"exited", "signaled"} => child.code # "none" \/ pc = "waitKilled"

\* Nothing exists before the fork, and no writer without a buffer to write.
Before ==
    /\ pc = "start" => /\ child.st = "none" /\ writer.st = "none" /\ tty = "shell"
                       /\ \A s \in Streams : pipe[s] = 0 /\ got[s] = 0 /\ written[s] = 0
    /\ pc # "start" => child.st # "none"
    /\ ~Piped("in") => writer.st = "none"

\* stdout is read to its end before stderr, and both before the waits.
Stages ==
    /\ pc \in Reading \cup {"start"} => ok
    /\ pc \in {"checkOut", "readOut"} => Piped("out") /\ \A s \in Streams : s \in open <=> Piped(s)
    /\ pc \in {"checkErr", "readErr"} => Piped("err") /\ open = {"err"}
    /\ pc \notin Reading /\ ok => open = {}
    /\ pc = "true" => ok

\* A block written to a captured stream is in the pipe or in the buffer, and
\* a pipe whose read end is closed is empty.
Conserved ==
    \A s \in Streams : Piped(s) =>
        /\ ok => got[s] + pipe[s] = written[s]
        /\ pc # "start" /\ s \notin open => pipe[s] = 0

\* Only a ^C that hit the shell makes a reader fail or a wait go wrong.
HitIsMarked ==
    /\ gXyzshSigInt \/ ~ok => typed.hit
    /\ pc \in {"waitAnyWriter", "waitAnyInner"} => cmd.app = "optC" /\ typed.hit
    /\ pc \in {"killAll", "waitAnyKilled"} => typed.hit

\* Only a program in the foreground of a console has the terminal, and one
\* that was waited for cannot take it late.
Terminal ==
    /\ tty = "child" => TakesTerminal
    /\ Returned /\ ~typed.hit => tty = "shell" /\ (TakesTerminal => child.st # "forked")

\* The writer is reaped before the program is waited for; the program is
\* reaped, or made a job, by the step that returns.
Children ==
    /\ pc \in {"waitChild", "waitKilled", "true", "false"} /\ ~typed.hit
         => writer.st \in {"none", "reaped"}
    /\ ~Returned => jobs = 0
    /\ ~Returned /\ ~typed.hit => child.st # "reaped"
    /\ Returned /\ ~typed.hit => jobs = IF child.st = "reaped" THEN 0 ELSE 1

IInv == /\ TypeOK /\ WantsRoom /\ EndsWithCode /\ Before /\ Stages /\ Conserved
        /\ HitIsMarked /\ Terminal /\ Children

-----------------------------------------------------------------------------
(* Types of the records.                                                   *)

ChildRecords == [st : States, want : {"none", "in", "out", "err"},
                 code : {"none", "0", "1", "127", "signal"}]
WriterRecords == [st : States, left : 0..MaxIn]
Typed == [int : 0..MaxInterrupts, stop : 0..MaxStops, hit : BOOLEAN]

\* The fields of the program's, the writer's and the history's record.
LEMMA ChildFields ==
    ASSUME TypeOK
    PROVE  /\ child \in ChildRecords /\ child.st \in States
           /\ child.want \in {"none", "in", "out", "err"}
           /\ child.code \in {"none", "0", "1", "127", "signal"}
           /\ writer \in WriterRecords /\ writer.left \in 0..MaxIn /\ typed \in Typed
           /\ typed.int \in 0..MaxInterrupts /\ typed.hit \in BOOLEAN /\ MaxInterrupts \in Nat
           /\ Cap \in Nat \ {0} /\ MaxIn \in Nat
  BY CountAssumption DEF TypeOK, ChildRecords, WriterRecords, Typed

\* A program that dies of a signal.
LEMMA KilledType ==
    ASSUME NEW c \in ChildRecords
    PROVE  /\ Killed(c) \in ChildRecords /\ Killed(c).st = "signaled"
           /\ Killed(c).want = "none" /\ Killed(c).code = "signal"
  BY DEF ChildRecords, Killed, States

\* The invariant holds at first.
LEMMA InitInv == Init => IInv
  <1> SUFFICES ASSUME Init PROVE IInv
    OBVIOUS
  <1> USE CountAssumption DEF Init
  <1>1. TypeOK
    <2>1. /\ child \in [st : States, want : {"none", "in", "out", "err"},
                        code : {"none", "0", "1", "127", "signal"}]
          /\ writer \in [st : States, left : 0..MaxIn]
          /\ typed \in [int : 0..MaxInterrupts, stop : 0..MaxStops, hit : BOOLEAN]
      BY DEF States
    <2>2. /\ pipe \in [{"in", "out", "err"} -> 0..Cap]
          /\ got \in [Streams -> Nat] /\ written \in [Streams -> Nat]
          /\ \A s \in Streams : written[s] <= Most(s)
      BY DEF Most
    <2>3. /\ cmd \in Commands /\ pc \in Pcs /\ ok \in BOOLEAN 
      BY DEF Pcs
    <2>4. /\ open \subseteq Streams /\ tty \in {"shell", "child"} /\ gXyzshSigInt \in BOOLEAN
          /\ mRCode \in {"0", "1", "127", "signal", "stop", "interrupt"}
      OBVIOUS
    <2>5. jobs \in 0..1
      OBVIOUS
    <2> HIDE DEF Init
    <2> QED
      BY <2>1, <2>2, <2>3, <2>4, <2>5 DEF TypeOK
  <1>2. WantsRoom /\ EndsWithCode /\ Before /\ Stages /\ Conserved
    BY DEF WantsRoom, EndsWithCode, Before, Stages, Conserved, Streams, Reading, Returned
  <1>3. HitIsMarked /\ Terminal /\ Children
    BY DEF HitIsMarked, Terminal, Children, Returned
  <1> QED
    BY <1>1, <1>2, <1>3 DEF IInv

-----------------------------------------------------------------------------
(* Steps of the program and of the writer.                                 *)

\* The program takes the terminal if it runs in the foreground of a console.
LEMMA ChildStartsInv ==
    ASSUME IInv, ChildStarts
    PROVE  IInv'
  <1> USE CountAssumption DEF IInv, ChildStarts, TakesTerminal
  <1>1. TypeOK'
    BY DEF TypeOK, Commands, Pcs, States, Streams, Most
  <1>2. Conserved' /\ WantsRoom' /\ EndsWithCode' /\ Before' /\ Stages'
    BY DEF Conserved, WantsRoom, EndsWithCode, Before, Stages, TypeOK,
           Streams, Piped, Most, Reading, Pcs, States
  <1>3. HitIsMarked' /\ Terminal' /\ Children'
    BY DEF HitIsMarked, Terminal, Children, Before, Stages, TypeOK, Returned,
           Streams, Piped, Reading, Pcs, States, Most
  <1> QED
    BY <1>1, <1>2, <1>3

\* The program enters a call.
LEMMA ChildCallsInv ==
    ASSUME IInv, ChildCalls
    PROVE  IInv'
  <1> USE CountAssumption DEF IInv, ChildCalls, Running, Streams, Most, Piped,
      ChildOnly
  <1>1. TypeOK'
    BY DEF TypeOK, Commands, Pcs, States
  <1>2. Conserved' /\ WantsRoom' /\ EndsWithCode' /\ Before' /\ Stages'
    BY DEF Conserved, WantsRoom, EndsWithCode, Before, Stages, TypeOK,
           Reading, Pcs, States
  <1>3. HitIsMarked' /\ Terminal' /\ Children'
    BY DEF HitIsMarked, Terminal, Children, Before, Stages, TypeOK,
           TakesTerminal, Returned, Reading, Pcs, States
  <1> QED
    BY <1>1, <1>2, <1>3

\* The program writes a block, or dies of SIGPIPE.
LEMMA ChildWritesInv ==
    ASSUME IInv, ChildWrites
    PROVE  IInv'
  <1>0. PICK s \in Streams :
           /\ s = child.want /\ Running /\ ChildOnly
           /\ IF Piped(s) /\ s \notin open
              THEN child' = Killed(child) /\ UNCHANGED <<pipe, written>>
              ELSE /\ Piped(s) => pipe[s] < Cap
                   /\ pipe' = IF Piped(s) THEN [pipe EXCEPT ![s] = @ + 1] ELSE pipe
                   /\ written' = [written EXCEPT ![s] = @ + 1]
                   /\ child' = [child EXCEPT !.want = "none"]
    BY DEF ChildWrites
  <1>1. /\ TypeOK /\ Conserved /\ child \in ChildRecords /\ child.st = "running"
        /\ UNCHANGED <<cmd, pc, ok, writer, open, got, tty, gXyzshSigInt, mRCode, jobs, typed>>
        /\ written[s] < Most(s) /\ Most(s) \in Nat
    BY <1>0, ChildFields, CountAssumption DEF IInv, WantsRoom, Running, ChildOnly, Most
  <1>2. child' \in ChildRecords /\ child'.want = "none" /\ child'.st \in {"running", "signaled"}
    BY <1>0, <1>1, KilledType DEF ChildRecords
  <1>a. child'.st = "running" \/ child'.code = "signal"
    <2>1. CASE Piped(s) /\ s \notin open
      BY <1>0, <1>1, <2>1, KilledType
    <2>2. CASE ~(Piped(s) /\ s \notin open)
      <3>1. child' = [child EXCEPT !.want = "none"]
        BY <1>0, <2>2
      <3> QED
        BY <1>1, <3>1 DEF ChildRecords
    <2> QED
      BY <2>1, <2>2
  <1>3. CASE Piped(s) /\ s \notin open
    <2>1. UNCHANGED <<pipe, written>>
      BY <1>0, <1>3
    <2>2. TypeOK' /\ Conserved'
      BY <1>1, <1>2, <2>1 DEF TypeOK, ChildRecords, Conserved, Streams, Piped, Most
    <2> QED
      BY <1>1, <1>2, <1>a, <2>1, <2>2
         DEF IInv, WantsRoom, EndsWithCode, Before, Stages, HitIsMarked, Terminal, Children,
             Streams, Piped, Reading, Returned, TakesTerminal
  <1>4. CASE ~(Piped(s) /\ s \notin open)
    <2>1. /\ Piped(s) => pipe[s] < Cap /\ s \in open
          /\ pipe' = IF Piped(s) THEN [pipe EXCEPT ![s] = @ + 1] ELSE pipe
          /\ written' = [written EXCEPT ![s] = @ + 1]
      BY <1>0, <1>4
    <2>2. /\ pipe \in [{"in", "out", "err"} -> 0..Cap] /\ Cap \in Nat
          /\ written \in [Streams -> Nat] /\ got \in [Streams -> Nat]
          /\ \A r \in Streams : written[r] <= Most(r)
      BY <1>1, ChildFields DEF TypeOK
    <2>3. s \in {"in", "out", "err"}
      BY DEF Streams
    <2>4. pipe' \in [{"in", "out", "err"} -> 0..Cap]
      BY <2>1, <2>2, <2>3
    <2>5. written' \in [Streams -> Nat] /\ \A r \in Streams : written'[r] <= Most(r)
      BY <1>1, <2>1, <2>2
    <2>6. TypeOK'
      BY <1>1, <1>2, <2>4, <2>5 DEF TypeOK, ChildRecords, Most
    <2>7. ASSUME NEW r \in Streams, Piped(r)
          PROVE  /\ ok => got[r] + pipe'[r] = written'[r]
                 /\ pc # "start" /\ r \notin open => pipe'[r] = 0
      <3>1. r \in {"in", "out", "err"} /\ pipe[r] \in Nat /\ got[r] \in Nat /\ written[r] \in Nat
        BY <2>2 DEF Streams
      <3>2. /\ ok => got[r] + pipe[r] = written[r]
            /\ pc # "start" /\ r \notin open => pipe[r] = 0
        BY <1>1, <2>7 DEF Conserved
      <3> QED
        BY <2>1, <2>2, <2>7, <3>1, <3>2
    <2>8. Conserved'
      BY <1>1, <2>7 DEF Conserved, Piped
    <2>9. pc # "start"
      BY <1>1 DEF IInv, Before
    <2> QED
      BY <1>1, <1>2, <1>a, <2>6, <2>8, <2>9
         DEF IInv, WantsRoom, EndsWithCode, Before, Stages, HitIsMarked, Terminal, Children,
             Streams, Piped, Reading, Returned, TakesTerminal
  <1> QED
    BY <1>3, <1>4

\* The program reads a block.
LEMMA ChildReadsInv ==
    ASSUME IInv, ChildReads
    PROVE  IInv'
  <1> USE CountAssumption DEF IInv, ChildReads, Running, Alive, ChildOnly
  <1>1. TypeOK'
    BY DEF TypeOK, Commands, Pcs, States, Streams, Most
  <1>2. Conserved' /\ WantsRoom' /\ EndsWithCode' /\ Before' /\ Stages'
    BY DEF Conserved, WantsRoom, EndsWithCode, Before, Stages, TypeOK,
           Streams, Piped, Most, Reading, Pcs, States
  <1>3. HitIsMarked' /\ Terminal' /\ Children'
    BY DEF HitIsMarked, Terminal, Children, Before, Stages, TypeOK,
           TakesTerminal, Returned, Streams, Piped, Reading, Pcs, States,
           Most
  <1> QED
    BY <1>1, <1>2, <1>3

\* The program exits.
LEMMA ChildExitsInv ==
    ASSUME IInv, ChildExits
    PROVE  IInv'
  <1> USE CountAssumption DEF IInv, ChildExits, Running, ChildOnly
  <1>1. TypeOK'
    <2>1. child' \in ChildRecords
      BY ChildFields DEF ChildRecords, States
    <2> QED
      BY <2>1 DEF TypeOK, ChildRecords, Streams, Most
  <1>2. Conserved' /\ WantsRoom' /\ EndsWithCode' /\ Before' /\ Stages'
    BY DEF Conserved, WantsRoom, EndsWithCode, Before, Stages, TypeOK,
           Streams, Piped, Most, Reading, Pcs, States
  <1>3. HitIsMarked' /\ Terminal' /\ Children'
    BY DEF HitIsMarked, Terminal, Children, Before, Stages, TypeOK,
           TakesTerminal, Returned, Streams, Piped, Reading, Pcs, States,
           Most
  <1> QED
    BY <1>1, <1>2, <1>3

\* The writer writes a block or ends.
LEMMA WriterStepsInv ==
    ASSUME IInv, WriterSteps
    PROVE  IInv'
  <1> USE CountAssumption DEF IInv, WriterSteps, WriterDone, Alive
  <1>1. TypeOK'
    BY DEF TypeOK, Commands, Pcs, States, Streams, Most
  <1>2. Conserved'
    <2>1. \A s \in Streams : pipe'[s] = pipe[s]
      BY DEF TypeOK, Streams
    <2> QED
      BY <2>1 DEF Conserved, Piped
  <1>3. WantsRoom' /\ EndsWithCode' /\ Before' /\ Stages'
    BY DEF WantsRoom, EndsWithCode, Before, Stages, TypeOK, Streams, Most,
           Piped, Reading, Pcs, States
  <1>4. HitIsMarked' /\ Terminal' /\ Children'
    BY DEF HitIsMarked, Terminal, Children, Before, Stages, TypeOK,
           TakesTerminal, Returned, Streams, Piped, Reading, Pcs, States,
           Most
  <1> QED
    BY <1>1, <1>2, <1>3, <1>4

-----------------------------------------------------------------------------
(* Steps of the shell.                                                     *)

\* The program and the writer are forked.
LEMMA ForkInv ==
    ASSUME IInv, Fork
    PROVE  IInv'
  <1> USE CountAssumption DEF IInv, Fork, Piped, Streams, FirstRead, Waiting
  <1>1. TypeOK'
    <2>1. child' \in ChildRecords
      BY ChildFields DEF ChildRecords, States
    <2>2. writer' \in WriterRecords
      BY ChildFields DEF WriterRecords, States
    <2>3. open' \subseteq Streams /\ pc' \in Pcs
      BY DEF Pcs
    <2> QED
      BY <2>1, <2>2, <2>3 DEF TypeOK, ChildRecords, WriterRecords
  <1>2. Conserved' /\ WantsRoom' /\ EndsWithCode' /\ Before' /\ Stages'
    <2>1. Conserved'
      BY DEF Conserved, Before, TypeOK, Most
    <2>2. WantsRoom' /\ EndsWithCode'
      BY DEF WantsRoom, EndsWithCode, Before, TypeOK, Most
    <2>3. Before'
      BY DEF Before, TypeOK, Pcs
    <2>4. Stages'
      <3>1. ok /\ ok' /\ open' = {t \in Streams : Piped(t)} /\ \A t : Piped(t)' <=> Piped(t)
        BY DEF Stages
      <3>2. pc' = "checkOut" => Piped("out")'
        BY <3>1
      <3>3. pc' = "checkErr" => ~Piped("out")' /\ Piped("err")'
        BY <3>1
      <3>4. pc' \in {"waitWriter", "waitChild"} => ~Piped("out")' /\ ~Piped("err")'
        BY <3>1
      <3>5. pc' \in {"checkOut", "checkErr", "waitWriter", "waitChild"}
        OBVIOUS
      <3>6. \A t \in Streams : t \in open' <=> Piped(t)'
        BY <3>1
      <3> QED
        BY <3>1, <3>2, <3>3, <3>4, <3>5, <3>6 DEF Stages, Reading
    <2> QED
      BY <2>1, <2>2, <2>3, <2>4
  <1>3. HitIsMarked' /\ Terminal' /\ Children'
    BY DEF HitIsMarked, Terminal, Children, Before, Stages, TypeOK,
           TakesTerminal, Returned, Reading, Pcs, States, Most
  <1> QED
    BY <1>1, <1>2, <1>3

\* A reader looks for an interrupt.
LEMMA CheckReaderInv ==
    ASSUME IInv, CheckReader
    PROVE  IInv'
  <1> USE CountAssumption DEF IInv, CheckReader, ReaderFails, ReaderOnly, Waiting,
      Piped
  <1>1. TypeOK'
    <2>1. pc' \in Pcs /\ ok' \in BOOLEAN /\ gXyzshSigInt' \in BOOLEAN /\ tty' \in {"shell", "child"}
      BY DEF TypeOK, Pcs
    <2>2. mRCode' \in {"0", "1", "127", "signal", "stop", "interrupt"}
      BY DEF TypeOK
    <2>3. jobs' \in 0..1
      BY DEF TypeOK
    <2>4. child' \in ChildRecords /\ UNCHANGED <<cmd, written, writer, pipe, open, got, typed>>
      BY ChildFields DEF ChildRecords, States
    <2> QED
      BY <2>1, <2>2, <2>3, <2>4 DEF TypeOK, ChildRecords
  <1>2. Conserved' /\ WantsRoom' /\ EndsWithCode' /\ Before' /\ Stages'
    BY DEF Conserved, WantsRoom, EndsWithCode, Before, Stages, TypeOK,
           Streams, Most, Reading, Pcs, States
  <1>3. HitIsMarked' /\ Terminal' /\ Children'
    BY DEF HitIsMarked, Terminal, Children, Before, Stages, TypeOK,
           TakesTerminal, Returned, Streams, Reading, Pcs, States, Most
  <1> QED
    BY <1>1, <1>2, <1>3

\* A reader stores what is in its pipe, or drops it and fails.
LEMMA ReadDataInv ==
    ASSUME IInv, ReadData
    PROVE  IInv'
  <1> USE CountAssumption DEF IInv, ReadData, StreamAt, ReaderFails, ReaderOnly,
      Waiting, Piped
  <1>1. TypeOK'
    <2>1. pc' \in Pcs /\ ok' \in BOOLEAN /\ gXyzshSigInt' \in BOOLEAN
      BY DEF TypeOK, Pcs
    <2>2. mRCode' \in {"0", "1", "127", "signal", "stop", "interrupt"}
      BY DEF TypeOK
    <2>3. pipe' \in [{"in", "out", "err"} -> 0..Cap] /\ got' \in [Streams -> Nat]
      BY DEF TypeOK, Streams
    <2>4. UNCHANGED <<cmd, child, written, writer, open, tty, jobs, typed>>
      OBVIOUS
    <2> QED
      BY <2>1, <2>2, <2>3, <2>4 DEF TypeOK
  <1>2. Conserved'
    <2>1. StreamAt \in Streams /\ StreamAt \in {"in", "out", "err"} /\ pc # "start"
      BY DEF StreamAt, Streams
    <2>2. /\ pipe \in [{"in", "out", "err"} -> 0..Cap] /\ Cap \in Nat
          /\ written \in [Streams -> Nat] /\ got \in [Streams -> Nat]
      BY DEF TypeOK
    <2>3. ASSUME NEW r \in Streams, Piped(r)
          PROVE  /\ ok' => got'[r] + pipe'[r] = written[r]
                 /\ r \notin open => pipe'[r] = 0
      <3>1. r \in {"in", "out", "err"} /\ pipe[r] \in Nat /\ got[r] \in Nat /\ written[r] \in Nat
        BY <2>2 DEF Streams
      <3>2. /\ ok => got[r] + pipe[r] = written[r]
            /\ r \notin open => pipe[r] = 0
        BY <2>1, <2>3 DEF Conserved
      <3>3. CASE gXyzshSigInt
        BY <2>1, <2>2, <3>1, <3>2, <3>3
      <3>4. CASE ~gXyzshSigInt /\ r = StreamAt
        BY <2>1, <2>2, <3>1, <3>2, <3>4
      <3>5. CASE ~gXyzshSigInt /\ r # StreamAt
        BY <2>1, <2>2, <3>1, <3>2, <3>5
      <3> QED
        BY <3>3, <3>4, <3>5
    <2> QED
      BY <2>3 DEF Conserved, Piped
  <1>3. WantsRoom' /\ EndsWithCode' /\ Before' /\ Stages'
    BY DEF WantsRoom, EndsWithCode, Before, Stages, TypeOK, Streams, Most,
           Reading, Pcs, States
  <1>4. HitIsMarked' /\ Terminal' /\ Children'
    BY DEF HitIsMarked, Terminal, Children, Before, Stages, TypeOK,
           TakesTerminal, Returned, Streams, Reading, Pcs, States, Most
  <1> QED
    BY <1>1, <1>2, <1>3, <1>4

\* A reader has read its stream to the end.
LEMMA ReadEndInv ==
    ASSUME IInv, ReadEnd
    PROVE  IInv'
  <1> USE CountAssumption DEF IInv, ReadEnd, EndOfData, StreamAt, AfterRead,
      ReaderOnly, Alive, Piped, Waiting
  <1>1. TypeOK'
    BY DEF TypeOK, Commands, Pcs, States, Streams, Most
  <1>2. Conserved' /\ WantsRoom' /\ EndsWithCode' /\ Before' /\ Stages'
    BY DEF Conserved, WantsRoom, EndsWithCode, Before, Stages, TypeOK,
           Streams, Most, Reading, Pcs, States
  <1>3. HitIsMarked' /\ Terminal' /\ Children'
    BY DEF HitIsMarked, Terminal, Children, Before, Stages, TypeOK,
           TakesTerminal, Returned, Streams, Reading, Pcs, States, Most
  <1> QED
    BY <1>1, <1>2, <1>3

\* The writer is reaped.
LEMMA WaitWriterInv ==
    ASSUME IInv, WaitWriter
    PROVE  IInv'
  <1> USE CountAssumption DEF IInv, WaitWriter, Unreaped, WaitOnly
  <1>1. TypeOK'
    BY DEF TypeOK, Commands, Pcs, States, Streams, Most
  <1>2. Conserved' /\ WantsRoom' /\ EndsWithCode' /\ Before' /\ Stages'
    BY DEF Conserved, WantsRoom, EndsWithCode, Before, Stages, TypeOK,
           Streams, Piped, Most, Reading, Pcs, States
  <1>3. HitIsMarked' /\ Terminal' /\ Children'
    BY DEF HitIsMarked, Terminal, Children, Before, Stages, TypeOK,
           TakesTerminal, Returned, Streams, Piped, Reading, Pcs, States,
           Most
  <1> QED
    BY <1>1, <1>2, <1>3

\* An inner program has ended.
LEMMA WaitInnerInv ==
    ASSUME IInv, WaitInner
    PROVE  IInv'
  <1> USE CountAssumption DEF IInv, WaitInner, Unreaped, Reap, BackToShell, Outcome,
      Return, WaitOnly, TakesBack
  <1>1. TypeOK'
    BY DEF TypeOK, Commands, Pcs, States, Streams, Most
  <1>2. Conserved' /\ WantsRoom' /\ EndsWithCode' /\ Before' /\ Stages'
    BY DEF Conserved, WantsRoom, EndsWithCode, Before, Stages, TypeOK,
           Streams, Piped, Most, Reading, Pcs, States
  <1>3. HitIsMarked' /\ Terminal' /\ Children'
    BY DEF HitIsMarked, Terminal, Children, Before, Stages, TypeOK,
           TakesTerminal, Returned, Streams, Piped, Reading, Pcs, States,
           Most
  <1> QED
    BY <1>1, <1>2, <1>3

\* An inner program has stopped and is killed.
LEMMA WaitInnerStoppedInv ==
    ASSUME IInv, WaitInnerStopped
    PROVE  IInv'
  <1> USE CountAssumption DEF IInv, WaitInnerStopped, WaitOnly
  <1>1. TypeOK'
    BY DEF TypeOK, Commands, Pcs, States, Streams, Most
  <1>2. Conserved' /\ WantsRoom' /\ EndsWithCode' /\ Before' /\ Stages'
    BY DEF Conserved, WantsRoom, EndsWithCode, Before, Stages, TypeOK,
           Streams, Piped, Most, Reading, Pcs, States
  <1>3. HitIsMarked' /\ Terminal' /\ Children'
    BY DEF HitIsMarked, Terminal, Children, Before, Stages, TypeOK,
           TakesTerminal, Returned, Streams, Piped, Reading, Pcs, States,
           Most
  <1> QED
    BY <1>1, <1>2, <1>3

\* What was killed is reaped.
LEMMA WaitKilledInv ==
    ASSUME IInv, WaitKilled
    PROVE  IInv'
  <1> USE CountAssumption DEF IInv, WaitKilled, Unreaped, Reap, Return, WaitOnly
  <1>1. TypeOK'
    BY DEF TypeOK, Commands, Pcs, States, Streams, Most
  <1>2. Conserved' /\ WantsRoom' /\ EndsWithCode' /\ Before' /\ Stages'
    BY DEF Conserved, WantsRoom, EndsWithCode, Before, Stages, TypeOK,
           Streams, Piped, Most, Reading, Pcs, States
  <1>3. HitIsMarked' /\ Terminal' /\ Children'
    BY DEF HitIsMarked, Terminal, Children, Before, Stages, TypeOK,
           TakesTerminal, Returned, Streams, Piped, Reading, Pcs, States,
           Most
  <1> QED
    BY <1>1, <1>2, <1>3

\* After a wait that lost the pid, all that can be is killed.
LEMMA KillAllInv ==
    ASSUME IInv, KillAll
    PROVE  IInv'
  <1> USE CountAssumption DEF IInv, KillAll, Killed, Alive, WaitOnly
  <1>1. TypeOK'
    <2>1. child' \in ChildRecords
      BY ChildFields DEF ChildRecords, States
    <2>2. writer' \in WriterRecords
      BY ChildFields DEF WriterRecords, States
    <2> QED
      BY <2>1, <2>2 DEF TypeOK, ChildRecords, WriterRecords, Pcs, Most
  <1>2. Conserved' /\ WantsRoom' /\ EndsWithCode' /\ Before' /\ Stages'
    BY DEF Conserved, WantsRoom, EndsWithCode, Before, Stages, TypeOK,
           Streams, Piped, Most, Reading, Pcs, States
  <1>3. HitIsMarked' /\ Terminal' /\ Children'
    BY DEF HitIsMarked, Terminal, Children, Before, Stages, TypeOK,
           TakesTerminal, Returned, Streams, Piped, Reading, Pcs, States,
           Most
  <1> QED
    BY <1>1, <1>2, <1>3

\* A background program becomes a job.
LEMMA WaitBackgroundInv ==
    ASSUME IInv, WaitBackground
    PROVE  IInv'
  <1> USE CountAssumption DEF IInv, WaitBackground, Return, WaitOnly
  <1>1. TypeOK'
    <2>1. pc' \in Pcs /\ ok' \in BOOLEAN /\ gXyzshSigInt' \in BOOLEAN /\ tty' \in {"shell", "child"}
      BY DEF TypeOK, Pcs
    <2>2. mRCode' \in {"0", "1", "127", "signal", "stop", "interrupt"}
      BY DEF TypeOK
    <2>3. jobs' \in 0..1
      BY DEF Children, Returned
    <2>4. child' \in ChildRecords /\ UNCHANGED <<cmd, written, writer, pipe, open, got, typed>>
      BY ChildFields DEF ChildRecords, States
    <2> QED
      BY <2>1, <2>2, <2>3, <2>4 DEF TypeOK, ChildRecords
  <1>2. Conserved' /\ WantsRoom' /\ EndsWithCode' /\ Before' /\ Stages'
    BY DEF Conserved, WantsRoom, EndsWithCode, Before, Stages, TypeOK,
           Streams, Piped, Most, Reading, Pcs, States
  <1>3. HitIsMarked' /\ Terminal' /\ Children'
    BY DEF HitIsMarked, Terminal, Children, Before, Stages, TypeOK,
           TakesTerminal, Returned, Streams, Piped, Reading, Pcs, States,
           Most
  <1> QED
    BY <1>1, <1>2, <1>3

\* The program in the foreground has ended.
LEMMA WaitLastInv ==
    ASSUME IInv, WaitLast
    PROVE  IInv'
  <1> USE CountAssumption DEF IInv, WaitLast, Unreaped, Reap, BackToShell, Outcome,
      CodeOf, Return, WaitOnly, TakesBack
  <1>1. TypeOK'
    <2>1. pc' \in Pcs /\ ok' \in BOOLEAN /\ gXyzshSigInt' \in BOOLEAN /\ tty' \in {"shell", "child"}
      BY DEF TypeOK, Pcs
    <2>2. mRCode' \in {"0", "1", "127", "signal", "stop", "interrupt"}
      BY ChildFields DEF TypeOK, EndsWithCode
    <2>3. jobs' \in 0..1
      BY DEF TypeOK
    <2>4. child' \in ChildRecords /\ UNCHANGED <<cmd, written, writer, pipe, open, got, typed>>
      BY ChildFields DEF ChildRecords, States
    <2> QED
      BY <2>1, <2>2, <2>3, <2>4 DEF TypeOK, ChildRecords
  <1>2. Conserved' /\ WantsRoom' /\ EndsWithCode' /\ Before' /\ Stages'
    BY DEF Conserved, WantsRoom, EndsWithCode, Before, Stages, TypeOK,
           Streams, Piped, Most, Reading, Pcs, States
  <1>3. HitIsMarked' /\ Terminal' /\ Children'
    BY DEF HitIsMarked, Terminal, Children, Before, Stages, TypeOK,
           TakesTerminal, Returned, Streams, Piped, Reading, Pcs, States,
           Most
  <1> QED
    BY <1>1, <1>2, <1>3

\* The program in the foreground has stopped and becomes a job.
LEMMA WaitLastStoppedInv ==
    ASSUME IInv, WaitLastStopped
    PROVE  IInv'
  <1> USE CountAssumption DEF IInv, WaitLastStopped, NewJob, BackToShell, Return,
      WaitOnly, TakesBack
  <1>1. TypeOK'
    <2>1. pc' \in Pcs /\ ok' \in BOOLEAN /\ gXyzshSigInt' \in BOOLEAN /\ tty' \in {"shell", "child"}
      BY DEF TypeOK, Pcs
    <2>2. mRCode' \in {"0", "1", "127", "signal", "stop", "interrupt"}
      BY DEF TypeOK
    <2>3. jobs' \in 0..1
      BY DEF Children, Returned
    <2>4. child' \in ChildRecords /\ UNCHANGED <<cmd, written, writer, pipe, open, got, typed>>
      BY ChildFields DEF ChildRecords, States
    <2> QED
      BY <2>1, <2>2, <2>3, <2>4 DEF TypeOK, ChildRecords
  <1>2. Conserved' /\ WantsRoom' /\ EndsWithCode' /\ Before' /\ Stages'
    BY DEF Conserved, WantsRoom, EndsWithCode, Before, Stages, TypeOK,
           Streams, Piped, Most, Reading, Pcs, States
  <1>3. HitIsMarked' /\ Terminal' /\ Children'
    BY DEF HitIsMarked, Terminal, Children, Before, Stages, TypeOK,
           TakesTerminal, Returned, Streams, Piped, Reading, Pcs, States,
           Most
  <1> QED
    BY <1>1, <1>2, <1>3

\* Any child is reaped, after an interrupted wait in a script.
LEMMA WaitAnyInv ==
    ASSUME IInv, WaitAny
    PROVE  IInv'
  <1> USE CountAssumption DEF IInv, WaitAny, Unreaped, Return, Reap, WaitOnly
  <1>1. TypeOK'
    BY DEF TypeOK, Commands, Pcs, States, Streams, Most
  <1>2. Conserved' /\ WantsRoom' /\ EndsWithCode' /\ Before' /\ Stages'
    BY DEF Conserved, WantsRoom, EndsWithCode, Before, Stages, TypeOK,
           Streams, Piped, Most, Reading, Pcs, States
  <1>3. HitIsMarked' /\ Terminal' /\ Children'
    BY DEF HitIsMarked, Terminal, Children, Before, Stages, TypeOK,
           TakesTerminal, Returned, Streams, Piped, Reading, Pcs, States,
           Most
  <1> QED
    BY <1>1, <1>2, <1>3

\* The program is gone, reaped in place of the writer.
LEMMA WaitGoneInv ==
    ASSUME IInv, WaitGone
    PROVE  IInv'
  <1> USE CountAssumption DEF IInv, WaitGone, Return, WaitOnly
  <1>1. TypeOK'
    BY DEF TypeOK, Commands, Pcs, States, Streams, Most
  <1>2. Conserved' /\ WantsRoom' /\ EndsWithCode' /\ Before' /\ Stages'
    BY DEF Conserved, WantsRoom, EndsWithCode, Before, Stages, TypeOK,
           Streams, Piped, Most, Reading, Pcs, States
  <1>3. HitIsMarked' /\ Terminal' /\ Children'
    BY DEF HitIsMarked, Terminal, Children, Before, Stages, TypeOK,
           TakesTerminal, Returned, Streams, Piped, Reading, Pcs, States,
           Most
  <1> QED
    BY <1>1, <1>2, <1>3

-----------------------------------------------------------------------------
(* Steps of the terminal.                                                  *)

\* ^C, with the blocked call of the shell it breaks.
LEMMA InterruptInv ==
    ASSUME IInv, Interrupt
    PROVE  IInv'
  <1>0. /\ child' = child \/ (child' = Killed(child) /\ child.st = "running")
        /\ writer' = WriterGivesUp
        /\ typed' = [typed EXCEPT !.int = typed.int + 1, !.hit = (typed.hit \/ ShellIsHit)]
        /\ gXyzshSigInt' = (gXyzshSigInt \/ ShellIsHit)
        /\ ~Returned /\ typed.int < MaxInterrupts
        /\ UNCHANGED <<cmd, ok, written, pipe, got, jobs>>
    BY DEF Interrupt, Running
  <1>1. TypeOK /\ typed \in Typed /\ child \in ChildRecords
    BY ChildFields DEF IInv
  <1>2. /\ child' \in ChildRecords /\ child'.want \in {child.want, "none"}
        /\ child'.st # child.st \/ child'.code # child.code
             => child.st = "running" /\ child'.st = "signaled" /\ child'.code = "signal"
    <2>1. CASE child' = child
      BY <1>1, <2>1
    <2>2. CASE child' = Killed(child) /\ child.st = "running"
      BY <1>1, <2>2, KilledType
    <2> QED
      BY <1>0, <2>1, <2>2
  <1>3. writer' \in WriterRecords /\ writer'.st = writer.st
    BY <1>0, <1>1, ChildFields DEF WriterRecords, WriterGivesUp
  <1>4. typed' \in Typed /\ typed'.hit = (typed.hit \/ ShellIsHit)
    <2> DEFINE h == typed.hit \/ ShellIsHit
    <2>1. typed.int + 1 \in 0..MaxInterrupts /\ h \in BOOLEAN
      BY <1>0, <1>1, ChildFields
    <2>2. typed' = [typed EXCEPT !.int = typed.int + 1, !.hit = h]
      BY <1>0
    <2> HIDE DEF h
    <2>3. typed' \in Typed /\ typed'.hit = h
      BY <1>1, <2>1, <2>2 DEF Typed
    <2> QED
      BY <2>3 DEF h
  \* The blocked call of the shell goes on, or fails as one of the four.
  <1>5. \/ Carry
        \/ ShellIsHit /\ (BreakRead \/ BreakWaitWriter \/ BreakWaitLast \/ BreakWaitInner)
    BY DEF Interrupt
  <1>6. CASE BreakRead
    <2>1. UNCHANGED <<tty, mRCode>> /\ StreamAt \in Streams /\ pipe[StreamAt] = 0 /\ pc # "start"
          /\ open' = open \ {StreamAt} /\ pc' = AfterRead /\ ok
      BY <1>6 DEF BreakRead, StreamAt, Streams, IInv, Stages, Reading
    <2>2. pc' \in Pcs /\ open' \subseteq Streams /\ gXyzshSigInt' \in BOOLEAN
      BY <1>0, <1>1, <2>1 DEF TypeOK, AfterRead, Waiting, Pcs
    <2>3. TypeOK'
      BY <1>0, <1>1, <1>2, <1>3, <1>4, <2>1, <2>2
         DEF TypeOK, ChildRecords, WriterRecords, Typed, Most
    <2>4. Conserved'
      BY <1>0, <2>1 DEF IInv, Conserved, Piped
    <2>5. Stages'
      <3> USE DEF Stages, Reading, Piped, Streams
      <3>1. CASE pc = "readOut" /\ Piped("err")
        <4>1. open' = {"err"} /\ pc' = "checkErr"
          BY <1>1, <2>1, <3>1 DEF IInv, TypeOK, AfterRead, StreamAt
        <4>2. Piped("err")' /\ ok'
          BY <1>0, <2>1, <3>1
        <4> QED
          BY <4>1, <4>2
      <3>2. CASE pc = "readErr" \/ (pc = "readOut" /\ ~Piped("err"))
        <4>1. open' = {} /\ pc' \in {"waitWriter", "waitChild"}
          BY <1>1, <2>1, <3>2 DEF IInv, TypeOK, AfterRead, StreamAt, Waiting
        <4> QED
          BY <4>1
      <3> QED
        BY <1>6, <3>1, <3>2 DEF BreakRead
    <2>6. pc' \notin {"start", "true", "false", "waitKilled", "waitAnyWriter", "waitAnyInner",
                     "killAll", "waitAnyKilled"} /\ pc # "waitKilled"
      BY <1>6, <2>1 DEF AfterRead, Waiting, BreakRead
    <2>7. ShellIsHit
      BY <1>5, <1>6 DEF Carry, BreakRead, AfterRead, Waiting, StreamAt
    <2>8. WantsRoom'
      BY <1>0, <1>2 DEF IInv, WantsRoom, Most, Streams
    <2>13. EndsWithCode'
      BY <1>2, <2>6 DEF IInv, EndsWithCode
    <2>9. Before'
      BY <1>0, <1>2, <1>3, <2>1, <2>6 DEF IInv, Before, Piped
    <2>10. HitIsMarked'
      BY <1>0, <1>4, <2>6, <2>7 DEF IInv, HitIsMarked
    <2>11. Terminal'
      BY <1>0, <1>4, <2>1, <2>6 DEF IInv, Terminal, TakesTerminal, Returned
    <2>12. Children'
      BY <1>0, <1>2, <1>3, <1>4, <2>1, <2>6, <2>7 DEF IInv, Children, Returned
    <2> QED
      BY <2>3, <2>4, <2>5, <2>8, <2>9, <2>10, <2>11, <2>12, <2>13
         DEF IInv
  <1>7. CASE Carry
    <2>1. UNCHANGED <<pc, open, tty, mRCode>> /\ gXyzshSigInt' \in BOOLEAN
      BY <1>0, <1>1, <1>7 DEF Carry, TypeOK
    <2>2. TypeOK'
      BY <1>0, <1>1, <1>2, <1>3, <1>4, <2>1 DEF TypeOK, ChildRecords, WriterRecords, Typed, Most
    <2>3. WantsRoom'
      BY <1>0, <1>2 DEF IInv, WantsRoom, Most, Streams
    <2>4. EndsWithCode'
      BY <1>2, <2>1 DEF IInv, EndsWithCode
    <2>5. Before'
      BY <1>0, <1>2, <1>3, <2>1 DEF IInv, Before, Piped
    <2>6. Stages' /\ Conserved'
      BY <1>0, <2>1 DEF IInv, Stages, Conserved, Piped, Reading
    <2>7. HitIsMarked'
      BY <1>0, <1>4, <2>1 DEF IInv, HitIsMarked
    <2>8. Terminal'
      BY <1>0, <1>2, <1>4, <2>1 DEF IInv, Terminal, TakesTerminal, Returned
    <2>9. Children'
      BY <1>0, <1>2, <1>3, <1>4, <2>1 DEF IInv, Children, Returned
    <2> QED
      BY <2>2, <2>3, <2>4, <2>5, <2>6, <2>7, <2>8, <2>9 DEF IInv
  <1>8. CASE ShellIsHit /\ (BreakWaitWriter \/ BreakWaitLast \/ BreakWaitInner)
    <2> USE <1>8 DEF BreakWaitWriter, BreakWaitLast, BreakWaitInner, Return, BackToShell, TakesBack
    <2>1. /\ UNCHANGED open /\ pc \in {"waitWriter", "waitChild"}
          /\ pc' \in {"waitAnyWriter", "waitAnyInner", "killAll", "waitChild", "true", "false"}
          /\ pc' = "true" => ok
          /\ pc' \in {"waitAnyWriter", "waitAnyInner"} => cmd.app = "optC"
          /\ tty' \in {tty, "shell"} /\ mRCode' \in {mRCode, "0"}
      OBVIOUS
    <2>2. pc' \in Pcs /\ gXyzshSigInt' \in BOOLEAN /\ tty' \in {"shell", "child"}
      BY <1>0, <1>1, <2>1 DEF TypeOK, Pcs
    <2>3. TypeOK'
      BY <1>0, <1>1, <1>2, <1>3, <1>4, <2>1, <2>2
         DEF TypeOK, ChildRecords, WriterRecords, Typed, Most
    <2>4. typed'.hit
      BY <1>4, <1>8
    <2> HIDE DEF BreakWaitWriter, BreakWaitLast, BreakWaitInner, Return, BackToShell, TakesBack
    <2>5. WantsRoom' /\ EndsWithCode' /\ Before' /\ Stages' /\ Conserved'
      BY <1>0, <1>2, <1>3, <2>1
         DEF IInv, WantsRoom, EndsWithCode, Before, Stages, Conserved, Streams, Piped, Reading, Most
    <2>6. HitIsMarked' /\ Terminal' /\ Children'
      BY <1>0, <2>1, <2>4
         DEF IInv, HitIsMarked, Terminal, Children, Piped, TakesTerminal, Returned
    <2> QED
      BY <2>3, <2>5, <2>6 DEF IInv
  <1> QED
    BY <1>5, <1>6, <1>7, <1>8

\* ^Z.
LEMMA StopInv ==
    ASSUME IInv, Stop
    PROVE  IInv'
  <1> USE CountAssumption DEF IInv, Stop, Returned, Running, WriterGivesUp,
      ProgramIsHit
  <1>1. TypeOK'
    BY DEF TypeOK, Commands, Pcs, States, Streams, Most
  <1>2. Conserved' /\ WantsRoom' /\ EndsWithCode' /\ Before' /\ Stages'
    BY DEF Conserved, WantsRoom, EndsWithCode, Before, Stages, TypeOK,
           Streams, Piped, Most, Reading, Pcs, States
  <1>3. HitIsMarked' /\ Terminal' /\ Children'
    BY DEF HitIsMarked, Terminal, Children, Before, Stages, TypeOK,
           TakesTerminal, Streams, Piped, Reading, Pcs, States, Most
  <1> QED
    BY <1>1, <1>2, <1>3

\* So every step keeps it.
LEMMA NextInv == IInv /\ [Next]_vars => IInv'
  <1> SUFFICES ASSUME IInv, [Next]_vars PROVE IInv'
    OBVIOUS
  <1>1. CASE UNCHANGED vars
    <2>1. TypeOK'
      BY <1>1 DEF IInv, TypeOK, vars, Most
    <2> QED
      BY <1>1, <2>1
         DEF IInv, vars, WantsRoom, EndsWithCode, Before, Stages, Conserved, HitIsMarked, Terminal,
             Children, Streams, Piped, Reading, Most, TakesTerminal, Returned
  <1> QED
    BY <1>1, ChildStartsInv, ChildCallsInv, ChildWritesInv, ChildReadsInv, ChildExitsInv,
       WriterStepsInv, ForkInv, CheckReaderInv, ReadDataInv, ReadEndInv, WaitWriterInv,
       WaitInnerInv, WaitInnerStoppedInv, WaitKilledInv, KillAllInv, WaitBackgroundInv,
       WaitLastInv, WaitLastStoppedInv, WaitAnyInv, WaitGoneInv, InterruptInv, StopInv
       DEF Next, Program, Shell, Over

-----------------------------------------------------------------------------
(* The theorems.                                                           *)

\* The inductive invariant holds however the program, the writer, the shell
\* and the terminal take turns.
THEOREM Invariance == Spec => []IInv
  BY InitInv, NextInv, PTL DEF Spec

\* Every variable keeps its type: no pipe holds more than its capacity, and
\* the program becomes at most one job.
THEOREM TypeCorrect == Spec => []TypeOK
  <1>1. IInv => TypeOK
    BY DEF IInv
  <1> QED
    BY <1>1, Invariance, PTL

\* Whichever way run_external_command returns, the terminal is the shell's
\* again, unless a ^C hit the shell itself.
THEOREM TerminalComesBack == Spec => []TerminalBack
  <1>1. IInv => TerminalBack
    BY DEF IInv, Terminal, TerminalBack
  <1> QED
    BY <1>1, Invariance, PTL

\* When it returns TRUE, every block the program wrote to a captured stream is
\* in the buffer, whatever the size of the pipe.
THEOREM NothingIsLost == Spec => []NothingLost
  <1>1. ASSUME IInv PROVE NothingLost
    <2> SUFFICES ASSUME pc = "true", NEW s \in Streams, Piped(s)
                 PROVE  got[s] = written[s]
      BY DEF NothingLost
    <2>1. ok /\ open = {}
      BY <1>1 DEF IInv, Stages, Reading
    <2>2. got[s] + pipe[s] = written[s] /\ pipe[s] = 0
      BY <1>1, <2>1 DEF IInv, Conserved
    <2>3. got[s] \in Nat
      BY <1>1 DEF IInv, TypeOK
    <2> QED
      BY <2>2, <2>3
  <1> QED
    BY <1>1, Invariance, PTL

\* Without a ^C that hit the shell, it returns with all read ends closed, the
\* writer reaped, and the program reaped or one job.
THEOREM NothingEverLeaks == Spec => []NothingLeaks
  <1>1. ASSUME IInv PROVE NothingLeaks
    <2> SUFFICES ASSUME Returned, ~typed.hit
                 PROVE  /\ open = {}
                        /\ writer.st \in {"none", "reaped"}
                        /\ IF child.st = "reaped" THEN jobs = 0 \/ cmd.place = "background"
                                                  ELSE jobs = 1
      BY <1>1 DEF NothingLeaks, IInv
    <2>1. ok
      BY <1>1 DEF IInv, HitIsMarked
    <2>2. open = {}
      BY <1>1, <2>1 DEF IInv, Stages, Reading, Returned
    <2> QED
      BY <1>1, <2>2 DEF IInv, Children, Returned
  <1> QED
    BY <1>1, Invariance, PTL
=============================================================================
