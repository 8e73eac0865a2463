# xyzsh in TLA+

TLA+ modules of the parts of xyzsh whose correctness depends on the order of
steps, on every path out of a function undoing what it did, or on two data
structures agreeing; TLC configurations that check them on small instances; and
proofs, checked by TLAPS, of what holds for every size.

xyzsh is a shell in C with objects, a garbage collector and its own line
editor. Line numbers below are those of the files in `src/`.

To check a module: `tlc -config MCInterpreter.cfg MCInterpreter`, and so on for
each row of the table of runs; to check the proofs: `tlapm InterpreterProofs.tla`,
and so on for each module whose name ends in `Proofs`.

## 1. The system

| part | state | operations | talks to |
|---|---|---|---|
| **interpreter control stack** `run.c` `cmd_base.c` `cmd_loop.c` `load.c` | `nest_level`, `gRunningObjects`, `gStackFrames`, frames of `stack.c`, `gRunInfoOfRunningObject`, `gObjectsInPipe`, return codes | `run`, `run_function`, `run_alias`, `run_block`, `if`, `while`, `for`, `times`, `each`, `try`, `subshell`, `time`, `eval`, `ablock`, `load`, `$(...)` | everything: a native is a callback that may call `run` again |
| **statement lists** `parser.c` `run.c` | a block's statements with flags, `mRCode`, global pipe | `read_statment`, the loop of `run` | interpreter |
| **parser** `parser.c` `block.c` | position in a text, nested quotes, the block being built | `parse`, `read_statment`, `read_command`, `read_one_argument`, `read_dollar` | interpreter, expansion |
| **argument expansion** `env.c` `run.c` | the arguments, options and redirects of one command | variables, items, blocks, globs; `run_alias` adds to a command | parser, interpreter, collector |
| **expressions** `exp.c` | node tree, variables' objects | parse by precedence, evaluate | parser, interpreter |
| **external programs** `run.c` `obj_fd.c` `xyzsh.c` | child and writer processes, three pipes, terminal, `gXyzshSigInt` | `run_external_command`, `nextin_writer`, `nextout_reader`, `wait_child_program`, signal handlers | kernel, job control |
| **job control** `run.c` `cmd_base.c` `interface.c` | `gJobs`, terminal | `prog &`, ^Z, `jobs`, `fg`, `background_job`, reaping at the prompt, `exit`, end of file | external programs, command loop |
| **hash tables** `obj_hash.c`, **object variables** `obj_user.c` | chains, list of entries, count | put, erase, replace, clear, growth, walks | every lookup of a variable or command |
| **option tables** `obj_fun.c` `obj_nfun.c` `obj_class.c` `block.c` | open-addressed tables of options | put and look up an option | interpreter |
| **containers** `obj_vector.c` `obj_list.c` `obj_string.c` | arrays that grow, links | insert, erase, ... | everything |
| **temporaries** `stack.c` | pages of slots, frames | `stack_start_stack`, `stack_get_free_object`, `stack_end_stack` | interpreter |
| **collector** `gc.c` `object.c` | pool, free list, marks | allocate, mark, sweep | containers, interpreter |
| **sorting** `cmd_ary.c` | an array of lines and a user-defined order | `quick_sort`, `quick_sort_shuffle` | interpreter: a comparison is a call of `run` |
| **object commands** `cmd_obj.c` | the tree of named objects, local variables, environment, `gObjectsInPipe` | `var`, `ary`, `hash`, `object`, `def`, `class`, `alias`, `ref`, ... | collector, hash tables |
| **context pipe** `obj_fd.c` `run.c` | the buffer piped into a block, its split lines and how many are read | <code>&#124;n cmd</code>, whole reads, `each`, `ary`, `sort`, `cmd <file` | interpreter, text commands |
| **string, array, number and condition commands** `cmd_str.c` `cmd_ary.c` `cmd_num.c` `cmd_condition.c` `kanji.c` | the text in the pipe, the variables of the last match | one call each | context pipe |
| **file commands** `cmd_file.c` | the directory, `PWD`, the stack of `pushd` | `cd`, `pushd`, `popd`, `write`, `expand_tilda` | kernel |
| **selector, terminal emulator** `cmd_curses.c` `temulator.c` | cursor and scroll position; a screen | keys; escape sequences | terminal |
| **line editing, completion, embedding interface** `editline.c` `interface.c` `main.c` `xyzsh.c` | prompt, history, candidates, start-up objects | `xyzsh_readline_interface`, `xyzsh_run`, `xyzsh_init` | interpreter, job control |

What is hard about them:

* *Re-entrance.* Nearly every native may call `run` again and any of those
  calls may fail, be interrupted, hit the nesting limit or carry a `break`,
  `return` or `exit`. Eight counters and vectors are raised and lowered by hand
  on each path.
* *Processes.* The shell, the program and the writer are connected in a ring of
  bounded pipes; ^C and ^Z may fall between any two of their steps, and the
  handlers interrupt blocked calls (no `SA_RESTART`).
* *Things kept beside what they are derived from.* The split lines beside the
  pipe's buffer, chains beside the list of entries, a run info kept in a global
  pointer, `PWD` beside the directory.
* *User code in the middle of a C loop.* Walks over hashes, sorting, loops.
* *Reclaiming.* Objects reachable only from C variables while a nested `run`
  sweeps.
* *Reading twice.* A text is parsed, its arguments expanded, an alias's a
  second time, and what `quote`, `def` or `class` print is read again.
* *Sharing.* Names, pipes, arrays and local variables hold the same object, and
  some commands change it in place.
* *Copies.* The commands on texts exist once for each character code, the probe
  of a table and the quick sort three times; each clips positions by hand.

Per part, what makes it correct:

* interpreter: all counters are balanced on every path; an unchecked stack
  stays in its bounds; the global run info is that of the real caller; a
  `break`, `return` or `exit` arrives where it is meant to.
* statement lists: exactly the statements run that the operators before them
  allow. Parser and expansion: reading ends; what is quoted is read as it was
  meant; a kept source reads as the block it is of; an alias passes on what it
  was given. Expressions: the tree is that of the usual precedences, and its
  value is what reading each operand at once would give.
* external programs: the terminal comes back, captured output is complete, no
  process or descriptor is left behind, and the shell comes back at all.
* job control: the list is the set of live children; the terminal belongs to
  whoever is waited for; every child that ends is reaped; the shell is not left
  over a live job unasked.
* hash and option tables: what was put is found; a walk visits everything.
  Containers: a list is its sequence, no buffer is overrun. Temporaries end with
  their frame. Sorting: the result is an ordered permutation and the scans stay
  in the array. Collector: nothing reachable is swept, no slot is used twice.
* object commands: what is put is found under the same name; reading back what
  was printed gives the same; nobody changes a value that is not his.
* context pipe: lines are handed out in order and once; cached lines are those
  of the present text. Commands on texts: those that should agree say the same
  of a text, and no character is cut in two.
* file commands: `cd` goes where the path leads, `PWD` says where the shell is,
  `popd` comes back, `write` loses nothing it was not told to.

## 2. Modules

| module | models | state and actions |
|---|---|---|
| `Interpreter` | `run` and all its callers | A stack `ctl` of the live activations of `run`, each with its call site, its code and what it replaced. Each way into `run` is a `Call` from a site, each way out a `Leave`; one `Ret...` action per caller is the code after its call, error paths included. The program is abstracted: a statement may be any command, a condition may have any outcome. |
| `InterpreterProofs` `ExternalCommandProofs` `JobControlProofs` `CollectorProofs` | | theorems and proofs about the module of that name (section 5) |
| `CommandsProofs` | | the same about `Paths` and `Conditions` |
| `ObjectsProofs` | | the same about `ObjectCommands` |
| `BlockProofs` | | the same about `StatementList` and `ContextPipe`, the statements of a block and its pipe |
| `DataProofs` | | the same about `HashTable`, `Memory` and `QuickSort` |
| `StatementList` | `read_statment`'s flags, the loop of `run` | `stmts` is the block as written; `FlagsOf` gives the flags the parser would set, with the values of `xyzsh.h`; one action per kind of statement. |
| `Parser` | `parser.c`, `block.c` | pure: each reader of the code is an operator from a text and a position to what it read, where it stands, and whether it ended |
| `Expansion` | `env.c`, `run_alias` | reads a text, expands a command, passes its arguments to a clone of an alias, expands again; the line field the clone has not copied is any |
| `Expression` | `exp.c` | each level of precedence is an operator over the text; `my $x` and `$x` make two kinds of nodes; `run_node` over a store of objects, to which names are bound, of the locals and of the current object |
| `ExternalCommand` | `run_external_command` and the processes around it | `pc` is the position in the shell's code; `child`, `writer`, `pipe`, `tty` are the kernel's side. Bytes are counted in blocks. Every blocking call of the shell is an action guarded by what unblocks it; `Interrupt` gives it EINTR. |
| `JobControl` | `gJobs` from start to reaping | External programs appear only by how they came out (that is `ExternalCommand`); each command of the shell is an action, followed by the reaping before the next prompt. |
| `HashTable` | `obj_hash.c`; `obj_user.c` has the same code | chains, list, count and a walk that runs between other operations |
| `KeyStore` | what a hash promises | refined by `HashTable` through its lookup |
| `OptionTable` | the tables of options | one action per step of a probe |
| `Containers` | lists, vectors, strings | cells with their links; of vectors and strings the sizes and how far the last operation wrote |
| `StackPages` | `stack.c` | pages of slots; `owned` says which frame was given which slot, `ended` what the last end of a frame deleted and what it should have |
| `Memory` | the three before this | a composition: they share no state, a step is one of one of them |
| `QuickSort` | `quick_sort` and `quick_sort_shuffle` | one action per answer of the block; the recursion is a stack of ranges |
| `ObjectCommands` | `cmd_obj.c` | `heap` of objects, names as paths in it; each command with every argument, from a pipe or not, in a block of an object or not |
| `Collector` | `gc.c` under `run`, `run_function`, `inherit`, `def`, `var`, `ref`, `object`, `sweep` and `access_object` | `heap` is the pool, `free` the list through it; `acts` are the activations of `run` with what their C variables keep; the three vectors that `gXyzshObject` holds are variables of their own. Commands, the ends of `run` and the generations of a mark and slots of a sweep are actions. |
| `ContextPipe` | the pipe of a block, `fd_split`, <code>&#124;n</code> | the buffer is a sequence of line numbers, the cached lines are pieces of it |
| `Texts` | `kanji.c`, the string functions of `obj_string.c` | bytes and the characters in them under a code |
| `StringEdit` `StringSets` `StringSearch` | `cmd_str.c`, `join`, `lines`, `combine` of `cmd_ary.c` | a behaviour is one command on one text |
| `NativeCommand` | `run_object` of `run.c` with a native command | the variables that `Conditions` and `Paths` share, and how a call and a return change them |
| `Conditions` | `cmd_num.c`, `cmd_condition.c` | commands one after the other, with the variables they set |
| `Paths` | `cmd_file.c` | directories as sequences of names; another program may take one away at any step, and between the look at it and the `chdir` |
| `MC...` | | instances for TLC |

Names are those of the source where it has them. In each module the word
*slip* marks a definition that is not the code's but a plausible mistake in it,
such as a restore left out on one path: each property was seen to fail when the
slip takes the place of the definition below it.

How they fit together: `Interpreter` takes the outcome of an external program
(`ExternalExits`) and of a statement list as any of the codes that
`ExternalCommand` and `StatementList` can give; `JobControl` takes from
`ExternalCommand` that a program in the foreground ends up reaped, with the
terminal returned, or as a new last job, which are its `TerminalBack` and
`NothingLeaks`. `Collector` sees the control stack of `Interpreter` only as
activations that start and end in order, which is what `Balanced` says of it;
`ObjectCommands` is the same commands over a heap without reclaiming.
`Expansion` extends `Parser` and runs what it reads. The other abstractions of
one component in another are by hand.

Three runs hold several modules that share no state: `MCLanguage`, `MCData` and
`MCCommands`. There a behaviour is of one of the modules, its `subject`, and the
others rest. The modules that are proved about are extended (`HashTable`, `Memory`,
`QuickSort`, `StatementList`, `ContextPipe`, `Paths`, `Conditions`), so that their runs check the
very definitions the theorems name, and the names of the last five are chosen not
to meet those of the others (`SortInit`, `BlockInit`, `PipeInit`, `PathsInit`, `TestsInit`; `state` and
`rcode` of `StatementList` are the `phase` and `mRCode` of the other modules); the
others are instances. A property of such a run may conjoin several:

| run's property | is |
|---|---|
| `StatementsSkip` | `StatementList`'s: `TypeOK`, `SkipsAreExact`, `ResultIsLast` |
| `TreesReadBack`, `LateReads` | `Expression`: `ReadsBackAsWritten`, `ValuesAsRead` |
| `ReadingEnds`, `ReadsAsMeant`, `AliasPassesOn` | `Expansion`'s, and `SourceReadsAgain` in the second |
| `TablesHold` | `HashTable`'s: `TypeOK`, `ChainsAreList`, `WalkIsComplete` |
| `MemoryHolds` | `Memory`'s: `TypeOK`, `ListIsSequence`, `BuffersHold` of `Containers`; `TypeOK`, `TemporariesLive` of `StackPages`; `TypeOK`, `FoundIfGiven` of `OptionTable` |
| `SortingHolds` | `QuickSort`'s: `SortTypeOK`, `ScansStayInside`, `SortedIfOrder` |
| `NamesReadBack` | `ObjectCommands`: `ObjectsTyped`, `WrittenIsRead`, `RestIsPassed`, `DefinedIfFound` |
| `ListsAgree`, `ValuesStay` | `ObjectCommands`: `ArraysAgree` and `HashesAgree`; `ValuesStay` |
| `PositionsAgree`, `CharactersStayWhole` | `StringEdit`'s |
| `LinesAgree` | `StringEdit`: `EndsAgree`, `LinesAgree` |
| `SetsAgree` | `StringSets`: `SetsAgree`, `TranslatesSet`, `SuccIsNext` |
| `SearchesAgree` | `StringSearch`: `SearchesAgree`, `MatchesAgree` |
| `TestsAgree` | `Conditions`: `NumbersAgree`, `ConditionsAgree` |
| `PipeInOrder` | `ContextPipe`'s: `PipeTypeOK`, `LinesInOrder`, `ReadsAreSized`, `LinesAreCurrent`, `WholeIsFront` |
| `PathsHold` | `Paths`: `PathsTypeOK`, `DirectoryIsMeant`, `BackWhereItWas`, `WritesHold` |

The commands on texts are mostly checked against each other and not against a
second definition of the same: what `del` does after `add`, `count` of a set and
of its complement, `rows` and `substr` of one character, `sub` and `scan`, `split`
and a search, `index` and `rindex`.

## 3. Runs

| run | shows | instance |
|---|---|---|
| `interpreter` `MCInterpreter.cfg` | `TypeOK`, `Balanced`, `StackInBounds`, `InfoIsCaller`, `PipeObjectsDropped`, `JumpsLand`, `ExitLeavesShell` | all call sites, nesting limit 4 (50 in the code), stack of 9 frames |
| `language` `MCLanguage.cfg` | `StatementsSkip`, `TreesReadBack`, `LateReads`, `ReadingEnds`, `ReadsAsMeant`, `AliasPassesOn` | all blocks of up to 4 statements over `&&`, <code>&#124;&#124;</code>, newline and a comment, with and without `!`, every outcome; expressions of two nested operators of every level over `my $x` and `$y`, escaped strings, 8-bit ints, short stray texts; texts of up to 4 characters of those that begin or end something; words of up to 2 characters in every quotation; every two of 16 kinds of arguments, for a command and for four aliases, two of which hold a `$(...)` |
| `mixed_operators`, `global_append` | divergences, section 6 | blocks of 3 |
| `external_command` `MCExternalCommand.cfg` | `TerminalBack`, `NothingLost`, `NothingLeaks`, `Returns` | every mode, kind of input, output and place; two blocks in and out, one on stderr, a pipe holds one; two ^C, one ^Z |
| `full_stderr` `MCExternalCommandErrors.cfg` | divergence, section 6 | two blocks of stderr |
| `job_control` `MCJobControl.cfg` | `JobsAreChildren`, `TerminalOfWaited`, `ExitAsksFirst`, `EndedIsReaped` | three programs |
| `data` `MCData.cfg` | `TablesHold`, `IsStore`, `MemoryHolds`, `SortingHolds`, `NamesReadBack`, `ListsAgree`, `ValuesStay` | three keys, two items, a table of two chains that grows to ten, two keys that collide at both sizes; four options for three slots; lists of up to 4 cells, vectors of 8 items, strings of 12 characters with a short string of 6; pages of 2 slots, three frames; four lines under every relation the block may answer; every two object commands on a root with a variable, an array and an object, one block |
| `append_creates` `MCDataAppend.cfg` | divergence, section 6 | the same |
| `commands` `MCCommands.cfg` | `PositionsAgree`, `LinesAgree`, `CharactersStayWhole`, `SetsAgree`, `SearchesAgree`, `TestsAgree`, `PipeInOrder`, `PathsHold` | texts of up to three characters, with one of several bytes, in bytes, UTF-8, Shift-JIS and EUC-JP, and arguments at and past both ends; two tests or calculations with 4-bit ints; a pipe of three lines, n = 1, 2, -1, -2, -6; three directory commands over six directories with a link, one that may not be entered, one taken away |
| `collector` `MCCollector.cfg` | `TypeOK`, `FreeListExact`, `FramesKept`, `NamesLive` | a pool of 5 slots that doubles once, one name, three nested `run`s, a sweep at every second end of `run`, five statements, one printed address |
| `collector_in_use` `MCCollectorInUse.cfg` | divergence, section 6 | the same |

Why the bounds are enough:

* `MaxNest = 4`: three activations, so that a caller's caller's record matters,
  and the limit itself is hit from every site. `MaxStack = 9` is the least that
  `StackAssumption` allows, so `StackInBounds` has no slack. What these bounds
  leave open is proved (section 5).
* Four statements hold a refused one, one skipped over, a separator and one
  after it, which are all the cases of the skip.
* The readers of the parser look at most two characters ahead, so four
  characters hold an opening, something, a closing and what comes after; two
  characters of a word are one with a meaning and its neighbour. Two nested
  operators are every level of precedence below and above every other. Two
  arguments are needed for one to change what another is.
* A pipe of one block is full after one write; programs write more than one, so
  they do block. `MaxErr = 1` says that stderr fits its pipe, which `Returns`
  needs, as `full_stderr` shows. Two ^C cover one taken by a reader and one by
  a wait.
* Three programs: one waited for, one before it and one behind it in the list.
* Three keys cover a chain of two, an entry in front, behind and in the middle
  of the list, and the growth is reached with all of them in. Four options are
  one more than there are slots. Four cells are two ends and two in the middle.
  Three frames over pages of two slots make a frame that begins at the end of a
  page, one that spans pages, and one below both. Four lines give the sort a
  range on both sides of its centre, with equal lines. What these bounds leave
  open of tables, memory and sorting is proved.
* Two object commands are a change and what sees it; the heap they begin with
  has the sharing that takes more commands to make.
* In three characters every position, each one past an end and a character
  beside another of other length occur; second bytes that are letters are among
  them. Three lines are first, middle and last.
* Three directory commands are a `pushd`, a `cd` away and the `popd`.
* Five statements under three nested runs hold a definition, a call, a call
  of itself, a redefinition or loss of the name and a sweep. One name is enough,
  since names are apart and objects may be nested. Slots are what matters: the
  pool doubles with its first five in use, and its freed slots are used again.
  What these bounds leave open is proved.

`CHECK_DEADLOCK FALSE` is in the runs where the system ends. In
`ExternalCommand` the shell may really stop, waiting for a program that never
ends, and whether it does is what `Returns` asks. In `Collector` the program ends
once its statements are used up, or the shell has crashed over a swept object.
In `language`, `data` and `commands` a behaviour is one text or a few commands.

## 4. Fairness

* `Interpreter`: `WF(StatementFails \/ RetAny)`. The interpreter is one
  thread; after a failing statement the next step can only be the return and
  what its caller does with it. Nothing is assumed about ordinary statements: a
  program may loop for ever.
* `ExternalCommand`: weak fairness of the shell, the writer, the start of the
  child, and of its reads and writes, since the kernel runs every process whose
  call can go on; strong fairness of `ChildExits`: a program that is again and
  again free to end ends. `Returns` promises nothing once the user types ^C or
  ^Z, or for a program that blocks outside of its pipes.
* `JobControl`: the loop of the shell goes on after a wait (`Settle`, `Reaps`); a
  program in the foreground ends or stops rather than holding the shell for
  ever (`ForegroundEnds`); the user keeps entering lines, if only empty ones,
  as reaping happens only there (`SF(EmptyLine)`).

## 5. Proofs

Each theorem holds for every value of the constants that its assumptions allow;
the runs show the same for one small instance, and refuted the first guesses at
the inductive invariants. Each of the modules proves that its `IInv` holds at
the start, that every action keeps it, and that it implies the properties; of the
tables it is `TableInv`, of the memory `MemoryInv`, of the sort `SortedInv`, of the pipe
`PipeInv`, of the directories `PathsInv`; `TestsAgree` is its own, and that of the object
commands is `TypedNow /\ ReadBack`.

| module | properties proved | assumed of the constants |
|---|---|---|
| `InterpreterProofs` | `TypeOK`, `Balanced`, `InfoIsCaller`, `StackInBounds`, `PipeObjectsDropped`, `JumpsLand` | a nesting limit of at least 2, `2 * MaxNest < MaxStack`, sites closed under body and condition |
| `CollectorProofs` | `TypeOK`, `FreeListExact`, `FramesKept`, `NamesLive` | a first pool of two slots, bounds that are numbers, names apart from fields |
| `JobControlProofs` | `JobsAreChildren`, `TerminalOfWaited`, `ExitAsksFirst` | "shell" and "none" are no programs |
| `ExternalCommandProofs` | `TypeOK`, `TerminalBack`, `NothingLost`, `NothingLeaks` | pipes hold at least one block, amounts are numbers |
| `DataProofs`, tables | `TypeOK`, `ChainsAreList`, `WalkIsComplete`, `TablesHold`, `IsStore` | a first size above 0, sums of characters that are not negative, `None` is neither key nor item |
| `DataProofs`, sorting | `SortingHolds` | a number of lines, numbers to compare |
| `BlockProofs` | `StatementsSkip`, `PipeInOrder` | a number of statements, a number of lines, and `n` of "<code>&#124;n</code>" that are integers |
| `DataProofs`, memory | `MemoryHolds` | sizes above 0, a short string that holds a character and its end (`ShortPut` of at least 2), `Null`, the null pointer, is no number, option or truth value |
| `CommandsProofs` | `PathsHold` | directories that form a tree and have ordinary names, a first one that may be entered, links that lead to directories there are and none closed above, paths and texts that are sequences of names and numbers |
| `CommandsProofs` | `TestsAgree` | ints from `-Half` to `Half - 1`, `Half` above 0; texts and words that are sequences of natural numbers; files of a known kind, and nothing known of one that is missing but the time of its link |
| `ObjectsProofs` | `ObjectsTyped`, `ValuesStay`, `NamesReadBack`, `ListsAgree` | starts that are sound; texts and names of the code's words and any strings; addresses that are words, two objects never at one; bounds that are numbers |

`InterpreterProofs` proves of `Spec`, for every nesting limit, stack size and
set of call sites: `TypeOK`, `Balanced`, `InfoIsCaller`, `StackInBounds`,
`PipeObjectsDropped` and the action property `JumpsLand`.

Assumptions: `NestAssumption` (a limit of at least 2; it is 50),
`StackAssumption` (`2 * MaxNest < MaxStack`; they are 50 and 256) and
`SitesAssumption` (a program that can reach the condition of a `while` or `if`
can reach its body).

`IInv == TypeOK /\ Balanced /\ InfoIsCaller /\ SavedIsCaller /\ BottomIsTop`.
`InfoIsCaller` speaks of the innermost function or alias only; when it returns,
the global is set from what it had saved, so the invariant must know that every
activation's saved value is the caller of the innermost function *below* it:
`SavedIsCaller`. `BottomIsTop`, the command loop is the outermost caller and
only it, tells whether a returning `run` leaves a live one behind. Every action
has one of four shapes, a call, a return from `run`, a change of the code on
top, or a caller's clean-up; there is a lemma for each (`CallInv` and its
neighbours) and the step theorem cites one per action. `CountAppend` and
`CountFront` say how a call and a return change the number of activations of a
site, from which `Balanced` follows by arithmetic. `StackInBounds` follows from
`Balanced`: each activation has its own frame and at most one of its caller.

`CollectorProofs` proves of `Collector`'s `Spec`, for every pool, nesting limit,
period of sweeps and set of names: `TypeOK`, `FreeListExact`, `FramesKept` and
`NamesLive`.

Assumptions: `PoolAssumption` (a first pool of at least two slots; it is 64 times
the pool size given to `gc_init`), `PeriodAssumption`, `BoundAssumption` (the bounds
are numbers) and `NameAssumption` (a program's names are not those of fields).

`IInv` conjoins the properties with what they lean on. `Shape`: every list has the
length that the activations give it, so that a return pops what its call pushed.
`RootsLive`: what these vectors hold is in use, frames are objects and running
functions functions. `LocalsOwned`: only a function that runs has
`mLocalObjects`, and it is a frame that one of its activations pushed, so that
nothing brings a popped frame back. `SavedLocals`: what `run_function` keeps to
restore is the frame of the next outer activation of the same function, or
nothing; without it `FramesKept` would say nothing about the state after a
return. `MarkedClosed`: marks cover the roots and the children of all that is
marked and not grey, so that when the sweep begins the marked slots are closed
under pointers.
Every new object comes by `Adds`, which says what a fresh cell must satisfy for
names to stay live, and `Names` says the same of the rest of the heap; the
commands cite these two, the steps of the collector `MarkedClosed`. `NamesLive`
leaves out `args`: argument blocks saved in C variables may be swept (section 6).

`JobControlProofs`. The properties are nearly inductive; what is missing is what
the shell waits for between two steps: `WaitsForChild` says that at the prompt
it is nothing, while a command runs a child that is not yet a job, and in `fg`
the job of the number that was asked for. `AppendJob` and `EraseJob` are what a
start or a stop and a reaping do to the vector. `ExitAsksFirst` is an action
property: it follows from the invariant before the step, since a shell that
leaves unasked has an empty vector, and every child would be in it.

`ExternalCommandProofs` follows a block of output from the program through the
pipe to the buffer: `written` counts what the program wrote, and `Conserved` says
that `got[s] + pipe[s] = written[s]` as long as no read has failed, and that a
closed pipe is empty. That stdout is read to its end before stderr and both
before the waits is `Stages`; that only a ^C that hit the shell leads away from
it is `HitIsMarked`. `Terminal` and `Children` say for every point of the code
whose the terminal is and which processes are left, so that `TerminalBack` and
`NothingLeaks` are what they say of the points where the call returns.

`DataProofs`, the tables. `WalkGoesOn` strengthens the properties: what a walk has yet to
meet is in the list behind the entry it is at. `resize` is a recursive function over the
list: `Fold` says that such a function exists and `Upto` is the induction over
the entries it has put. `TableIsStore` is the refinement: `items`, what a lookup
finds under each key, starts as the store does and changes by a step of
`KeyStore` or not at all.

`DataProofs`, sorting. No test in the code keeps `i` and `j` in the range, so the
invariant names what stops each scan: `StoppedByBlock` a position ahead of it that
holds the centre line or one whose answer stops it, `StoppedByNumber` the same
with the numbers of `-shuffle`, which stay behind when lines are swapped. `Parted`
says that what the scans have passed is on its side of the centre line, and
`Ranges` that the range at work and the pending ones are disjoint and inside,
and that only lines of the same range may be in the wrong order: when none is
pending, all are in order.

`BlockProofs`, the statements. `Behind` and `Ahead`: of the statements the loop has
passed, those and only those ran that no earlier operator refused, of those
ahead none has; `NotYet`: the one it is at is not refused. The step over a
refusal goes to the next separator, and `Least` gives the first one there is.

`BlockProofs`, the pipe. `LinesInOrder` speaks of the lines taken so far and is not
inductive: the next read takes from the cached lines, so that the invariant must
know what these are. `BufferIs`: the buffer is what the front command wrote until
a file is redirected into it. `LinesAre`: lines that are cached are those of the
buffer, either split at \n, in order or in the one `cmd_sort` leaves, or the one
line it is at \r. `CountIs`: until a statement disturbs the pipe, the count is the
number of lines taken, as far as there are any, and these are the first ones.
`ConcatIs` says that the recursive `Concat` is the only function that puts line
behind line, `ConcatOnes` what it gives for lines of the buffer; `SortedIs` that there is an
order for `cmd_sort` to leave.

`DataProofs`, the memory. The parts have no state in common, so that `MemoryInv` is a conjunction and a
step concerns one conjunct.

* Pages. Frames are nested: each was given what lies between the place where it
  begins and the one where the next begins (`OwnedLieBetween`), and these
  places are in order (`FramesNest`). `EndedLieBetween` shows that the three
  loops of `stack_end_stack` go over just the places between two positions, on
  however many pages. That no slot is given twice follows from the order.
* Options. `Way` is how far a slot is from the start of a key's probe. A slot
  holds a key only if every slot on the way to it was taken (`Reached`), and a
  probe has seen just the slots on its way so far, or all of them when it began
  at slot 0 and goes round in a full table (`Probes`); nothing is ever deleted,
  so a free slot on the way means the key was never put.
* Buffers. Each operation leaves room for what it writes; what there is to see is
  that each growth rule does so from any length that the others can leave.
* Lists. `Represents(cs)`: the cells are those of the sequence `cs`, linked both
  ways in its order. Every operation is the insertion of one cell between two
  neighbours (`ListInsert`), the removal of one (`ListRemove`), or a change of an
  item. `ListAt` says that the recursive `list_at` follows the sequence.

`CommandsProofs`, directories. The kernel walks a path name by name; `correct_path` deletes "." and
".." from its text, and the result is what is walked, kept in `PWD` and in the stack
of `pushd`. `Walk` and `NoDotDot` are recursive functions: a walk is any function
that makes its steps (`IsWalk`), one exists (`FoldSteps`) and no second (`OneWalk`).

* `KeptIs` and `RestIsKept` are what deletion keeps. If the names in front of each
  ".." led down, then up to the last ".." the text that is kept is the name of
  the directory the walk has come to, so that it is the same to take a name from
  the text and to go up; behind the last one nothing is deleted any more, and the
  walk of the text that is left joins the walk of the given path. If the text runs
  out, the walk was at the root before a "..".
* In a plain path they did lead down (`ThroughDown`): no name in front of a ".." is
  that of a link, and directories are entered by their own names (`OnTheWay`).
* So `PlainIsMeant`: the path `cd` makes of a plain one leads, from everywhere, to
  the same directory. Paths that are not plain may lead elsewhere (section 6).
* `PathsInv`: the shell is in a directory there is, reached through none that is
  closed, as nobody takes away the directory of a process here; and each path that was
  pushed leads, if it begins at the root, to the directory `pushd` was given or
  nowhere any more (`IsEntry`). That it stays so when directories are taken away
  is `WalkFewer`: with fewer directories a walk leads to the same place or
  nowhere.

`CommandsProofs`, numbers and conditions. Each conjunct of `TestsAgree` is about what one command leaves
behind, so that it is inductive as it stands; what there is to prove is what the
commands compute.

* `DecimalReads`: `atoi` of what `printf("%d")` wrote is the number. `DecimalIs` follows
  the recursive `digits` down to a digit: it is a `Numeral`, digits with the number
  up to each place. `AtoiIs` says that the end of the spaces, the end of the digits
  and the number read up to each place are what they are in only one way
  (`OneBegin`, `OneEnd`, `OneRead`), so that it is enough to show them.
* `WrapIs`, `OneInt`: wrapping takes whole turns away, and ints that are whole turns
  apart are the same; so `WrapBack`, an addition that wrapped is undone.
* `Divides`: quotient and remainder by the signs, with the one division left out
  that has no int for an answer.
* `StrcmpIs`: 0 only for equal texts, and the sign turns with the arguments. `FoundAt`:
  the parts in front of, in and behind the first place of a word are the text, and
  the word has no earlier place.

`ObjectsProofs`. A world is what a command finds or leaves: the objects, the local
variables and the current object. It is `Fine` when it is of its type and sound:
every name leads to an object there is, and parents are older than their children.

* `Grown`: more objects, more items in them, and nothing else changed. `BindIs`, `BindNewIs`,
  `MadeIs` and `PutLocalIs` show it of what every command is built from, the lemmas
  `VarsBoundIs`, `ObjectsMadeIs`, `RefsBoundIs` and `EntryIs` of what one does for all of its
  arguments. Only `GrowerIs` is about `-insert` and `-append`, which put a new value into
  one array or hash.
* `TypedNow` is the inductive invariant. `ObjectsTyped` says that each block on the stack
  comes back to objects there are; `Kept` says it of a block by itself and the heap, so that
  a command keeps it for all blocks because the heap has only grown (`KeptOn`). `TypedIs`
  says that the two are the same.
* `InheritedIs`: the lookup of a name through the parents ends, since each parent is older.
* There is one lemma for each command (`VarSteps` and its neighbours), which gives the types
  and `ValueStays` together, because both follow from the world that it leaves (`RanIs`).
* `ReadBack` is `NamesReadBack` in parts, one for each command that writes, and what
  `-insert` puts in. With `TypedNow` it is inductive: a part speaks of the last command, so
  a step has to show only the part of the command it is (`PartsApart`), from the world
  that command leaves.
* `Same(v, w, J)`: under the names in `J` every object has in both worlds what it had.
  `Alike` says that objects stay objects, with their parents. A lookup that uses names in
  `J` only then gives the same (`InheritedSame`, through the parents, `PrefixSame`, along the
  parts of a name, `FoundSame`).
* `BoundFound`: what an argument is bound to is found right after that. `BindSame`: binding
  it changes nothing under other names. So what an early argument was bound to is
  found when all are (`KeptFound`, `VarsFound`, `RefsFound`), unless a later one hides it;
  the properties leave these uses out by `Hidden`, and the proof needs nothing more.
* `LinesOfText`: the lines of a text made of lines are those lines. The reader of the lines
  is followed from line to line (`LineRead`), and `FlatAt` gives the place of each. `ArrayReads`,
  `HashReads` (with `PutAdds`: a key that is not there goes to the end) and `PassedRead` rest on it, and
  with them `ListsAgree` and what `-shift` passes on.

Induction over data. The library's induction rules take an operator as parameter
and cannot be used; where a proof needs one (`resize`, `list_at`, `Concat`, `Walk`, `NoDotDot`, `atoi`, `Decimal`,
the skip of the loop of `run`), it takes the least element of the set of counterexamples, which is
a fact about sets of numbers (`Least`, `Upto`).

Only model-checked: `ExitLeavesShell`, `Returns` and `EndedIsReaped`, which are
liveness under fairness and out of the prover's reach; `Parser`, `Expansion` and
`Expression` (`TreesReadBack`, `LateReads`, `ReadingEnds`, `ReadsAsMeant`, `AliasPassesOn`), whose
operators are `RECURSIVE`; and the commands on texts (`PositionsAgree`, `LinesAgree`,
`CharactersStayWhole`, `SetsAgree`, `SearchesAgree`): each compares what two definitions over
characters of one to three bytes compute for a text. Whether an option
probe ends is not proved: from slot 0 in a full table it does not.

## 6. Where code and documentation part

Shown by a run whose property is what the documentation says:

* `mixed_operators`: in `false && a || b` statement `b` does not run: the skip
  at run.c:1583 goes to the next separator. README.md:307-308 defines each
  operator by the statement before it.
* `global_append`: `STATMENT_FLAGS_GLOBAL_PIPE_APPEND` (xyzsh.h:215) has the value of
  `STATMENT_FLAGS_KIND_NODETREE` (xyzsh.h:220), so that run.c:1456 takes
  `cmd |>>` for an expression and runs nothing.
* `full_stderr`: stdout is read to its end before stderr (run.c:698-722): a
  program that fills the stderr pipe waits for the shell and the shell for it.
* `append_creates`: `ary -append` and `hash -append` to something that is not
  there fail for another object than the current one (cmd_obj.c:1077, 1363), and
  for the current one named with a prefix make it under the whole path, where
  it is not found. help.xyzsh:3947: "If the array doesn't exist, create new
  array".
* `collector_in_use`: `object -new (block)` keeps its object in a C variable while
  the block runs (cmd_obj.c:1449-1458), and a call keeps the argument blocks of
  an outer call of the same function in another (run.c:784): a sweep in between
  frees them. USAGE.ja:885 demands that all the collector makes can be reached
  from `gRootObject` or `gXyzshObject`. The block then runs on cleared memory,
  `Crash`, or on another object that took the slot.

Met while writing the models. Where they are in a model, the properties leave
these uses out or state them as they are, with a comment there:

* `exit` in an alias ends the statement, not the shell: run_alias (run.c:873)
  returns FALSE without the code of its body (README.md:1076-1078). `CatchersOf`
  and `ExitFree` say so.
* A statement ended by a comment has no separator flag (parser.c:1247): a skip
  goes on into the next line (README.md:306).
* A ")" that no "(" opened, between backquotes, is read for ever (parser.c:873),
  and the `~name` of nobody is copied after it has been freed (parser.c:803).
* An alias expands its arguments in the caller and then again among its own
  local objects (run.c:839-873): an argument that names a local variable, a
  file name or a key with an expansion in it, comes out as another.
* An alias runs a clone of its block (run.c:841), which copies all of a `$(...)`
  but how its output is split into lines (block.c:359-371, where block.c:281
  copies it): env.c:253 then reads a field nobody has written. The same holds
  of a `$(...)` in another one (block.c:603). `block_clone_on_stack` marks these
  and `Expanded` tries every value; `AliasPassesOn` leaves out an unquoted
  `$(...)` of the alias whose output has an end of line.
* Within an expression `$x` is not what it is elsewhere: `$x = e` stores in the
  current object (exp.c:2126-2137), and `++$x`, `$x++` and `$x += e` fail, as
  `get_variable_from_node` has the current object for them and not the variable
  (exp.c:1715-1720). Locals need `my $x` at each use. `MayFail` says so.
* The value of a variable is its object: in `my $x + ++my $x` both operands are
  the new value, in `my $x + (my $x = 2)` the first is the old one.
  A compound assignment loses what its right side stored. x / 0, and the least
  int by -1, end the shell (exp.c:1816, cmd_num.c:205).
* In a script or with `-c` the code of the last program is not stored
  (run.c:456), so that `make || raise` of README.md:702 never raises.
* A program that is not the last of its statement and stops holds its stdout
  open: the shell stays in `read` (run.c:260) and never reaches the code that
  would kill it (run.c:391-403, comment at run.c:422).
* After ^C a reader leaves the read end open (run.c:254); a program that survives
  may block on the full pipe with the shell waiting for it (USAGE.ja:246). Hence
  `typed` in `Returns`.
* The probe of a full option table that began at slot 0 never ends (obj_fun.c:163).
* `sort` orders the cached lines of its input in place (cmd_ary.c:535), a command
  that splits with the ends chomped leaves such lines (obj_fd.c:243), and
  `cmd <file` puts the file into the pipe of the block (run.c:1117): later
  <code>&#124;n</code> or whole reads of the same pipe see that.
* `substr` takes one byte too many in byte mode (cmd_str.c:1283, 1342); a range of
  `rows` or `lines` with a long end overruns its buffer (cmd_str.c:1054);
  `count`, `delete` and `squeeze` in byte mode read sets that were never filled
  (cmd_str.c:1855). `tr` with ^ under Shift-JIS and EUC-JP splits as UTF-8 does
  (cmd_str.c:3467). `sub -global` of the empty word never ends (cmd_str.c:4740),
  `rindex` passes over overlapping words, and a word may be found inside a
  character of Shift-JIS.
* `abcdefg | substr_replace AAA 1 -1` is documented as `aAAA` (README.md:3014-3015,
  help.xyzsh:2211-2212), as if everything from the index on went. The code ends
  a negative length that many characters before the end, as `substr` does
  (README.md:2992-2993), and gives `aAAAg`. `SubstrAndRows` states the code's
  reading, and that what was taken goes back only for lengths from 0 on.
* `chop` of a line that ends with CR LF takes both away, says README.md:2742 and
  2753 (help.xyzsh:1918, 1928); it does so in byte mode, and else takes only the
  LF (cmd_str.c:513-518). `EndsAgree` asks for what the documentation says where
  the code does it, and leaves the other case out.
* `index -utf8` counts from 0; README.md:2657 prints 3 where that gives 2.
* `-L` asks `stat`, which follows links, and never says yes (cmd_condition.c:127);
  `defined a::b` says yes when there is no `a` (cmd_obj.c:60); `objinfo` of an
  alias ends the shell (cmd_obj.c:232); `ref -shift` passes addresses without
  their line ends (cmd_obj.c:1813).
* `cd` looks for the "/" behind a "." in the wrong place (cmd_file.c:142): of "/."
  only the last goes, and "/.x" at the end becomes an "x" behind the name before.
  It shortens ".." by text: after a link, a "." or a double slash it goes
  elsewhere. Past the root it fails. `PWD` is set though the `chdir` fails
  (cmd_file.c:240), and `write` reports an open that failed only when it has
  something to write.

## 7. Not modelled

Failing `pipe`, `fork`, `setpgid` and `tcsetpgrp`, which end the process; the
text of messages; the regular expressions of Onigmo, which are seen as searches
for words; the vendored editline library; `vector.c` and `node.c`, which nothing
uses; `debug.c`. Callers of `run` that call it exactly as one already there
(`mrun`, `lines`, `sort`, prompt hooks, completion, the embedding interface) have
no action of their own in `Interpreter`.

Three further parts are left out for what they are. The selector and the
terminal emulator are drawing: what they compute besides is a cursor and a
scroll position, and nobody but the screen sees it. Line editing and completion
rewrite the library's buffer within one call. Start-up is one fixed order of
calls.

Of the language: a string of an expression that ends in a backslash, line numbers, the flags for completion, the limits of
names and numbers, `:@`. Of the object commands: `-copy-stackframe`, the line
ends that -Lw, -Lm and -La choose. Of the commands on texts: sets of more than
128 characters, ranges that end with a character of two bytes. Of `cmd_file.c`:
`getcwd` in a directory that is gone, which leaves its buffer as it was.

Of the collector: the objects of start-up, which nothing drops; `ARGV` and `OPTIONS`
of a frame; the values of strings; classes, aliases, arrays and hashes as
holders; `object` without a block, which is `var` with another kind; `load` inside
a program; prefixes of more than one name; a program that gives the name
`parent` or `self` a new value (then `mParent` is kept alive by nothing,
obj_user.c:305). `CallerGoesOn` leaves open whether the run failed.

Hazards that no property reaches, besides those of the project file: a walk over
a hash whose present entry is erased reads released memory (obj_hash.c:401,
run.c:1027), which `HashTable` rules out by a guard; an object that is looked up
before its arguments are expanded may be gone when it runs (run.c:1349); a read
from a terminal or a pipe that comes back short ends a redirect (obj_fd.c:104);
`gXyzshSigInt` is seen only at the next test of it, maybe in another command
line (run.c:1558).

## 8. What would come next

1. The life of the descriptors of redirects, along the paths of `statment_tree`.
2. `Collector` with `mParent` and the item `parent` as two pointers, and with arrays
   and hashes as holders; then `ObjectCommands` over it.
3. Proof: that the commands on texts cut no character in two (`CharactersStayWhole` of
   `StringEdit`), by the reader of characters as `LineRead` follows that of lines.
4. A promise of an external command as a specification of its own, implemented
   by `ExternalCommand` and used by `JobControl`.
