# A verification development for the CSci 4061 programs

The repository holds four course projects in C, each a small concurrent system, and the exercises of thirteen labs. This directory holds TLA+ modules that model the projects, TLC configurations that check them, and TLAPS proofs about them. Paths below are relative to the repository; `P1` ... `P4` stand for `src/project/project1` ... `project4`.

    tlc -config MCWordCountQueue.cfg WordCountQueue.tla        # a run; see the table of runs
    tlapm WordCountQueueProofs.tla                             # a proof module

Contents: 1 the system, 2 the modules, 3 the runs, 4 bounds, fairness, deadlock, 5 the proofs, 6 findings, 7 what is left out, 8 the plan.

## 1. The system

### Project 3: `wcs`, threads and a shared queue (`P3/`)

`wcs N file` counts the words of a file by first letter. `main` (main.c) creates a producer and N consumers, joins them and writes `result.txt` (`finilize`). The producer (producer.c) appends each line `fgets` returns to a linked list, signals one consumer per line, stores the number of lines in `end` and broadcasts. Every consumer (consumer.c) walks the *whole* list from the first node and counts the nodes it finds in state "produced".

* State: the list (`check`, `vals`, `next` of each node), the producer's node and line number, each consumer's node, line number and id, `mutex`, `cond`, `end`, `consumerId`, the histogram.
* Interaction: shared memory, one mutex and one condition variable. `end` and `consumerId` are accessed without the mutex.
* Hard: `end` is loaded twice in one condition (consumer.c:41); the wait is guarded by `if` (:44) and by a test of `end` made before the lock (:41); `lineNum` counts wakeups rather than nodes; the first node's `next` is not initialised; a signal wakes a consumer that may stand anywhere in the list.
* Correct: mutual exclusion; no read of memory nobody wrote; each line counted once and in file order; no line left to sleeping consumers; the histogram complete when written; all threads end.

### Project 4: word counting over TCP (`P4/PA4_Server`, `P4/PA4_Client`)

A client program (client.c) is a master process that spreads the files of a folder over its mappers and forks a process for each. A mapper connects to the server, checks in, sends one update per file, asks for the letters and the update counts, and checks out. The server (server.c) accepts connections up to a limit and gives each a `socketThread`, which loops over requests.

* State of the server: `azList` (count per letter), `updateStatus` (a row per mapper id), `currentConn` with its lock, and per thread the request, the response and loop positions. State of a client: position, mapper id, partition of files. Between them: two byte streams, a backlog, whether each end is closed.
* Interaction: messages of fixed layout (protocol.h) over TCP; threads share `azList` and `updateStatus` *without a lock*, the calls being commented out; processes share nothing after `fork`.
* Hard: unlocked loads and stores of several threads; sums and copies of cells others are changing; row `pid` against row `pid-1`; `read` and `write` whose results nobody looks at, so that a request is handled twice after its sender died; SIGPIPE; a `continue` that skips an unlock; a child whose `connect` fails and that forks the remaining mappers again.
* Correct: counts exact where no two stores cross, and never above what was sent; answers that belong to their request and include the client's own words; only explained refusals; a server that outlives its sessions; clients and masters that end.

### Project 2: `mapreduce`, processes and pipes (`P2/src`)

`mapreduce DIR N`: the master lists the files of a directory tree (phase1.c), divides them over N mappers, forks the mappers (main.c, phase2.c) with a pipe each, and enters `reduceResult` (phase3.c). That function is a *chain* of processes: each reads one pipe, adds, forks the next and waits for it; the last writes `ReducerResult.txt` and copies it to `FinalResult.txt` (phase4.c).

* State: the lists `MapperInput/Mapper_i.txt`, the pipes, each process' position and array, the results.
* Interaction: `fork` (which copies the array), pipes, `wait`.
* Hard: who holds the write end of which pipe; `wait(NULL)` reaping whichever child ends first; partial failures of `pipe`, `fork`, `fopen` and a mapper; an uninitialised `c`; the remainder of the division. `wordcount` takes the character behind a white space without looking at it, and never closes its file.
* Correct: an even partition; which files of the tree are listed and which words counted; each reducer holds the counts of the mappers before it, once each; a complete result; everything ends; the result is there when the master is done.

### Project 1: `mymake` (`P1/pa1/src/main.c`)

`mymake FILE`, `mymake FILE TARGET`, `mymake -r FILE` (print the commands) and `mymake -p FILE` (print the rules). It reads the file into `lines[]`, follows dependencies from line to line, recording line numbers in `depNo[MAX_DEP]`, and goes through the record backwards, forking a process for each command.

* State: the lines, `depNo`, the position in the commands, per process.
* Hard: chains recorded forwards and run backwards; a name found inside another; dependencies without a rule, read as `lines[-1]`; the fixed size of `depNo`; a child whose `execvp` fails and goes on as a second `mymake`; `fork`'s -1 taken for the parent's value; scans that stop at a line of another rule.
* Correct: dependencies before their dependents; the commands of the goal and all it needs, and no other; one command at a time; each command once; what `-r` prints is what is run; what `-p` reports is what the file has.

### The folder walk and the word count of projects 2 to 4

Projects 2 and 4 list the files of a directory tree (`readFiles`, `recursiveTraverseFS`) and count words by reading characters (`wordcount` in phase2.c and client.c are alike); project 3 reads lines and looks for a letter behind something else. The state is a call stack of open directories, the list of files, the position in a text and `alphaCount`. Hard: descriptors that are not closed, `lstat` of a path nobody filled, an end of file seen one character late, runs of white space, lines that `fgets` cuts. Correct: exactly the files that can be reached, each once, and of each the first letters of its words.

### The labs (`src/labs`)

Six labs are small concurrent programs: four threads add a matrix (8), producers and consumers share a buffer with a condition variable (9, `template (1).c`) or a semaphore (11, `semaphore-template.c`), philosophers take forks with `trylock` (10), a server takes a limited number of connections (12), and two programs talk by UDP (13). They share nothing with one another.

* Hard: a wakeup for a value that is gone when the sleeper is up; forks put down and taken again for ever; a `continue` that leaves a mutex locked; datagrams lost, repeated or reordered, without numbers, and an address length nobody set.
* Correct: every value taken once and after it was put, and all threads joined; all entries added; a dinner that ends or livelocks but does not deadlock; a limit that is kept, and whoever is let in gets its answer; answers to one's own last line.

The other labs are sequential exercises, or do not compile: lab 9's `template.c` uses variables it does not declare, and lab 11's `server.c` a buffer it does not declare. `src/test` is a pointer exercise. PROJECT.json lists them one by one.

## 2. The modules

| Module | Models | Kind |
|---|---|---|
| `LineTally` | what `wcs` promises of every run | abstract specification |
| `WordCountQueue` | `P3`: main, producer, consumers | detailed specification, its properties |
| `WordCountQueueProofs` | the theorems on project 3 | proofs |
| `Protocol` | `protocol.h`: commands, rows, requests, responses | constants |
| `Sockets` | the TCP connections as both programs use them | external component |
| `ReducerServer` | `server.c` | component |
| `MapperClients` | `client.c`, and the partition of phase1.c | component |
| `MapReduceService` | clients, server and connections together; the properties | composition |
| `MCMapReduceService` | constants for TLC | instance |
| `FiniteSums` | the sum of a function over a finite set, without induction | proofs |
| `MapReduceServiceProofs` | the theorems on project 4 | proofs |
| `MapReducePipeline` | `P2`: partition, mappers, reducer chain, report | detailed specification, its properties |
| `Makefile` | what `mymake` reads out of a makefile | pure operators |
| `Mymake` | `mymake`'s main, its processes and its reference | detailed specification, its properties |
| `MCMymake` | makefiles for TLC | instance |
| `MymakeProofs` | the theorems on project 1 | proofs |
| `MapReducePipelineProofs` | the theorems on project 2 | proofs |
| `FirstLetters` | `wordcount` of projects 2, 3 and 4, and the producer's `fgets` | component, its properties |
| `FolderWalk` | `readFiles` of project 2, `recursiveTraverseFS` of project 4 | component |
| `FolderCount` | walk, list and count together; the properties | composition |
| `MCFolderCount` | texts and trees for TLC | instance |
| `FolderCountProofs` | the theorems on the walk and the word count | proofs |
| `TaskPool` | what the buffers of labs 9 and 11 promise | abstract specification |
| `TaskBuffer` | labs 9 and 11 | detailed specification, its properties |
| `TaskBufferProofs` | the theorems on labs 9 and 11 | proofs |
| `Philosophers`, `MatrixSum`, `ThreadedServer`, `UdpChat` | labs 10, 8, 12, 13 | components, their properties |
| `LabPrograms` | one of the lab programs in each behaviour | composition |
| `LabProgramsProofs` | the theorems on labs 8, 12 and 13 and on the composition | proofs |

Two conventions. A variable keeps the name it has in the code where it has one; `ppc`, `cpc`, `mpc`, `tpc` are the control of producer, consumers (clients), main and threads; variables commented HISTORY record what happened and guard no action. A definition that stands just before another whose name it extends (`ToJoinAllButLast`, `ToJoin`) is a faulty variant of it, which no action uses: with the variant in place of the definition, a run finds the property it is meant for violated.

### `WordCountQueue`

A step is what a thread does between two points where another can interfere: the pthread calls and each unprotected access. The Makefile sets no optimisation, so each textual read of `end` is a load of its own: `CTestEnd` and the following action are the two of consumer.c:41. `pthread_cond_wait` is release-and-sleep, a wakeup (by signal, broadcast or, within `MaxSpurious`, by itself) and a separate re-acquisition. Node k is the k-th node allocated; `Wild` is a pointer nobody initialised and `Unset` a field nobody wrote. Counting is additive, so `alphaCount[l]` is the number of times line l was added. A file has any number of lines up to `NumLines`, none included. `finilize` copies the histogram; `FopenMayFail` lets its `fopen` fail (`FinilizeFails`, which exits) as it lets the producer's. Left out: the log, the text of a line, `node->lineNum`, which nothing reads.

`LineTally` has three actions: a line is published, the next line is tallied, the report is written. The refinement mapping takes `published` to the producer's line number, `tally` to `alphaCount`, `reported` to main's exit and `report` to the written histogram.

### `Protocol`, `Sockets`, `ReducerServer`, `MapperClients`, `MapReduceService`

`Sockets` has, per client process, the state of both ends, an inbox in each direction (a message is whole: both sides send fixed sizes on a local connection), the backlog, whether the server listens, and `lost`, the writes a peer made into a connection the other had closed. After `MaxLost` such writes the reset is known and a write raises SIGPIPE; the first write after a close succeeds, as TCP has it.

`ReducerServer` has an action for each shared access of `socketThread`: reading a request with the test of the row, `Checkin`, copying the letters one by one (`Copy`), one's own updates, summing the rows one by one, `LoadRow`/`StoreRow`, `LoadAz`/`StoreAz` for each letter, `Checkout`, the reply, the close. A crossing of loads and stores of two threads is recorded in `crossedRow` and `crossedAz`. `Admit` and `TurnAway` are the accept loop; `TurnAway` leaves `locked` true, after which main waits for its own lock. `Sigpipe` ends the whole server. The test of the row is merged with the read: no other thread writes what it reads except `Checkout` of the same row, which commutes with it.

`MapperClients` names a process by its master and the set of loop indices at which it or an ancestor was forked. So a child that falls back into the fork loop after a refused `connect`, and forks mappers of the same ids again, is a process of its own. `Garble` is the uninitialised `txtName` of client.c: the first path read may be that of no file. `Die` kills a client in its session.

### `MapReducePipeline`

One action per phase of a process: `PartitionPharse` for one turn of the partition loop, `PipeFails` for the loop of `pipe` calls where one of them fails, `ForkMapper`, `MapperPhase`, `WriteCounts`, then `ForkFirst` and `MasterWait` in the master, `ReadPipe`, `ForkNext`, `ReducerWait`, `WriteResult`, `FinalResult` in the chain. `Writer(m)` says who still holds the write end of pipe m, which decides whether a reader of an empty pipe blocks or sees the end of the stream. Faults: a list, a pipe, a fork, the uninitialised `c`, a killed mapper, an output file. As the program's README assumes, `MapperInput` does not exist before the run.

### `Makefile` and `Mymake`

A makefile is a sequence of lines of three kinds. Names are values; `Within` says which name is a part of which, since `findLine` uses `strstr`. `Chain` is the inner while loop, `DepNo` the record, `RunFirst`, `RunTarget`, `Printed` and `Description` the four ways through main. Lines count from 1, so the code's 0 is `FirstLine` and its -1 `Missing`; what the memory before `lines[]` spells is a choice made once, by the initial state (nothing, the name of no rule, or that of one). Writing past `depNo` (and reading the empty `linNo` of `-r`) ends in status "undefined". With `-p`, `StopsAt` has the index as the code has it; copying more lines than were measured, or printing more tokens than there are, may end in "undefined". `IsMakefile` and the header of `Makefile` say which files these are: the first line is a rule, names start with a letter and recipes have no colon. Rules and recipes are told apart by `strcmp` with ":" (main.c:135, 270), which would take a rule named by digits or a dot for a recipe.

`Mymake` then runs the commands. A process is the sequence of places where it and its ancestors were forked. `Exec` turns it into a program; `ExecFails` sends it back into the loop *behind* the command, where the code's `if` ends; `ExecNull` is `execvp(NULL)` for a blank line.

The reference is independent of the chains: `Refers` and `Needed` (the least set closed under references) say which rules a goal asks for; `LeadsTo` and `LedTo` which rules a name, taken as a part of names too, can reach at all.

### `FirstLetters`, `FolderWalk`, `FolderCount`

A text is a sequence of letters, `Blank`, `Newline` and `Other`; position `Len(text) + 1` reads EOF, and `feof` is true only after that was read. `ReadNext` and `ReadAfter` are the `fgetc` of the loop and the one behind a white space; `Fgets` and `Scan` are the producer's piece and the consumer's pass over it, whose first character is the `-` the producer put there. Upper and lower case are one letter. `Counted` says, without the reader's steps, which letters count: in a file the first character and whatever stands behind an *odd* run of white space, in a line whatever stands behind a character that is no letter or at the start of a piece.

A tree is a record of directories, their entries in `readdir`'s order, contents, links, dotted names and unreadable entries. `stack` is the recursion; `opened` counts descriptors. `ReadEntry` is a turn of `readFiles`, `TraverseEntry` one of `recursiveTraverseFS`, `TakenForLink` that turn when `lstat` failed on an unset path and `buf` still says "link". `FoundByMapreduce` and `FoundByClient` define by parents, not by recursion, what should be found.

`FolderCount` lets one program walk and then count what it listed; `LeavesOpen` is the file that phase2.c never closes.

### The labs

`TaskBuffer` has an action per pthread or semaphore call; `sync` says which of the two labs runs. A consumer that is signalled goes to "wake", takes the mutex again and tests `index` again. `TaskPool` has values put, taken and the total printed; the mapping takes `put` to `in`, `took` to `added` and `printed` to the last join. `Philosophers` has a step per `trylock`, `unlock` and bite. `MatrixSum` keeps a set of cells a thread still has to write, in row order. `ThreadedServer` has the accept loop with `connLocked`, which `TurnAway` leaves TRUE, and `failed`, the `pthread_create`s that failed. In `UdpChat` datagrams on their way are sets, so they arrive in any order; `Lose` and `Taken` lose and repeat them; `cliaddr` keeps its old value when `recvfrom` does not set it.

`LabPrograms` exists so that one run checks them all: `Others` keeps the programs that are not running at their initial state.

## 3. The runs

| Run | Instance | What it shows |
|---|---|---|
| `wcs_threads` | 2 consumers, 0 to 3 lines, 1 spurious wakeup, the fopens may fail; 166,238 states | exclusion (`NoDataRace`), pointer safety (`NoWildRead`), nothing skipped (`NothingLeftBehind`), complete when one consumer reached the end (`ReportComplete`), no wakeup lost for a line (`WorkHasWorker`), what a hang and an early exit cannot cost (`HangLosesNoLine`, `NoExitBeforeEOF`), the refinement (`ImplementsTally`), the producer ends, and every line in the queue is claimed unless all consumers left (`PublishedLineClaimed`) |
| `counts_each_word` | 1 consumer, 0 or 1 line | finding: the histogram can miss lines |
| `join_returns` | 1 consumer, 0 or 1 line, fair | finding: main can wait for ever |
| `service_sessions` | 1 client program, 2 mappers, 2 files, 2 letters, 1 fault of six kinds; 289,237 states | exact counts between updates, and what the thread of a dead client adds a second time (`CountsExact`), what an answer covers (`AnswersCoverOwn`), answers that match and the old ones that are logged again (`AnswersMatch`), refusals (`RefusalsExplained`), the server's life (`ServerOutlivesSessions`), sessions that end (`ServedToTheEnd`) |
| `service_crowded` | a program of two mappers and one of a single mapper, limit 1, 2 deaths or failing connects; 332,472 states | one refusal at most before the deadlock, also with a third connection (`TurnedAwayAtMostOnce`); masters that end although children fork again, unless a mapper of their own is among the clients the deadlock leaves waiting (`MastersFinish`) |
| `service_checkin`, `service_totals` | small | findings on the check-in and the totals |
| `pipeline` | 4 mappers, 6 files, 2 faults; 12,986 states | even shares (`EvenShares`), the chain's sums (`ChainAddsEveryShare`), whose share can be missing (`MissingShareOnlyOfFirst`), that all processes end and, without a fault, the exact result is there (`EverythingEnds`) |
| `pipeline_report` | the same, no fault needed | finding: the master ends before the report |
| `mymake` | makefiles of 1 to 5 rules, 6 goals, 2 failing forks or execs; 410,123 states | one command at a time (`OneAtATime`), how often each runs (`RepeatsExplained`), order (`DependenciesFirst`), completeness, and in any file no command of a rule no name leads to (`GoalMade`), what `-r` and `-p` say (`ListingsRight`), the search within `depNo` (`SearchEnds`), termination (`MymakeEnds`) |
| `folder_counts` | 1,365 texts of up to 5 characters, 32 bigger trees, 3 descriptors, 3 lines; 62,961 states | which letters a file adds (`CountExact`), which files are found and what a whole tree adds up to (`FolderCounted`) |
| `lab_programs` | 3 producers and consumers; 3 philosophers; matrices of side 1 to 4; 3 clients of a server that takes 1; 2 UDP clients; 26,981 states | all entries of an even matrix (`EvenSizesMatch`), answers to one's own line (`AnswerBelongs`), the buffers' refinement (`ImplementsPool`), no lost wakeup (`ThreadsJoin`), no deadlock at the table (`DinnerEnds`), the limit and the answers (`ServedWithinLimit`) |

The runs `wcs_threads`, `service_sessions`, `pipeline` and `mymake` also check a type invariant; those of the other modules are part of the invariants the proofs carry.

Some properties deserve a word. `CountsExact` bounds a letter in `azList` whoever dies: by the words sent and, for a client that died, once more its last request for each answer its thread could still write before SIGPIPE (`Replayed`); the equality is for undisturbed runs and letters no two threads crossed at. `AnswersMatch`, too, holds whoever dies: an answer that does not belong to the last request is an older one, logged again because `read` returned nothing, and only on a connection that was closed unserved or whose server is gone. `MastersFinish` excuses a program only if one of its own mappers is `Stranded`. `RepeatsExplained` is a conservation law: the times a command ran plus the times its own `execvp` failed are one plus the earlier failures, so that every repeated command is accounted for by exactly one failure. `MissingShareOnlyOfFirst` looks odd and is what the code does: a mapper that dies before it wrote is noticed by nobody (the waiting reducers keep its pipe open and the chain blocks), except the first, whose share is silently missing from the result. `DinnerEnds` says what `trylock` buys and what it does not: either the dinner ends, or somebody is refused the right fork again and again; there is no third case, and who is left alone at the table finishes.

## 4. Bounds, fairness, deadlock

*Bounds.* `MaxSpurious`, `MaxLost` and `MaxFaults` bound how often the environment interferes, and are guards of the environment's actions only. Two consumers are the least number with two actors on the list, and three lines let one stand two nodes behind the other; the empty file is the one whose `end` stays 0; the proofs remove both bounds. Two mapper sessions suffice for any crossing of two threads' loads and stores, two letters for a partial copy; five rows give ids 1 to 3 a row and a neighbour, and leave rows main does not initialise. The crowded run has two programs so that two processes carry the same mapper id; one of them has two mappers, so that a child whose `connect` fails has a mapper left to fork again, and three clients can connect where one is served and one turned away. Four mappers and six files give the division a remainder and leave a mapper between two others; two faults let one failure meet another. Makefiles of four rules have a chain of two, a shared dependency, a cycle, a dependency without a rule and a name within a name; `MAX_DEP` has its real value 8, and of two files with five rules one fills `depNo` to the last place and the other does not fit. Two failures let a second `mymake` fail in its turn. Texts of five characters hold runs of white space of length one to four with a letter on either side, and pieces of two (`LineSize` 3) cut a word of three letters twice; three descriptors and three list entries are reached by trees of three directories and four files. Three lab threads of a kind let a signalled consumer lose its value to a third, three philosophers are the least for which left and right neighbour differ, sides 1 to 4 are two odd and two even ones (the program's own is the even constant 5000), and of three clients one is served, one turned away and one left in the backlog. Two UDP clients with two lines each can have a datagram of each line of each client under way.

*Fairness.* Weak fairness of each thread or process: the kernel runs what can run. Nothing is assumed of locks: weak fairness of an acquisition does not promise a thread the mutex when others keep taking it, and no property needs it. Faults, spurious wakeups, deaths and refusals are never fair. In `Mymake` the fairness of the processes includes that a command's program ends, which is the README's "every dependencies will exist and work". In `LabPrograms` every thread, every philosopher and, of a connected client, writing and reading are weakly fair; connecting is a user's decision and not fair, and nothing is assumed of UDP.

*Deadlock.* Every run says `CHECK_DEADLOCK FALSE`, because every one of these programs ends or, as the findings say, hangs. What must not stop is stated as a liveness property instead.

## 5. The proofs

`WordCountQueueProofs` proves, for any number of consumers, lines and spurious wakeups, every safety property of `wcs_threads` and the refinement of `LineTally`. The only assumption is `ConstantsAssumption`, that the parameters are natural numbers. None of the properties is inductive. The invariant `IInv` adds: the mutex belongs to the thread that touches the list (`LockInv`); where the producer stands and when `end` is set (`ProducerInv`); the shape of the list, filled nodes, one fresh node, then nothing (`NodeInv`); nodes behind a consumer are consumed (`ConsumerInv`); nodes are consumed in order and each consumed line is counted or claimed (`TallyInv`); the joins (`MainInv`); who sleeps where (`SleepInv`); how far `lineNum` ran ahead (`DriftInv`). There is a lemma per action, with a step per conjunct. `WorkHasWorker`, the subtle one, needs `SleepInv`: a consumer asleep while the producer signals stands *before* the end of the list, and a consumer can only fall asleep at the end, where no line is uncounted.

`MymakeProofs` proves every safety property of `mymake` for every makefile, every goal, whatever lies before the lines, and any number of failing forks and execs. It has three parts.

* *The processes.* `Line` says that the processes form one line of descent: no two have names of equal length, and whoever has a longer name beside it waits and has its own child in the set. The step that needs it is `Wait`: a process may go on when its child is gone only because then nobody is younger. Hence `OneAtATime`. `Books` adds who owes what: a process in the loop owes the commands from its place on, one that waits those behind it, one just born the one it was born for. For each place, runs plus own failures plus debts are one plus earlier failures (`Account`); a step moves a unit from one side to another. It needs `Descent` (a process was forked at the place where its parent waits) and `Fresh` (no process has the name of one that failed). In the end nobody owes anything, which is `RepeatsExplained`. While nothing fails, `InTurn` says more: only the first `mymake` is in the loop, at the command behind the last that ran, so that commands run in the order of the plan.
* *The plan.* The search and the listings are recursive functions. Each is proved once to be what its defining equation says, by the least place at which it would not be; what would be an induction afterwards is a least counterexample too. `FlattenPlaces` says where a part of a joined sequence stands and what stands before it. With it: a chain is `Linked` (behind a rule stands the one it refers to), the chains of the first target one behind the other are `Ordered` (somewhere behind), read backwards the commands are `InOrder`, and the rules on it are those of `Needed`, the least set closed under references. `DependenciesFirst` and `GoalMade` combine this with `InTurn` and `Books`. The second half of `GoalMade` needs no makefile without mistakes: every line recorded is in `LedTo`, or is -1.
* *What is printed, and the search.* `ListingsRight` compares what the three loops of main collect, line by line. `SearchEnds` is a pigeonhole: while each dependency has a rule and none needs itself, a chain has no rule twice.

`Decided` carries what main worked out through the run. The proofs corrected the model and the properties. `ListingsRight` was false for a file with one rule and a recipe behind a blank line, which `-r` prints and `mymake` does not run; the bound of `SearchEnds` was too small for a first target without dependencies; `OneReference` has to say that no rule refers to the first target, whose turn would otherwise come twice; and the word before `lines[]` that is read for a missing dependency may be a rule's name (`StrayNamesNone`; a stray of that kind is now among the instances).

`FolderCountProofs` proves `CountExact` and `FolderCounted`, for every tree, any texts, any limit of descriptors and of lines, and every buffer size above one. It has three parts.

* *The reader.* `ReaderInv` says what the reader knows where it stands: in a file, at "loop" the white space just behind is even in number and at "after" it is odd (so whether a letter counts is the parity of its gap); in a line, pieces start at multiples of `LineSize - 1` from the line's start. The tally part says that `alphaCount` is `before` plus the counted letters at the positions passed (`Done`); a step adds at most one position to that set, which is all of cardinality the proof needs.
* *The walk.* The programs recurse, and the model has their stack of calls. `StackOk` says that each call works in the directory the one below it has just passed, and that the directories from the root to it are exactly those of the calls below. An entry is `Pending` when it, or a directory above it, comes at or behind the next entry of some call. `WalkOk` then says: what is listed was wanted, is there once and is not pending; whatever is wanted is listed or pending. Entering a directory makes pending what lies below it, leaving it changes nothing, and when the stack is empty nothing is pending: that is what the walk should find. `PathTo` is a recursive function; that it is what its equation says, and what holds of every entry (`FromTheRoot`), follows from a least counterexample by depth instead of an induction over trees. mapreduce's descriptors are one for `main` and one for each call (`op = 1 + Len(s)`), so a directory that cannot be opened for want of one is too deep for `FoundByMapreduce`. The client's descriptors are never closed, and its walk ends when they run out, so the theorem needs no bound there.
* *The sum.* Between files `alphaCount` is the sum of `WordsCounted` over the counted files among those passed (`Tally`), and one more file adds one summand (`FiniteSums`). `OpenedOk` says how many descriptors mapreduce's mapper has left, which decides whether the next file is one of `CountedFiles`.

`MapReducePipelineProofs` proves `TypeOK`, `ChainAddsEveryShare` and `MissingShareOnlyOfFirst` for any number of mappers, files and faults. The invariant has the master's position (`MasterInv`), what each mapper wrote into its pipe (`MapperInv`), the chain (`ChainInv`: the reducers that exist are the first ones, all but the last of them wait, and each array has the counts of the pipes read so far) and the result (`StoreInv`). The step that needs it is the read of an empty pipe: a later reducer runs only while an earlier process still holds the write end, so it blocks and no share but the first can be missed. `EvenShares` has an invariant of its own (`SharesInv`): once mapper m's list is made it has the files from `Start(m)` to `Start(m + 1) - 1`, and what is left of the remainder follows from how many lists there are, unless a list was not made that was to get one file more. Division enters by the quotient's definition.

`TaskBufferProofs` proves that labs 9 and 11 implement `TaskPool` for any number of threads and spurious wakeups. The invariant: who holds the mutex; `index` is the number of values inserted minus those taken, counted over the threads' positions; `sem` plus the consumers past `sem_wait` equals the producers past `sem_post`, so no consumer of lab 11 finds the buffer empty; each value between 1 and `in` either lies in exactly one place below `index` or was taken once.

`LabProgramsProofs` proves what the run says of labs 8, 12 and 13 for every size, limit and number of clients. Lab 8 (`MatrixInv`): each adder has its own quarter, what is left to write and what is written make up that quarter, and the four quarters of half the side, rounded down, make up the square `Compare` counts. Lab 12 (`ServerInv`): the lock has one holder; `currentConn` is the number of sessions under way plus the threads that could not be made; main holds the lock for good if and only if it turned a client away. Lab 13 (`ChatInv`): unless a datagram was repeated or an address left unset, there is at most one datagram of a client in all four places (to the server, in the server, to the client, read), and it is that of its last line. `EachProgram` carries all this, and the refinement of `TaskPool`, over to the composition: a program that is not running stutters.

`MapReduceServiceProofs` proves every safety property of the two service runs, for any number of programs, mappers, files, letters, rows, connections and faults. Each theorem adds a layer to the invariant of the one before:

* `ForkInv` and `CommandInv`: which processes a fork loop can have made, and what a client is about to send where it stands.
* `ConnInv` and `TurnInv`: the two ends of a connection, its inboxes and the thread belong together. While a client waits there is its request under way, or the thread that handles it, or one answer to it, and never two of these; neither program checks it. `TurnedAwayAtMostOnce` and `ServerOutlivesSessions` come from the same layer: main holds the lock for good if and only if it turned a client away, and SIGPIPE needs a peer that closed early, which only a death is.
* `ThreadOk` and `SessionInv`: what each thread has in hand and how far its client's session is; which sessions have marked a row gives `RefusalsExplained`. `PastInv`: nothing under way, in hand or answered on a connection is ahead of the request its client sent last; with the alternation this is `AnswersMatch`.
* `RowInv` and `RowCountInv`: a row is the number of updates its sessions have stored. `AzCountInv`: a letter in `azList` is the number of words sent and stored, and what a thread has loaded is what the cell still has, unless a crossing was recorded; that is the equality in `CountsExact`. `CoverInv`: a copy or a sum under way is never below what the same client stored before it, nor above what was sent; hence `AnswersCoverOwn`. These three speak of runs in which no client died in its session.
* `DeadInv` and `BoundInv`, which hold whoever dies: the thread of a client that died has at most one message left to find, then reads its last request again, each time for an answer that goes into a closed connection; a letter holds at most what `Held` counts of this. It is the bound in `CountsExact`.

The sums are `FoldFunctionOnSet`s of the library, about which nothing can be proved by induction here. `FiniteSums` proves instead that such a sum is the cardinality of a set of pairs, by the least counterexample among the sizes of subsets; after that adding to one summand is adding elements to a finite set.

What the proofs assume is in the modules' `ASSUME`s: sizes and bounds are natural numbers, `NumTasks` and `LineSize` not too small, classes of characters disjoint; the masters' programs a finite set, `MaxDep` and `MaxFaults` natural numbers, `NULL` no target; every file of `Files` is a makefile (`IsMakefile`: it starts with a rule, its recipes have a command, a rule names something that is there), and what lies before the lines is a sequence of words; every tree of `Trees` is one (`IsTree`: an entry has one name in one directory, and each directory lies some steps below the root), and its files have texts of `Texts`. TLC evaluates each of them in a run. No theorem assumes fairness.

Every safety invariant and action property that a passing run checks has a theorem. Only model-checked:

* Everything that must eventually happen, which is beyond this prover: `PublishedLineClaimed`, `ServedToTheEnd`, `MastersFinish`, `EverythingEnds`, `MymakeEnds`, `ThreadsJoin`, `DinnerEnds`, and the answers in `ServedWithinLimit` (its limit is proved: `LimitIsKept`).
* The five findings, which are runs that end in a counterexample.

## 6. Findings

Five disagreements of code and documentation are shown by runs; PROJECT.json has each with the line it quotes.

1. consumer.c:41 loads `end` twice; a store in between lets a consumer leave with lines uncounted (`counts_each_word`).
2. consumer.c:41-45 tests `end` before the lock; the final broadcast can be missed, and `main` never returns (`join_returns`).
3. server.c:105 checks in row `pid-1` and out row `pid` (`service_checkin`).
4. server.c:92 adds without a lock (`service_totals`).
5. phase3.c:35 waits for any one child, and the master never reports (`pipeline_report`).

Other things that the models contain and the properties say as the code has them:

* server.c:70 answers GET_MAPPER_UPDATES with row `buffer[0]`, the command, instead of the mapper's own row (`OwnRow` in `ReducerServer`; no property speaks of the number in that answer).
* The second connection over the limit waits for ever (`TurnedAwayAtMostOnce`; the same mistake in lab 12, `ServedWithinLimit`).
* A word behind an even run of white space, as behind an empty line, is not counted in projects 2 and 4 (phase2.c:26-28, `CountExact`), and a word that `fgets` cuts counts twice in project 3.
* mapreduce's mappers leave each file open (phase2.c:15) and the client each directory (phase1.c:5), so that big trees run out of descriptors; and the client may skip entries for an unset path (phase1.c:19). `FolderCounted` says what is then found.
* In `mymake`, recipeCount (main.c:125) does not find the end of the recipes of a lone target; of several dependencies the last is followed even if it has no rule (`OneReference`), and recipes of the first target are not split at commas when it is asked for by name (all excluded by `Handled`); `findLine` takes a part of a name for the name (`Distinct`).
* `mymake -p` ends a target's recipes at a blank line of the file's head (main.c:602 tests `lines[i]`, not `lines[linRecord+i]`), so that it reports blank lines and the next target's line as recipes, or too few (`ListingsRight`).
* The quarters of lab 8 make up the matrix because `MATSIZE` is even (`EvenSizesMatch`); nothing checks that it is.

## 7. What is not modelled

* Text: tokenizing the lines of a makefile, log formats, file names (a name is dotted or has "txt" in it, or not) and the fixed sizes of path buffers.
* In the folder walks: links that lead to directories. `readFiles` takes a link named like a text for one, and `wordcount` on a directory never sees EOF.
* TCP below whole messages: the programs exchange a few hundred bytes at a time on one host.
* `pthread_create` in `wcs` (main.c:53, 56) is taken to succeed. The code does not look at what it returns; `pthread_join` of a thread that was not made is undefined.
* In `mymake`, what a read behind the tokens of an empty `lines[-1]` gives (main.c:263) beyond NULL, the name of no rule and that of one: a word that is no address, where the program crashes. Rules named by digits or a dot, and recipes with a colon are not among the makefiles (`IsMakefile`).
* `US_MAPPER_PID`, which nothing reads; `mapreduce DIR 0`, which divides by zero at once.
* In lab 12, clients that die in their session; in lab 8, timing.
* Labs 1 to 7 and `src/test`: sequential, or at most a parent that waits for its child, with no state that outlives a call. Labs 6 and 7 are wrong on purpose, for a debugger. The walk of lab 5 calls itself on "." and does not end but by its path buffer.
* `template.c` of lab 9 and `server.c` of lab 11 do not compile.
* The test inputs and expected results, which are data.

## 8. The plan

Done, in this order: `LineTally` and `WordCountQueue` with their proofs; `Sockets`, `ReducerServer`, `MapperClients` and their composition; `MapReducePipeline`; `Makefile`, `Mymake` and a first proof; `FirstLetters`, `FolderWalk` and `FolderCount`; the labs' modules; the proofs on the word count, the pipeline, the buffers and UDP; the proofs on the service, layer by layer; those on labs 8 and 12 and on the composition; `EvenShares`; the books of `mymake`, its listings and its search, then order and completeness; the folder, from the tree to the counts.

Left: an abstract specification of the service (`TallyService`: registered mappers, a total per letter, totals that never go down and never exceed what was sent) and the refinement by `MapReduceService` when updates do not cross.
