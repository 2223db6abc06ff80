-------------------------- MODULE MapReducePipeline --------------------------
(***************************************************************************)
(* The processes of mapreduce (src/project/project2): the master divides   *)
(* the files over the mappers, opens a pipe per mapper and forks them;     *)
(* reduceResult then runs as a chain of processes, in which each reads one *)
(* pipe, adds what it read and forks the next; the last one writes         *)
(* ReducerResult.txt and copies it to FinalResult.txt.                     *)
(*                                                                         *)
(* Counting is additive, so a count of words is kept as the number of      *)
(* times each file was counted.  A file is its index in lines[]; which     *)
(* files readFiles finds is not modelled.  The MapperInput directory does  *)
(* not exist before the run (assumption 4 of the program's README).        *)
(***************************************************************************)
EXTENDS Integers, FiniteSets

CONSTANTS
  NumMappers,   \* argv[2]
  NumFiles,     \* count, after readFiles
  Faults,       \* the kinds of fault that may happen, see FaultKind
  MaxFaults     \* BOUND: faults in a run

(***************************************************************************)
(* "list": fopen of Mapper_i.txt fails; "pipe", "mapFork", "reduceFork":   *)
(* pipe or fork fails; "skip": the uninitialised c of mapperPhase happens to be EOF;    *)
(* "die": a mapper is killed; "output": a result file cannot be opened.    *)
(***************************************************************************)
FaultKind == {"list", "pipe", "mapFork", "reduceFork", "skip", "die", "output"}

ASSUME PipelineAssumption ==
  /\ NumMappers \in Nat \ {0} /\ NumFiles \in Nat \ {0}
  /\ Faults \subseteq FaultKind /\ MaxFaults \in Nat

Mapper == 0 .. NumMappers - 1
File == 0 .. NumFiles - 1
Counts == [File -> Nat]
None == [f \in File |-> 0]
Absent == {}   \* a message, or a result, is {} or the singleton of its counts

VARIABLES
  mpc, i,               \* master: control, its loops' i
  made, list,           \* the lists that exist; list[m]: Mapper_m.txt
  countRemainder,
  map,                  \* map[m]: control of mapper m
  pipe,                 \* pipe[m]: what was written to fd[m] and not read
  red,                  \* red[m]: control of the reducer that reads fd[m]
  store,                \* store[m]: its array
  reducerResult, finalResult,
  faults                \* HISTORY: the faults that happened, <<kind, m>>

partition == <<made, list, countRemainder>>
master == <<mpc, i>>
results == <<reducerResult, finalResult>>
vars == <<partition, master, map, pipe, red, store, results, faults>>

Init ==
  /\ mpc = "partition" /\ i = 0
  /\ made = {} /\ list = [m \in Mapper |-> {}]
  /\ countRemainder = NumFiles % NumMappers
  /\ map = [m \in Mapper |-> "unborn"]
  /\ pipe = [m \in Mapper |-> Absent]
  /\ red = [m \in Mapper |-> "unborn"]
  /\ store = [m \in Mapper |-> None]
  /\ reducerResult = Absent /\ finalResult = Absent
  /\ faults = {}

TypeOK ==
  /\ mpc \in {"partition", "fork", "reduce", "wait", "exited"}
  /\ i \in Mapper
  /\ made \subseteq Mapper /\ list \in [Mapper -> SUBSET File]
  /\ countRemainder \in 0 .. NumMappers - 1
  /\ map \in [Mapper -> {"unborn", "count", "write", "exited"}]
  /\ pipe \in [Mapper -> SUBSET Counts]
  /\ red \in [Mapper -> {"unborn", "read", "fork", "wait", "write", "report", "exited"}]
  /\ store \in [Mapper -> Counts]
  /\ reducerResult \subseteq Counts /\ finalResult \subseteq Counts
  /\ faults \subseteq Faults \X Mapper

Fault(kind, m) ==
  /\ kind \in Faults /\ Cardinality(faults) < MaxFaults
  /\ faults' = faults \cup {<<kind, m>>}
-----------------------------------------------------------------------------
(***************************************************************************)
(* A definition just before another whose name it extends is a faulty      *)
(* variant of it, used by no action.                                       *)
(***************************************************************************)

(***************************************************************************)
(* phase1: the first count % numMapper mappers get a file more.  The       *)
(* number of these still to come goes down only when a list could be       *)
(* opened, so a failure shifts the larger share to a later mapper.         *)
(***************************************************************************)
numFileInM == NumFiles \div NumMappers
remainderFile == NumFiles % NumMappers

ShareUnshifted(m) ==
  IF countRemainder # 0 THEN (numFileInM + 1) * m .. (numFileInM + 1) * (m + 1) - 1
  ELSE numFileInM * m .. numFileInM * (m + 1) - 1
Share(m) ==
  IF countRemainder # 0 THEN (numFileInM + 1) * m .. (numFileInM + 1) * (m + 1) - 1
  ELSE remainderFile + numFileInM * m .. remainderFile + numFileInM * (m + 1) - 1

RemainingUnguarded == countRemainder - 1
Remaining == IF countRemainder # 0 THEN countRemainder - 1 ELSE 0

LastMapperMissed == i = NumMappers - 2
LastMapper == i = NumMappers - 1
Step(phase, next) ==
  /\ mpc = phase
  /\ mpc' = IF LastMapper THEN next ELSE phase
  /\ i' = IF LastMapper THEN 0 ELSE i + 1

PartitionPharse ==
  /\ Step("partition", "fork")
  /\ \/ /\ made' = made \cup {i} /\ list' = [list EXCEPT ![i] = Share(i) \cap File]
        /\ countRemainder' = Remaining
        /\ UNCHANGED faults
     \/ Fault("list", i) /\ UNCHANGED partition
  /\ UNCHANGED <<map, pipe, red, store, results>>

\* The pipes are made before the first fork; return 4.
PipeFails(m) ==
  /\ mpc = "fork" /\ i = 0 /\ Fault("pipe", m) /\ mpc' = "exited"
  /\ UNCHANGED <<i, partition, map, pipe, red, store, results>>

ForkMapper ==
  /\ Step("fork", "reduce")
  /\ map' = [map EXCEPT ![i] = "count"]
  /\ UNCHANGED <<partition, pipe, red, store, results, faults>>

\* return 4: the mappers there are go on, nobody reads their pipes.
ForkMapperFails ==
  /\ mpc = "fork" /\ Fault("mapFork", i) /\ mpc' = "exited"
  /\ UNCHANGED <<i, partition, map, pipe, red, store, results>>
-----------------------------------------------------------------------------
(***************************************************************************)
(* phase2.  A mapper without a list passes NULL to fclose and crashes.     *)
(***************************************************************************)
MGoto(m, s) == map' = [map EXCEPT ![m] = s]

Counted(m) ==
  [f \in File |->
    IF f \in list[m] /\ <<"skip", m>> \notin faults THEN 1 ELSE 0]

MapperPhase(m) ==
  /\ map[m] = "count"
  /\ MGoto(m, IF m \notin made THEN "exited" ELSE "write")
  /\ UNCHANGED faults \/ Fault("skip", m)
  /\ UNCHANGED <<master, partition, pipe, red, store, results>>

WriteCounts(m) ==
  /\ map[m] = "write" /\ MGoto(m, "exited")
  /\ pipe' = [pipe EXCEPT ![m] = {Counted(m)}]
  /\ UNCHANGED <<master, partition, red, store, results, faults>>

Die(m) ==
  /\ map[m] \in {"count", "write"} /\ Fault("die", m) /\ MGoto(m, "exited")
  /\ UNCHANGED <<master, partition, pipe, red, store, results>>
-----------------------------------------------------------------------------
(***************************************************************************)
(* phase3.                                                                 *)
(***************************************************************************)
RGoto(m, s) == red' = [red EXCEPT ![m] = s]
Alive(state) == state \notin {"unborn", "exited"}

\* reduceResult's loop in the master, whose array is still zero.
ForkFirst ==
  /\ mpc = "reduce" /\ mpc' = "wait" /\ RGoto(0, "read")
  /\ UNCHANGED <<i, partition, map, pipe, store, results, faults>>

ForkFirstFails ==
  /\ mpc = "reduce" /\ Fault("reduceFork", 0) /\ mpc' = "exited"
  /\ UNCHANGED <<i, partition, map, pipe, red, store, results>>

\* wait(NULL) in the master returns when any child has ended, the first reducer
\* or a mapper.
ChildEnded == red[0] = "exited" \/ \E m \in Mapper : map[m] = "exited"

MasterWait ==
  /\ mpc = "wait" /\ ChildEnded /\ mpc' = "exited"
  /\ UNCHANGED <<i, partition, map, pipe, red, store, results, faults>>

\* Who still holds the write end of pipe m: reducer m has closed it, the reducers
\* before it, waiting for it, have not.
WriterClosed(m) == Alive(map[m])
WriterAndReader(m) ==
  mpc # "exited" \/ (\E n \in Mapper : Alive(map[n])) \/ \E n \in 0 .. m : Alive(red[n])
Writer(m) ==
  \/ mpc # "exited"
  \/ \E n \in Mapper : Alive(map[n])
  \/ \E n \in 0 .. m - 1 : Alive(red[n])

AfterRead(m) == IF m < NumMappers - 1 THEN "fork" ELSE "write"

\* At the end of the stream buff is what it was: zero, for the reducer of pipe 0.
AddLast(m, counts) == counts
Add(m, counts) == [f \in File |-> store[m][f] + counts[f]]

ReadPipe(m) ==
  /\ red[m] = "read" /\ RGoto(m, AfterRead(m))
  /\ \/ /\ \E counts \in pipe[m] : store' = [store EXCEPT ![m] = Add(m, counts)]
        /\ pipe' = [pipe EXCEPT ![m] = Absent]
     \/ pipe[m] = Absent /\ ~Writer(m) /\ UNCHANGED <<store, pipe>>
  /\ UNCHANGED <<master, partition, map, results, faults>>

InheritedNone(m) == None
Inherited(m) == store[m]

ForkNext(m) ==
  /\ red[m] = "fork"
  /\ red' = [red EXCEPT ![m] = "wait", ![m + 1] = "read"]
  /\ store' = [store EXCEPT ![m + 1] = Inherited(m)]
  /\ UNCHANGED <<master, partition, map, pipe, results, faults>>

ForkNextFails(m) ==
  /\ red[m] = "fork" /\ Fault("reduceFork", m + 1) /\ RGoto(m, "exited")
  /\ UNCHANGED <<master, partition, map, pipe, store, results>>

ReducerWait(m) ==
  /\ red[m] = "wait" /\ red[m + 1] = "exited" /\ RGoto(m, "exited")
  /\ UNCHANGED <<master, partition, map, pipe, store, results, faults>>

WriteResult(m) ==
  /\ red[m] = "write"
  /\ \/ RGoto(m, "report") /\ reducerResult' = {store[m]} /\ UNCHANGED faults
     \/ RGoto(m, "exited") /\ Fault("output", m) /\ UNCHANGED reducerResult
  /\ UNCHANGED <<master, partition, map, pipe, store, finalResult>>

\* phase4, in the last reducer: cat ReducerResult.txt > FinalResult.txt.
FinalResult(m) ==
  /\ red[m] = "report" /\ RGoto(m, "exited")
  /\ \/ finalResult' = reducerResult /\ UNCHANGED faults
     \/ Fault("output", m) /\ UNCHANGED finalResult
  /\ UNCHANGED <<master, partition, map, pipe, store, reducerResult>>

Next ==
  \/ PartitionPharse \/ ForkMapper \/ ForkMapperFails
  \/ ForkFirst \/ ForkFirstFails \/ MasterWait
  \/ \E m \in Mapper :
       \/ PipeFails(m) \/ MapperPhase(m) \/ WriteCounts(m) \/ Die(m)
       \/ ReadPipe(m) \/ ForkNext(m) \/ ForkNextFails(m) \/ ReducerWait(m)
       \/ WriteResult(m) \/ FinalResult(m)

Spec == Init /\ [][Next]_vars

\* The kernel runs every process that can go on.
FairSpec ==
  /\ Spec
  /\ WF_vars(PartitionPharse \/ ForkMapper \/ ForkFirst \/ MasterWait)
  /\ \A m \in Mapper :
       /\ WF_vars(MapperPhase(m) \/ WriteCounts(m))
       /\ WF_vars(ReadPipe(m) \/ ForkNext(m) \/ ReducerWait(m)
                    \/ WriteResult(m) \/ FinalResult(m))
-----------------------------------------------------------------------------
Failed(kind, m) == <<kind, m>> \in faults

\* Mapper m ends without writing to its pipe.
NoCounts(m) == Failed("die", m) \/ Failed("list", m)

Copies(f) == {m \in Mapper : f \in list[m]}

\* Every file is given to one mapper and the shares differ by one at most
\* (phase1.c:63-75); only a list that cannot be opened, of a mapper that was to
\* get a file more, lets two mappers have the same file.
EvenShares ==
  mpc # "partition" =>
    /\ \A f \in File :
         Cardinality(Copies(f)) > 1 =>
           \E m \in Mapper : m < remainderFile /\ Failed("list", m)
    /\ (\A m \in Mapper : ~Failed("list", m)) =>
         /\ \A f \in File : Copies(f) # {}
         /\ \A m \in Mapper : Cardinality(list[m]) \in {numFileInM, numFileInM + 1}

\* A reducer that has read its pipe holds the counts of its mapper and of every
\* mapper before it, once each, whichever way the processes interleave
\* (phase3.c:29-32); a mapper that wrote nothing counts for nothing.
ChainAddsEveryShare ==
  \A m \in Mapper : red[m] \in {"fork", "wait", "write", "report"} =>
    \A f \in File :
      store[m][f] =
        Cardinality({n \in Copies(f) : n <= m /\ ~NoCounts(n) /\ ~Failed("skip", n)})

\* A result that lacks a mapper's share is written only if that is mapper 0: for
\* every other pipe the waiting reducers keep a write end open (phase3.c:28), so
\* that its reader blocks instead of reading end-of-file.
MissingShareOnlyOfFirst ==
  reducerResult # Absent => \A m \in Mapper \ {0} : ~NoCounts(m)

\* All processes end, whatever fails, unless a mapper other than mapper 0 wrote
\* nothing.  Without a fault the final result is then written and
\* counts every file once, though the master is gone long before.
EverythingEnds ==
  <>(\/ /\ mpc = "exited"
        /\ \A m \in Mapper : ~Alive(map[m]) /\ ~Alive(red[m])
        /\ faults = {} =>
             \E counts \in finalResult : \A f \in File : counts[f] = 1
     \/ \E m \in Mapper \ {0} : NoCounts(m))
-----------------------------------------------------------------------------
\* "wait for all processes to reach this point" ... "master process reports the
\* final output" (main.c:72-74): when the master is gone the result is there.
MasterReports == mpc = "exited" /\ faults = {} => finalResult # Absent
=============================================================================
