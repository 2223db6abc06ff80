------------------------ MODULE MapReducePipelineProofs ------------------------
(***************************************************************************)
(* The chain of reducers adds every mapper's share once, for any number of *)
(* mappers, files and faults: ChainAddsEveryShare, and from the same       *)
(* invariant MissingShareOnlyOfFirst.  A reducer that is running has every *)
(* one before it waiting, so that its pipe has a writer; and what it       *)
(* inherits can no longer change, as the mappers before it have ended.     *)
(* And of the folder's files no mapper gets two more than another          *)
(* (EvenShares).                                                           *)
(***************************************************************************)
EXTENDS MapReducePipeline, FiniteSetTheorems, TLAPS

\* How many mappers up to m have counted file f and written it to their pipes.
Contributes(n, f) == f \in list[n] /\ ~NoCounts(n) /\ ~Failed("skip", n)
Upto(m, f) == Cardinality({n \in Mapper : n <= m /\ Contributes(n, f)})

HasRead == {"fork", "wait", "write", "report"}
NotYet == {"unborn", "read"}

MasterInv ==
  /\ mpc = "partition" => \A m \in Mapper : map[m] = "unborn"
  /\ mpc = "partition" => \A m \in Mapper : m >= i => m \notin made /\ ~Failed("list", m)
  /\ \A m \in Mapper : mpc # "partition" \/ m < i => (m \in made <=> ~Failed("list", m))
  /\ mpc = "fork" => \A m \in Mapper : map[m] = "unborn" <=> m >= i
  /\ mpc \in {"reduce", "wait"} => \A m \in Mapper : map[m] # "unborn"
  /\ (\E m \in Mapper : red[m] # "unborn") =>
       mpc \in {"wait", "exited"} /\ \A m \in Mapper : map[m] # "unborn"

MapperInv ==
  \A m \in Mapper :
    /\ map[m] \in {"unborn", "count"} => ~Failed("skip", m)
    /\ map[m] = "write" => m \in made
    /\ map[m] # "exited" => ~Failed("die", m) /\ pipe[m] = Absent /\ red[m] \in NotYet
    /\ pipe[m] # Absent => pipe[m] = {Counted(m)} /\ ~NoCounts(m)
    /\ map[m] = "exited" /\ pipe[m] = Absent /\ red[m] \in NotYet => NoCounts(m)
    /\ red[m] \notin NotYet /\ m > 0 => ~NoCounts(m)

ChainInv ==
  /\ \A m, n \in Mapper : n < m /\ red[m] # "unborn" =>
       red[n] \in IF Alive(red[m]) THEN {"wait"} ELSE {"wait", "exited"}
  /\ \A m \in Mapper :
       /\ red[m] \in {"fork", "wait"} => m + 1 \in Mapper
       /\ red[m] = "wait" => red[m + 1] # "unborn"
       /\ red[m] \in {"write", "report"} => m = NumMappers - 1
  /\ reducerResult # Absent => \A m \in Mapper : red[m] \notin NotYet

StoreInv ==
  /\ red[0] = "unborn" => store[0] = None
  /\ \A m \in Mapper, f \in File :
       /\ red[m] = "read" => store[m][f] = Upto(m - 1, f)
       /\ red[m] \in HasRead => store[m][f] = Upto(m, f)

PInv == TypeOK /\ MasterInv /\ MapperInv /\ ChainInv /\ StoreInv
-----------------------------------------------------------------------------
LEMMA PipelineInit == Init => PInv
<1> SUFFICES ASSUME Init PROVE PInv  OBVIOUS
<1> USE PipelineAssumption DEF Init
<1>1. TypeOK
  <2>1. 0 \in Mapper /\ NumFiles % NumMappers \in 0 .. NumMappers - 1  BY DEF Mapper
  <2>2. None \in Counts  BY DEF None, Counts
  <2> QED  BY <2>1, <2>2 DEF TypeOK, Absent
<1>2. MasterInv
  <2>1. \A m \in Mapper : ~(m < 0)  BY DEF Mapper
  <2> QED  BY <2>1 DEF MasterInv, Failed
<1>3. MapperInv  BY DEF MapperInv, Failed, NotYet
<1>4. ChainInv  BY DEF ChainInv
<1>5. StoreInv
  <2>1. 0 \in Mapper  BY DEF Mapper
  <2> QED  BY <2>1 DEF StoreInv, HasRead
<1> QED  BY <1>1, <1>2, <1>3, <1>4, <1>5 DEF PInv

\* The master's loop index runs over the mappers.
LEMMA StepType ==
  ASSUME TypeOK, NEW phase, NEW next, Step(phase, next)
  PROVE  /\ i' \in Mapper /\ mpc = phase
         /\ i # NumMappers - 1 => i' = i + 1 /\ mpc' = phase
         /\ i = NumMappers - 1 => i' = 0 /\ mpc' = next
BY PipelineAssumption DEF TypeOK, Step, LastMapper, Mapper

LEMMA CountedType == ASSUME NEW m  PROVE Counted(m) \in Counts
BY DEF Counted, Counts

LEMMA FaultType ==
  ASSUME TypeOK, NEW kind, NEW m \in Mapper, Fault(kind, m)
  PROVE  faults' \subseteq Faults \X Mapper /\ faults' = faults \cup {<<kind, m>>}
BY DEF TypeOK, Fault

LEMMA PipelineType == PInv /\ [Next]_vars => TypeOK'
<1> SUFFICES ASSUME TypeOK, ChainInv, [Next]_vars PROVE TypeOK'  BY DEF PInv
<1>0. 0 \in Mapper  BY PipelineAssumption DEF Mapper
<1> USE PipelineAssumption DEF TypeOK, partition, master, results, MGoto, RGoto, Absent
<1>1. CASE PartitionPharse
  <2>1. i' \in Mapper /\ mpc' \in {"partition", "fork"}
    BY <1>1, StepType DEF PartitionPharse
  <2>2. made' \subseteq Mapper /\ list' \in [Mapper -> SUBSET File]
    BY <1>1 DEF PartitionPharse
  <2>3. countRemainder' \in 0 .. NumMappers - 1
    BY <1>1 DEF PartitionPharse, Remaining
  <2>4. faults' \subseteq Faults \X Mapper  BY <1>1, FaultType DEF PartitionPharse
  <2> QED  BY <1>1, <2>1, <2>2, <2>3, <2>4 DEF PartitionPharse
<1>2. CASE ForkMapper
  <2>1. i' \in Mapper /\ mpc' \in {"fork", "reduce"}  BY <1>2, StepType DEF ForkMapper
  <2> QED  BY <1>2, <2>1 DEF ForkMapper
<1>3. CASE ForkMapperFails \/ ForkFirst \/ ForkFirstFails \/ MasterWait
  BY <1>0, <1>3, FaultType DEF ForkMapperFails, ForkFirst, ForkFirstFails, MasterWait
<1>4. ASSUME NEW m \in Mapper, MapperPhase(m) \/ WriteCounts(m) \/ Die(m)
      PROVE  TypeOK'
  <2>1. CASE MapperPhase(m)  BY <2>1, FaultType DEF MapperPhase
  <2>2. CASE WriteCounts(m)
    <3>1. pipe' \in [Mapper -> SUBSET Counts]  BY <2>2, CountedType DEF WriteCounts
    <3> QED  BY <2>2, <3>1 DEF WriteCounts
  <2>3. CASE Die(m)  BY <2>3, FaultType DEF Die
  <2> QED  BY <1>4, <2>1, <2>2, <2>3
<1>5. ASSUME NEW m \in Mapper, ReadPipe(m) PROVE TypeOK'
  <2>1. \A counts \in Counts : Add(m, counts) \in Counts  BY DEF Add, Counts
  <2>2. store' \in [Mapper -> Counts]  BY <1>5, <2>1 DEF ReadPipe
  <2>3. pipe' \in [Mapper -> SUBSET Counts]  BY <1>5 DEF ReadPipe
  <2>4. red' = [red EXCEPT ![m] = AfterRead(m)] /\ AfterRead(m) \in {"fork", "write"}
    BY <1>5 DEF ReadPipe, AfterRead
  <2> QED  BY <1>5, <2>2, <2>3, <2>4 DEF ReadPipe
<1>6. ASSUME NEW m \in Mapper, ForkNext(m) \/ ForkNextFails(m) PROVE TypeOK'
  <2>1. m + 1 \in Mapper  BY <1>6 DEF ForkNext, ForkNextFails, ChainInv
  <2> QED  BY <1>6, <2>1, FaultType DEF ForkNext, ForkNextFails, Inherited
<1>7. ASSUME NEW m \in Mapper, ReducerWait(m) \/ WriteResult(m) \/ FinalResult(m)
      PROVE  TypeOK'
  BY <1>7, FaultType DEF ReducerWait, WriteResult, FinalResult
<1>8. CASE UNCHANGED vars  BY <1>8 DEF vars
<1>9. ASSUME NEW m \in Mapper, PipeFails(m) PROVE TypeOK'  BY <1>9, FaultType DEF PipeFails
<1> QED  BY <1>1, <1>2, <1>3, <1>4, <1>5, <1>6, <1>7, <1>8, <1>9 DEF Next
-----------------------------------------------------------------------------
\* Who runs in which phase: a list can fail while the lists are written, a mapper
\* only afterwards, and a reducer after all mappers were forked.
LEMMA MasterStep == PInv /\ [Next]_vars => MasterInv'
<1> SUFFICES ASSUME TypeOK, MasterInv, PInv, [Next]_vars PROVE MasterInv'  BY DEF PInv
<1>0. /\ \A m \in Mapper : m \in Nat /\ m <= NumMappers - 1
      /\ i \in Mapper /\ 0 \in Mapper /\ NumMappers \in Nat
      /\ map \in [Mapper -> {"unborn", "count", "write", "exited"}]
      /\ red \in [Mapper -> {"unborn", "read", "fork", "wait", "write", "report", "exited"}]
  BY PipelineAssumption DEF TypeOK, Mapper
<1> USE DEF MasterInv, Failed, partition, master, results, MGoto, RGoto
<1>1. CASE PartitionPharse
  <2>1. /\ mpc = "partition" /\ i' \in Mapper
        /\ i # NumMappers - 1 => i' = i + 1 /\ mpc' = "partition"
        /\ i = NumMappers - 1 => i' = 0 /\ mpc' = "fork"
    BY <1>1, StepType DEF PartitionPharse
  <2>2. \/ made' = made \cup {i} /\ faults' = faults
        \/ made' = made /\ faults' = faults \cup {<<"list", i>>}
    BY <1>0, <1>1, FaultType DEF PartitionPharse
  <2>3. UNCHANGED <<map, red>>  BY <1>1 DEF PartitionPharse
  <2>4. \A m \in Mapper : <<"list", m>> = <<"list", i>> => m = i  OBVIOUS
  <2> QED  BY <1>0, <2>1, <2>2, <2>3, <2>4
<1>2. CASE ForkMapper
  <2>1. /\ mpc = "fork" /\ i' \in Mapper
        /\ i # NumMappers - 1 => i' = i + 1 /\ mpc' = "fork"
        /\ i = NumMappers - 1 => i' = 0 /\ mpc' = "reduce"
    BY <1>2, StepType DEF ForkMapper
  <2> QED  BY <1>0, <1>2, <2>1 DEF ForkMapper
<1>3. CASE ForkMapperFails
  <2>1. faults' = faults \cup {<<"mapFork", i>>}  BY <1>0, <1>3, FaultType DEF ForkMapperFails
  <2> QED  BY <1>0, <1>3, <2>1 DEF ForkMapperFails
<1>4. CASE ForkFirst  BY <1>0, <1>4 DEF ForkFirst
<1>5. CASE ForkFirstFails
  <2>1. faults' = faults \cup {<<"reduceFork", 0>>}
    BY <1>0, <1>5, FaultType DEF ForkFirstFails
  <2> QED  BY <1>0, <1>5, <2>1 DEF ForkFirstFails
<1>6. CASE MasterWait  BY <1>0, <1>6 DEF MasterWait
<1>7. ASSUME NEW m \in Mapper, MapperPhase(m) \/ WriteCounts(m) \/ Die(m)
      PROVE  MasterInv'
  <2>1. /\ faults' = faults \/ faults' = faults \cup {<<"skip", m>>}
                            \/ faults' = faults \cup {<<"die", m>>}
        /\ map[m] \in {"count", "write"} /\ UNCHANGED <<mpc, i, made, red>>
        /\ \A n \in Mapper : map'[n] = "unborn" <=> map[n] = "unborn"
    BY <1>0, <1>7, FaultType DEF MapperPhase, WriteCounts, Die
  <2> QED  BY <1>0, <2>1
<1>8. ASSUME NEW m \in Mapper,
             ReadPipe(m) \/ ForkNext(m) \/ ForkNextFails(m) \/ ReducerWait(m)
               \/ WriteResult(m) \/ FinalResult(m)
      PROVE  MasterInv'
  <2>1. red[m] # "unborn" /\ UNCHANGED <<mpc, i, made, map>>
    BY <1>8 DEF ReadPipe, ForkNext, ForkNextFails, ReducerWait, WriteResult, FinalResult
  <2>2. \A n \in Mapper : <<"list", n>> \in faults' <=> <<"list", n>> \in faults
    <3>1. CASE faults' = faults  BY <3>1
    <3>2. CASE faults' = faults \cup {<<"reduceFork", m + 1>>}  BY <3>2
    <3>3. CASE faults' = faults \cup {<<"output", m>>}  BY <3>3
    <3> QED
      BY <1>8, <3>1, <3>2, <3>3
         DEF ReadPipe, ForkNext, ForkNextFails, ReducerWait, WriteResult, FinalResult, Fault
  <2> QED  BY <1>0, <2>1, <2>2
<1>9. CASE UNCHANGED vars  BY <1>9 DEF vars
<1>10. ASSUME NEW m \in Mapper, PipeFails(m) PROVE MasterInv'
  <2>1. faults' = faults \cup {<<"pipe", m>>}  BY <1>0, <1>10, FaultType DEF PipeFails
  <2> QED  BY <1>0, <1>10, <2>1 DEF PipeFails
<1> QED  BY <1>1, <1>2, <1>3, <1>4, <1>5, <1>6, <1>7, <1>8, <1>9, <1>10 DEF Next

\* Where the reducers stand in their chain.
LEMMA ChainStep == PInv /\ [Next]_vars => ChainInv'
<1> SUFFICES ASSUME TypeOK, ChainInv, PInv, [Next]_vars PROVE ChainInv'  BY DEF PInv
<1>0. /\ \A m \in Mapper : m \in Nat /\ m <= NumMappers - 1
      /\ \A m \in Nat : m <= NumMappers - 1 => m \in Mapper
      /\ NumMappers \in Nat
      /\ red \in [Mapper -> {"unborn", "read", "fork", "wait", "write", "report", "exited"}]
  BY PipelineAssumption DEF TypeOK, Mapper
<1> USE DEF ChainInv, Alive, NotYet, partition, master, results, MGoto, RGoto
<1>1. CASE ForkFirst
  <2>1. 0 \in Mapper /\ \A m \in Mapper : red[m] = "unborn"
    BY <1>1, PipelineAssumption DEF ForkFirst, PInv, MasterInv, Mapper
  <2> QED  BY <1>0, <1>1, <2>1 DEF ForkFirst
<1>2. ASSUME NEW m \in Mapper, ReadPipe(m) PROVE ChainInv'
  BY <1>0, <1>2 DEF ReadPipe, AfterRead
<1>3. ASSUME NEW m \in Mapper, ForkNext(m) PROVE ChainInv'
  <2>1. m + 1 \in Mapper /\ red[m + 1] = "unborn" /\ red[m] = "fork"
    BY <1>0, <1>3 DEF ForkNext
  <2>2. \A n \in Mapper : n > m => red[n] = "unborn"  BY <1>0, <2>1
  <2>3. \A n \in Mapper : n < m => red[n] = "wait"  BY <1>0, <2>1
  <2>4. /\ red' = [red EXCEPT ![m] = "wait", ![m + 1] = "read"]
        /\ reducerResult' = reducerResult
    BY <1>3 DEF ForkNext
  <2> QED  BY <1>0, <2>1, <2>2, <2>3, <2>4
<1>4. ASSUME NEW m \in Mapper, ForkNextFails(m) PROVE ChainInv'
  BY <1>0, <1>4 DEF ForkNextFails
<1>5. ASSUME NEW m \in Mapper, ReducerWait(m) PROVE ChainInv'
  <2>1. m + 1 \in Mapper /\ red[m] = "wait" /\ red[m + 1] = "exited"
    BY <1>0, <1>5 DEF ReducerWait
  <2>2. \A n \in Mapper : n > m => ~Alive(red[n])  BY <1>0, <2>1
  <2>3. red' = [red EXCEPT ![m] = "exited"] /\ reducerResult' = reducerResult
    BY <1>5 DEF ReducerWait
  <2> QED  BY <1>0, <2>1, <2>2, <2>3
<1>6. ASSUME NEW m \in Mapper, WriteResult(m) PROVE ChainInv'
  <2>1. m = NumMappers - 1 /\ red[m] = "write" /\ \A n \in Mapper : n < m => red[n] = "wait"
    BY <1>0, <1>6 DEF WriteResult
  <2> QED  BY <1>0, <1>6, <2>1 DEF WriteResult
<1>7. ASSUME NEW m \in Mapper, FinalResult(m) PROVE ChainInv'
  <2>1. m = NumMappers - 1 /\ red[m] = "report" /\ \A n \in Mapper : n < m => red[n] = "wait"
    BY <1>0, <1>7 DEF FinalResult
  <2> QED  BY <1>0, <1>7, <2>1 DEF FinalResult
<1>8. CASE UNCHANGED <<red, reducerResult>>  BY <1>8
<1> QED
  BY <1>1, <1>2, <1>3, <1>4, <1>5, <1>6, <1>7, <1>8
     DEF Next, PartitionPharse, PipeFails, ForkMapper, ForkMapperFails, ForkFirstFails, MasterWait,
         MapperPhase, WriteCounts, Die, vars
-----------------------------------------------------------------------------
\* What may still happen to mapper n: its list while it is unborn, its count once,
\* its death until it has ended.
LEMMA WhatHappens ==
  ASSUME PInv, [Next]_vars, NEW CONSTANT n \in Mapper
  PROVE  /\ map[n] # "unborn" => (Failed("list", n)' <=> Failed("list", n)) /\ list' = list
         /\ Failed("skip", n)' => Failed("skip", n) \/ MapperPhase(n)
         /\ Failed("die", n)' => Failed("die", n) \/ Die(n)
         /\ faults \subseteq faults'
<1>0. /\ mpc = "partition" => \A m \in Mapper : map[m] = "unborn"
      /\ i \in Mapper /\ 0 \in Mapper /\ TypeOK
  BY PipelineAssumption DEF PInv, TypeOK, MasterInv, Mapper
<1> USE DEF Failed, partition, results, master
<1>1. CASE PartitionPharse
  <2>1. mpc = "partition"  BY <1>1 DEF PartitionPharse, Step
  <2>2. faults' = faults \/ faults' = faults \cup {<<"list", i>>}
    BY <1>1 DEF PartitionPharse, Fault
  <2>3. CASE faults' = faults  BY <1>0, <2>1, <2>3
  <2>4. CASE faults' = faults \cup {<<"list", i>>}  BY <1>0, <2>1, <2>4
  <2> QED  BY <2>2, <2>3, <2>4
<1>2. ASSUME NEW m \in Mapper, MapperPhase(m)
      PROVE  /\ list' = list /\ (faults' = faults \/ faults' = faults \cup {<<"skip", m>>})
  BY <1>2 DEF MapperPhase, Fault
<1>3. ASSUME NEW m \in Mapper, Die(m)
      PROVE  list' = list /\ faults' = faults \cup {<<"die", m>>}
  BY <1>3 DEF Die, Fault
<1>4. ASSUME NEW m, NEW k \in {"pipe", "mapFork", "reduceFork", "output"}, list' = list,
             faults' = faults \/ faults' = faults \cup {<<k, m>>}
      PROVE  /\ Failed("list", n)' <=> Failed("list", n)
             /\ Failed("skip", n)' <=> Failed("skip", n)
             /\ Failed("die", n)' <=> Failed("die", n)
             /\ faults \subseteq faults' /\ list' = list
  <2>1. CASE faults' = faults  BY <1>4, <2>1
  <2>2. CASE faults' = faults \cup {<<k, m>>}
    <3>1. k # "list" /\ k # "skip" /\ k # "die"  OBVIOUS
    <3> QED  BY <1>4, <2>2, <3>1
  <2> QED  BY <1>4, <2>1, <2>2
<1>5. CASE ForkMapper \/ ForkMapperFails \/ ForkFirst \/ ForkFirstFails \/ MasterWait
  <2>1. \/ list' = list /\ (faults' = faults \/ faults' = faults \cup {<<"mapFork", i>>})
        \/ list' = list /\ (faults' = faults \/ faults' = faults \cup {<<"reduceFork", 0>>})
    BY <1>5 DEF ForkMapper, ForkMapperFails, ForkFirst, ForkFirstFails, MasterWait, Fault
  <2> QED  BY <1>4, <2>1
<1>6. ASSUME NEW m \in Mapper,
             WriteCounts(m) \/ ReadPipe(m) \/ ForkNext(m) \/ ForkNextFails(m)
               \/ ReducerWait(m) \/ WriteResult(m) \/ FinalResult(m)
      PROVE  \/ list' = list /\ (faults' = faults \/ faults' = faults \cup {<<"output", m>>})
             \/ list' = list /\ (faults' = faults \/ faults' = faults \cup {<<"reduceFork", m + 1>>})
  BY <1>6 DEF WriteCounts, ReadPipe, ForkNext, ForkNextFails, ReducerWait, WriteResult,
              FinalResult, Fault
<1>7. CASE UNCHANGED vars  BY <1>7 DEF vars
<1>8. CASE \E m \in Mapper : MapperPhase(m)
  <2>1. PICK m \in Mapper : MapperPhase(m)  BY <1>8
  <2>2. CASE faults' = faults  BY <1>2, <2>1, <2>2
  <2>3. CASE faults' = faults \cup {<<"skip", m>>}
    <3>1. <<"skip", m>> = <<"skip", n>> => m = n  OBVIOUS
    <3> QED  BY <1>2, <2>1, <2>3, <3>1
  <2> QED  BY <1>2, <2>1, <2>2, <2>3
<1>9. CASE \E m \in Mapper : Die(m)
  <2>1. PICK m \in Mapper : Die(m)  BY <1>9
  <2>2. <<"die", m>> = <<"die", n>> => m = n  OBVIOUS
  <2> QED  BY <1>3, <2>1, <2>2
<1>10. CASE \E m \in Mapper :
             WriteCounts(m) \/ ReadPipe(m) \/ ForkNext(m) \/ ForkNextFails(m)
               \/ ReducerWait(m) \/ WriteResult(m) \/ FinalResult(m)
  <2>1. PICK m \in Mapper :
             WriteCounts(m) \/ ReadPipe(m) \/ ForkNext(m) \/ ForkNextFails(m)
               \/ ReducerWait(m) \/ WriteResult(m) \/ FinalResult(m)
    BY <1>10
  <2> QED  BY <1>4, <1>6, <2>1
<1>11. CASE \E m \in Mapper : PipeFails(m)
  <2>1. PICK m \in Mapper : list' = list /\ faults' = faults \cup {<<"pipe", m>>}
    BY <1>11 DEF PipeFails, Fault
  <2> QED  BY <1>4, <2>1
<1> QED  BY <1>1, <1>5, <1>7, <1>8, <1>9, <1>10, <1>11 DEF Next

\* Nothing about a mapper that has ended changes any more.
LEMMA EndedIsFinal ==
  ASSUME PInv, [Next]_vars, NEW CONSTANT n \in Mapper, map[n] = "exited"
  PROVE  /\ list' = list /\ NoCounts(n)' = NoCounts(n)
         /\ Failed("skip", n)' = Failed("skip", n) /\ Counted(n)' = Counted(n)
         /\ \A f \in File : Contributes(n, f)' = Contributes(n, f)
<1>1. ~MapperPhase(n) /\ ~Die(n)  BY DEF MapperPhase, Die
<1>2. /\ list' = list /\ (Failed("list", n)' <=> Failed("list", n))
      /\ (Failed("skip", n)' <=> Failed("skip", n))
      /\ (Failed("die", n)' <=> Failed("die", n))
  BY <1>1, WhatHappens DEF Failed
<1>3. NoCounts(n)' = NoCounts(n)  BY <1>2 DEF NoCounts
<1>4. Counted(n)' = Counted(n)  BY <1>2 DEF Counted, Failed
<1>5. Failed("skip", n)' = Failed("skip", n)  BY <1>2 DEF Failed
<1>6. ASSUME NEW f \in File PROVE Contributes(n, f)' = Contributes(n, f)
  BY <1>2, <1>3, <1>5 DEF Contributes
<1> QED  BY <1>2, <1>3, <1>4, <1>5, <1>6

\* The write end of every pipe but the first is open while its reader reads.
LEMMA WriterWaits ==
  ASSUME PInv, NEW m \in Mapper, red[m] = "read", ~Writer(m)
  PROVE  m = 0 /\ \A n \in Mapper : map[n] = "exited"
<1>0. m \in Nat /\ m <= NumMappers - 1 /\ NumMappers \in Nat
  BY PipelineAssumption DEF Mapper
<1>1. ~(m > 0)
  <2> SUFFICES ASSUME m > 0 PROVE FALSE  OBVIOUS
  <2>1. m - 1 \in Mapper /\ m - 1 \in 0 .. m - 1  BY <1>0 DEF Mapper
  <2>2. red[m - 1] = "wait"  BY <1>0, <2>1 DEF PInv, ChainInv, Alive
  <2> QED  BY <2>1, <2>2 DEF Writer, Alive
<1>2. \A n \in Mapper : map[n] # "unborn"  BY DEF PInv, MasterInv
<1>3. \A n \in Mapper : ~Alive(map[n])  BY DEF Writer
<1> QED  BY <1>0, <1>1, <1>2, <1>3 DEF Alive

\* What a mapper has done stands in its pipe, or in the reducer that read it.
LEMMA MapperStep == PInv /\ [Next]_vars => MapperInv'
<1> SUFFICES ASSUME PInv, [Next]_vars, NEW n \in Mapper
             PROVE  /\ map'[n] \in {"unborn", "count"} => ~Failed("skip", n)'
                    /\ map'[n] = "write" => n \in made'
                    /\ map'[n] # "exited" =>
                         ~Failed("die", n)' /\ pipe'[n] = Absent /\ red'[n] \in NotYet
                    /\ pipe'[n] # Absent => pipe'[n] = {Counted(n)'} /\ ~NoCounts(n)'
                    /\ map'[n] = "exited" /\ pipe'[n] = Absent /\ red'[n] \in NotYet =>
                         NoCounts(n)'
                    /\ red'[n] \notin NotYet /\ n > 0 => ~NoCounts(n)'
  BY DEF MapperInv, Absent
<1> DEFINE Goal ==
      /\ map'[n] \in {"unborn", "count"} => ~Failed("skip", n)'
      /\ map'[n] = "write" => n \in made'
      /\ map'[n] # "exited" =>
           ~Failed("die", n)' /\ pipe'[n] = Absent /\ red'[n] \in NotYet
      /\ pipe'[n] # Absent => pipe'[n] = {Counted(n)'} /\ ~NoCounts(n)'
      /\ map'[n] = "exited" /\ pipe'[n] = Absent /\ red'[n] \in NotYet => NoCounts(n)'
      /\ red'[n] \notin NotYet /\ n > 0 => ~NoCounts(n)'
<1>0. /\ n \in Nat
      /\ map \in [Mapper -> {"unborn", "count", "write", "exited"}]
      /\ red \in [Mapper -> {"unborn", "read", "fork", "wait", "write", "report", "exited"}]
      /\ pipe \in [Mapper -> SUBSET Counts]
      /\ map[n] \in {"unborn", "count"} => ~Failed("skip", n)
      /\ map[n] = "write" => n \in made
      /\ map[n] # "exited" => ~Failed("die", n) /\ pipe[n] = Absent /\ red[n] \in NotYet
      /\ pipe[n] # Absent => pipe[n] = {Counted(n)} /\ ~NoCounts(n)
      /\ map[n] = "exited" /\ pipe[n] = Absent /\ red[n] \in NotYet => NoCounts(n)
      /\ red[n] \notin NotYet /\ n > 0 => ~NoCounts(n)
      /\ map[n] # "unborn" => (n \in made <=> ~Failed("list", n))
  BY DEF PInv, TypeOK, MapperInv, MasterInv, Mapper
<1> USE DEF MGoto, RGoto, Absent
\* A step of others leaves mapper n as it was.
<1>1. ASSUME map'[n] = map[n], pipe'[n] = pipe[n], red'[n] \in NotYet <=> red[n] \in NotYet,
             ~MapperPhase(n), ~Die(n), n \in made => n \in made'
      PROVE  Goal
  <2>1. CASE map[n] = "exited"  BY <1>0, <1>1, <2>1, EndedIsFinal
  <2>2. CASE map[n] # "exited"
    <3>1. ~Failed("die", n)'  BY <1>0, <1>1, <2>2, WhatHappens
    <3>2. map[n] \in {"unborn", "count"} => ~Failed("skip", n)'
      BY <1>0, <1>1, WhatHappens
    <3> QED  BY <1>0, <1>1, <2>2, <3>1, <3>2
  <2> QED  BY <2>1, <2>2
<1>2. CASE PartitionPharse
  <2>1. n \in made => n \in made'  BY <1>2 DEF PartitionPharse, partition
  <2>2. map[n] = "unborn"  BY <1>2 DEF PartitionPharse, Step, PInv, MasterInv
  <2> QED  BY <1>1, <1>2, <2>1, <2>2 DEF PartitionPharse, MapperPhase, Die
<1>3. CASE ForkMapper
  <2>1. CASE i = n
    <3>1. map[n] = "unborn"
      BY <1>0, <1>3, <2>1 DEF ForkMapper, Step, PInv, MasterInv
    <3>2. map'[n] = "count" /\ UNCHANGED <<pipe, red, faults>>
      BY <1>0, <1>3, <2>1 DEF ForkMapper
    <3> QED  BY <1>0, <3>1, <3>2 DEF Failed
  <2>2. CASE i # n
    <3>1. map'[n] = map[n] /\ UNCHANGED <<pipe, red, made>>
      BY <1>0, <1>3, <2>2 DEF ForkMapper, partition
    <3>2. ~MapperPhase(n) /\ ~Die(n)
      BY <1>3 DEF ForkMapper, Step, MapperPhase, Die, master, Fault
    <3> QED  BY <1>1, <3>1, <3>2
  <2> QED  BY <2>1, <2>2
<1>4. ASSUME NEW m \in Mapper, m # n, MapperPhase(m) \/ WriteCounts(m) \/ Die(m) \/ ReadPipe(m)
      PROVE  Goal
  <2>1. map'[n] = map[n] /\ pipe'[n] = pipe[n] /\ red'[n] = red[n] /\ made' = made
    BY <1>0, <1>4 DEF MapperPhase, WriteCounts, Die, ReadPipe, partition
  <2>2. ~MapperPhase(n) /\ ~Die(n)
    BY <1>0, <2>1 DEF MapperPhase, Die
  <2> QED  BY <1>1, <2>1, <2>2
<1>5. CASE MapperPhase(n)
  <2>1. /\ map[n] = "count" /\ UNCHANGED <<pipe, red, made, list>>
        /\ map'[n] = IF n \notin made THEN "exited" ELSE "write"
    BY <1>0, <1>5 DEF MapperPhase, partition
  <2>2. ~Failed("die", n)' /\ (Failed("list", n)' <=> Failed("list", n))
    <3>1. faults' = faults \/ faults' = faults \cup {<<"skip", n>>}
      BY <1>5 DEF MapperPhase, Fault
    <3> QED  BY <1>0, <2>1, <3>1, WhatHappens DEF Failed
  <2> QED  BY <1>0, <2>1, <2>2 DEF NoCounts
<1>6. CASE WriteCounts(n)
  <2>1. /\ map[n] = "write" /\ UNCHANGED <<faults, red, made, list>>
        /\ map'[n] = "exited" /\ pipe'[n] = {Counted(n)}
    BY <1>0, <1>6 DEF WriteCounts, partition
  <2>2. ~NoCounts(n)  BY <1>0, <2>1 DEF NoCounts
  <2>3. NoCounts(n)' = NoCounts(n) /\ Counted(n)' = Counted(n)
    BY <2>1 DEF NoCounts, Counted, Failed
  <2> QED  BY <1>0, <2>1, <2>2, <2>3
<1>7. CASE Die(n)
  <2>1. /\ map[n] \in {"count", "write"} /\ map'[n] = "exited"
        /\ <<"die", n>> \in faults' /\ UNCHANGED <<pipe, red>>
    BY <1>0, <1>7 DEF Die, Fault
  <2> QED  BY <1>0, <2>1 DEF NoCounts, Failed
<1>8. CASE ReadPipe(n)
  <2>1. /\ red[n] = "read" /\ red'[n] \notin NotYet /\ pipe'[n] = Absent /\ map' = map
    BY <1>0, <1>8 DEF ReadPipe, AfterRead, NotYet
  <2>2. CASE pipe[n] # Absent
    <3>1. map[n] = "exited" /\ ~NoCounts(n)  BY <1>0, <2>2
    <3> QED  BY <2>1, <3>1, EndedIsFinal
  <2>3. CASE pipe[n] = Absent
    <3>1. ~Writer(n)  BY <1>8, <2>3 DEF ReadPipe
    <3>2. n = 0 /\ map[n] = "exited"  BY <2>1, <3>1, WriterWaits
    <3> QED  BY <2>1, <3>2
  <2> QED  BY <2>2, <2>3
<1>9. ASSUME NEW m \in Mapper, ForkNext(m) PROVE Goal
  <2>1. m + 1 \in Mapper /\ red[m + 1] = "unborn" /\ red[m] = "fork" /\ m \in Nat
    BY <1>0, <1>9 DEF ForkNext, PInv, ChainInv, Mapper
  <2>2. red'[n] \in NotYet <=> red[n] \in NotYet
    BY <1>0, <1>9, <2>1 DEF ForkNext, NotYet
  <2>3. ~MapperPhase(n) /\ ~Die(n) /\ UNCHANGED <<map, pipe, made>>
    BY <1>0, <1>9 DEF ForkNext, MapperPhase, Die, partition
  <2> QED  BY <1>1, <2>2, <2>3
<1>10. ASSUME NEW m \in Mapper,
              ForkNextFails(m) \/ ReducerWait(m) \/ WriteResult(m) \/ FinalResult(m)
       PROVE  Goal
  <2>1. red'[n] \in NotYet <=> red[n] \in NotYet
    BY <1>0, <1>10 DEF ForkNextFails, ReducerWait, WriteResult, FinalResult, NotYet
  <2>2. UNCHANGED <<map, pipe, made>>
    BY <1>10 DEF ForkNextFails, ReducerWait, WriteResult, FinalResult, partition
  <2>3. ~MapperPhase(n) /\ ~Die(n)  BY <1>0, <2>2 DEF MapperPhase, Die
  <2> QED  BY <1>1, <2>1, <2>2, <2>3
<1>11. CASE \/ ForkMapperFails \/ ForkFirst \/ ForkFirstFails \/ MasterWait \/ UNCHANGED vars
            \/ \E m \in Mapper : PipeFails(m)
  <2>1. red'[n] \in NotYet <=> red[n] \in NotYet
    BY <1>0, <1>11 DEF PipeFails, ForkMapperFails, ForkFirst, ForkFirstFails, MasterWait, vars,
                       PInv, MasterInv, NotYet
  <2>2. UNCHANGED <<map, pipe, made>>
    BY <1>11 DEF PipeFails, ForkMapperFails, ForkFirst, ForkFirstFails, MasterWait, vars, partition
  <2>3. ~MapperPhase(n) /\ ~Die(n)  BY <1>0, <2>2 DEF MapperPhase, Die
  <2> QED  BY <1>1, <2>1, <2>2, <2>3
<1> QED
  BY <1>2, <1>3, <1>4, <1>5, <1>6, <1>7, <1>8, <1>9, <1>10, <1>11 DEF Next
-----------------------------------------------------------------------------
LEMMA UptoIsNat ==
  ASSUME NEW m \in Int, NEW f
  PROVE  /\ IsFiniteSet({n \in Mapper : n <= m /\ Contributes(n, f)})
         /\ Upto(m, f) \in Nat
<1>1. IsFiniteSet(Mapper)  BY PipelineAssumption, FS_Interval DEF Mapper
<1>2. {n \in Mapper : n <= m /\ Contributes(n, f)} \subseteq Mapper  OBVIOUS
<1> QED  BY <1>1, <1>2, FS_Subset, FS_CardinalityType DEF Upto

\* The share of one mapper more.
LEMMA UptoNext ==
  ASSUME NEW m \in Mapper, NEW f
  PROVE  Upto(m, f) = Upto(m - 1, f) + (IF Contributes(m, f) THEN 1 ELSE 0)
<1> DEFINE Below == {n \in Mapper : n <= m - 1 /\ Contributes(n, f)}
           Here == {n \in Mapper : n <= m /\ Contributes(n, f)}
<1>0. \A n \in Mapper : n \in Int  BY DEF Mapper
<1>1. IsFiniteSet(Below) /\ Upto(m - 1, f) \in Nat
  <2>1. m - 1 \in Int  BY <1>0
  <2> QED  BY <2>1, UptoIsNat
<1>2. CASE Contributes(m, f)
  <2>1. Here = Below \cup {m} /\ m \notin Below  BY <1>0, <1>2
  <2>2. Cardinality(Here) = Cardinality(Below) + 1  BY <1>1, <2>1, FS_AddElement
  <2> QED  BY <1>2, <2>2 DEF Upto
<1>3. CASE ~Contributes(m, f)
  <2>1. Here = Below  BY <1>0, <1>3
  <2> QED  BY <1>1, <1>3, <2>1 DEF Upto
<1> QED  BY <1>2, <1>3

LEMMA UptoNone == ASSUME NEW f  PROVE Upto(-1, f) = 0
<1>1. {n \in Mapper : n <= -1 /\ Contributes(n, f)} = {}  BY DEF Mapper
<1> QED  BY <1>1, FS_EmptySet DEF Upto

\* What a reducer that is running inherited, and what it read, stays.
LEMMA UptoKept ==
  ASSUME PInv, [Next]_vars, NEW CONSTANT m \in Mapper, NEW CONSTANT f \in File, Alive(red[m])
  PROVE  /\ Upto(m - 1, f)' = Upto(m - 1, f)
         /\ red[m] # "read" => Upto(m, f)' = Upto(m, f)
<1>0. \A n \in Mapper : n \in Int  BY DEF Mapper
<1>1. \A n \in Mapper : n < m => map[n] = "exited"
  BY DEF PInv, ChainInv, MapperInv, NotYet, Alive
<1>2. red[m] # "read" => map[m] = "exited"  BY DEF PInv, MapperInv, NotYet, Alive
<1>3. ASSUME NEW n \in Mapper, map[n] = "exited"
      PROVE  Contributes(n, f)' = Contributes(n, f)
  BY <1>3, EndedIsFinal
<1>4. {n \in Mapper : n <= m - 1 /\ Contributes(n, f)'}
        = {n \in Mapper : n <= m - 1 /\ Contributes(n, f)}
  BY <1>0, <1>1, <1>3
<1>5. red[m] # "read" =>
        {n \in Mapper : n <= m /\ Contributes(n, f)'}
          = {n \in Mapper : n <= m /\ Contributes(n, f)}
  BY <1>0, <1>1, <1>2, <1>3
<1> QED  BY <1>4, <1>5 DEF Upto

LEMMA StoreStep == PInv /\ [Next]_vars => StoreInv'
<1> SUFFICES ASSUME PInv, [Next]_vars PROVE StoreInv'  OBVIOUS
<1>0. /\ StoreInv /\ \A n \in Mapper : n \in Nat
      /\ red \in [Mapper -> {"unborn", "read", "fork", "wait", "write", "report", "exited"}]
      /\ store \in [Mapper -> Counts] /\ 0 \in Mapper
  BY PipelineAssumption DEF PInv, TypeOK, Mapper
<1> USE DEF partition, master, results, RGoto
\* A reducer that goes on with the same counts.
<1>1. ASSUME NEW m \in Mapper, NEW f \in File, store'[m] = store[m],
             red'[m] = red[m] \/ (red[m] \in HasRead /\ red'[m] \notin {"unborn", "read"})
      PROVE  /\ red'[m] = "read" => store'[m][f] = Upto(m - 1, f)'
             /\ red'[m] \in HasRead => store'[m][f] = Upto(m, f)'
  <2>1. CASE Alive(red[m])
    <3>1. Upto(m - 1, f)' = Upto(m - 1, f) /\ (red[m] # "read" => Upto(m, f)' = Upto(m, f))
      BY <2>1, UptoKept
    <3> QED  BY <1>0, <1>1, <3>1 DEF StoreInv, HasRead
  <2>2. CASE ~Alive(red[m])  BY <1>1, <2>2 DEF Alive, HasRead
  <2> QED  BY <2>1, <2>2
<1>2. CASE ForkFirst
  <2>1. \A n \in Mapper : red[n] = "unborn"  BY <1>2 DEF ForkFirst, PInv, MasterInv
  <2>2. store' = store /\ red' = [red EXCEPT ![0] = "read"]  BY <1>2 DEF ForkFirst
  <2>3. ASSUME NEW f \in File PROVE store'[0][f] = Upto(0 - 1, f)'
    <3>1. Upto(-1, f)' = 0
      <4>1. {n \in Mapper : n <= -1 /\ Contributes(n, f)'} = {}  BY DEF Mapper
      <4> QED  BY <4>1, FS_EmptySet DEF Upto
    <3>2. store'[0][f] = 0  BY <1>0, <2>1, <2>2 DEF StoreInv, None
    <3> QED  BY <3>1, <3>2
  <2> QED  BY <1>0, <2>1, <2>2, <2>3 DEF StoreInv, HasRead
<1>3. ASSUME NEW m \in Mapper, ReadPipe(m) PROVE StoreInv'
  <2>1. /\ red[m] = "read" /\ red' = [red EXCEPT ![m] = AfterRead(m)]
        /\ AfterRead(m) \in HasRead
    BY <1>3 DEF ReadPipe, AfterRead, HasRead
  <2>2. ASSUME NEW f \in File PROVE store'[m][f] = Upto(m, f)
    <3>1. store[m][f] = Upto(m - 1, f) /\ Upto(m - 1, f) \in Nat
      <4>1. m - 1 \in Int  BY <1>0
      <4> QED  BY <1>0, <2>1, <4>1, UptoIsNat DEF StoreInv
    <3>2. CASE \E counts \in pipe[m] : store' = [store EXCEPT ![m] = Add(m, counts)]
      <4>1. pipe[m] = {Counted(m)} /\ ~NoCounts(m)  BY <3>2 DEF PInv, MapperInv, Absent
      <4>2. store'[m] = Add(m, Counted(m))  BY <1>0, <3>2, <4>1
      <4>3. store'[m][f] = store[m][f] + Counted(m)[f]  BY <4>2 DEF Add
      <4>4. Counted(m)[f] = IF Contributes(m, f) THEN 1 ELSE 0
        BY <4>1 DEF Counted, Contributes, Failed
      <4> QED  BY <3>1, <4>3, <4>4, UptoNext
    <3>3. CASE pipe[m] = Absent /\ ~Writer(m) /\ store' = store
      <4>1. m = 0 /\ map[m] = "exited"  BY <2>1, <3>3, WriterWaits
      <4>2. ~Contributes(m, f)
        BY <2>1, <3>3, <4>1 DEF PInv, MapperInv, NotYet, Contributes
      <4> QED  BY <3>1, <3>3, <4>2, UptoNext
    <3> QED  BY <1>3, <3>2, <3>3 DEF ReadPipe
  <2>3. map[m] = "exited"
    <3>1. CASE pipe[m] # Absent  BY <3>1 DEF PInv, MapperInv
    <3>2. CASE pipe[m] = Absent /\ ~Writer(m)  BY <2>1, <3>2, WriterWaits
    <3> QED  BY <1>3, <3>1, <3>2 DEF ReadPipe, Absent
  <2>4. ASSUME NEW f \in File PROVE Upto(m, f)' = Upto(m, f)
    <3>1. \A n \in Mapper : n <= m => map[n] = "exited"
      BY <1>0, <2>1, <2>3 DEF PInv, ChainInv, MapperInv, NotYet, Alive
    <3>2. ASSUME NEW n \in Mapper, n <= m PROVE Contributes(n, f)' = Contributes(n, f)
      BY <3>1, <3>2, EndedIsFinal
    <3>3. {n \in Mapper : n <= m /\ Contributes(n, f)'}
            = {n \in Mapper : n <= m /\ Contributes(n, f)}
      BY <3>2
    <3> QED  BY <3>3 DEF Upto
  <2>5. ASSUME NEW n \in Mapper, n # m PROVE store'[n] = store[n] /\ red'[n] = red[n]
    BY <1>0, <1>3, <2>1, <2>5 DEF ReadPipe
  <2>6. ASSUME NEW n \in Mapper, NEW f \in File
        PROVE  /\ red'[n] = "read" => store'[n][f] = Upto(n - 1, f)'
               /\ red'[n] \in HasRead => store'[n][f] = Upto(n, f)'
    <3>1. CASE n = m  BY <1>0, <2>1, <2>2, <2>4, <3>1 DEF HasRead
    <3>2. CASE n # m  BY <1>1, <2>5, <3>2
    <3> QED  BY <3>1, <3>2
  <2>7. red'[0] = "unborn" => store'[0] = None
    BY <1>0, <2>1, <2>5 DEF StoreInv, HasRead
  <2> QED  BY <2>6, <2>7 DEF StoreInv
<1>4. ASSUME NEW m \in Mapper, ForkNext(m) PROVE StoreInv'
  <2>1. /\ m + 1 \in Mapper /\ red[m] = "fork" /\ m + 1 # m /\ m + 1 # 0
        /\ red' = [red EXCEPT ![m] = "wait", ![m + 1] = "read"]
        /\ store' = [store EXCEPT ![m + 1] = store[m]]
    BY <1>0, <1>4 DEF ForkNext, Inherited, PInv, ChainInv
  <2>2. ASSUME NEW n \in Mapper, NEW f \in File
        PROVE  /\ red'[n] = "read" => store'[n][f] = Upto(n - 1, f)'
               /\ red'[n] \in HasRead => store'[n][f] = Upto(n, f)'
    <3>1. CASE n = m + 1
      <4>1. store[m][f] = Upto(m, f) /\ Alive(red[m]) /\ red[m] # "read"
        BY <1>0, <2>1 DEF StoreInv, HasRead, Alive
      <4>2. Upto(m, f)' = Upto(m, f)  BY <4>1, UptoKept
      <4>3. n - 1 = m /\ red'[n] = "read" /\ store'[n] = store[m]
        BY <1>0, <2>1, <3>1
      <4> QED  BY <4>1, <4>2, <4>3 DEF HasRead
    <3>2. CASE n # m + 1
      <4>1. /\ store'[n] = store[n]
            /\ red'[n] = red[n] \/ (red[n] \in HasRead /\ red'[n] \notin {"unborn", "read"})
        BY <1>0, <2>1, <3>2 DEF HasRead
      <4> QED  BY <1>1, <4>1
    <3> QED  BY <3>1, <3>2
  <2>3. red'[0] = "unborn" => store'[0] = None  BY <1>0, <2>1 DEF StoreInv
  <2> QED  BY <2>2, <2>3 DEF StoreInv
<1>5. CASE /\ store' = store
           /\ \A n \in Mapper :
                red'[n] = red[n] \/ (red[n] \in HasRead /\ red'[n] \notin {"unborn", "read"})
  <2>1. red'[0] = "unborn" => store'[0] = None
    BY <1>0, <1>5 DEF StoreInv, HasRead
  <2> QED  BY <1>1, <1>5, <2>1 DEF StoreInv
<1>6. ASSUME NEW m \in Mapper,
             ForkNextFails(m) \/ ReducerWait(m) \/ WriteResult(m) \/ FinalResult(m)
      PROVE  StoreInv'
  <2>1. store' = store /\ red[m] \in HasRead
        /\ \E s \in {"exited", "report"} : red' = [red EXCEPT ![m] = s]
    BY <1>6 DEF ForkNextFails, ReducerWait, WriteResult, FinalResult, HasRead
  <2> QED  BY <1>0, <1>5, <2>1
<1>7. CASE UNCHANGED <<store, red>>  BY <1>5, <1>7
<1> QED
  BY <1>2, <1>3, <1>4, <1>6, <1>7
     DEF Next, PartitionPharse, PipeFails, ForkMapper, ForkMapperFails, ForkFirstFails, MasterWait,
         MapperPhase, WriteCounts, Die, vars
-----------------------------------------------------------------------------
(***************************************************************************)
(* Even shares.  Unless a list failed that was to get a file more, mapper  *)
(* m's files go from Start(m) to Start(m + 1) - 1.                         *)
(***************************************************************************)
Start(m) == numFileInM * m + IF m < remainderFile THEN m ELSE remainderFile
NoneShifted == \A m \in Mapper : m < remainderFile => ~Failed("list", m)

SharesInv ==
  /\ \A m \in Mapper : m \notin made => list[m] = {}
  /\ NoneShifted =>
       /\ mpc = "partition" =>
            countRemainder = IF i < remainderFile THEN remainderFile - i ELSE 0
       /\ \A m \in made : list[m] = (Start(m) .. Start(m + 1) - 1) \cap File

(***************************************************************************)
(* Division: the quotient is the number of times the divisor goes into the *)
(* dividend.                                                               *)
(***************************************************************************)
LEMMA Quotient ==
  ASSUME NEW a \in Nat, NEW b \in Nat, b > 0
  PROVE  /\ a \div b \in Nat /\ a % b \in 0 .. b - 1
         /\ b * (a \div b) <= a /\ a < b * (a \div b + 1)
         /\ a = b * (a \div b) + (a % b)
<1>1. PICK q \in Nat : q = a \div b  OBVIOUS
<1>2. a >= b * q  BY <1>1, SMTT(30)
<1>3. a < b * (q + 1)
  <2>1. SUFFICES ASSUME a >= b * (q + 1) PROVE FALSE
    <3>1. b * (q + 1) \in Nat  OBVIOUS
    <3> QED  BY <3>1
  <2>2. \A n \in Nat : a >= b * n => a \div b >= n  BY SMTT(30)
  <2> QED  BY <1>1, <2>1, <2>2
<1>4. PICK r \in Int : r = a - b * q  OBVIOUS
<1>5. r \in 0 .. b - 1
  <2>1. b * (q + 1) = b * q + b /\ b * q \in Nat  OBVIOUS
  <2> QED  BY <1>2, <1>3, <1>4, <2>1
<1>6. a = b * q + r
  <2>1. b * q \in Nat  OBVIOUS
  <2> QED  BY <1>4, <2>1
<1>7. a % b = r  BY <1>5, <1>6, SMTT(30)
<1>8. /\ q \in Nat /\ a % b \in 0 .. b - 1
      /\ b * q <= a /\ a < b * (q + 1) /\ a = b * q + (a % b)
  BY <1>2, <1>3, <1>5, <1>6, <1>7
<1> QED  BY <1>1, <1>8, Zenon

LEMMA Shares ==
  /\ numFileInM \in Nat /\ remainderFile \in 0 .. NumMappers - 1
  /\ NumFiles = numFileInM * NumMappers + remainderFile
<1>1. NumFiles \in Nat /\ NumMappers \in Nat /\ NumMappers > 0  BY PipelineAssumption
<1>2. PICK q \in Nat : q = NumFiles \div NumMappers  BY <1>1, Quotient
<1>3. NumFiles = NumMappers * q + (NumFiles % NumMappers)  BY <1>1, <1>2, Quotient
<1>4. NumMappers * q = q * NumMappers  BY <1>1
<1> QED  BY <1>1, <1>2, <1>3, <1>4, Quotient DEF numFileInM, remainderFile

LEMMA TimesMonotone ==
  ASSUME NEW n \in Nat, NEW a \in Nat, NEW b \in Nat, a <= b
  PROVE  n * a <= n * b /\ n * a \in Nat /\ n * b \in Nat
OBVIOUS

\* Shares follow one another, have one of two sizes, and end with the last file.
LEMMA StartsAscend ==
  /\ \A m \in Nat : Start(m) \in Nat
  /\ \A m, k \in Nat : m <= k => Start(m) <= Start(k)
  /\ \A m \in Nat : Start(m + 1) = Start(m) + numFileInM + IF m < remainderFile THEN 1 ELSE 0
  /\ Start(0) = 0 /\ Start(NumMappers) = NumFiles
<1>1. PICK n \in Nat : n = numFileInM  BY Shares
<1>2. PICK r \in 0 .. NumMappers - 1 : r = remainderFile  BY Shares
<1>3. \A m \in Nat : Start(m) = n * m + IF m < r THEN m ELSE r  BY <1>1, <1>2 DEF Start
<1>4. NumMappers \in Nat /\ NumFiles = n * NumMappers + r
  BY <1>1, <1>2, Shares, PipelineAssumption
<1>5. ASSUME NEW m \in Nat, NEW k \in Nat, m <= k
      PROVE  Start(m) \in Nat /\ Start(k) \in Nat /\ Start(m) <= Start(k)
  <2>1. n * m <= n * k /\ n * m \in Nat /\ n * k \in Nat  BY <1>5, TimesMonotone
  <2>2. /\ Start(m) = n * m + IF m < r THEN m ELSE r
        /\ Start(k) = n * k + IF k < r THEN k ELSE r
    BY <1>3
  <2> QED  BY <1>5, <2>1, <2>2
<1>6. ASSUME NEW m \in Nat
      PROVE  Start(m + 1) = Start(m) + n + IF m < r THEN 1 ELSE 0
  <2>1. n * (m + 1) = n * m + n /\ n * m \in Nat  OBVIOUS
  <2> QED  BY <1>3, <2>1
<1>7. Start(0) = 0 /\ Start(NumMappers) = NumFiles
  <2>1. n * 0 = 0 /\ n * NumMappers \in Nat  BY <1>4
  <2> QED  BY <1>3, <1>4, <2>1
<1>8. \A m \in Nat : Start(m) \in Nat
  <2>1. \A m \in Nat : m <= m  OBVIOUS
  <2> QED  BY <1>5, <2>1
<1> QED  BY <1>1, <1>2, <1>5, <1>6, <1>7, <1>8

\* What PartitionPharse writes for mapper m while no list failed that mattered.
LEMMA ShareIs ==
  ASSUME NEW m \in Mapper,
         countRemainder = IF m < remainderFile THEN remainderFile - m ELSE 0
  PROVE  Share(m) = Start(m) .. Start(m + 1) - 1
<1>1. PICK n \in Nat : n = numFileInM  BY Shares
<1>2. PICK r \in 0 .. NumMappers - 1 : r = remainderFile  BY Shares
<1>3. m \in Nat /\ NumMappers \in Nat  BY PipelineAssumption DEF Mapper
<1>4. /\ n * m \in Nat /\ n * (m + 1) = n * m + n
      /\ (n + 1) * m = n * m + m /\ (n + 1) * (m + 1) = n * m + n + m + 1
  BY <1>3
<1>5. /\ Start(m) = n * m + IF m < r THEN m ELSE r
      /\ Start(m + 1) = n * (m + 1) + IF m + 1 < r THEN m + 1 ELSE r
  BY <1>1, <1>2 DEF Start
<1>6. CASE m < r
  <2>1. countRemainder # 0  BY <1>2, <1>3, <1>6
  <2>2. Share(m) = (n + 1) * m .. (n + 1) * (m + 1) - 1  BY <1>1, <2>1 DEF Share
  <2>3. (n + 1) * m = Start(m) /\ (n + 1) * (m + 1) = Start(m + 1)
    BY <1>2, <1>3, <1>4, <1>5, <1>6
  <2> QED  BY <2>2, <2>3
<1>7. CASE ~(m < r)
  <2>1. countRemainder = 0  BY <1>2, <1>7
  <2>2. Share(m) = r + n * m .. r + n * (m + 1) - 1  BY <1>1, <1>2, <2>1 DEF Share
  <2>3. Start(m) = r + n * m /\ Start(m + 1) = r + n * (m + 1)
    BY <1>2, <1>3, <1>4, <1>5, <1>7
  <2>4. n * m \in Int /\ n * (m + 1) \in Int /\ r \in Int  BY <1>3
  <2> QED  BY <2>2, <2>3, <2>4
<1> QED  BY <1>6, <1>7

LEMMA SharesInit == Init => SharesInv
<1> SUFFICES ASSUME Init PROVE SharesInv  OBVIOUS
<1>1. remainderFile \in 0 .. NumMappers - 1  BY Shares
<1>2. countRemainder = IF i < remainderFile THEN remainderFile - i ELSE 0
  BY <1>1, PipelineAssumption DEF Init, remainderFile
<1> QED  BY <1>2 DEF Init, SharesInv

LEMMA SharesStep == PInv /\ SharesInv /\ [Next]_vars => SharesInv'
<1> SUFFICES ASSUME TypeOK, MasterInv, SharesInv, [Next]_vars PROVE SharesInv'  BY DEF PInv
<1>0. PICK r \in 0 .. NumMappers - 1 : r = remainderFile /\ r = remainderFile'
  BY Shares DEF remainderFile
<1>1. i \in Mapper /\ i \in Nat /\ NumMappers \in Nat /\ countRemainder \in Nat
      /\ \A m \in Mapper : m \in Nat
  BY PipelineAssumption DEF TypeOK, Mapper
<1>2. \A m : Start(m)' = Start(m)  BY DEF Start, numFileInM, remainderFile
<1>3. faults \subseteq faults'
  BY DEF Next, PartitionPharse, PipeFails, ForkMapper, ForkMapperFails, ForkFirst, ForkFirstFails,
         MasterWait, MapperPhase, WriteCounts, Die, ReadPipe, ForkNext, ForkNextFails,
         ReducerWait, WriteResult, FinalResult, Fault, vars
<1>4. NoneShifted' => NoneShifted  BY <1>0, <1>3 DEF NoneShifted, Failed
<1>5. CASE PartitionPharse
  <2>1. /\ mpc = "partition" /\ i' \in Mapper
        /\ i # NumMappers - 1 => i' = i + 1 /\ mpc' = "partition"
        /\ i = NumMappers - 1 => mpc' = "fork"
    BY <1>5, StepType DEF PartitionPharse
  <2>2. mpc' = "partition" => i' = i + 1  BY <2>1
  <2>3. CASE /\ made' = made \cup {i} /\ list' = [list EXCEPT ![i] = Share(i) \cap File]
             /\ countRemainder' = Remaining /\ UNCHANGED faults
    <3>1. /\ list'[i] = Share(i) \cap File
          /\ \A m \in Mapper : m # i => list'[m] = list[m]
      BY <1>1, <2>3 DEF TypeOK
    <3>2. \A m \in Mapper : m \notin made' => list'[m] = {}
      BY <2>3, <3>1 DEF SharesInv
    <3>3. ASSUME NoneShifted'
          PROVE  /\ mpc' = "partition" => countRemainder' = IF i' < r THEN r - i' ELSE 0
                 /\ \A m \in made' : list'[m] = (Start(m) .. Start(m + 1) - 1) \cap File
      <4>1. countRemainder = IF i < r THEN r - i ELSE 0
        BY <1>0, <1>4, <2>1, <3>3 DEF SharesInv
      <4>2. countRemainder' = IF i + 1 < r THEN r - (i + 1) ELSE 0
        BY <1>0, <1>1, <2>3, <4>1 DEF Remaining
      <4>3. Share(i) = Start(i) .. Start(i + 1) - 1  BY <1>0, <1>1, <4>1, ShareIs
      <4>4. \A m \in made : list[m] = (Start(m) .. Start(m + 1) - 1) \cap File
        BY <1>4, <3>3 DEF SharesInv
      <4>5. i \notin made /\ made \subseteq Mapper
        BY <1>1, <2>1 DEF MasterInv, TypeOK
      <4> QED  BY <2>2, <2>3, <3>1, <4>2, <4>3, <4>4, <4>5
    <3> QED  BY <1>0, <1>2, <3>2, <3>3 DEF SharesInv, File
  <2>4. CASE Fault("list", i) /\ UNCHANGED partition
    <3>1. <<"list", i>> \in faults'  BY <2>4 DEF Fault
    <3>2. NoneShifted' => ~(i < r)  BY <1>0, <1>1, <3>1 DEF NoneShifted, Failed
    <3>3. UNCHANGED <<made, list, countRemainder>>  BY <2>4 DEF partition
    <3>4. NoneShifted' => (mpc' = "partition" => countRemainder' = IF i' < r THEN r - i' ELSE 0)
      BY <1>0, <1>1, <1>4, <2>1, <2>2, <3>2, <3>3 DEF SharesInv
    <3> QED  BY <1>0, <1>2, <1>4, <3>3, <3>4 DEF SharesInv, File
  <2> QED  BY <1>5, <2>3, <2>4 DEF PartitionPharse
<1>6. CASE ~PartitionPharse
  <2>1. UNCHANGED <<made, list, countRemainder>>
        /\ (mpc' = "partition" => mpc = "partition" /\ i' = i)
    BY <1>6, StepType
       DEF Next, PipeFails, ForkMapper, ForkMapperFails, ForkFirst, ForkFirstFails, MasterWait,
           MapperPhase, WriteCounts, Die, ReadPipe, ForkNext, ForkNextFails, ReducerWait,
           WriteResult, FinalResult, vars, partition, master, LastMapper, Step
  <2> QED  BY <1>0, <1>2, <1>4, <2>1 DEF SharesInv, File
<1> QED  BY <1>5, <1>6

\* No file lies in two shares, and every file in one.
LEMMA SharesApart ==
  ASSUME NEW m \in Mapper, NEW k \in Mapper, NEW f \in Int,
         f \in Start(m) .. Start(m + 1) - 1, f \in Start(k) .. Start(k + 1) - 1
  PROVE  m = k
<1>1. m \in Nat /\ k \in Nat /\ m + 1 \in Nat /\ k + 1 \in Nat
  BY PipelineAssumption DEF Mapper
<1>2. /\ Start(m) \in Nat /\ Start(m + 1) \in Nat /\ Start(k) \in Nat /\ Start(k + 1) \in Nat
      /\ m + 1 <= k => Start(m + 1) <= Start(k)
      /\ k + 1 <= m => Start(k + 1) <= Start(m)
  BY <1>1, StartsAscend
<1> QED  BY <1>1, <1>2

LEMMA SharesCover ==
  ASSUME NEW f \in File
  PROVE  \E m \in Mapper : f \in Start(m) .. Start(m + 1) - 1
<1>1. PICK n \in Nat : n = numFileInM  BY Shares
<1>2. PICK r \in 0 .. NumMappers - 1 : r = remainderFile  BY Shares
<1>3. PICK M \in Nat : M = NumMappers /\ M > 0  BY PipelineAssumption
<1>4. NumFiles = n * M + r /\ f \in Nat /\ f < NumFiles
  BY <1>1, <1>2, <1>3, Shares, PipelineAssumption DEF File
<1>5. r \in Nat /\ r < M  BY <1>2, <1>3
<1>6. \A m \in Nat : /\ Start(m) = n * m + IF m < r THEN m ELSE r
                     /\ Start(m + 1) = Start(m) + n + IF m < r THEN 1 ELSE 0
                     /\ Start(m) \in Nat
                     /\ m < M => m \in Mapper
  BY <1>1, <1>2, <1>3, StartsAscend DEF Start, Mapper
<1>7. CASE f < (n + 1) * r
  <2>1. PICK m \in Nat : (n + 1) * m <= f /\ f < (n + 1) * (m + 1)
    <3>1. n + 1 \in Nat /\ n + 1 > 0  OBVIOUS
    <3> QED  BY <1>4, <3>1, Quotient
  <2>2. m < r
    <3>1. SUFFICES ASSUME r <= m PROVE FALSE  BY <1>5
    <3>2. (n + 1) * r <= (n + 1) * m /\ (n + 1) * r \in Nat /\ (n + 1) * m \in Nat
      BY <1>5, <3>1, TimesMonotone
    <3> QED  BY <1>4, <1>7, <2>1, <3>2
  <2>3. /\ n * m \in Nat /\ (n + 1) * m = n * m + m
        /\ (n + 1) * (m + 1) = n * m + m + n + 1
    OBVIOUS
  <2>4. Start(m) = n * m + m /\ Start(m + 1) = n * m + m + n + 1
    BY <1>6, <2>2, <2>3
  <2>5. m \in Mapper  BY <1>5, <1>6, <2>2
  <2>6. f \in Start(m) .. Start(m + 1) - 1  BY <1>4, <2>1, <2>3, <2>4
  <2> QED  BY <2>5, <2>6
<1>8. CASE ~(f < (n + 1) * r)
  <2>1. (n + 1) * r = n * r + r /\ n * r \in Nat  BY <1>5
  <2>2. PICK g \in Nat : f = n * r + r + g  
    <3>1. f - (n * r + r) \in Nat /\ f = n * r + r + (f - (n * r + r))
      BY <1>4, <1>5, <1>8, <2>1
    <3> QED  BY <3>1
  <2>3. n > 0
    <3>1. SUFFICES ASSUME n = 0 PROVE FALSE  OBVIOUS
    <3>2. n * M = 0 /\ n * r = 0  BY <1>3, <1>5, <3>1
    <3> QED  BY <1>4, <1>5, <2>2, <3>2
  <2>4. PICK q \in Nat : n * q <= g /\ g < n * (q + 1)  BY <2>3, Quotient
  <2>5. r + q < M
    <3>1. SUFFICES ASSUME M <= r + q PROVE FALSE  BY <1>3, <1>5
    <3>2. n * M <= n * (r + q) /\ n * M \in Nat  BY <1>3, <1>5, <3>1, TimesMonotone
    <3>3. n * (r + q) = n * r + n * q /\ n * q \in Nat  BY <1>5
    <3> QED  BY <1>4, <1>5, <2>1, <2>2, <2>4, <3>2, <3>3
  <2>6. /\ Start(r + q) = n * r + n * q + r
        /\ Start(r + q + 1) = Start(r + q) + n /\ r + q \in Mapper
    <3>1. r + q \in Nat /\ ~(r + q < r) /\ n * (r + q) = n * r + n * q  BY <1>5
    <3>2. /\ Start(r + q) \in Nat
          /\ Start(r + q) = n * (r + q) + r
          /\ Start((r + q) + 1) = Start(r + q) + n
          /\ r + q \in Mapper
      <4>1. PICK m \in Nat : m = r + q  BY <3>1
      <4>2. ~(m < r) /\ m < M  BY <2>5, <3>1, <4>1
      <4>3. Start(m) \in Nat /\ Start(m) = n * m + r /\ m \in Mapper  BY <1>6, <4>2
      <4>4. Start(m + 1) = Start(m) + n + 0  BY <1>6, <4>2
      <4>5. Start(m + 1) = Start(m) + n  BY <4>3, <4>4
      <4> QED  BY <4>1, <4>3, <4>5
    <3>3. n * r \in Nat /\ n * q \in Nat  BY <1>5
    <3> QED  BY <1>5, <3>1, <3>2, <3>3
  <2>7. n * (q + 1) = n * q + n /\ n * q \in Nat  OBVIOUS
  <2>8. f \in Start(r + q) .. Start(r + q + 1) - 1
    BY <1>4, <1>5, <2>1, <2>2, <2>4, <2>6, <2>7
  <2> QED  BY <2>6, <2>8
<1> QED  BY <1>7, <1>8

\* A share is not cut off at the end of the files.
LEMMA SharesFit ==
  ASSUME NEW m \in Mapper
  PROVE  /\ (Start(m) .. Start(m + 1) - 1) \cap File = Start(m) .. Start(m + 1) - 1
         /\ Cardinality(Start(m) .. Start(m + 1) - 1) \in {numFileInM, numFileInM + 1}
<1>1. m \in Nat /\ NumMappers \in Nat /\ m + 1 <= NumMappers  BY PipelineAssumption DEF Mapper
<1>2. /\ Start(m) \in Nat /\ Start(m + 1) \in Nat /\ Start(m + 1) <= NumFiles
      /\ Start(m + 1) = Start(m) + numFileInM + IF m < remainderFile THEN 1 ELSE 0
  BY <1>1, StartsAscend
<1>3. numFileInM \in Nat  BY Shares
<1>4. Cardinality(Start(m) .. Start(m + 1) - 1) = Start(m + 1) - Start(m)
  <2>1. Start(m) \in Int /\ Start(m + 1) - 1 \in Int  BY <1>2
  <2>2. Cardinality(Start(m) .. Start(m + 1) - 1) =
          IF Start(m) > Start(m + 1) - 1 THEN 0 ELSE Start(m + 1) - 1 - Start(m) + 1
    BY <2>1, FS_Interval
  <2> QED  BY <1>2, <1>3, <2>2
<1> QED  BY <1>2, <1>3, <1>4, PipelineAssumption DEF File
-----------------------------------------------------------------------------
\* The chain of processes, the state of every pipe and the counts of every reducer,
\* for any number of mappers, files and faults.
THEOREM PipelineInvariance == Spec => []PInv
<1>1. PInv /\ [Next]_vars => PInv'
  BY PipelineType, MasterStep, MapperStep, ChainStep, StoreStep DEF PInv
<1> QED  BY <1>1, PipelineInit, PTL DEF Spec

\* The type of mapreduce's state.
THEOREM PipelineTyped == Spec => []TypeOK
<1>1. PInv => TypeOK  BY DEF PInv
<1> QED  BY <1>1, PipelineInvariance, PTL

\* Each reducer of the chain adds the share of every mapper before it once
\* (phase3.c:29-32), for any number of mappers, files and faults.
THEOREM ChainIsExact == Spec => []ChainAddsEveryShare
<1>1. PInv => ChainAddsEveryShare
  <2> SUFFICES ASSUME PInv, NEW m \in Mapper, red[m] \in HasRead, NEW f \in File
               PROVE  store[m][f] =
                        Cardinality({n \in Copies(f) :
                                       n <= m /\ ~NoCounts(n) /\ ~Failed("skip", n)})
    BY DEF ChainAddsEveryShare, HasRead
  <2>1. store[m][f] = Upto(m, f)  BY DEF PInv, StoreInv
  <2>2. {n \in Mapper : n <= m /\ Contributes(n, f)}
          = {n \in Copies(f) : n <= m /\ ~NoCounts(n) /\ ~Failed("skip", n)}
    BY DEF Copies, Contributes
  <2> QED  BY <2>1, <2>2 DEF Upto
<1> QED  BY <1>1, PipelineInvariance, PTL

\* Only the first mapper's share can be missing from a result that is written
\* (phase3.c:28), for any number of mappers, files and faults.
THEOREM OnlyTheFirstIsMissed == Spec => []MissingShareOnlyOfFirst
<1>1. PInv => MissingShareOnlyOfFirst
  BY DEF PInv, ChainInv, MapperInv, MissingShareOnlyOfFirst, Mapper
<1> QED  BY <1>1, PipelineInvariance, PTL

\* While no list fails, mapper m has the files from Start(m) on, and no list is
\* written twice.
THEOREM SharesInvariance == Spec => [](PInv /\ SharesInv)
BY SharesInit, SharesStep, PipelineInvariance, PTL DEF Spec

\* Every file is given to one mapper and the shares differ by one at most, unless
\* a list could not be opened (phase1.c:63-75), for any number of mappers and files.
THEOREM SharesAreEven == Spec => []EvenShares
<1>1. PInv /\ SharesInv => EvenShares
  <2> SUFFICES ASSUME PInv, SharesInv, mpc # "partition" PROVE EvenShares  BY DEF EvenShares
  <2>1. ASSUME NoneShifted, NEW f \in File, Cardinality(Copies(f)) > 1 PROVE FALSE
    <3>1. \A m \in Mapper : f \in list[m] => f \in Start(m) .. Start(m + 1) - 1
      BY <2>1 DEF SharesInv
    <3>2. \A m, k \in Copies(f) : m = k
      <4>1. f \in Int  BY PipelineAssumption DEF File
      <4> QED  BY <3>1, <4>1, SharesApart DEF Copies
    <3>3. Copies(f) = {} \/ \E m : Copies(f) = {m}  BY <3>2
    <3> QED  BY <2>1, <3>3, FS_EmptySet, FS_Singleton
  <2>2. ASSUME \A m \in Mapper : ~Failed("list", m)
        PROVE  /\ \A f \in File : Copies(f) # {}
               /\ \A m \in Mapper : Cardinality(list[m]) \in {numFileInM, numFileInM + 1}
    <3>1. NoneShifted /\ \A m \in Mapper : m \in made
      BY <2>2 DEF NoneShifted, PInv, MasterInv
    <3>2. \A m \in Mapper : list[m] = Start(m) .. Start(m + 1) - 1
      BY <3>1, SharesFit DEF SharesInv
    <3> QED  BY <3>2, SharesFit, SharesCover DEF Copies
  <2> QED  BY <2>1, <2>2 DEF EvenShares, NoneShifted
<1> QED  BY <1>1, SharesInvariance, PTL
=============================================================================
