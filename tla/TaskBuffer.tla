------------------------------ MODULE TaskBuffer ------------------------------
(***************************************************************************)
(* The shared buffer of lab 9 (labs/lab9/template (1).c), where consumers  *)
(* wait on a condition variable, and of lab 11 (semaphore-template.c),     *)
(* where they wait on a semaphore.  Each thread puts, or takes, one value. *)
(***************************************************************************)
EXTENDS Integers

CONSTANTS
  NumTasks,      \* producers, and consumers: 50
  MaxSpurious    \* wakeups without a signal

ASSUME BufferAssumption == NumTasks \in Nat \ {0} /\ MaxSpurious \in Nat

Task == 1 .. NumTasks
Producers == {"producer"} \X Task
Consumers == {"consumer"} \X Task
Threads == Producers \cup Consumers
NoOne == <<"main", 0>>

VARIABLES
  sync,        \* "cond" or "sem"
  vals, index, \* the buffer; index is the next free place
  in,          \* the producers' static counter
  mutex, sem,
  bpc,         \* where each thread is
  added,       \* how often each value went into condTotal or semTotal
  created, joined,   \* main's loop indices
  spurious

queue == <<vals, index, in, added>>
buffer == <<sync, queue, mutex, sem, bpc, created, joined, spurious>>

BufferInit ==
  /\ sync \in {"cond", "sem"}
  /\ vals = [k \in 0 .. NumTasks |-> 0] /\ index = 0 /\ in = 0
  /\ mutex = NoOne /\ sem = 0
  /\ bpc = [t \in Threads |-> "none"]
  /\ added = [n \in Task |-> 0]
  /\ created = 0 /\ joined = 0 /\ spurious = 0

BGoto(t, l) == bpc' = [bpc EXCEPT ![t] = l]

Lock(t, at, to) == bpc[t] = at /\ mutex = NoOne /\ mutex' = t /\ BGoto(t, to)
Unlock(t, to) == bpc[t] = "unlock" /\ mutex' = NoOne /\ BGoto(t, to)

ProducerLocks(p) ==
  /\ p \in Producers /\ Lock(p, "new", "insert")
  /\ UNCHANGED <<sync, queue, sem, created, joined, spurious>>

\* ++in and insert.
Insert(p) ==
  /\ bpc[p] = "insert" /\ in' = in + 1
  /\ vals' = [vals EXCEPT ![index] = in'] /\ index' = index + 1
  /\ BGoto(p, IF sync = "cond" THEN "signal" ELSE "unlock")
  /\ UNCHANGED <<sync, mutex, sem, added, created, joined, spurious>>

Sleepers == {c \in Consumers : bpc[c] = "sleep"}

SignalNobody(p, c) == BGoto(p, "unlock")
Signal(p, c) == bpc' = [bpc EXCEPT ![p] = "unlock", ![c] = "wake"]
SignalOne(p) ==
  /\ bpc[p] = "signal"
  /\ IF Sleepers = {} THEN BGoto(p, "unlock") ELSE \E c \in Sleepers : Signal(p, c)
  /\ UNCHANGED <<sync, queue, mutex, sem, created, joined, spurious>>

ProducerUnlocks(p) ==
  /\ p \in Producers /\ Unlock(p, IF sync = "cond" THEN "exit" ELSE "post")
  /\ UNCHANGED <<sync, queue, sem, created, joined, spurious>>

Post(p) ==
  /\ bpc[p] = "post" /\ sem' = sem + 1 /\ BGoto(p, "exit")
  /\ UNCHANGED <<sync, queue, mutex, created, joined, spurious>>

SemWait(c) ==
  /\ c \in Consumers /\ sync = "sem" /\ bpc[c] = "new"
  /\ sem > 0 /\ sem' = sem - 1 /\ BGoto(c, "lock")
  /\ UNCHANGED <<sync, queue, mutex, created, joined, spurious>>

ConsumerLocks(c) ==
  /\ c \in Consumers
  /\ IF sync = "cond" THEN Lock(c, "new", "test") ELSE Lock(c, "lock", "delete")
  /\ UNCHANGED <<sync, queue, sem, created, joined, spurious>>

\* while (index == 0) pthread_cond_wait(cond, mutex).
TestIndex(c) ==
  /\ bpc[c] = "test"
  /\ IF index = 0 THEN mutex' = NoOne /\ BGoto(c, "sleep")
     ELSE BGoto(c, "delete") /\ UNCHANGED mutex
  /\ UNCHANGED <<sync, queue, sem, created, joined, spurious>>

SpuriousWakeup(c) ==
  /\ bpc[c] = "sleep" /\ spurious < MaxSpurious
  /\ spurious' = spurious + 1 /\ BGoto(c, "wake")
  /\ UNCHANGED <<sync, queue, mutex, sem, created, joined>>

AfterWakeupDelete == "delete"
AfterWakeup == "test"
Relock(c) ==
  /\ Lock(c, "wake", AfterWakeup)
  /\ UNCHANGED <<sync, queue, sem, created, joined, spurious>>

\* delete; below the array there is nothing anybody put.
Delete(c) ==
  /\ bpc[c] = "delete" /\ BGoto(c, "unlock") /\ index' = index - 1
  /\ added' = IF index > 0 THEN [added EXCEPT ![vals[index - 1]] = @ + 1] ELSE added
  /\ UNCHANGED <<sync, vals, in, mutex, sem, created, joined, spurious>>

ConsumerUnlocks(c) ==
  /\ c \in Consumers /\ Unlock(c, "exit")
  /\ UNCHANGED <<sync, queue, sem, created, joined, spurious>>

\* main starts a producer and a consumer in turn, and joins the producers first.
NextCreated ==
  <<IF created % 2 = 0 THEN "producer" ELSE "consumer", created \div 2 + 1>>
MainCreates ==
  /\ created < 2 * NumTasks /\ created' = created + 1 /\ BGoto(NextCreated, "new")
  /\ UNCHANGED <<sync, queue, mutex, sem, joined, spurious>>

NextJoined ==
  IF joined < NumTasks THEN <<"producer", joined + 1>>
  ELSE <<"consumer", joined + 1 - NumTasks>>
MainJoins ==
  /\ created = 2 * NumTasks /\ joined < 2 * NumTasks
  /\ bpc[NextJoined] = "exit" /\ joined' = joined + 1
  /\ UNCHANGED <<sync, queue, mutex, sem, bpc, created, spurious>>

BufferMain == MainCreates \/ MainJoins
BufferThread(t) ==
  \/ ProducerLocks(t) \/ Insert(t) \/ SignalOne(t) \/ ProducerUnlocks(t) \/ Post(t)
  \/ SemWait(t) \/ ConsumerLocks(t) \/ TestIndex(t) \/ Relock(t) \/ Delete(t)
  \/ ConsumerUnlocks(t)

BufferNext == BufferMain \/ \E t \in Threads : BufferThread(t) \/ SpuriousWakeup(t)

BufferSpec == BufferInit /\ [][BufferNext]_buffer
-----------------------------------------------------------------------------
\* Labs 9 and 11 keep the pool's promise: no value is taken before it was put,
\* twice, or from below the buffer, and main prints after all were taken, though
\* a signal may wake a consumer whose value another takes first.
Pool == INSTANCE TaskPool WITH
  put <- in, took <- added, printed <- joined = 2 * NumTasks

ImplementsPool == Pool!PoolSpec

\* Once main has made the threads all of them end, so that no wakeup is lost.
ThreadsJoin == created > 0 ~> joined = 2 * NumTasks
=============================================================================
