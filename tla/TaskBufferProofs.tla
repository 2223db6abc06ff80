--------------------------- MODULE TaskBufferProofs ---------------------------
(***************************************************************************)
(* The buffers of labs 9 and 11 implement the pool for any number of       *)
(* producers and consumers and of wakeups nobody signalled.  What the      *)
(* buffer holds is what was put and not yet taken; index is the difference *)
(* of two numbers of threads; and for the semaphore a consumer that has    *)
(* passed sem_wait stands for a value in the buffer.                       *)
(***************************************************************************)
EXTENDS TaskBuffer, FiniteSetTheorems, TLAPS

\* The threads of X that are at one of the places Q.
In(X, Q) == {t \in X : bpc[t] \in Q}
HowMany(X, Q) == Cardinality(In(X, Q))

Inserted == {"signal", "unlock", "post", "exit"}     \* a producer's places
Deleted == {"unlock", "exit"}                          \* a consumer's
Holding == {"insert", "signal", "unlock", "test", "delete"}

ProducerPlaces ==
  {"none", "new", "insert", "unlock", "exit"}
    \cup IF sync = "cond" THEN {"signal"} ELSE {"post"}
ConsumerPlaces ==
  {"none", "new", "delete", "unlock", "exit"}
    \cup IF sync = "cond" THEN {"test", "sleep", "wake"} ELSE {"lock"}

BufferTypeOK ==
  /\ sync \in {"cond", "sem"}
  /\ vals \in [0 .. NumTasks -> 0 .. NumTasks]
  /\ index \in Nat /\ in \in 0 .. NumTasks
  /\ mutex \in Threads \cup {NoOne} /\ sem \in Nat
  /\ bpc \in [Threads -> ProducerPlaces \cup ConsumerPlaces]
  /\ \A p \in Producers : bpc[p] \in ProducerPlaces
  /\ \A c \in Consumers : bpc[c] \in ConsumerPlaces
  /\ added \in [Task -> {0, 1}]
  /\ created \in 0 .. 2 * NumTasks /\ joined \in 0 .. 2 * NumTasks

\* Who is between lock and unlock holds the mutex, and nobody else does.
MutexInv == \A t \in Threads : bpc[t] \in Holding <=> mutex = t

\* The threads main has not made yet, and those it has joined.
MainInv ==
  /\ \A n \in Task :
       /\ 2 * (n - 1) >= created => bpc[<<"producer", n>>] = "none"
       /\ 2 * (n - 1) + 1 >= created => bpc[<<"consumer", n>>] = "none"
       /\ n <= joined => bpc[<<"producer", n>>] = "exit"
       /\ n <= joined - NumTasks => bpc[<<"consumer", n>>] = "exit"

\* What was put, what is left of it, and what the semaphore says of that.
CountInv ==
  /\ in = HowMany(Producers, Inserted)
  /\ index = in - HowMany(Consumers, Deleted)
  /\ sync = "sem" =>
       index = sem + HowMany(Consumers, {"lock", "delete"})
                   + HowMany(Producers, {"unlock", "post"})
  /\ sync = "cond" => \A c \in Consumers : bpc[c] = "delete" => index > 0

\* The values in the buffer are those that were put and not yet taken.
ValuesInv ==
  /\ \A k \in 0 .. index - 1 : vals[k] \in 1 .. in /\ added[vals[k]] = 0
  /\ \A j, k \in 0 .. index - 1 : vals[j] = vals[k] => j = k
  /\ \A n \in Task : added[n] = 0 /\ n <= in => \E k \in 0 .. index - 1 : vals[k] = n
  /\ \A n \in Task : n > in => added[n] = 0

BInv == BufferTypeOK /\ MutexInv /\ MainInv /\ CountInv /\ ValuesInv
-----------------------------------------------------------------------------
LEMMA ThreadSets ==
  /\ IsFiniteSet(Producers) /\ Cardinality(Producers) = NumTasks
  /\ IsFiniteSet(Consumers) /\ Cardinality(Consumers) = NumTasks
  /\ Producers \cap Consumers = {} /\ NoOne \notin Threads
<1>1. IsFiniteSet(Task) /\ Cardinality(Task) = NumTasks
  BY FS_Interval, BufferAssumption DEF Task
<1>2. /\ IsFiniteSet({"producer"}) /\ Cardinality({"producer"}) = 1
      /\ IsFiniteSet({"consumer"}) /\ Cardinality({"consumer"}) = 1
  BY FS_Singleton
<1>3. 1 * NumTasks = NumTasks  BY BufferAssumption
<1>4. /\ IsFiniteSet(Producers) /\ Cardinality(Producers) = NumTasks
      /\ IsFiniteSet(Consumers) /\ Cardinality(Consumers) = NumTasks
  BY <1>1, <1>2, <1>3, FS_Product DEF Producers, Consumers
<1>5. Producers \cap Consumers = {} /\ NoOne \notin Threads
  BY DEF Producers, Consumers, Threads, NoOne
<1> QED  BY <1>4, <1>5

\* How many threads there are at some places is a number, and changes by the one
\* that moves.
LEMMA HowManyIsNat ==
  ASSUME NEW X, IsFiniteSet(X), NEW Q
  PROVE  IsFiniteSet(In(X, Q)) /\ HowMany(X, Q) \in Nat /\ HowMany(X, Q) <= Cardinality(X)
<1>1. In(X, Q) \subseteq X  BY DEF In
<1> QED  BY <1>1, FS_Subset, FS_CardinalityType DEF HowMany

LEMMA OneMoves ==
  ASSUME NEW CONSTANT X, IsFiniteSet(X), NEW CONSTANT Q, NEW CONSTANT t,
         \A u \in X \ {t} : bpc'[u] \in Q <=> bpc[u] \in Q
  PROVE  HowMany(X, Q)' = HowMany(X, Q)
                          + (IF t \in X /\ bpc'[t] \in Q THEN 1 ELSE 0)
                          - (IF t \in X /\ bpc[t] \in Q THEN 1 ELSE 0)
<1>1. IsFiniteSet(In(X, Q)) /\ HowMany(X, Q) \in Nat  BY HowManyIsNat
<1>2. CASE t \in X /\ bpc'[t] \in Q /\ ~(bpc[t] \in Q)
  <2>1. In(X, Q)' = In(X, Q) \cup {t} /\ t \notin In(X, Q)  BY <1>2 DEF In
  <2>2. HowMany(X, Q)' = HowMany(X, Q) + 1  BY <1>1, <2>1, FS_AddElement DEF HowMany
  <2> QED  BY <1>1, <1>2, <2>2
<1>3. CASE t \in X /\ ~(bpc'[t] \in Q) /\ bpc[t] \in Q
  <2>1. In(X, Q)' = In(X, Q) \ {t} /\ t \in In(X, Q)  BY <1>3 DEF In
  <2>2. HowMany(X, Q)' = HowMany(X, Q) - 1  BY <1>1, <2>1, FS_RemoveElement DEF HowMany
  <2> QED  BY <1>1, <1>3, <2>2
<1>4. CASE t \notin X \/ (bpc'[t] \in Q <=> bpc[t] \in Q)
  <2>1. In(X, Q)' = In(X, Q)  BY <1>4 DEF In
  <2>2. HowMany(X, Q)' = HowMany(X, Q)  BY <2>1 DEF HowMany
  <2> QED  BY <1>1, <1>4, <2>2
<1> QED  BY <1>2, <1>3, <1>4

\* A producer about to insert finds a place in the array.
LEMMA RoomLeft ==
  ASSUME BInv, NEW p \in Threads, bpc[p] = "insert"
  PROVE  p \in Producers /\ in < NumTasks /\ index <= in
<1>1. p \in Producers
  BY DEF BInv, BufferTypeOK, ConsumerPlaces, Threads
<1>2. /\ in = HowMany(Producers, Inserted) /\ in \in Nat
      /\ index = in - HowMany(Consumers, Deleted)
  BY DEF BInv, BufferTypeOK, CountInv
<1>3. HowMany(Consumers, Deleted) \in Nat  BY HowManyIsNat, ThreadSets
<1>4. In(Producers, Inserted) \subseteq Producers \ {p}  BY DEF In, Inserted
<1>5. IsFiniteSet(Producers \ {p}) /\ Cardinality(Producers \ {p}) = NumTasks - 1
  BY <1>1, ThreadSets, FS_RemoveElement
<1>6. HowMany(Producers, Inserted) <= NumTasks - 1
  BY <1>4, <1>5, FS_Subset DEF HowMany
<1> QED  BY <1>1, <1>2, <1>3, <1>6, BufferAssumption

\* A consumer about to delete finds a value.
LEMMA SomethingThere ==
  ASSUME BInv, NEW c \in Threads, bpc[c] = "delete"
  PROVE  /\ c \in Consumers /\ index > 0
         /\ vals[index - 1] \in Task /\ added[vals[index - 1]] = 0
<1> SUFFICES c \in Consumers /\ index > 0
  <2>1. index \in Nat /\ in \in 0 .. NumTasks /\ ValuesInv  BY DEF BInv, BufferTypeOK
  <2>2. ASSUME index > 0
        PROVE  vals[index - 1] \in Task /\ added[vals[index - 1]] = 0
    <3>1. index - 1 \in 0 .. index - 1  BY <2>1, <2>2
    <3>2. vals[index - 1] \in 1 .. in /\ added[vals[index - 1]] = 0
      BY <2>1, <3>1 DEF ValuesInv
    <3> QED  BY <2>1, <3>2, BufferAssumption DEF Task
  <2> QED  BY <2>2
<1>1. c \in Consumers
  BY DEF BInv, BufferTypeOK, ProducerPlaces, Threads
<1>2. CASE sync = "sem"
  <2>1. /\ index = sem + HowMany(Consumers, {"lock", "delete"})
                     + HowMany(Producers, {"unlock", "post"})
        /\ sem \in Nat
    BY <1>2 DEF BInv, CountInv, BufferTypeOK
  <2>2. /\ IsFiniteSet(In(Consumers, {"lock", "delete"}))
        /\ HowMany(Consumers, {"lock", "delete"}) \in Nat
        /\ HowMany(Producers, {"unlock", "post"}) \in Nat
    BY HowManyIsNat, ThreadSets
  <2>3. c \in In(Consumers, {"lock", "delete"})  BY <1>1 DEF In
  <2>4. HowMany(Consumers, {"lock", "delete"}) # 0
    BY <2>2, <2>3, FS_EmptySet DEF HowMany
  <2> QED  BY <1>1, <2>1, <2>2, <2>4
<1>3. CASE sync = "cond"  BY <1>1, <1>3 DEF BInv, CountInv
<1> QED  BY <1>2, <1>3 DEF BInv, BufferTypeOK
-----------------------------------------------------------------------------
LEMMA BufferInitInv == BufferInit => BInv
<1> SUFFICES ASSUME BufferInit PROVE BInv  OBVIOUS
<1> USE BufferAssumption DEF BufferInit
<1>1. BufferTypeOK
  BY DEF BufferTypeOK, ProducerPlaces, ConsumerPlaces, Threads
<1>2. MutexInv  BY ThreadSets DEF MutexInv, Holding
<1>3. MainInv  BY DEF MainInv, Threads, Producers, Consumers, Task
<1>4. CountInv
  <2>1. /\ In(Producers, Inserted) = {} /\ In(Consumers, Deleted) = {}
        /\ In(Consumers, {"lock", "delete"}) = {} /\ In(Producers, {"unlock", "post"}) = {}
    BY DEF In, Inserted, Deleted, Threads
  <2>2. \A c \in Consumers : bpc[c] # "delete"  BY DEF Threads
  <2>3. /\ HowMany(Producers, Inserted) = 0 /\ HowMany(Consumers, Deleted) = 0
        /\ HowMany(Consumers, {"lock", "delete"}) = 0
        /\ HowMany(Producers, {"unlock", "post"}) = 0
    BY <2>1, FS_EmptySet DEF HowMany
  <2> QED  BY <2>2, <2>3 DEF CountInv
<1>5. ValuesInv  BY DEF ValuesInv, Task
<1> QED  BY <1>1, <1>2, <1>3, <1>4, <1>5 DEF BInv

\* main makes a thread that is not there yet.
LEMMA NextIsNew ==
  ASSUME BInv, MainCreates
  PROVE  NextCreated \in Threads /\ bpc[NextCreated] = "none"
<1>1. created \in Nat /\ created < 2 * NumTasks /\ NumTasks \in Nat
  BY BufferAssumption DEF BInv, BufferTypeOK, MainCreates
<1>2. PICK n \in Task : n = created \div 2 + 1 /\ 2 * (n - 1) + (created % 2) = created
  BY <1>1 DEF Task
<1>3. CASE created % 2 = 0
  <2>1. NextCreated = <<"producer", n>>  BY <1>2, <1>3 DEF NextCreated
  <2>2. 2 * (n - 1) >= created  BY <1>1, <1>2, <1>3 DEF Task
  <2>3. bpc[<<"producer", n>>] = "none"  BY <2>2 DEF BInv, MainInv
  <2> QED  BY <2>1, <2>3 DEF Threads, Producers
<1>4. CASE created % 2 # 0
  <2>1. NextCreated = <<"consumer", n>>  BY <1>2, <1>4 DEF NextCreated
  <2>2. 2 * (n - 1) + 1 >= created  BY <1>1, <1>2, <1>4 DEF Task
  <2>3. bpc[<<"consumer", n>>] = "none"  BY <2>2 DEF BInv, MainInv
  <2> QED  BY <2>1, <2>3 DEF Threads, Consumers
<1> QED  BY <1>3, <1>4

LEMMA TypeStep == BInv /\ [BufferNext]_buffer => BufferTypeOK'
<1> SUFFICES ASSUME BInv, [BufferNext]_buffer PROVE BufferTypeOK'  OBVIOUS
<1> USE BufferAssumption, ThreadSets
    DEF BInv, BufferTypeOK, queue, BGoto, Lock, Unlock, ProducerPlaces, ConsumerPlaces,
        Threads
<1>1. ASSUME NEW p \in Threads, ProducerLocks(p) PROVE BufferTypeOK'
  BY <1>1 DEF ProducerLocks
<1>2. ASSUME NEW p \in Threads, Insert(p) PROVE BufferTypeOK'
  <2>1. p \in Producers /\ in < NumTasks  BY <1>2, RoomLeft DEF Insert
  <2>2. in' \in 0 .. NumTasks /\ vals' = [vals EXCEPT ![index] = in']
    BY <1>2, <2>1 DEF Insert
  <2>3. vals' \in [0 .. NumTasks -> 0 .. NumTasks]  BY <2>2
  <2>4. /\ bpc' \in [Threads -> ProducerPlaces \cup ConsumerPlaces]
        /\ \A q \in Producers : bpc'[q] \in ProducerPlaces
        /\ \A c \in Consumers : bpc'[c] \in ConsumerPlaces
        /\ UNCHANGED <<ProducerPlaces, ConsumerPlaces>>
    BY <1>2, <2>1 DEF Insert
  <2>5. /\ sync' \in {"cond", "sem"} /\ index' \in Nat
        /\ mutex' \in Threads \cup {NoOne} /\ sem' \in Nat
        /\ added' \in [Task -> {0, 1}]
        /\ created' \in 0 .. 2 * NumTasks /\ joined' \in 0 .. 2 * NumTasks
    BY <1>2 DEF Insert
  <2> QED  BY <2>2, <2>3, <2>4, <2>5
<1>3. ASSUME NEW p \in Threads, SignalOne(p) PROVE BufferTypeOK'
  <2>1. p \in Producers  BY <1>3 DEF SignalOne
  <2> QED  BY <1>3, <2>1 DEF SignalOne, Signal, Sleepers
<1>4. ASSUME NEW p \in Threads, ProducerUnlocks(p) PROVE BufferTypeOK'
  BY <1>4 DEF ProducerUnlocks
<1>5. ASSUME NEW p \in Threads, Post(p) PROVE BufferTypeOK'  BY <1>5 DEF Post
<1>6. ASSUME NEW c \in Threads, SemWait(c) PROVE BufferTypeOK'  BY <1>6 DEF SemWait
<1>7. ASSUME NEW c \in Threads, ConsumerLocks(c) PROVE BufferTypeOK'
  BY <1>7 DEF ConsumerLocks
<1>8. ASSUME NEW c \in Threads, TestIndex(c) PROVE BufferTypeOK'
  <2>1. c \in Consumers /\ sync = "cond"  BY <1>8 DEF TestIndex
  <2> QED  BY <1>8, <2>1 DEF TestIndex
<1>9. ASSUME NEW c \in Threads, Relock(c) PROVE BufferTypeOK'
  BY <1>9 DEF Relock, AfterWakeup
<1>10. ASSUME NEW c \in Threads, Delete(c) PROVE BufferTypeOK'
  <2>1. /\ c \in Consumers /\ index > 0
        /\ vals[index - 1] \in Task /\ added[vals[index - 1]] = 0
    BY <1>10, SomethingThere DEF Delete
  <2>2. added' = [added EXCEPT ![vals[index - 1]] = @ + 1]  BY <1>10, <2>1 DEF Delete
  <2>3. added' \in [Task -> {0, 1}]  BY <2>1, <2>2
  <2>4. /\ bpc' \in [Threads -> ProducerPlaces \cup ConsumerPlaces]
        /\ \A p \in Producers : bpc'[p] \in ProducerPlaces
        /\ \A d \in Consumers : bpc'[d] \in ConsumerPlaces
        /\ UNCHANGED <<ProducerPlaces, ConsumerPlaces>>
    BY <1>10, <2>1 DEF Delete
  <2>5. index' \in Nat  BY <1>10, <2>1 DEF Delete
  <2> QED  BY <1>10, <2>3, <2>4, <2>5 DEF Delete
<1>11. ASSUME NEW c \in Threads, ConsumerUnlocks(c) PROVE BufferTypeOK'
  BY <1>11 DEF ConsumerUnlocks
<1>12. ASSUME NEW c \in Threads, SpuriousWakeup(c) PROVE BufferTypeOK'
  BY <1>12 DEF SpuriousWakeup
<1>13. CASE MainCreates
  <2>1. NextCreated \in Threads /\ bpc[NextCreated] = "none"  BY <1>13, NextIsNew
  <2> QED  BY <1>13, <2>1 DEF MainCreates
<1>14. CASE MainJoins  BY <1>14 DEF MainJoins
<1>15. CASE UNCHANGED buffer  BY <1>15 DEF buffer
<1> QED
  BY <1>1, <1>2, <1>3, <1>4, <1>5, <1>6, <1>7, <1>8, <1>9, <1>10, <1>11, <1>12, <1>13,
     <1>14, <1>15 DEF BufferNext, BufferMain, BufferThread
-----------------------------------------------------------------------------
LEMMA MutexStep == BInv /\ [BufferNext]_buffer => MutexInv'
<1> SUFFICES ASSUME BufferTypeOK, MutexInv, BInv, [BufferNext]_buffer PROVE MutexInv'
  BY DEF BInv
<1> USE ThreadSets DEF MutexInv, Holding, BGoto, Lock, Unlock
<1>0. bpc \in [Threads -> ProducerPlaces \cup ConsumerPlaces]  BY DEF BufferTypeOK
<1>1. ASSUME NEW p \in Threads, ProducerLocks(p) PROVE MutexInv'
  BY <1>0, <1>1 DEF ProducerLocks
<1>2. ASSUME NEW p \in Threads, Insert(p) PROVE MutexInv'  BY <1>0, <1>2 DEF Insert
<1>3. ASSUME NEW p \in Threads, SignalOne(p) PROVE MutexInv'
  <2>1. Sleepers \subseteq Threads /\ \A c \in Sleepers : bpc[c] = "sleep"
    BY DEF Sleepers, Threads
  <2> QED  BY <1>0, <1>3, <2>1 DEF SignalOne, Signal
<1>4. ASSUME NEW p \in Threads, ProducerUnlocks(p) PROVE MutexInv'
  BY <1>0, <1>4 DEF ProducerUnlocks
<1>5. ASSUME NEW p \in Threads, Post(p) PROVE MutexInv'  BY <1>0, <1>5 DEF Post
<1>6. ASSUME NEW c \in Threads, SemWait(c) PROVE MutexInv'  BY <1>0, <1>6 DEF SemWait
<1>7. ASSUME NEW c \in Threads, ConsumerLocks(c) PROVE MutexInv'
  BY <1>0, <1>7 DEF ConsumerLocks
<1>8. ASSUME NEW c \in Threads, TestIndex(c) PROVE MutexInv'
  BY <1>0, <1>8 DEF TestIndex
<1>9. ASSUME NEW c \in Threads, Relock(c) PROVE MutexInv'
  BY <1>0, <1>9 DEF Relock, AfterWakeup
<1>10. ASSUME NEW c \in Threads, Delete(c) PROVE MutexInv'  BY <1>0, <1>10 DEF Delete
<1>11. ASSUME NEW c \in Threads, ConsumerUnlocks(c) PROVE MutexInv'
  BY <1>0, <1>11 DEF ConsumerUnlocks
<1>12. ASSUME NEW c \in Threads, SpuriousWakeup(c) PROVE MutexInv'
  BY <1>0, <1>12 DEF SpuriousWakeup
<1>13. CASE MainCreates
  <2>1. NextCreated \in Threads /\ bpc[NextCreated] = "none"  BY <1>13, NextIsNew
  <2> QED  BY <1>0, <1>13, <2>1 DEF MainCreates
<1>14. CASE MainJoins  BY <1>14 DEF MainJoins
<1>15. CASE UNCHANGED buffer  BY <1>15 DEF buffer
<1> QED
  BY <1>1, <1>2, <1>3, <1>4, <1>5, <1>6, <1>7, <1>8, <1>9, <1>10, <1>11, <1>12, <1>13,
     <1>14, <1>15 DEF BufferNext, BufferMain, BufferThread

\* No thread wakes before it is made, and none goes on after it has ended.
LEMMA ThreadsOwnSteps ==
  ASSUME BInv, NEW t \in Threads, BufferThread(t) \/ SpuriousWakeup(t)
  PROVE  /\ \A u \in Threads :
              /\ bpc[u] = "none" => bpc'[u] = "none"
              /\ bpc[u] = "exit" => bpc'[u] = "exit"
         /\ UNCHANGED <<created, joined>>
<1> USE DEF BGoto, Lock, Unlock
<1>0. bpc \in [Threads -> ProducerPlaces \cup ConsumerPlaces]  BY DEF BInv, BufferTypeOK
<1>1. CASE SignalOne(t)
  <2>1. \A c \in Sleepers : bpc[c] = "sleep"  BY DEF Sleepers
  <2> QED  BY <1>0, <1>1, <2>1 DEF SignalOne, Signal
<1>2. CASE ProducerLocks(t) \/ Insert(t) \/ ProducerUnlocks(t) \/ Post(t)
  BY <1>0, <1>2 DEF ProducerLocks, Insert, ProducerUnlocks, Post
<1>3. CASE SemWait(t) \/ ConsumerLocks(t) \/ TestIndex(t) \/ Relock(t)
  BY <1>0, <1>3 DEF SemWait, ConsumerLocks, TestIndex, Relock
<1>4. CASE Delete(t) \/ ConsumerUnlocks(t) \/ SpuriousWakeup(t)
  BY <1>0, <1>4 DEF Delete, ConsumerUnlocks, SpuriousWakeup
<1> QED  BY <1>1, <1>2, <1>3, <1>4 DEF BufferThread

LEMMA MainStep == BInv /\ [BufferNext]_buffer => MainInv'
<1> SUFFICES ASSUME BInv, [BufferNext]_buffer, NEW n \in Task
             PROVE  /\ 2 * (n - 1) >= created' => bpc'[<<"producer", n>>] = "none"
                    /\ 2 * (n - 1) + 1 >= created' => bpc'[<<"consumer", n>>] = "none"
                    /\ n <= joined' => bpc'[<<"producer", n>>] = "exit"
                    /\ n <= joined' - NumTasks => bpc'[<<"consumer", n>>] = "exit"
  BY DEF MainInv
<1>0. /\ <<"producer", n>> \in Threads /\ <<"consumer", n>> \in Threads
      /\ bpc \in [Threads -> ProducerPlaces \cup ConsumerPlaces]
      /\ created \in Nat /\ joined \in Nat /\ n \in Nat /\ NumTasks \in Nat
      /\ 2 * (n - 1) >= created => bpc[<<"producer", n>>] = "none"
      /\ 2 * (n - 1) + 1 >= created => bpc[<<"consumer", n>>] = "none"
      /\ n <= joined => bpc[<<"producer", n>>] = "exit"
      /\ n <= joined - NumTasks => bpc[<<"consumer", n>>] = "exit"
  <2>1. <<"producer", n>> \in Threads /\ <<"consumer", n>> \in Threads
    BY DEF Threads, Producers, Consumers
  <2>2. MainInv  BY DEF BInv
  <2>3. BufferTypeOK  BY DEF BInv
  <2>4. n \in Nat  BY DEF Task
  <2>5. NumTasks \in Nat  BY BufferAssumption
  <2> QED  BY <2>1, <2>2, <2>3, <2>4, <2>5 DEF MainInv, BufferTypeOK
<1>1. ASSUME NEW t \in Threads, BufferThread(t) \/ SpuriousWakeup(t)
      PROVE  /\ \A u \in Threads :
                  /\ bpc[u] = "none" => bpc'[u] = "none"
                  /\ bpc[u] = "exit" => bpc'[u] = "exit"
             /\ UNCHANGED <<created, joined>>
  BY <1>1, ThreadsOwnSteps
<1>2. CASE \E t \in Threads : BufferThread(t) \/ SpuriousWakeup(t)
  BY <1>0, <1>1, <1>2
<1>3. CASE MainCreates
  <2>1. /\ NextCreated \in Threads /\ bpc[NextCreated] = "none"
        /\ created' = created + 1 /\ joined' = joined
        /\ bpc' = [bpc EXCEPT ![NextCreated] = "new"]
    BY <1>3, NextIsNew DEF MainCreates, BGoto
  <2>2. 2 * (n - 1) >= created' => NextCreated # <<"producer", n>>
    BY <1>0, <2>1 DEF NextCreated
  <2>3. 2 * (n - 1) + 1 >= created' => NextCreated # <<"consumer", n>>
    BY <1>0, <2>1 DEF NextCreated
  <2> QED  BY <1>0, <2>1, <2>2, <2>3
<1>4. CASE MainJoins
  <2>1. /\ bpc[NextJoined] = "exit" /\ joined' = joined + 1
        /\ UNCHANGED <<bpc, created>>
    BY <1>4 DEF MainJoins
  <2>2. n = joined + 1 => NextJoined = <<"producer", n>>
    BY <1>0 DEF NextJoined, Task
  <2>3. n = joined + 1 - NumTasks => NextJoined = <<"consumer", n>>
    BY <1>0 DEF NextJoined, Task
  <2> QED  BY <1>0, <2>1, <2>2, <2>3
<1>5. CASE UNCHANGED buffer  BY <1>0, <1>5 DEF buffer
<1> QED  BY <1>2, <1>3, <1>4, <1>5 DEF BufferNext, BufferMain
-----------------------------------------------------------------------------
\* What the four numbers become when thread t moves; waking changes none of them.
LEMMA NumbersMove ==
  ASSUME NEW CONSTANT t \in Threads,
         \A u \in Threads \ {t} :
           bpc'[u] = bpc[u] \/ (bpc[u] = "sleep" /\ bpc'[u] = "wake")
  PROVE  /\ HowMany(Producers, Inserted)' = HowMany(Producers, Inserted)
              + (IF t \in Producers /\ bpc'[t] \in Inserted THEN 1 ELSE 0)
              - (IF t \in Producers /\ bpc[t] \in Inserted THEN 1 ELSE 0)
         /\ HowMany(Consumers, Deleted)' = HowMany(Consumers, Deleted)
              + (IF t \in Consumers /\ bpc'[t] \in Deleted THEN 1 ELSE 0)
              - (IF t \in Consumers /\ bpc[t] \in Deleted THEN 1 ELSE 0)
         /\ HowMany(Consumers, {"lock", "delete"})' = HowMany(Consumers, {"lock", "delete"})
              + (IF t \in Consumers /\ bpc'[t] \in {"lock", "delete"} THEN 1 ELSE 0)
              - (IF t \in Consumers /\ bpc[t] \in {"lock", "delete"} THEN 1 ELSE 0)
         /\ HowMany(Producers, {"unlock", "post"})' = HowMany(Producers, {"unlock", "post"})
              + (IF t \in Producers /\ bpc'[t] \in {"unlock", "post"} THEN 1 ELSE 0)
              - (IF t \in Producers /\ bpc[t] \in {"unlock", "post"} THEN 1 ELSE 0)
<1>1. Producers \subseteq Threads /\ Consumers \subseteq Threads  BY DEF Threads
<1>2. \A u \in Producers \ {t} : bpc'[u] \in Inserted <=> bpc[u] \in Inserted
  BY <1>1 DEF Inserted
<1>3. \A u \in Consumers \ {t} : bpc'[u] \in Deleted <=> bpc[u] \in Deleted
  BY <1>1 DEF Deleted
<1>4. \A u \in Consumers \ {t} : bpc'[u] \in {"lock", "delete"} <=> bpc[u] \in {"lock", "delete"}
  BY <1>1
<1>5. \A u \in Producers \ {t} : bpc'[u] \in {"unlock", "post"} <=> bpc[u] \in {"unlock", "post"}
  BY <1>1
<1> QED  BY <1>2, <1>3, <1>4, <1>5, OneMoves, ThreadSets

LEMMA NumbersAre ==
  /\ HowMany(Producers, Inserted) \in Nat /\ HowMany(Consumers, Deleted) \in Nat
  /\ HowMany(Consumers, {"lock", "delete"}) \in Nat
  /\ HowMany(Producers, {"unlock", "post"}) \in Nat
BY HowManyIsNat, ThreadSets

LEMMA CountStep == BInv /\ [BufferNext]_buffer => CountInv'
<1> SUFFICES ASSUME BInv, [BufferNext]_buffer PROVE CountInv'  OBVIOUS
<1>0. /\ CountInv /\ MutexInv
      /\ bpc \in [Threads -> ProducerPlaces \cup ConsumerPlaces]
      /\ \A p \in Producers : bpc[p] \in ProducerPlaces
      /\ \A c \in Consumers : bpc[c] \in ConsumerPlaces
      /\ Producers \subseteq Threads /\ Consumers \subseteq Threads
      /\ Threads = Producers \cup Consumers /\ Producers \cap Consumers = {}
      /\ index \in Nat /\ in \in Nat /\ sem \in Nat /\ sync \in {"cond", "sem"}
  BY ThreadSets DEF BInv, BufferTypeOK, Threads
<1> USE <1>0, NumbersAre DEF CountInv, BGoto, Lock, Unlock, queue, Inserted, Deleted
<1>1. ASSUME NEW p \in Threads, ProducerLocks(p) PROVE CountInv'
  BY <1>1, NumbersMove DEF ProducerLocks
<1>2. ASSUME NEW p \in Threads, Insert(p) PROVE CountInv'
  <2>1. p \in Producers /\ p \notin Consumers  BY <1>2, RoomLeft DEF Insert
  <2> QED  BY <1>2, <2>1, NumbersMove DEF Insert
<1>3. ASSUME NEW p \in Threads, SignalOne(p) PROVE CountInv'
  <2>1. p \in Producers /\ p \notin Consumers /\ sync = "cond"
    BY <1>3 DEF SignalOne, ProducerPlaces, ConsumerPlaces
  <2>2. \A u \in Threads \ {p} :
          bpc'[u] = bpc[u] \/ (bpc[u] = "sleep" /\ bpc'[u] = "wake")
    BY <1>3 DEF SignalOne, Signal, Sleepers
  <2>3. bpc'[p] = "unlock"  BY <1>3, <2>1 DEF SignalOne, Signal, Sleepers
  <2>4. /\ HowMany(Producers, Inserted)' = HowMany(Producers, Inserted)
        /\ HowMany(Consumers, Deleted)' = HowMany(Consumers, Deleted)
    BY <1>3, <2>1, <2>2, <2>3, NumbersMove DEF SignalOne
  <2>5. \A c \in Consumers : bpc'[c] = "delete" => bpc[c] = "delete"
    BY <2>1, <2>2
  <2>6. UNCHANGED <<sync, in, index>>  BY <1>3 DEF SignalOne
  <2> QED  BY <2>1, <2>4, <2>5, <2>6
<1>4. ASSUME NEW p \in Threads, ProducerUnlocks(p) PROVE CountInv'
  BY <1>4, NumbersMove DEF ProducerUnlocks
<1>5. ASSUME NEW p \in Threads, Post(p) PROVE CountInv'
  <2>1. p \in Producers /\ p \notin Consumers
    BY <1>5 DEF Post, ConsumerPlaces
  <2> QED  BY <1>5, <2>1, NumbersMove DEF Post
<1>6. ASSUME NEW c \in Threads, SemWait(c) PROVE CountInv'
  BY <1>6, NumbersMove DEF SemWait
<1>7. ASSUME NEW c \in Threads, ConsumerLocks(c) PROVE CountInv'
  BY <1>7, NumbersMove DEF ConsumerLocks
<1>8. ASSUME NEW c \in Threads, TestIndex(c) PROVE CountInv'
  <2>1. c \in Consumers /\ c \notin Producers /\ sync = "cond" /\ bpc[c] = "test"
    BY <1>8 DEF TestIndex, ProducerPlaces, ConsumerPlaces
  <2>2. UNCHANGED <<sync, in, index>>  BY <1>8 DEF TestIndex
  <2>3. CASE index = 0
    <3>1. bpc' = [bpc EXCEPT ![c] = "sleep"]  BY <1>8, <2>3 DEF TestIndex
    <3>2. HowMany(Producers, Inserted)' = HowMany(Producers, Inserted)
      BY <2>1, <3>1, NumbersMove
    <3>3. HowMany(Consumers, Deleted)' = HowMany(Consumers, Deleted)
      <4>1. bpc[c] \notin Deleted /\ bpc'[c] \notin Deleted  BY <2>1, <3>1
      <4>2. \A u \in Threads \ {c} : bpc'[u] = bpc[u]  BY <3>1
      <4> QED  BY <4>1, <4>2, NumbersMove
    <3> QED  BY <2>1, <2>2, <3>1, <3>2, <3>3
  <2>4. CASE index # 0
    <3>1. bpc' = [bpc EXCEPT ![c] = "delete"]  BY <1>8, <2>4 DEF TestIndex
    <3>2. HowMany(Producers, Inserted)' = HowMany(Producers, Inserted)
      BY <2>1, <3>1, NumbersMove
    <3>3. HowMany(Consumers, Deleted)' = HowMany(Consumers, Deleted)
      <4>1. bpc[c] \notin Deleted /\ bpc'[c] \notin Deleted  BY <2>1, <3>1
      <4>2. \A u \in Threads \ {c} : bpc'[u] = bpc[u]  BY <3>1
      <4> QED  BY <4>1, <4>2, NumbersMove
    <3> QED  BY <2>1, <2>2, <2>4, <3>1, <3>2, <3>3
  <2> QED  BY <2>3, <2>4
<1>9. ASSUME NEW c \in Threads, Relock(c) PROVE CountInv'
  <2>1. c \in Consumers /\ c \notin Producers
    BY <1>9 DEF Relock, ProducerPlaces
  <2> QED  BY <1>9, <2>1, NumbersMove DEF Relock, AfterWakeup
<1>10. ASSUME NEW c \in Threads, Delete(c) PROVE CountInv'
  <2>1. c \in Consumers /\ c \notin Producers /\ index > 0
    BY <1>10, SomethingThere DEF Delete
  <2>2. \A d \in Consumers \ {c} : bpc[d] # "delete" /\ bpc'[d] # "delete"
    BY <1>10, <2>1 DEF Delete, MutexInv, Holding
  <2> QED  BY <1>10, <2>1, <2>2, NumbersMove DEF Delete
<1>11. ASSUME NEW c \in Threads, ConsumerUnlocks(c) PROVE CountInv'
  BY <1>11, NumbersMove DEF ConsumerUnlocks
<1>12. ASSUME NEW c \in Threads, SpuriousWakeup(c) PROVE CountInv'
  BY <1>12, NumbersMove DEF SpuriousWakeup
<1>13. CASE MainCreates
  <2>1. NextCreated \in Threads /\ bpc[NextCreated] = "none"  BY <1>13, NextIsNew
  <2>2. PICK t \in Threads : t = NextCreated  BY <2>1
  <2> QED  BY <1>13, <2>1, <2>2, NumbersMove DEF MainCreates
<1>14. CASE UNCHANGED <<sync, in, index, sem, bpc>>
  BY <1>14 DEF HowMany, In
<1> QED
  BY <1>1, <1>2, <1>3, <1>4, <1>5, <1>6, <1>7, <1>8, <1>9, <1>10, <1>11, <1>12, <1>13,
     <1>14 DEF BufferNext, BufferMain, BufferThread, MainJoins, buffer
-----------------------------------------------------------------------------
LEMMA InsertValues == ASSUME BInv, NEW p \in Threads, Insert(p)  PROVE ValuesInv'
<1>1. in < NumTasks /\ index <= in  BY RoomLeft DEF Insert
<1>2. /\ in \in Nat /\ index \in Nat /\ NumTasks \in Nat /\ ValuesInv
      /\ vals \in [0 .. NumTasks -> 0 .. NumTasks]
  BY BufferAssumption DEF BInv, BufferTypeOK
<1>3. in' = in + 1 /\ index' = index + 1 /\ added' = added  BY DEF Insert
<1>4. vals'[index] = in + 1 /\ \A k \in 0 .. index - 1 : vals'[k] = vals[k]
  BY <1>1, <1>2 DEF Insert
<1>5. in + 1 \in Task /\ added[in + 1] = 0  BY <1>1, <1>2 DEF ValuesInv, Task
<1>6. \A k \in 0 .. index : k \in 0 .. index - 1 \/ k = index  BY <1>2
<1>7. 0 .. index' - 1 = 0 .. index  BY <1>2, <1>3
<1>8. \A k \in 0 .. index - 1 :
         vals'[k] = vals[k] /\ vals[k] \in 1 .. in /\ added[vals[k]] = 0
  BY <1>2, <1>4 DEF ValuesInv
<1>9. \A k \in 0 .. index' - 1 : vals'[k] \in 1 .. in' /\ added'[vals'[k]] = 0
  <2> SUFFICES ASSUME NEW k \in 0 .. index
               PROVE  vals'[k] \in 1 .. in' /\ added'[vals'[k]] = 0
    BY <1>7
  <2>1. CASE k = index  BY <1>2, <1>3, <1>4, <1>5, <2>1
  <2>2. CASE k \in 0 .. index - 1  BY <1>2, <1>3, <1>8, <2>2
  <2> QED  BY <1>6, <2>1, <2>2
<1>10. \A j, k \in 0 .. index' - 1 : vals'[j] = vals'[k] => j = k
  <2> SUFFICES ASSUME NEW j \in 0 .. index, NEW k \in 0 .. index, vals'[j] = vals'[k]
               PROVE  j = k
    BY <1>7
  <2>1. \A m \in 0 .. index - 1 : vals'[m] # vals'[index]  BY <1>2, <1>4, <1>8
  <2>2. CASE j \in 0 .. index - 1 /\ k \in 0 .. index - 1
    BY <1>2, <1>8, <2>2 DEF ValuesInv
  <2> QED  BY <1>6, <2>1, <2>2
<1>11. ASSUME NEW n \in Task, added'[n] = 0, n <= in'
      PROVE  \E k \in 0 .. index' - 1 : vals'[k] = n
  <2>1. CASE n = in + 1
    <3>1. index \in 0 .. index' - 1  BY <1>2, <1>3
    <3> QED  BY <1>4, <2>1, <3>1
  <2>2. CASE n <= in
    <3>1. PICK k \in 0 .. index - 1 : vals[k] = n  BY <1>3, <1>11, <2>2, <1>2 DEF ValuesInv
    <3> QED  BY <1>2, <1>3, <1>4, <3>1
  <2> QED  BY <1>2, <1>3, <1>11, <2>1, <2>2 DEF Task
<1>12. \A n \in Task : n > in' => added'[n] = 0  BY <1>2, <1>3 DEF ValuesInv, Task
<1> QED  BY <1>9, <1>10, <1>11, <1>12 DEF ValuesInv

LEMMA DeleteValues == ASSUME BInv, NEW c \in Threads, Delete(c)  PROVE ValuesInv'
<1> DEFINE v == vals[index - 1]
<1>1. index > 0 /\ v \in Task /\ added[v] = 0  BY SomethingThere DEF Delete
<1>2. in \in Nat /\ index \in Nat /\ added \in [Task -> {0, 1}] /\ ValuesInv
  BY DEF BInv, BufferTypeOK
<1>3. /\ in' = in /\ index' = index - 1 /\ vals' = vals
      /\ added' = [added EXCEPT ![v] = @ + 1]
  BY <1>1 DEF Delete
<1>4. \A k \in 0 .. index' - 1 : k \in 0 .. index - 1 /\ vals[k] # v
  BY <1>1, <1>2, <1>3 DEF ValuesInv
<1>5. \A k \in 0 .. index' - 1 : vals'[k] \in 1 .. in' /\ added'[vals'[k]] = 0
  BY <1>2, <1>3, <1>4 DEF ValuesInv
<1>6. \A j, k \in 0 .. index' - 1 : vals'[j] = vals'[k] => j = k
  BY <1>3, <1>4, <1>2 DEF ValuesInv
<1>7. ASSUME NEW n \in Task, added'[n] = 0, n <= in'
      PROVE  \E k \in 0 .. index' - 1 : vals'[k] = n
  <2>1. n # v  BY <1>1, <1>2, <1>3, <1>7
  <2>2. added[n] = 0  BY <1>2, <1>3, <1>7, <2>1
  <2>3. PICK k \in 0 .. index - 1 : vals[k] = n  BY <1>2, <1>3, <1>7, <2>2 DEF ValuesInv
  <2>4. k # index - 1  BY <2>1, <2>3
  <2> QED  BY <1>2, <1>3, <2>3, <2>4
<1>8. \A n \in Task : n > in' => added'[n] = 0
  <2>1. v \in 1 .. in  BY <1>1, <1>2 DEF ValuesInv
  <2> QED  BY <1>2, <1>3, <2>1 DEF ValuesInv, Task
<1> QED  BY <1>5, <1>6, <1>7, <1>8 DEF ValuesInv

LEMMA BufferStepInv == BInv /\ [BufferNext]_buffer => BInv'
<1> SUFFICES ASSUME BInv, [BufferNext]_buffer PROVE ValuesInv'
  BY TypeStep, MutexStep, MainStep, CountStep DEF BInv
<1>1. ASSUME NEW p \in Threads, Insert(p) PROVE ValuesInv'  BY <1>1, InsertValues
<1>2. ASSUME NEW c \in Threads, Delete(c) PROVE ValuesInv'  BY <1>2, DeleteValues
<1>3. CASE UNCHANGED <<vals, index, in, added>>  BY <1>3 DEF BInv, ValuesInv
<1> QED
  BY <1>1, <1>2, <1>3
     DEF BufferNext, BufferMain, BufferThread, ProducerLocks, SignalOne, ProducerUnlocks,
         Post, SemWait, ConsumerLocks, TestIndex, Relock, ConsumerUnlocks, SpuriousWakeup,
         MainCreates, MainJoins, queue, buffer

\* The mutex, the counts and the contents of both buffers, for any number of
\* threads.
THEOREM BufferInvariance == BufferSpec => []BInv
BY BufferInitInv, BufferStepInv, PTL DEF BufferSpec
-----------------------------------------------------------------------------
\* When main has joined everybody, every value has been taken.
LEMMA AllTaken ==
  ASSUME BInv, MainJoins, joined' = 2 * NumTasks
  PROVE  \A n \in Task : added[n] = 1
<1>1. /\ created = 2 * NumTasks /\ joined = 2 * NumTasks - 1 /\ bpc[NextJoined] = "exit"
      /\ NumTasks \in Nat \ {0} /\ joined \in Nat
  BY BufferAssumption DEF MainJoins, BInv, BufferTypeOK
<1>2. NextJoined = <<"consumer", NumTasks>>
  BY <1>1 DEF NextJoined
<1>3. MainInv /\ CountInv /\ ValuesInv /\ added \in [Task -> {0, 1}] /\ in \in Nat
  BY DEF BInv, BufferTypeOK
<1>4. \A n \in Task : bpc[<<"producer", n>>] = "exit" /\ bpc[<<"consumer", n>>] = "exit"
  <2> SUFFICES ASSUME NEW n \in Task
               PROVE  bpc[<<"producer", n>>] = "exit" /\ bpc[<<"consumer", n>>] = "exit"
    OBVIOUS
  <2>1. n \in Nat /\ n <= joined /\ (n <= joined - NumTasks \/ n = NumTasks)
    BY <1>1 DEF Task
  <2> QED  BY <1>1, <1>2, <1>3, <2>1 DEF MainInv
<1>5. In(Producers, Inserted) = Producers /\ In(Consumers, Deleted) = Consumers
  <2>1. ASSUME NEW p \in Producers PROVE bpc[p] = "exit"
    <3>1. PICK n \in Task : p = <<"producer", n>>  BY DEF Producers
    <3> QED  BY <1>4, <3>1
  <2>2. ASSUME NEW c \in Consumers PROVE bpc[c] = "exit"
    <3>1. PICK n \in Task : c = <<"consumer", n>>  BY DEF Consumers
    <3> QED  BY <1>4, <3>1
  <2> QED  BY <2>1, <2>2 DEF In, Inserted, Deleted
<1>6. in = NumTasks /\ index = 0
  BY <1>1, <1>3, <1>5, ThreadSets DEF CountInv, HowMany
<1>7. \A n \in Task : added[n] # 0  BY <1>1, <1>3, <1>6 DEF ValuesInv, Task
<1> QED  BY <1>3, <1>7

\* The buffers of labs 9 and 11 implement the pool for any number of threads and
\* of wakeups nobody signalled: every value is put once, taken once and after it
\* was put, and main prints when all have been taken.
THEOREM BufferImplementsPool == BufferSpec => ImplementsPool
<1>1. BufferInit => Pool!PoolInit
  BY BufferAssumption DEF BufferInit, Pool!PoolInit, Task, Pool!Task
<1>2. BInv /\ [BufferNext]_buffer => [Pool!PoolNext]_Pool!pool
  <2> SUFFICES ASSUME BInv, [BufferNext]_buffer PROVE [Pool!PoolNext]_Pool!pool
    OBVIOUS
  <2> USE DEF Pool!pool
  <2>1. ASSUME NEW p \in Threads, Insert(p) PROVE Pool!Put
    <3>1. in < NumTasks  BY <2>1, RoomLeft DEF Insert
    <3> QED  BY <2>1, <3>1 DEF Insert, Pool!Put
  <2>2. ASSUME NEW c \in Threads, Delete(c) PROVE \E n \in Pool!Task : Pool!Take(n)
    <3> DEFINE v == vals[index - 1]
    <3>1. index > 0 /\ v \in Task /\ added[v] = 0  BY <2>2, SomethingThere DEF Delete
    <3>2. index - 1 \in 0 .. index - 1 /\ ValuesInv  BY <3>1 DEF BInv, BufferTypeOK
    <3>3. v <= in  BY <3>2 DEF ValuesInv, BInv, BufferTypeOK
    <3>4. added' = [added EXCEPT ![v] = 1]  BY <2>2, <3>1 DEF Delete
    <3>5. UNCHANGED <<in, joined>>  BY <2>2 DEF Delete
    <3> QED  BY <3>1, <3>3, <3>4, <3>5 DEF Pool!Take, Pool!Task, Task
  <2>3. ASSUME MainJoins, joined' = 2 * NumTasks PROVE Pool!Report
    <3>1. \A n \in Pool!Task : added[n] = 1  BY <2>3, AllTaken DEF Pool!Task, Task
    <3> QED  BY <2>3, <3>1 DEF MainJoins, queue, Pool!Report
  <2>4. ASSUME MainJoins, joined' # 2 * NumTasks PROVE UNCHANGED Pool!pool
    <3>1. joined # 2 * NumTasks  BY <2>4 DEF MainJoins, BInv, BufferTypeOK
    <3> QED  BY <2>4, <3>1 DEF MainJoins, queue
  <2>5. CASE UNCHANGED <<in, added, joined>>  BY <2>5
  <2> QED
    BY <2>1, <2>2, <2>3, <2>4, <2>5
       DEF BufferNext, BufferMain, BufferThread, ProducerLocks, SignalOne,
           ProducerUnlocks, Post, SemWait, ConsumerLocks, TestIndex, Relock,
           ConsumerUnlocks, SpuriousWakeup, MainCreates, queue, buffer, Pool!PoolNext
<1> QED
  BY <1>1, <1>2, BufferInvariance, PTL DEF BufferSpec, ImplementsPool, Pool!PoolSpec
=============================================================================
