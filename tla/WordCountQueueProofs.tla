------------------------ MODULE WordCountQueueProofs ------------------------
(***************************************************************************)
(* The safety properties of WordCountQueue, for any number of consumers,   *)
(* lines and spurious wakeups.                                             *)
(***************************************************************************)
EXTENDS WordCountQueue, TLAPS

\* The mutex belongs to the thread that touches the list, and to no other.
LockInv == \A t \in Threads : Touching(t) <=> mutex = t

\* Where the producer stands: its node is its line number, and `end` is that
\* number exactly once it has stored it.
ProducerInv ==
  /\ bq = (IF bq = Wild THEN Wild ELSE pLine)
  /\ bq = Wild => pLine = 0 /\ ppc \in {"fopen", "broadcast", "exit"}
  /\ ppc = "fopen" => bq = Wild
  /\ ppc \in {"lock", "alloc", "publish"} => pLine < NumLines
  /\ end = (IF ppc \in {"broadcast", "exit"} THEN pLine ELSE 0)

\* The list: filled nodes up to the producer, one fresh node, then memory
\* nobody has written.
NodeInv ==
  /\ \A n \in Node : n < pLine =>
       check[n] \in {Produced, Consumed} /\ vals[n] = n /\ next[n] = n + 1
  /\ check[pLine] = Fresh
  /\ \A n \in Node : n > pLine =>
       check[n] = IF ppc = "publish" /\ n = pLine + 1 THEN Fresh ELSE Unset
  /\ ppc = "publish" => next[pLine] = pLine + 1

\* Every node a consumer has walked past is consumed.
ConsumerInv ==
  \A c \in Consumers :
    /\ q[c] = Wild <=> cpc[c] \in {"new", "start"}
    /\ q[c] # Wild =>
         q[c] <= pLine /\ \A n \in Node : n < q[c] => check[n] = Consumed
    /\ cpc[c] = "count" => check[q[c]] = Consumed
    /\ cpc[c] = "exit" => end # 0

\* A consumed line is in the histogram or claimed; nodes are consumed in order.
TallyInv ==
  /\ \A l \in Line : IF check[l] = Consumed THEN Claimed(l) ELSE alphaCount[l] = 0
  /\ \A m, n \in Node : m < n /\ check[n] = Consumed => check[m] = Consumed

\* main numbers the consumers as it creates them, and writes the histogram
\* when every thread has exited.
MainInv ==
  /\ mpc = "create" => i = consumerId + 1
  /\ \A c \in Consumers : cpc[c] = "new" => mpc = "create"
  /\ mpc = "create" => \A c \in Consumers : cpc[c] = "new" <=> c >= i
  /\ \A c \in Consumers : cpc[c] # "new" => c <= consumerId
  /\ mpc = "join" => \A t \in Threads : t < i => Exited(t)
  /\ mpc \in {"finilize", "exit"} => \A t \in Threads : Exited(t)
  /\ mpc = "exit" => result = alphaCount

\* Who sleeps where: at the end of the list, but for the moments in which a
\* wakeup is due.
Up(c) == cpc[c] \notin {"new", "wait", "exit"}
SleepInv ==
  /\ \A c \in Consumers : cpc[c] = "wait" =>
       /\ ppc = "exit" => q[c] = pLine
       /\ ppc = "signal" => q[c] < pLine
  /\ \/ ppc \in {"signal", "broadcast"}
     \/ \E c \in Consumers : Up(c)
     \/ \A c \in Consumers : cpc[c] # "wait"
     \/ \A n \in Node : check[n] # Produced

\* How far lineNum has run ahead of the position: no more than the wakeups
\* that found no line.
Slack == spurious + (IF ppc = "exit" THEN 1 ELSE 0)
DriftInv ==
  \A c \in Consumers :
    IF q[c] = Wild THEN lineNum[c] = 0
    ELSE /\ cpc[c] # "inc" => q[c] <= lineNum[c] /\ lineNum[c] <= q[c] + Slack
         /\ cpc[c] = "inc" =>
              q[c] <= lineNum[c] + 1 /\ lineNum[c] + 1 <= q[c] + Slack
         /\ cpc[c] \in {"relock", "branch"} /\ check[q[c]] = Fresh =>
              lineNum[c] + 1 <= q[c] + Slack

IInv ==
  /\ TypeOK /\ LockInv /\ ProducerInv /\ NodeInv /\ ConsumerInv
  /\ TallyInv /\ MainInv /\ SleepInv /\ DriftInv /\ OwnIdOrLater
-----------------------------------------------------------------------------
\* A node that is still fresh is the last of the list.
LEMMA FreshIsTail ==
  ASSUME IInv, NEW c \in Consumers, q[c] # Wild, check[q[c]] = Fresh
  PROVE  q[c] = pLine
<1>1. q[c] \in Node /\ pLine \in Node /\ q[c] <= pLine
  BY ConstantsAssumption DEF ConstantsAssumption, IInv, ConsumerInv, TypeOK,
       Node
<1> QED  BY <1>1, ConstantsAssumption
         DEF ConstantsAssumption, IInv, NodeInv, Node, Fresh, Produced,
              Consumed

\* When a consumer stands at the end of the list, no line is uncounted.
LEMMA AtTailAllConsumed ==
  ASSUME IInv, NEW c \in Consumers, q[c] = pLine
  PROVE  \A n \in Node : check[n] # Produced
<1>1. pLine \in Node /\ q[c] # Wild
  BY ConstantsAssumption DEF ConstantsAssumption, IInv, TypeOK, Node, Wild
<1> SUFFICES ASSUME NEW n \in Node PROVE check[n] # Produced
  OBVIOUS
<1>2. CASE n < pLine
  BY <1>1, <1>2 DEF IInv, ConsumerInv, Produced, Consumed
<1>3. CASE n >= pLine
  BY <1>1, <1>3, ConstantsAssumption
  DEF ConstantsAssumption, IInv, NodeInv, Node, Fresh, Produced, Unset
<1> QED  BY <1>1, <1>2, <1>3, ConstantsAssumption DEF ConstantsAssumption, Node

\* The types the arithmetic of DriftInv needs.
LEMMA DriftTypes ==
  ASSUME IInv
  PROVE  /\ \A c \in Consumers : lineNum[c] \in Nat /\ q[c] \in Nat
         /\ spurious \in Nat /\ pLine \in Nat
BY ConstantsAssumption DEF ConstantsAssumption, IInv, TypeOK, Node, Wild

\* POpen preserves the invariant.
LEMMA POpenStep == ASSUME IInv, POpen PROVE IInv'
<1> USE ConstantsAssumption DEF ConstantsAssumption, IInv, POpen, PGoto,
     nodes, consumer, main
<1>1. TypeOK'  BY DEF TypeOK, PStates, Node
<1>2. LockInv'  BY DEF LockInv, TypeOK, Touching, Threads, Consumers,
     Producer, NoOwner
<1>3. ProducerInv'  BY DEF ProducerInv, TypeOK, Node, Wild
<1>4. NodeInv'  BY DEF NodeInv, ProducerInv, TypeOK, Node, Wild, Fresh,
     Produced, Consumed, Unset
<1>5. ConsumerInv'  BY DEF ConsumerInv, NodeInv, TypeOK, Node, Wild, Fresh,
     Produced, Consumed, Unset
<1>6. TallyInv'  BY DEF TallyInv, NodeInv, ConsumerInv, TypeOK, Claimed, Node,
     Line, Wild, Fresh, Produced, Consumed, Unset
<1>7. MainInv'  BY DEF MainInv, TypeOK, Exited, Consumers, Threads, Producer
<1>8. SleepInv'  BY DEF SleepInv, NodeInv, ConsumerInv, TypeOK, Up, Node,
     Wild, Fresh, Produced, Consumed, Unset
<1>9. DriftInv'  BY DEF DriftInv, TypeOK, Slack
<1>10. OwnIdOrLater'  BY DEF OwnIdOrLater, MainInv, TypeOK, Threads
<1> QED  BY <1>1, <1>2, <1>3, <1>4, <1>5, <1>6, <1>7, <1>8, <1>9, <1>10

\* PRead preserves the invariant.
LEMMA PReadStep == ASSUME IInv, PRead PROVE IInv'
<1> USE ConstantsAssumption DEF ConstantsAssumption, IInv, PRead, PGoto,
     nodes, consumer, main
<1>1. TypeOK'  BY DEF TypeOK, PStates
<1>2. LockInv'  BY DEF LockInv, TypeOK, Touching, Threads, Consumers,
     Producer, NoOwner
<1>3. ProducerInv'  BY DEF ProducerInv, TypeOK, Node, Wild
<1>4. NodeInv'  BY DEF NodeInv, ProducerInv, TypeOK, Node, Wild, Fresh,
     Produced, Consumed, Unset
<1>5. ConsumerInv'  BY DEF ConsumerInv, NodeInv, TypeOK, Node, Wild, Fresh,
     Produced, Consumed, Unset
<1>6. TallyInv'  BY DEF TallyInv, NodeInv, ConsumerInv, TypeOK, Claimed, Node,
     Line, Wild, Fresh, Produced, Consumed, Unset
<1>7. MainInv'  BY DEF MainInv, TypeOK, Exited, Consumers, Threads, Producer
<1>8. SleepInv'  BY DEF SleepInv, NodeInv, ConsumerInv, TypeOK, Up, Node,
     Wild, Fresh, Produced, Consumed, Unset
<1>9. DriftInv'  BY DEF DriftInv, TypeOK, Slack
<1>10. OwnIdOrLater'  BY DEF OwnIdOrLater, MainInv, TypeOK, Threads
<1> QED  BY <1>1, <1>2, <1>3, <1>4, <1>5, <1>6, <1>7, <1>8, <1>9, <1>10

\* PLock preserves the invariant.
LEMMA PLockStep == ASSUME IInv, PLock PROVE IInv'
<1> USE ConstantsAssumption DEF ConstantsAssumption, IInv, PLock, PGoto,
     Acquire, nodes, consumer, main
<1>1. TypeOK'  BY DEF TypeOK, PStates, Threads, Consumers, Producer
<1>2. LockInv'  BY DEF LockInv, TypeOK, Touching, Threads, Consumers,
     Producer, NoOwner
<1>3. ProducerInv'  BY DEF ProducerInv, TypeOK, Node, Wild
<1>4. NodeInv'  BY DEF NodeInv, ProducerInv, TypeOK, Node, Wild, Fresh,
     Produced, Consumed, Unset
<1>5. ConsumerInv'  BY DEF ConsumerInv, NodeInv, TypeOK, Node, Wild, Fresh,
     Produced, Consumed, Unset
<1>6. TallyInv'  BY DEF TallyInv, NodeInv, ConsumerInv, TypeOK, Claimed, Node,
     Line, Wild, Fresh, Produced, Consumed, Unset
<1>7. MainInv'  BY DEF MainInv, TypeOK, Exited, Consumers, Threads, Producer
<1>8. SleepInv'  BY DEF SleepInv, NodeInv, ConsumerInv, TypeOK, Up, Node,
     Wild, Fresh, Produced, Consumed, Unset
<1>9. DriftInv'  BY DEF DriftInv, TypeOK, Slack
<1>10. OwnIdOrLater'  BY DEF OwnIdOrLater, MainInv, TypeOK, Threads
<1> QED  BY <1>1, <1>2, <1>3, <1>4, <1>5, <1>6, <1>7, <1>8, <1>9, <1>10

\* PAlloc preserves the invariant.
LEMMA PAllocStep == ASSUME IInv, PAlloc PROVE IInv'
<1> USE ConstantsAssumption DEF ConstantsAssumption, IInv, PAlloc, PGoto,
     nodes, consumer, main
<1>a. bq = pLine /\ pLine \in Node /\ pLine + 1 \in Node /\ pLine < NumLines
  BY DEF TypeOK, ProducerInv, Node, Wild
<1>b. /\ check' = [check EXCEPT ![pLine + 1] = Fresh]
      /\ \A n \in Node : n # pLine + 1 => check'[n] = check[n]
      /\ check'[pLine + 1] = Fresh /\ check[pLine + 1] = Unset
  BY <1>a DEF TypeOK, NodeInv, Node
<1>1. TypeOK'  BY DEF TypeOK, PStates, ProducerInv, NodeInv, Node, Wild, Line,
     Blank, Fresh, Produced
<1>2. LockInv'  BY DEF LockInv, TypeOK, Touching, Threads, Consumers,
     Producer, NoOwner
<1>3. ProducerInv'  BY DEF ProducerInv, TypeOK, Node, Wild
<1>4. NodeInv'  BY DEF NodeInv, ProducerInv, TypeOK, Node, Wild, Fresh,
     Produced, Consumed, Unset
<1>5. ConsumerInv'  BY <1>a, <1>b DEF ConsumerInv, TypeOK, Node, Wild, Consumed
<1>6. TallyInv'  BY <1>a, <1>b DEF TallyInv, Claimed, Line, Node, Fresh,
     Consumed, Unset
<1>7. MainInv'  BY DEF MainInv, TypeOK, Exited, Consumers, Threads, Producer
<1>8. SleepInv'  BY DEF SleepInv, NodeInv, ConsumerInv, TypeOK, Up, Node,
     Wild, Fresh, Produced, Consumed, Unset
<1>9. DriftInv'  BY <1>a, <1>b DEF DriftInv, ConsumerInv, TypeOK, Slack, Node,
     Wild
<1>10. OwnIdOrLater'  BY DEF OwnIdOrLater, MainInv, TypeOK, Threads
<1> QED  BY <1>1, <1>2, <1>3, <1>4, <1>5, <1>6, <1>7, <1>8, <1>9, <1>10

\* PPublish preserves the invariant.
LEMMA PPublishStep == ASSUME IInv, PPublish PROVE IInv'
<1> USE ConstantsAssumption DEF ConstantsAssumption, IInv, PPublish, PGoto,
     nodes, consumer, main
<1>a. /\ bq = pLine /\ pLine \in Line /\ pLine \in Node /\ pLine + 1 \in Node
      /\ next[pLine] = pLine + 1 /\ bq' = pLine + 1
  BY DEF TypeOK, ProducerInv, NodeInv, Line, Node, Wild
<1>b. /\ \A n \in Node : n # pLine => check'[n] = check[n]
      /\ check'[pLine] = Produced /\ check[pLine] = Fresh
      /\ check'[pLine + 1] = Fresh
  <2>1. check' = [check EXCEPT ![pLine] = Produced] /\ check \in [Node -> 0 .. 3]
    BY <1>a DEF TypeOK
  <2>2. check[pLine] = Fresh /\ check[pLine + 1] = Fresh
    BY <1>a DEF NodeInv, TypeOK, Node
  <2> QED  BY <1>a, <2>1, <2>2 DEF Node, Line
<1>c. \A c \in Consumers : cpc[c] = "wait" => q[c] \in Nat /\ q[c] <= pLine
  <2> SUFFICES ASSUME NEW c \in Consumers, cpc[c] = "wait"
               PROVE  q[c] \in Nat /\ q[c] <= pLine
    OBVIOUS
  <2>1. q[c] # Wild /\ q[c] <= pLine
    BY DEF ConsumerInv
  <2> QED  BY <2>1 DEF TypeOK, Node
<1>1. TypeOK'
  <2>1. vals' \in [Node -> Line \cup {Blank}]
    BY <1>a DEF TypeOK
  <2>2. check' \in [Node -> 0 .. 3]
    BY <1>a DEF TypeOK, Produced
  <2>3. ppc' \in PStates /\ bq' \in Node /\ pLine' \in 0 .. NumLines
    BY <1>a DEF PStates, Line
  <2> QED  BY <2>1, <2>2, <2>3 DEF TypeOK
<1>2. LockInv'  BY DEF LockInv, TypeOK, Touching, Threads, Consumers,
     Producer, NoOwner
<1>3. ProducerInv'  BY <1>a DEF ProducerInv, TypeOK, Line, Wild
<1>4. NodeInv'  BY DEF NodeInv, ProducerInv, TypeOK, Node, Wild, Fresh,
     Produced, Consumed, Unset
<1>5. ConsumerInv'  BY <1>a, <1>b DEF ConsumerInv, TypeOK, Node, Wild, Fresh,
     Consumed
<1>6. TallyInv'  BY <1>a, <1>b DEF TallyInv, Claimed, Line, Node, Fresh,
     Produced, Consumed
<1>7. MainInv'  BY DEF MainInv, TypeOK, Exited, Consumers, Threads, Producer
<1>8. SleepInv'  BY <1>c DEF SleepInv, TypeOK
<1>9. DriftInv'  BY <1>a, <1>b DEF DriftInv, ConsumerInv, TypeOK, Slack, Line,
     Node, Wild, Fresh, Produced
<1>10. OwnIdOrLater'  BY DEF OwnIdOrLater, MainInv, TypeOK, Threads
<1> QED  BY <1>1, <1>2, <1>3, <1>4, <1>5, <1>6, <1>7, <1>8, <1>9, <1>10

\* PSignal preserves the invariant.
LEMMA PSignalStep == ASSUME IInv, PSignal PROVE IInv'
<1> USE ConstantsAssumption DEF ConstantsAssumption, IInv, PSignal, PGoto,
     Signal, Waiters, nodes, consumer, main
<1>a. /\ cpc' \in [Consumers -> CStates]
      /\ \A c \in Consumers :
           cpc'[c] = cpc[c] \/ (cpc[c] = "wait" /\ cpc'[c] = "relock")
      /\ (\E c \in Consumers : cpc'[c] = "relock") \/ \A c \in Consumers : cpc'[c] # "wait"
  <2>1. CASE Waiters = {}
    BY <2>1 DEF TypeOK
  <2>2. CASE Waiters # {}
    <3>1. PICK w \in Waiters : cpc' = [cpc EXCEPT ![w] = "relock"]
      BY <2>2
    <3> QED  BY <3>1 DEF TypeOK, CStates
  <2> QED  BY <2>1, <2>2
<1> USE <1>a
<1> HIDE DEF Signal, Waiters
<1>b. \A c \in Consumers : cpc[c] = "wait" => q[c] # Wild /\ check[q[c]] # Fresh
  BY FreshIsTail DEF SleepInv, ConsumerInv, TypeOK
<1>1. TypeOK'  BY DEF TypeOK, PStates
<1>2. LockInv'  BY DEF LockInv, TypeOK, Touching, Threads, Consumers,
     Producer, NoOwner
<1>3. ProducerInv'  BY DEF ProducerInv, TypeOK, Node, Wild
<1>4. NodeInv'  BY DEF NodeInv, ProducerInv, TypeOK, Node, Wild, Fresh,
     Produced, Consumed, Unset
<1>5. ConsumerInv'  BY DEF ConsumerInv, NodeInv, TypeOK, Node, Wild, Fresh,
     Produced, Consumed, Unset
<1>6. TallyInv'  BY DEF TallyInv, NodeInv, ConsumerInv, TypeOK, Claimed, Node,
     Line, Wild, Fresh, Produced, Consumed, Unset
<1>7. MainInv'  BY DEF MainInv, Exited, Producer, Threads, Consumers
<1>8. SleepInv'  BY DEF SleepInv, Up
<1>9. DriftInv'  BY <1>b DEF DriftInv, Slack
<1>10. OwnIdOrLater'  BY DEF OwnIdOrLater, MainInv, TypeOK, Threads
<1> QED  BY <1>1, <1>2, <1>3, <1>4, <1>5, <1>6, <1>7, <1>8, <1>9, <1>10

\* PUnlock preserves the invariant.
LEMMA PUnlockStep == ASSUME IInv, PUnlock PROVE IInv'
<1> USE ConstantsAssumption DEF ConstantsAssumption, IInv, PUnlock, PGoto,
     Release, nodes, consumer, main
<1>1. TypeOK'  BY DEF TypeOK, PStates
<1>2. LockInv'  BY DEF LockInv, TypeOK, Touching, Threads, Consumers,
     Producer, NoOwner
<1>3. ProducerInv'  BY DEF ProducerInv, TypeOK, Node, Wild
<1>4. NodeInv'  BY DEF NodeInv, ProducerInv, TypeOK, Node, Wild, Fresh,
     Produced, Consumed, Unset
<1>5. ConsumerInv'  BY DEF ConsumerInv, NodeInv, TypeOK, Node, Wild, Fresh,
     Produced, Consumed, Unset
<1>6. TallyInv'  BY DEF TallyInv, NodeInv, ConsumerInv, TypeOK, Claimed, Node,
     Line, Wild, Fresh, Produced, Consumed, Unset
<1>7. MainInv'  BY DEF MainInv, TypeOK, Exited, Consumers, Threads, Producer
<1>8. SleepInv'  BY DEF SleepInv, NodeInv, ConsumerInv, TypeOK, Up, Node,
     Wild, Fresh, Produced, Consumed, Unset
<1>9. DriftInv'  BY DEF DriftInv, TypeOK, Slack
<1>10. OwnIdOrLater'  BY DEF OwnIdOrLater, MainInv, TypeOK, Threads
<1> QED  BY <1>1, <1>2, <1>3, <1>4, <1>5, <1>6, <1>7, <1>8, <1>9, <1>10

\* PSetEnd preserves the invariant.
LEMMA PSetEndStep == ASSUME IInv, PSetEnd PROVE IInv'
<1> USE ConstantsAssumption DEF ConstantsAssumption, IInv, PSetEnd, PGoto,
     nodes, consumer, main
<1>1. TypeOK'  BY DEF TypeOK, PStates
<1>2. LockInv'  BY DEF LockInv, TypeOK, Touching, Threads, Consumers,
     Producer, NoOwner
<1>3. ProducerInv'  BY DEF ProducerInv, TypeOK, Node, Wild
<1>4. NodeInv'  BY DEF NodeInv, ProducerInv, TypeOK, Node, Wild, Fresh,
     Produced, Consumed, Unset
<1>5. ConsumerInv'  BY DEF ConsumerInv, ProducerInv, NodeInv, TypeOK, Node,
     Wild
<1>6. TallyInv'  BY DEF TallyInv, NodeInv, ConsumerInv, TypeOK, Claimed, Node,
     Line, Wild, Fresh, Produced, Consumed, Unset
<1>7. MainInv'  BY DEF MainInv, TypeOK, Exited, Consumers, Threads, Producer
<1>8. SleepInv'  BY DEF SleepInv, NodeInv, ConsumerInv, TypeOK, Up, Node,
     Wild, Fresh, Produced, Consumed, Unset
<1>9. DriftInv'  BY DEF DriftInv, TypeOK, Slack
<1>10. OwnIdOrLater'  BY DEF OwnIdOrLater, MainInv, TypeOK, Threads
<1> QED  BY <1>1, <1>2, <1>3, <1>4, <1>5, <1>6, <1>7, <1>8, <1>9, <1>10

\* PBroadcast preserves the invariant.
LEMMA PBroadcastStep == ASSUME IInv, PBroadcast PROVE IInv'
<1> USE ConstantsAssumption DEF ConstantsAssumption, IInv, PBroadcast, PGoto,
     Broadcast, Waiters, nodes, consumer, main
<1>a. /\ cpc' \in [Consumers -> CStates]
      /\ \A c \in Consumers :
           cpc'[c] = IF cpc[c] = "wait" THEN "relock" ELSE cpc[c]
  BY DEF TypeOK, CStates
<1> USE <1>a
<1> HIDE DEF Broadcast, Waiters
<1>1. TypeOK'  BY DEF TypeOK, PStates
<1>2. LockInv'  BY DEF LockInv, Touching, Threads, Consumers, Producer
<1>3. ProducerInv'  BY DEF ProducerInv, TypeOK, Node, Wild
<1>4. NodeInv'  BY DEF NodeInv, ProducerInv, TypeOK, Node, Wild, Fresh,
     Produced, Consumed, Unset
<1>5. ConsumerInv'  BY DEF ConsumerInv, NodeInv, TypeOK, Node, Wild, Fresh,
     Produced, Consumed, Unset
<1>6. TallyInv'  BY DEF TallyInv, NodeInv, ConsumerInv, TypeOK, Claimed, Node,
     Line, Wild, Fresh, Produced, Consumed, Unset
<1>7. MainInv'  BY DEF MainInv, TypeOK, Exited, Consumers, Threads, Producer
<1>8. SleepInv'  BY DEF SleepInv, NodeInv, ConsumerInv, TypeOK, Up, Node,
     Wild, Fresh, Produced, Consumed, Unset
<1>9. DriftInv'  BY DEF DriftInv, TypeOK, Slack, Node, Wild
<1>10. OwnIdOrLater'  BY DEF OwnIdOrLater, MainInv, TypeOK, Threads
<1> QED  BY <1>1, <1>2, <1>3, <1>4, <1>5, <1>6, <1>7, <1>8, <1>9, <1>10

\* CStart preserves the invariant.
LEMMA CStartStep == ASSUME IInv, NEW c \in Consumers, CStart(c) PROVE IInv'
<1> USE ConstantsAssumption DEF ConstantsAssumption, IInv, CStart, CGoto,
     nodes, producer, main
<1>a. /\ cpc[c] = "start" /\ cpc'[c] \in {"testEnd"}
      /\ \A d \in Consumers : d # c => cpc'[d] = cpc[d]
  BY DEF TypeOK
<1>1. TypeOK'  BY DEF TypeOK, CStates, Node
<1>2. LockInv'  BY <1>a DEF LockInv, Touching, Threads, Consumers, Producer
<1>3. ProducerInv'  BY DEF ProducerInv, TypeOK, Node, Wild
<1>4. NodeInv'  BY DEF NodeInv, ProducerInv, TypeOK, Node, Wild, Fresh,
     Produced, Consumed, Unset
<1>5. ConsumerInv'  BY DEF ConsumerInv, NodeInv, TypeOK, Node, Wild, Fresh,
     Produced, Consumed, Unset
<1>6. TallyInv'  BY DEF TallyInv, NodeInv, ConsumerInv, TypeOK, Claimed, Node,
     Line, Wild, Fresh, Produced, Consumed, Unset
<1>7. MainInv'  BY DEF MainInv, TypeOK, Exited, Consumers, Threads, Producer
<1>8. SleepInv'  BY DEF SleepInv, NodeInv, ConsumerInv, TypeOK, Up, Node,
     Wild, Fresh, Produced, Consumed, Unset
<1>9. DriftInv'  BY <1>a DEF DriftInv, ConsumerInv, TypeOK, Slack, Node, Wild
<1>10. OwnIdOrLater'  BY DEF OwnIdOrLater, MainInv, TypeOK, Threads
<1> QED  BY <1>1, <1>2, <1>3, <1>4, <1>5, <1>6, <1>7, <1>8, <1>9, <1>10

\* CTestEnd preserves the invariant.
LEMMA CTestEndStep == ASSUME IInv, NEW c \in Consumers, CTestEnd(c) PROVE IInv'
<1> USE ConstantsAssumption DEF ConstantsAssumption, IInv, CTestEnd, CGoto,
     nodes, producer, main
<1>a. /\ cpc[c] = "testEnd" /\ cpc'[c] \in {"lock", "testZero"}
      /\ \A d \in Consumers : d # c => cpc'[d] = cpc[d]
  BY DEF TypeOK
<1>1. TypeOK'  BY DEF TypeOK, CStates
<1>2. LockInv'  BY <1>a DEF LockInv, Touching, Threads, Consumers, Producer
<1>3. ProducerInv'  BY DEF ProducerInv, TypeOK, Node, Wild
<1>4. NodeInv'  BY DEF NodeInv, ProducerInv, TypeOK, Node, Wild, Fresh,
     Produced, Consumed, Unset
<1>5. ConsumerInv'  BY DEF ConsumerInv, NodeInv, TypeOK, Node, Wild, Fresh,
     Produced, Consumed, Unset
<1>6. TallyInv'  BY DEF TallyInv, NodeInv, ConsumerInv, TypeOK, Claimed, Node,
     Line, Wild, Fresh, Produced, Consumed, Unset
<1>7. MainInv'  BY DEF MainInv, TypeOK, Exited, Consumers, Threads, Producer
<1>8. SleepInv'  BY DEF SleepInv, NodeInv, ConsumerInv, TypeOK, Up, Node,
     Wild, Fresh, Produced, Consumed, Unset
<1>9. DriftInv'  BY DEF DriftInv, TypeOK, Slack
<1>10. OwnIdOrLater'  BY DEF OwnIdOrLater, MainInv, TypeOK, Threads
<1> QED  BY <1>1, <1>2, <1>3, <1>4, <1>5, <1>6, <1>7, <1>8, <1>9, <1>10

\* CTestZero preserves the invariant.
LEMMA CTestZeroStep == ASSUME IInv, NEW c \in Consumers, CTestZero(c) PROVE IInv'
<1> USE ConstantsAssumption DEF ConstantsAssumption, IInv, CTestZero, CGoto,
     EndUnknown, nodes, producer, main
<1>a. /\ cpc[c] = "testZero" /\ cpc'[c] \in {"lock", "exit"}
      /\ \A d \in Consumers : d # c => cpc'[d] = cpc[d]
  BY DEF TypeOK
<1>1. TypeOK'  BY DEF TypeOK, CStates
<1>2. LockInv'  BY <1>a DEF LockInv, Touching, Threads, Consumers, Producer
<1>3. ProducerInv'  BY DEF ProducerInv, TypeOK, Node, Wild
<1>4. NodeInv'  BY DEF NodeInv, ProducerInv, TypeOK, Node, Wild, Fresh,
     Produced, Consumed, Unset
<1>5. ConsumerInv'  BY DEF ConsumerInv, NodeInv, TypeOK, Node, Wild, Fresh,
     Produced, Consumed, Unset
<1>6. TallyInv'  BY DEF TallyInv, NodeInv, ConsumerInv, TypeOK, Claimed, Node,
     Line, Wild, Fresh, Produced, Consumed, Unset
<1>7. MainInv'  BY DEF MainInv, TypeOK, Exited, Consumers, Threads, Producer
<1>8. SleepInv'
  <2>1. CASE end = 0
    BY <1>a, <2>1 DEF SleepInv, Up, TypeOK
  <2>2. CASE end # 0
    <3>1. ppc \in {"broadcast", "exit"}
      BY <2>2 DEF ProducerInv
    <3>2. \A w \in Consumers : ppc = "exit" /\ cpc[w] = "wait" =>
            \A n \in Node : check[n] # Produced
      BY AtTailAllConsumed DEF SleepInv
    <3> QED  BY <1>a, <3>1, <3>2 DEF SleepInv
  <2> QED  BY <2>1, <2>2
<1>9. DriftInv'  BY DEF DriftInv, TypeOK, Slack
<1>10. OwnIdOrLater'  BY DEF OwnIdOrLater, MainInv, TypeOK, Threads
<1> QED  BY <1>1, <1>2, <1>3, <1>4, <1>5, <1>6, <1>7, <1>8, <1>9, <1>10

\* CLock preserves the invariant.
LEMMA CLockStep == ASSUME IInv, NEW c \in Consumers, CLock(c) PROVE IInv'
<1> USE ConstantsAssumption DEF ConstantsAssumption, IInv, CLock, CGoto,
     Acquire, nodes, producer, main
<1>1. TypeOK'  BY DEF TypeOK, CStates, Threads, Consumers, Producer
<1>2. LockInv'  BY DEF LockInv, TypeOK, Touching, Threads, Consumers,
     Producer, NoOwner
<1>3. ProducerInv'  BY DEF ProducerInv, TypeOK, Node, Wild
<1>4. NodeInv'  BY DEF NodeInv, ProducerInv, TypeOK, Node, Wild, Fresh,
     Produced, Consumed, Unset
<1>5. ConsumerInv'  BY DEF ConsumerInv, NodeInv, TypeOK, Node, Wild, Fresh,
     Produced, Consumed, Unset
<1>6. TallyInv'  BY DEF TallyInv, NodeInv, ConsumerInv, TypeOK, Claimed, Node,
     Line, Wild, Fresh, Produced, Consumed, Unset
<1>7. MainInv'  BY DEF MainInv, TypeOK, Exited, Consumers, Threads, Producer
<1>8. SleepInv'  BY DEF SleepInv, NodeInv, ConsumerInv, TypeOK, Up, Node,
     Wild, Fresh, Produced, Consumed, Unset
<1>9. DriftInv'  BY DEF DriftInv, TypeOK, Slack
<1>10. OwnIdOrLater'  BY DEF OwnIdOrLater, MainInv, TypeOK, Threads
<1> QED  BY <1>1, <1>2, <1>3, <1>4, <1>5, <1>6, <1>7, <1>8, <1>9, <1>10

\* CCheck preserves the invariant.
LEMMA CCheckStep == ASSUME IInv, NEW c \in Consumers, CCheck(c) PROVE IInv'
<1> USE ConstantsAssumption DEF ConstantsAssumption, IInv, CCheck, CGoto,
     Readable, Sleep, Release, nodes, producer, main
<1>a. /\ cpc[c] = "check" /\ cpc'[c] \in {"wait", "branch"}
      /\ \A d \in Consumers : d # c => cpc'[d] = cpc[d]
  BY DEF TypeOK
<1>1. TypeOK'  BY DEF TypeOK, CStates
<1>2. LockInv'  BY DEF LockInv, TypeOK, Touching, Threads, Consumers,
     Producer, NoOwner
<1>3. ProducerInv'  BY DEF ProducerInv, TypeOK, Node, Wild
<1>4. NodeInv'  BY DEF NodeInv, ProducerInv, TypeOK, Node, Wild, Fresh,
     Produced, Consumed, Unset
<1>5. ConsumerInv'  BY DEF ConsumerInv, NodeInv, TypeOK, Node, Wild, Fresh,
     Produced, Consumed, Unset
<1>6. TallyInv'  BY <1>a DEF TallyInv, Claimed
<1>7. MainInv'  BY <1>a DEF MainInv, Exited, Threads, Consumers, Producer
<1>8. SleepInv'
  <2>1. CASE check[q[c]] = Fresh
    <3>1. q[c] = pLine /\ \A n \in Node : check[n] # Produced
      BY <1>a, <2>1, FreshIsTail, AtTailAllConsumed DEF ConsumerInv
    <3>2. ppc \notin {"signal"}
      BY <1>a DEF LockInv, Touching, Threads, Consumers, Producer
    <3> QED  BY <1>a, <3>1, <3>2 DEF SleepInv
  <2>2. CASE check[q[c]] # Fresh
    <3>1. cpc'[c] = "branch"
      BY <2>2 DEF TypeOK
    <3> QED  BY <3>1 DEF SleepInv, Up, TypeOK
  <2> QED  BY <2>1, <2>2
<1>9. DriftInv'  BY DEF DriftInv, TypeOK, Slack
<1>10. OwnIdOrLater'  BY DEF OwnIdOrLater, MainInv, TypeOK, Threads
<1> QED  BY <1>1, <1>2, <1>3, <1>4, <1>5, <1>6, <1>7, <1>8, <1>9, <1>10

\* CRelock preserves the invariant.
LEMMA CRelockStep == ASSUME IInv, NEW c \in Consumers, CRelock(c) PROVE IInv'
<1> USE ConstantsAssumption DEF ConstantsAssumption, IInv, CRelock, Wake,
     Acquire, nodes, producer, main
<1>1. TypeOK'  BY DEF TypeOK, CStates, Threads, Consumers, Producer
<1>2. LockInv'  BY DEF LockInv, TypeOK, Touching, Threads, Consumers,
     Producer, NoOwner
<1>3. ProducerInv'  BY DEF ProducerInv, TypeOK, Node, Wild
<1>4. NodeInv'  BY DEF NodeInv, ProducerInv, TypeOK, Node, Wild, Fresh,
     Produced, Consumed, Unset
<1>5. ConsumerInv'  BY DEF ConsumerInv, NodeInv, TypeOK, Node, Wild, Fresh,
     Produced, Consumed, Unset
<1>6. TallyInv'  BY DEF TallyInv, NodeInv, ConsumerInv, TypeOK, Claimed, Node,
     Line, Wild, Fresh, Produced, Consumed, Unset
<1>7. MainInv'  BY DEF MainInv, TypeOK, Exited, Consumers, Threads, Producer
<1>8. SleepInv'  BY DEF SleepInv, NodeInv, ConsumerInv, TypeOK, Up, Node,
     Wild, Fresh, Produced, Consumed, Unset
<1>9. DriftInv'  BY DEF DriftInv, TypeOK, Slack
<1>10. OwnIdOrLater'  BY DEF OwnIdOrLater, MainInv, TypeOK, Threads
<1> QED  BY <1>1, <1>2, <1>3, <1>4, <1>5, <1>6, <1>7, <1>8, <1>9, <1>10

\* CBranch preserves the invariant.
LEMMA CBranchStep == ASSUME IInv, NEW c \in Consumers, CBranch(c) PROVE IInv'
<1> USE ConstantsAssumption DEF ConstantsAssumption, IInv, CBranch, CGoto,
     Readable, Advance, Stay, Consume, nodes, producer, main
<1>a. /\ cpc[c] = "branch" /\ cpc'[c] \in {"inc", "count"}
      /\ \A d \in Consumers : d # c => cpc'[d] = cpc[d]
  BY DEF TypeOK
<1>b. /\ q[c] \in Node /\ q[c] # Wild /\ q[c] <= pLine
      /\ \A d \in Consumers : d # c => cpc[d] # "count"
      /\ ppc \notin {"alloc", "publish", "signal"}
  BY <1>a DEF ConsumerInv, LockInv, Touching, Threads, Consumers, Producer,
       Node, Wild
<1>c. check[q[c]] # Fresh => q[c] < pLine /\ q[c] \in Line /\ next[q[c]] = q[c] + 1
  BY <1>b DEF NodeInv, TypeOK, Node, Line, Fresh
<1>1. TypeOK'  BY DEF TypeOK, CStates, Consumed
<1>2. LockInv'  BY DEF LockInv, TypeOK, Touching, Threads, Consumers,
     Producer, NoOwner
<1>3. ProducerInv'  BY DEF ProducerInv, TypeOK, Node, Wild
<1>4. NodeInv'  BY DEF NodeInv, ProducerInv, TypeOK, Node, Wild, Fresh,
     Produced, Consumed, Unset
<1>5. ConsumerInv'  BY DEF ConsumerInv, NodeInv, TypeOK, Node, Wild, Fresh,
     Produced, Consumed, Unset
<1>6. TallyInv'
  <2>1. CASE check[q[c]] = Produced
    <3>1. check' = [check EXCEPT ![q[c]] = Consumed] /\ cpc'[c] = "count" /\ q' = q
      BY <2>1 DEF TypeOK, Produced, Consumed, Fresh
    <3>2. \A l \in Line : IF check'[l] = Consumed THEN Claimed(l)' ELSE alphaCount'[l] = 0
      <4> TAKE l \in Line
      <4>1. CASE l = q[c]
        BY <1>b, <2>1, <3>1, <4>1 DEF TallyInv, Claimed, TypeOK, Produced,
             Consumed
      <4>2. CASE l # q[c]
        BY <1>a, <1>b, <3>1, <4>2 DEF TallyInv, Claimed, TypeOK, Line, Node
      <4> QED  BY <4>1, <4>2
    <3>3. \A m, n \in Node : m < n /\ check'[n] = Consumed => check'[m] = Consumed
      BY <1>b, <3>1 DEF TallyInv, ConsumerInv, TypeOK
    <3> QED  BY <3>2, <3>3 DEF TallyInv
  <2>2. CASE check[q[c]] # Produced
    <3>1. cpc'[c] = "inc" /\ check' = check /\ \A d \in Consumers : d # c => q'[d] = q[d]
      BY <2>2 DEF TypeOK
    <3> QED  BY <1>a, <1>b, <3>1 DEF TallyInv, Claimed
  <2> QED  BY <2>1, <2>2
<1>7. MainInv'  BY <1>a DEF MainInv, Exited, Threads, Consumers, Producer
<1>8. SleepInv'
  <2>1. \A d \in Consumers : d # c => q'[d] = q[d]
    BY DEF TypeOK
  <2> QED  BY <1>a, <2>1 DEF SleepInv, Up
<1>9. DriftInv'
  <2>1. CASE check[q[c]] = Consumed
    <3>1. cpc'[c] = "inc" /\ check' = check /\ q' = [q EXCEPT ![c] = q[c] + 1]
      BY <1>c, <2>1 DEF TypeOK, Fresh, Produced, Consumed
    <3>2. q'[c] = q[c] + 1 /\ \A d \in Consumers : d # c => q'[d] = q[d]
      BY <3>1 DEF TypeOK
    <3> QED  BY <1>a, <1>b, <1>c, <2>1, <3>1, <3>2, DriftTypes DEF DriftInv,
         Slack, Line, Fresh, Consumed, Wild, Node
  <2>2. CASE check[q[c]] = Produced
    <3>1. cpc'[c] = "count" /\ q' = q /\ check' = [check EXCEPT ![q[c]] = Consumed]
      BY <2>2 DEF TypeOK, Fresh, Produced, Consumed
    <3>2. \A n \in Node : check'[n] = Fresh => check[n] = Fresh
      BY <3>1 DEF TypeOK, Fresh, Consumed
    <3>3. \A d \in Consumers : q[d] \in Node \/ q[d] = Wild
      BY DEF TypeOK
    <3> QED  BY <1>a, <1>b, <3>1, <3>2, <3>3 DEF DriftInv, Slack
  <2>3. CASE check[q[c]] = Fresh
    <3>1. cpc'[c] = "inc" /\ q' = q /\ check' = check
      BY <2>3 DEF TypeOK, Fresh, Produced, Consumed
    <3> QED  BY <1>a, <1>b, <2>3, <3>1 DEF DriftInv, TypeOK, Slack, Node, Wild
  <2> QED  BY <2>1, <2>2, <2>3
<1>10. OwnIdOrLater'  BY DEF OwnIdOrLater, MainInv, TypeOK, Threads
<1> QED  BY <1>1, <1>2, <1>3, <1>4, <1>5, <1>6, <1>7, <1>8, <1>9, <1>10

\* CCount preserves the invariant.
LEMMA CCountStep == ASSUME IInv, NEW c \in Consumers, CCount(c) PROVE IInv'
<1> USE ConstantsAssumption DEF ConstantsAssumption, IInv, CCount, CGoto,
     Readable, Advance, nodes, producer, main
<1>a. /\ cpc[c] = "count" /\ cpc'[c] = "inc"
      /\ \A d \in Consumers : d # c => cpc'[d] = cpc[d] /\ cpc[d] # "count"
  BY DEF LockInv, TypeOK, Touching, Threads, Consumers, Producer
<1>b. /\ q[c] \in Node /\ q[c] # Wild /\ q[c] <= pLine /\ check[q[c]] = Consumed
  BY <1>a DEF ConsumerInv, TypeOK, Node, Wild
<1>c. /\ q[c] \in Line /\ q[c] < pLine /\ vals[q[c]] = q[c] /\ next[q[c]] = q[c] + 1
  BY <1>b DEF NodeInv, TypeOK, Node, Line, Fresh, Consumed
<1>d. /\ q' = [q EXCEPT ![c] = q[c] + 1]
      /\ alphaCount' = [alphaCount EXCEPT ![q[c]] = @ + 1]
  BY <1>c
<1>e. q'[c] = q[c] + 1 /\ \A d \in Consumers : d # c => q'[d] = q[d]
  BY <1>d DEF TypeOK
<1>1. TypeOK'
  <2>1. alphaCount' \in [Line -> Nat]
    <3> HIDE DEF CCount
    <3> QED  BY <1>c, <1>d DEF TypeOK
  <2>2. q[c] + 1 \in Node
    BY <1>c DEF Line, Node
  <2>3. q' \in [Consumers -> Node \cup {Wild}] /\ cpc' \in [Consumers -> CStates]
    BY <1>d, <2>2 DEF TypeOK, CStates
  <2> QED  BY <2>1, <2>3 DEF TypeOK
<1>2. LockInv'  BY DEF LockInv, TypeOK, Touching, Threads, Consumers,
     Producer, NoOwner
<1>3. ProducerInv'  BY DEF ProducerInv, TypeOK, Node, Wild
<1>4. NodeInv'  BY DEF NodeInv, ProducerInv, TypeOK, Node, Wild, Fresh,
     Produced, Consumed, Unset
<1>5. ConsumerInv'  BY DEF ConsumerInv, NodeInv, TypeOK, Node, Wild, Fresh,
     Produced, Consumed, Unset
<1>6. TallyInv'
  <2>1. ASSUME NEW l \in Line, l = q[c] PROVE Claimed(l)'
    <3>1. alphaCount[l] = 0
      BY <1>a, <1>b, <2>1 DEF TallyInv, Claimed
    <3>2. alphaCount'[l] = 1
      BY <1>d, <2>1, <3>1 DEF TypeOK
    <3> QED  BY <1>a, <3>2 DEF Claimed
  <2>2. ASSUME NEW l \in Line, l # q[c]
        PROVE  alphaCount'[l] = alphaCount[l] /\ (Claimed(l) => Claimed(l)')
    BY <1>a, <1>d, <1>e, <2>2 DEF Claimed, TypeOK
  <2> QED  BY <1>b, <2>1, <2>2 DEF TallyInv
<1>7. MainInv'  BY DEF MainInv, TypeOK, Exited, Consumers, Threads, Producer
<1>8. SleepInv'  BY DEF SleepInv, NodeInv, ConsumerInv, TypeOK, Up, Node,
     Wild, Fresh, Produced, Consumed, Unset
<1>9. DriftInv'  BY <1>a, <1>b, <1>c, <1>e, DriftTypes DEF DriftInv, Slack,
     Line, Node, Wild
<1>10. OwnIdOrLater'  BY DEF OwnIdOrLater, MainInv, TypeOK, Threads
<1> QED  BY <1>1, <1>2, <1>3, <1>4, <1>5, <1>6, <1>7, <1>8, <1>9, <1>10

\* CInc preserves the invariant.
LEMMA CIncStep == ASSUME IInv, NEW c \in Consumers, CInc(c) PROVE IInv'
<1> USE ConstantsAssumption DEF ConstantsAssumption, IInv, CInc, CGoto,
     Release, nodes, producer, main
<1>a. /\ cpc[c] = "inc" /\ cpc'[c] = "testEnd" /\ lineNum'[c] = lineNum[c] + 1
      /\ \A d \in Consumers : d # c => cpc'[d] = cpc[d] /\ lineNum'[d] = lineNum[d]
  BY DEF TypeOK
<1>1. TypeOK'  BY DEF TypeOK, CStates
<1>2. LockInv'  BY DEF LockInv, TypeOK, Touching, Threads, Consumers,
     Producer, NoOwner
<1>3. ProducerInv'  BY DEF ProducerInv, TypeOK, Node, Wild
<1>4. NodeInv'  BY DEF NodeInv, ProducerInv, TypeOK, Node, Wild, Fresh,
     Produced, Consumed, Unset
<1>5. ConsumerInv'  BY DEF ConsumerInv, NodeInv, TypeOK, Node, Wild, Fresh,
     Produced, Consumed, Unset
<1>6. TallyInv'  BY DEF TallyInv, NodeInv, ConsumerInv, TypeOK, Claimed, Node,
     Line, Wild, Fresh, Produced, Consumed, Unset
<1>7. MainInv'  BY DEF MainInv, TypeOK, Exited, Consumers, Threads, Producer
<1>8. SleepInv'  BY DEF SleepInv, NodeInv, ConsumerInv, TypeOK, Up, Node,
     Wild, Fresh, Produced, Consumed, Unset
<1>9. DriftInv'  BY <1>a, DriftTypes DEF DriftInv, ConsumerInv, Slack
<1>10. OwnIdOrLater'  BY DEF OwnIdOrLater, MainInv, TypeOK, Threads
<1> QED  BY <1>1, <1>2, <1>3, <1>4, <1>5, <1>6, <1>7, <1>8, <1>9, <1>10

\* CSpurious preserves the invariant.
LEMMA CSpuriousStep == ASSUME IInv, NEW c \in Consumers, CSpurious(c) PROVE IInv'
<1> USE ConstantsAssumption DEF ConstantsAssumption, IInv, CSpurious, CGoto,
     nodes, producer, main
<1>a. /\ cpc[c] = "wait" /\ cpc'[c] \in {"relock"}
      /\ \A d \in Consumers : d # c => cpc'[d] = cpc[d]
  BY DEF TypeOK
<1>1. TypeOK'  BY DEF TypeOK, CStates
<1>2. LockInv'  BY <1>a DEF LockInv, Touching, Threads, Consumers, Producer
<1>3. ProducerInv'  BY DEF ProducerInv, TypeOK, Node, Wild
<1>4. NodeInv'  BY DEF NodeInv, ProducerInv, TypeOK, Node, Wild, Fresh,
     Produced, Consumed, Unset
<1>5. ConsumerInv'  BY DEF ConsumerInv, NodeInv, TypeOK, Node, Wild, Fresh,
     Produced, Consumed, Unset
<1>6. TallyInv'  BY DEF TallyInv, NodeInv, ConsumerInv, TypeOK, Claimed, Node,
     Line, Wild, Fresh, Produced, Consumed, Unset
<1>7. MainInv'  BY DEF MainInv, TypeOK, Exited, Consumers, Threads, Producer
<1>8. SleepInv'  BY DEF SleepInv, NodeInv, ConsumerInv, TypeOK, Up, Node,
     Wild, Fresh, Produced, Consumed, Unset
<1>9. DriftInv'  BY <1>a DEF DriftInv, TypeOK, Slack, Node, Wild
<1>10. OwnIdOrLater'  BY DEF OwnIdOrLater, MainInv, TypeOK, Threads
<1> QED  BY <1>1, <1>2, <1>3, <1>4, <1>5, <1>6, <1>7, <1>8, <1>9, <1>10

\* MCreate preserves the invariant.
LEMMA MCreateStep == ASSUME IInv, MCreate PROVE IInv'
<1> USE ConstantsAssumption DEF ConstantsAssumption, IInv, MCreate, CGoto,
     IdFor, nodes, producer, consumer
<1>f. UNCHANGED <<check, vals, next, ppc, bq, pLine, q, lineNum, customerID, result,
                 end, mutex, alphaCount, spurious>>
  OBVIOUS
<1>1. CASE i \in Consumers
  <2>1. /\ mpc = "create" /\ mpc' = "create" /\ i' = i + 1 /\ consumerId' = i
        /\ cpc' = [cpc EXCEPT ![i] = "start"]
    BY <1>1
  <2>2. /\ cpc[i] = "new" /\ cpc'[i] = "start"
        /\ \A c \in Consumers : c # i => cpc'[c] = cpc[c]
    BY <1>1, <2>1 DEF MainInv, TypeOK, Consumers
  <2> HIDE DEF MCreate
  <2>3. TypeOK'
    BY <1>1, <2>1, <1>f DEF TypeOK, CStates, Consumers, Threads
  <2>4. LockInv'
    BY <1>1, <2>2, <1>f DEF LockInv, Touching, Threads, Consumers, Producer
  <2>5. ProducerInv' /\ NodeInv'
    BY <1>f DEF ProducerInv, NodeInv
  <2>6. ConsumerInv'
    BY <1>1, <2>2, <1>f DEF ConsumerInv
  <2>7. TallyInv'
    BY <1>1, <2>2, <1>f DEF TallyInv, Claimed
  <2>8. MainInv'
    BY <1>1, <2>1, <2>2 DEF MainInv, TypeOK, Consumers, Threads
  <2>9. SleepInv' /\ DriftInv' /\ OwnIdOrLater'
    BY <1>1, <2>2, <1>f DEF SleepInv, Up, DriftInv, Slack, OwnIdOrLater
  <2> QED  BY <2>3, <2>4, <2>5, <2>6, <2>7, <2>8, <2>9
<1>2. CASE i \notin Consumers
  <2>1. /\ mpc = "create" /\ mpc' = "join" /\ i' = 0 /\ cpc' = cpc
        /\ consumerId' = consumerId
    BY <1>2
  <2>2. \A c \in Consumers : cpc[c] # "new"
    BY <1>2, <2>1 DEF MainInv, TypeOK, Consumers, Threads
  <2> HIDE DEF MCreate
  <2>3. TypeOK'
    BY <2>1, <1>f DEF TypeOK
  <2>4. LockInv' /\ ProducerInv' /\ NodeInv'
    BY <2>1, <1>f DEF LockInv, Touching, ProducerInv, NodeInv
  <2>5. ConsumerInv' /\ TallyInv'
    BY <2>1, <1>f DEF ConsumerInv, TallyInv, Claimed
  <2>6. MainInv'
    BY <2>1, <2>2 DEF MainInv, Threads
  <2>7. SleepInv' /\ DriftInv' /\ OwnIdOrLater'
    BY <2>1, <1>f DEF SleepInv, Up, DriftInv, Slack, OwnIdOrLater
  <2> QED  BY <2>3, <2>4, <2>5, <2>6, <2>7
<1> QED  BY <1>1, <1>2

\* MJoin preserves the invariant.
LEMMA MJoinStep == ASSUME IInv, MJoin PROVE IInv'
<1> USE ConstantsAssumption DEF ConstantsAssumption, IInv, MJoin, ToJoin,
     Exited, nodes, producer, consumer
<1>1. TypeOK'  BY DEF TypeOK, CStates
<1>2. LockInv'  BY DEF LockInv, TypeOK, Touching, Threads, Consumers,
     Producer, NoOwner
<1>3. ProducerInv'  BY DEF ProducerInv, TypeOK, Node, Wild
<1>4. NodeInv'  BY DEF NodeInv, ProducerInv, TypeOK, Node, Wild, Fresh,
     Produced, Consumed, Unset
<1>5. ConsumerInv'  BY DEF ConsumerInv, NodeInv, TypeOK, Node, Wild, Fresh,
     Produced, Consumed, Unset
<1>6. TallyInv'  BY DEF TallyInv, NodeInv, ConsumerInv, TypeOK, Claimed, Node,
     Line, Wild, Fresh, Produced, Consumed, Unset
<1>7. MainInv'  BY DEF MainInv, TypeOK, Exited, Consumers, Threads, Producer
<1>8. SleepInv'  BY DEF SleepInv, NodeInv, ConsumerInv, TypeOK, Up, Node,
     Wild, Fresh, Produced, Consumed, Unset
<1>9. DriftInv'  BY DEF DriftInv, TypeOK, Slack
<1>10. OwnIdOrLater'  BY DEF OwnIdOrLater, MainInv, TypeOK, Threads
<1> QED  BY <1>1, <1>2, <1>3, <1>4, <1>5, <1>6, <1>7, <1>8, <1>9, <1>10

\* finilize preserves the invariant.
LEMMA FinilizeStep == ASSUME IInv, finilize PROVE IInv'
<1> USE ConstantsAssumption DEF ConstantsAssumption, IInv, finilize, Exited,
     nodes, producer, consumer
<1>1. TypeOK'  BY DEF TypeOK, CStates
<1>2. LockInv'  BY DEF LockInv, TypeOK, Touching, Threads, Consumers,
     Producer, NoOwner
<1>3. ProducerInv'  BY DEF ProducerInv, TypeOK, Node, Wild
<1>4. NodeInv'  BY DEF NodeInv, ProducerInv, TypeOK, Node, Wild, Fresh,
     Produced, Consumed, Unset
<1>5. ConsumerInv'  BY DEF ConsumerInv, NodeInv, TypeOK, Node, Wild, Fresh,
     Produced, Consumed, Unset
<1>6. TallyInv'  BY DEF TallyInv, NodeInv, ConsumerInv, TypeOK, Claimed, Node,
     Line, Wild, Fresh, Produced, Consumed, Unset
<1>7. MainInv'  BY DEF MainInv, TypeOK, Exited, Consumers, Threads, Producer
<1>8. SleepInv'  BY DEF SleepInv, NodeInv, ConsumerInv, TypeOK, Up, Node,
     Wild, Fresh, Produced, Consumed, Unset
<1>9. DriftInv'  BY DEF DriftInv, TypeOK, Slack
<1>10. OwnIdOrLater'  BY DEF OwnIdOrLater, MainInv, TypeOK, Threads
<1> QED  BY <1>1, <1>2, <1>3, <1>4, <1>5, <1>6, <1>7, <1>8, <1>9, <1>10

\* A finilize that cannot write preserves the invariant.
LEMMA FinilizeFailsStep == ASSUME IInv, FinilizeFails PROVE IInv'
<1> USE ConstantsAssumption DEF ConstantsAssumption, IInv, FinilizeFails, Exited,
     nodes, producer, consumer
<1>1. TypeOK'  BY DEF TypeOK, CStates
<1>2. LockInv'  BY DEF LockInv, TypeOK, Touching, Threads, Consumers,
     Producer, NoOwner
<1>3. ProducerInv'  BY DEF ProducerInv, TypeOK, Node, Wild
<1>4. NodeInv'  BY DEF NodeInv, ProducerInv, TypeOK, Node, Wild, Fresh,
     Produced, Consumed, Unset
<1>5. ConsumerInv'  BY DEF ConsumerInv, NodeInv, TypeOK, Node, Wild, Fresh,
     Produced, Consumed, Unset
<1>6. TallyInv'  BY DEF TallyInv, NodeInv, ConsumerInv, TypeOK, Claimed, Node,
     Line, Wild, Fresh, Produced, Consumed, Unset
<1>7. MainInv'  BY DEF MainInv, TypeOK, Exited, Consumers, Threads, Producer
<1>8. SleepInv'  BY DEF SleepInv, NodeInv, ConsumerInv, TypeOK, Up, Node,
     Wild, Fresh, Produced, Consumed, Unset
<1>9. DriftInv'  BY DEF DriftInv, TypeOK, Slack
<1>10. OwnIdOrLater'  BY DEF OwnIdOrLater, MainInv, TypeOK, Threads
<1> QED  BY <1>1, <1>2, <1>3, <1>4, <1>5, <1>6, <1>7, <1>8, <1>9, <1>10

-----------------------------------------------------------------------------
\* The first state satisfies the invariant.
LEMMA InitIInv == Init => IInv
<1> SUFFICES ASSUME Init PROVE IInv
  OBVIOUS
<1> USE ConstantsAssumption DEF ConstantsAssumption, Init
<1>1. TypeOK
  BY DEF TypeOK, PStates, CStates, Node, Line, Blank, Wild, Fresh, Unset, Threads,
         NoOwner
<1>2. LockInv
  BY DEF LockInv, Touching, Threads, Consumers, Producer, NoOwner
<1>3. ProducerInv /\ NodeInv
  BY DEF ProducerInv, NodeInv, Node, Wild, Fresh, Unset
<1>4. ConsumerInv /\ TallyInv
  BY DEF ConsumerInv, TallyInv, Node, Line, Wild, Fresh, Consumed, Unset
<1>5. MainInv /\ SleepInv /\ DriftInv /\ OwnIdOrLater
  BY DEF MainInv, SleepInv, Up, DriftInv, OwnIdOrLater, Consumers, Wild
<1> QED  BY <1>1, <1>2, <1>3, <1>4, <1>5 DEF IInv

\* A step that changes nothing preserves the invariant.
LEMMA StutterStep == ASSUME IInv, UNCHANGED vars PROVE IInv'
BY DEF IInv, vars, nodes, producer, consumer, main, TypeOK, LockInv, Touching,
       ProducerInv, NodeInv, ConsumerInv, TallyInv, Claimed, MainInv, Exited,
       SleepInv, Up, DriftInv, Slack, OwnIdOrLater

\* Every step preserves the invariant.
LEMMA NextIInv == IInv /\ [Next]_vars => IInv'
<1> SUFFICES ASSUME IInv, [Next]_vars PROVE IInv'
  OBVIOUS
<1>1. CASE ProducerStep
  BY <1>1, POpenStep, PReadStep, PLockStep, PAllocStep, PPublishStep, PSignalStep,
     PUnlockStep, PSetEndStep, PBroadcastStep DEF ProducerStep
<1>2. CASE MainStep
  BY <1>2, MCreateStep, MJoinStep, FinilizeStep,
     FinilizeFailsStep DEF MainStep
<1>3. ASSUME NEW c \in Consumers, ConsumerStep(c) \/ CSpurious(c) PROVE IInv'
  BY <1>3, CStartStep, CTestEndStep, CTestZeroStep, CLockStep, CCheckStep,
     CRelockStep, CBranchStep, CCountStep, CIncStep, CSpuriousStep DEF ConsumerStep
<1>4. CASE UNCHANGED vars
  BY <1>4, StutterStep
<1> QED  BY <1>1, <1>2, <1>3, <1>4 DEF Next

\* The invariant holds throughout every run.
THEOREM Invariance == Spec => []IInv
BY InitIInv, NextIInv, PTL DEF Spec

\* Every variable keeps its type.
THEOREM TypeCorrect == Spec => []TypeOK
<1>1. IInv => TypeOK
  BY DEF IInv
<1> QED  BY <1>1, Invariance, PTL

\* The mutex excludes: no two threads touch the list or the histogram at once.
THEOREM MutualExclusion == Spec => []NoDataRace
<1>1. IInv => NoDataRace
  BY DEF IInv, LockInv, NoDataRace
<1> QED  BY <1>1, Invariance, PTL

\* No consumer reads what main and malloc left uninitialised.
THEOREM PointersSafe == Spec => []NoWildRead
<1>1. IInv => NoWildRead
  <2> SUFFICES ASSUME IInv, NEW c \in Consumers, cpc[c] \in {"check", "branch", "count"}
               PROVE  Readable(c) /\ (cpc[c] = "count" => vals[q[c]] \in Line)
    BY DEF NoWildRead
  <2> USE ConstantsAssumption DEF ConstantsAssumption
  <2>1. q[c] \in Node /\ pLine \in Node /\ q[c] <= pLine
    BY DEF IInv, ConsumerInv, TypeOK, Node, Wild
  <2>2. check[q[c]] # Unset
    BY <2>1 DEF IInv, NodeInv, Node, Fresh, Produced, Consumed, Unset
  <2>3. ASSUME cpc[c] = "count" PROVE vals[q[c]] \in Line
    <3>1. q[c] < pLine
      BY <2>1, <2>3 DEF IInv, ConsumerInv, NodeInv, Node, Fresh, Consumed
    <3> QED  BY <2>1, <3>1 DEF IInv, NodeInv, TypeOK, Node, Line
  <2> QED  BY <2>1, <2>2, <2>3 DEF Readable
<1> QED  BY <1>1, Invariance, PTL

\* A consumer's way through the list leaves no line behind it uncounted.
THEOREM NoLineSkipped == Spec => []NothingLeftBehind
<1>1. IInv => NothingLeftBehind
  BY ConstantsAssumption
  DEF ConstantsAssumption, IInv, NothingLeftBehind, ConsumerInv, TallyInv, Line, Node
<1> QED  BY <1>1, Invariance, PTL

\* The written histogram is complete when some consumer got to the end.
THEOREM CompleteWhenTailReached == Spec => []ReportComplete
<1>1. IInv => ReportComplete
  <2> SUFFICES ASSUME IInv, mpc = "exit", NEW c \in Consumers, q[c] = pLine,
                      NEW l \in Line, l < pLine
               PROVE  result[l] = 1
    BY DEF ReportComplete
  <2> USE ConstantsAssumption DEF ConstantsAssumption
  <2>1. q[c] # Wild /\ l < q[c] /\ l \in Node
    BY DEF IInv, TypeOK, Line, Node, Wild
  <2>2. Claimed(l)
    BY <2>1 DEF IInv, ConsumerInv, TallyInv
  <2>3. \A d \in Consumers : cpc[d] = "exit"
    BY DEF IInv, MainInv, Exited, Threads, Consumers, Producer
  <2> QED  BY <2>2, <2>3 DEF Claimed, IInv, MainInv
<1> QED  BY <1>1, Invariance, PTL

\* While the producer runs, a line in the queue is never left to sleepers.
THEOREM NoLostWakeupForLines == Spec => []WorkHasWorker
<1>1. IInv => WorkHasWorker
  BY DEF IInv, SleepInv, WorkHasWorker, Waiters, Up
<1> QED  BY <1>1, Invariance, PTL

\* A consumer that hangs after the producer is gone has nothing left to count.
THEOREM HangIsHarmlessToCounts == Spec => []HangLosesNoLine
<1>1. IInv => HangLosesNoLine
  <2> SUFFICES ASSUME IInv, NEW c \in Consumers, ppc = "exit", cpc[c] = "wait"
               PROVE  q[c] = pLine /\ \A l \in Line : l < pLine => check[l] = Consumed
    BY DEF HangLosesNoLine
  <2>1. q[c] = pLine /\ q[c] # Wild
    BY DEF IInv, SleepInv, ConsumerInv
  <2> QED  BY <2>1, ConstantsAssumption
           DEF ConstantsAssumption, IInv, ConsumerInv, Line, Node
<1> QED  BY <1>1, Invariance, PTL

\* Consumers stay until the whole file is in the queue.
THEOREM NoEarlyExit == Spec => []NoExitBeforeEOF
<1>1. IInv => NoExitBeforeEOF
  BY DEF IInv, ConsumerInv, ProducerInv, NoExitBeforeEOF, TypeOK
<1> QED  BY <1>1, Invariance, PTL

\* lineNum runs ahead of the position only by wakeups that found no line.
THEOREM DriftIsBounded == Spec => []DriftBounded
<1>1. IInv => DriftBounded
  BY DriftTypes DEF IInv, DriftInv, ConsumerInv, Slack, DriftBounded
<1> QED  BY <1>1, Invariance, PTL
-----------------------------------------------------------------------------
\* The initial states of the threads are initial states of LineTally.
LEMMA RefinementInit == Init => Abstract!TInit
BY DEF Init, Abstract!TInit, Abstract!Line, Line

\* Publishing a line is Publish.
LEMMA PublishRefines == ASSUME IInv, PPublish PROVE Abstract!Publish
<1>1. mpc # "exit" /\ mpc' = mpc
  BY ConstantsAssumption
  DEF ConstantsAssumption, IInv, MainInv, Exited, Threads, Producer, PPublish, main
<1>2. pLine < NumLines
  BY DEF IInv, ProducerInv, PPublish
<1> QED  BY <1>1, <1>2 DEF PPublish, main, Abstract!Publish

\* Counting a line is Tally: it is the next in file order.
LEMMA CountRefines == ASSUME IInv, NEW c \in Consumers, CCount(c) PROVE Abstract!Tally
<1> USE ConstantsAssumption DEF ConstantsAssumption
<1>1. /\ cpc[c] = "count" /\ mpc # "exit"
      /\ \A d \in Consumers : d # c => cpc[d] # "count"
  BY DEF IInv, CCount, MainInv, Exited, LockInv, Touching, Threads, Consumers, Producer
<1>2. /\ q[c] \in Node /\ pLine \in Node /\ q[c] <= pLine /\ q[c] # Wild
      /\ check[q[c]] = Consumed
  BY <1>1 DEF IInv, ConsumerInv, TypeOK, Node, Wild
<1>3. q[c] \in Line /\ q[c] < pLine /\ vals[q[c]] = q[c]
  BY <1>2 DEF IInv, NodeInv, Node, Line, Fresh, Consumed
<1>4. alphaCount[q[c]] = 0
  BY <1>1, <1>2, <1>3 DEF IInv, TallyInv, Claimed
<1>5. ASSUME NEW k \in Line, k < q[c] PROVE alphaCount[k] = 1
  <2>1. k \in Node /\ k # q[c]
    BY <1>2, <1>5 DEF Line, Node
  <2>2. Claimed(k)
    BY <1>2, <1>5, <2>1 DEF IInv, ConsumerInv, TallyInv
  <2> QED  BY <1>1, <2>1, <2>2 DEF Claimed
<1>6. /\ alphaCount' = [alphaCount EXCEPT ![q[c]] = 1]
      /\ UNCHANGED <<pLine, mpc, result>>
  BY <1>3, <1>4 DEF CCount, producer, main, IInv, TypeOK
<1> QED  BY <1>1, <1>3, <1>4, <1>5, <1>6 DEF Abstract!Tally, Abstract!Line, Line

\* Every other step but main's report leaves the abstract state alone.
LEMMA OthersStutter ==
  ASSUME IInv, [Next]_vars, ~PPublish, ~finilize, \A c \in Consumers : ~CCount(c)
  PROVE  UNCHANGED <<pLine, alphaCount, mpc = "exit", result>>
<1> USE DEF nodes, producer, consumer, main
<1>1. CASE ProducerStep
  BY <1>1 DEF ProducerStep, POpen, PRead, PLock, PAlloc, PSignal, PUnlock, PSetEnd,
              PBroadcast
<1>2. CASE MainStep
  BY <1>2 DEF MainStep, MCreate, MJoin, FinilizeFails
<1>3. ASSUME NEW c \in Consumers, ConsumerStep(c) \/ CSpurious(c)
      PROVE  UNCHANGED <<pLine, alphaCount, mpc = "exit", result>>
  BY <1>3 DEF ConsumerStep, CSpurious, CStart, CTestEnd, CTestZero, CLock, CCheck,
              CRelock, CBranch, CInc
<1>4. CASE UNCHANGED vars
  BY <1>4 DEF vars
<1> QED  BY <1>1, <1>2, <1>3, <1>4 DEF Next

\* The threads implement LineTally: every line is counted at most once, in file
\* order, and none after the histogram is written.
THEOREM Refinement == Spec => ImplementsTally
<1>1. IInv /\ [Next]_vars => [Abstract!TNext]_(Abstract!tvars)
  <2> SUFFICES ASSUME IInv, [Next]_vars PROVE [Abstract!TNext]_(Abstract!tvars)
    OBVIOUS
  <2>1. CASE PPublish
    BY <2>1, PublishRefines DEF Abstract!TNext
  <2>2. ASSUME NEW c \in Consumers, CCount(c) PROVE Abstract!TNext
    BY <2>2, CountRefines DEF Abstract!TNext
  <2>3. CASE finilize
    BY <2>3 DEF finilize, producer, Abstract!TNext, Abstract!Report
  <2>4. CASE ~PPublish /\ ~finilize /\ \A c \in Consumers : ~CCount(c)
    BY <2>4, OthersStutter DEF Abstract!tvars
  <2> QED  BY <2>1, <2>2, <2>3, <2>4
<1> QED  BY <1>1, RefinementInit, Invariance, PTL DEF Spec, ImplementsTally, Abstract!TSpec
=============================================================================
