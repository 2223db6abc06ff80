--------------------------- MODULE WordCountQueue ---------------------------
(***************************************************************************)
(* The threads of the word count statistics program wcs                    *)
(* (src/project/project3): main creates one producer and NumConsumers      *)
(* consumers, joins them and writes the histogram.  The producer appends   *)
(* the file's lines to an unbounded linked list; every consumer walks the  *)
(* whole list and counts the lines it finds uncounted.                     *)
(*                                                                         *)
(* One step is what a thread does between two points where another thread  *)
(* can interfere: the pthread calls and the unprotected accesses to `end`. *)
(* The build has no -O flag, so each textual read of `end` is a load.      *)
(*                                                                         *)
(* Abstractions.  Node k is the k-th node allocated, line l the l-th line  *)
(* fgets returns.  alphaCount is additive over wordcount calls, so it is   *)
(* kept as the number of times each line was added.  The log (-p) and      *)
(* node->lineNum, which nothing reads, are left out.                       *)
(***************************************************************************)
EXTENDS Naturals

CONSTANTS
  NumConsumers,   \* argv[1]
  NumLines,       \* BOUND: lines of the file, which may have fewer, or none
  MaxSpurious,    \* BOUND: spurious wakeups of pthread_cond_wait in a run
  FopenMayFail    \* whether the producer's fopen, after main's of the same
                  \* file, and that of result.txt may fail

ASSUME ConstantsAssumption ==
  /\ NumConsumers \in Nat /\ NumLines \in Nat /\ MaxSpurious \in Nat
  /\ FopenMayFail \in BOOLEAN

Producer == 0                        \* condPool[0]
Consumers == 1 .. NumConsumers       \* condPool[1..numCosumer]
Threads == 0 .. NumConsumers
NoOwner == NumConsumers + 1          \* the mutex is free

Line == 0 .. NumLines - 1
Blank == NumLines                    \* vals of a node nothing was written to
Node == 0 .. NumLines
Wild == NumLines + 1                 \* a pointer to memory nobody initialised

\* Values of a node's check field; Unset is malloc's indeterminate content.
Fresh == 0
Produced == 1
Consumed == 2
Unset == 3

VARIABLES
  check, vals, next,             \* the nodes of the list
  ppc, bq, pLine,                \* producer: pc, bq, its lineNum
  cpc, q, lineNum, customerID,   \* consumers: pc, q, lineNum, customerID
  mpc, i,                        \* main: pc, the loop variable i
  consumerId, end, mutex, alphaCount, result,
  spurious                       \* spurious wakeups so far

nodes == <<check, vals, next>>
producer == <<ppc, bq, pLine>>
consumer == <<cpc, q, lineNum, customerID>>
main == <<mpc, i, consumerId, result>>
vars == <<nodes, producer, consumer, main, end, mutex, alphaCount, spurious>>

PStates == {"fopen", "fgets", "lock", "alloc", "publish", "signal", "unlock",
            "setEnd", "broadcast", "exit"}
CStates == {"new", "start", "testEnd", "testZero", "lock", "check", "wait",
            "relock", "branch", "count", "inc", "exit"}

\* Just after pthread_create of the producer.
Init ==
  /\ check = [n \in Node |-> IF n = 0 THEN Fresh ELSE Unset]
  /\ vals = [n \in Node |-> Blank]
  /\ next = [n \in Node |-> Wild]
  /\ ppc = "fopen" /\ bq = Wild /\ pLine = 0
  /\ cpc = [c \in Consumers |-> "new"]
  /\ q = [c \in Consumers |-> Wild]
  /\ lineNum = [c \in Consumers |-> 0]
  /\ customerID = [c \in Consumers |-> 0]
  /\ mpc = "create" /\ i = 1
  /\ consumerId = 0 /\ end = 0 /\ mutex = NoOwner
  /\ alphaCount = [l \in Line |-> 0] /\ result = [l \in Line |-> 0]
  /\ spurious = 0
-----------------------------------------------------------------------------
(***************************************************************************)
(* A definition that directly precedes another of the same parameters and  *)
(* bears its name with a suffix (SignalDropped, Signal) is a faulty        *)
(* variant of it that no action uses: replacing the definition by it shows *)
(* that some property depends on the code being as it is.                  *)
(***************************************************************************)

(***************************************************************************)
(* Condition variable.  pthread_cond_signal wakes one waiter, if any;      *)
(* a woken waiter competes for the mutex.                                  *)
(***************************************************************************)
Waiters == {c \in Consumers : cpc[c] = "wait"}

SignalDropped == UNCHANGED cpc
Signal ==
  IF Waiters = {} THEN UNCHANGED cpc
  ELSE \E c \in Waiters : cpc' = [cpc EXCEPT ![c] = "relock"]

BroadcastOnlyOne == Signal
BroadcastDropped == UNCHANGED cpc
Broadcast ==
  cpc' = [c \in Consumers |-> IF c \in Waiters THEN "relock" ELSE cpc[c]]

Acquire(t) == mutex = NoOwner /\ mutex' = t
Release(t) == mutex = t /\ mutex' = NoOwner

\* pthread_cond_wait gives up the mutex as it puts the thread to sleep, and
\* has it again when it returns.
SleepHoldingLock(c) == cpc' = [cpc EXCEPT ![c] = "wait"] /\ UNCHANGED mutex
Sleep(c) == cpc' = [cpc EXCEPT ![c] = "wait"] /\ Release(c)

WakeWithoutLock(c) == cpc' = [cpc EXCEPT ![c] = "branch"] /\ UNCHANGED mutex
Wake(c) == cpc' = [cpc EXCEPT ![c] = "branch"] /\ Acquire(c)
-----------------------------------------------------------------------------
(***************************************************************************)
(* Producer.                                                               *)
(***************************************************************************)
PGoto(s) == ppc' = s

POpen ==
  /\ ppc = "fopen"
  /\ \/ PGoto("fgets") /\ bq' = 0
     \/ FopenMayFail /\ PGoto("broadcast") /\ UNCHANGED bq
  /\ UNCHANGED <<nodes, pLine, consumer, main, end, mutex, alphaCount, spurious>>

\* fgets(line,1024,fp)!=NULL: the file ends after any number of lines.
PRead ==
  /\ ppc = "fgets"
  /\ \/ pLine < NumLines /\ PGoto("lock")
     \/ PGoto("setEnd")
  /\ UNCHANGED <<nodes, bq, pLine, consumer, main, end, mutex, alphaCount, spurious>>

PLock ==
  /\ ppc = "lock" /\ Acquire(Producer) /\ PGoto("alloc")
  /\ UNCHANGED <<nodes, bq, pLine, consumer, main, end, alphaCount, spurious>>

PAlloc ==
  /\ ppc = "alloc" /\ PGoto("publish")
  /\ next' = [next EXCEPT ![bq] = bq + 1]
  /\ check' = [check EXCEPT ![bq + 1] = Fresh]
  /\ UNCHANGED <<vals, bq, pLine, consumer, main, end, mutex, alphaCount, spurious>>

PPublish ==
  /\ ppc = "publish" /\ PGoto("signal")
  /\ vals' = [vals EXCEPT ![bq] = pLine]
  /\ check' = [check EXCEPT ![bq] = Produced]
  /\ bq' = next[bq]
  /\ pLine' = pLine + 1
  /\ UNCHANGED <<next, consumer, main, end, mutex, alphaCount, spurious>>

PSignal ==
  /\ ppc = "signal" /\ Signal /\ PGoto("unlock")
  /\ UNCHANGED <<nodes, bq, pLine, q, lineNum, customerID, main, end, mutex,
                 alphaCount, spurious>>

PUnlock ==
  /\ ppc = "unlock" /\ Release(Producer) /\ PGoto("fgets")
  /\ UNCHANGED <<nodes, bq, pLine, consumer, main, end, alphaCount, spurious>>

\* end is written without the lock.
PSetEnd ==
  /\ ppc = "setEnd" /\ end' = pLine /\ PGoto("broadcast")
  /\ UNCHANGED <<nodes, bq, pLine, consumer, main, mutex, alphaCount, spurious>>

PBroadcast ==
  /\ ppc = "broadcast" /\ Broadcast /\ PGoto("exit")
  /\ UNCHANGED <<nodes, bq, pLine, q, lineNum, customerID, main, end, mutex,
                 alphaCount, spurious>>

ProducerStep ==
  \/ POpen \/ PRead \/ PLock \/ PAlloc \/ PPublish \/ PSignal \/ PUnlock
  \/ PSetEnd \/ PBroadcast
-----------------------------------------------------------------------------
(***************************************************************************)
(* Consumer c.                                                             *)
(***************************************************************************)
CGoto(c, s) == cpc' = [cpc EXCEPT ![c] = s]

\* The id is read from the structure main shares with all consumers.
CStart(c) ==
  /\ cpc[c] = "start" /\ CGoto(c, "testEnd")
  /\ customerID' = [customerID EXCEPT ![c] = consumerId]
  /\ q' = [q EXCEPT ![c] = 0]
  /\ UNCHANGED <<nodes, producer, lineNum, main, end, mutex, alphaCount, spurious>>

\* while(end>lineNum||end==0): two loads of end, neither under the lock.
EndUnknownIgnored == FALSE
EndUnknown == end = 0

CTestEnd(c) ==
  /\ cpc[c] = "testEnd"
  /\ CGoto(c, IF end > lineNum[c] THEN "lock" ELSE "testZero")
  /\ UNCHANGED <<nodes, producer, q, lineNum, customerID, main, end, mutex,
                 alphaCount, spurious>>

CTestZero(c) ==
  /\ cpc[c] = "testZero"
  /\ CGoto(c, IF EndUnknown THEN "lock" ELSE "exit")
  /\ UNCHANGED <<nodes, producer, q, lineNum, customerID, main, end, mutex,
                 alphaCount, spurious>>

CLock(c) ==
  /\ cpc[c] = "lock" /\ Acquire(c) /\ CGoto(c, "check")
  /\ UNCHANGED <<nodes, producer, q, lineNum, customerID, main, end, alphaCount,
                 spurious>>

\* Reading through a wild pointer or reading a field nobody wrote is undefined:
\* the model takes no such step, and NoWildRead says that none is called for.
Readable(c) == q[c] \in Node /\ check[q[c]] # Unset

CCheck(c) ==
  /\ cpc[c] = "check" /\ Readable(c)
  /\ \/ check[q[c]] = Fresh /\ Sleep(c)
     \/ check[q[c]] # Fresh /\ CGoto(c, "branch") /\ UNCHANGED mutex
  /\ UNCHANGED <<nodes, producer, q, lineNum, customerID, main, end, alphaCount,
                 spurious>>

CSpurious(c) ==
  /\ cpc[c] = "wait" /\ spurious < MaxSpurious
  /\ spurious' = spurious + 1 /\ CGoto(c, "relock")
  /\ UNCHANGED <<nodes, producer, q, lineNum, customerID, main, end, mutex, alphaCount>>

\* pthread_cond_wait returns; check is not tested again before the branch.
CRelock(c) ==
  /\ cpc[c] = "relock" /\ Wake(c)
  /\ UNCHANGED <<nodes, producer, q, lineNum, customerID, main, end, alphaCount,
                 spurious>>

AdvanceNot(c) == UNCHANGED q
Advance(c) == q' = [q EXCEPT ![c] = next[q[c]]]

StayAdvances(c) == Advance(c)
Stay(c) == UNCHANGED q

ConsumeUnmarked(c) == UNCHANGED check
Consume(c) == check' = [check EXCEPT ![q[c]] = Consumed]

CBranch(c) ==
  /\ cpc[c] = "branch" /\ Readable(c)
  /\ \/ /\ check[q[c]] = Consumed /\ CGoto(c, "inc")
        /\ Advance(c) /\ UNCHANGED check
     \/ /\ check[q[c]] = Produced /\ CGoto(c, "count")
        /\ Consume(c) /\ UNCHANGED q
     \/ /\ check[q[c]] = Fresh /\ CGoto(c, "inc")
        /\ Stay(c) /\ UNCHANGED check
  /\ UNCHANGED <<vals, next, producer, lineNum, customerID, main, end, mutex,
                 alphaCount, spurious>>

CCount(c) ==
  /\ cpc[c] = "count" /\ Readable(c) /\ CGoto(c, "inc")
  /\ alphaCount' = [alphaCount EXCEPT ![vals[q[c]]] = @ + 1]
  /\ Advance(c)
  /\ UNCHANGED <<nodes, producer, lineNum, customerID, main, end, mutex, spurious>>

CInc(c) ==
  /\ cpc[c] = "inc" /\ Release(c) /\ CGoto(c, "testEnd")
  /\ lineNum' = [lineNum EXCEPT ![c] = @ + 1]
  /\ UNCHANGED <<nodes, producer, q, customerID, main, end, alphaCount, spurious>>

ConsumerStep(c) ==
  \/ CStart(c) \/ CTestEnd(c) \/ CTestZero(c) \/ CLock(c) \/ CCheck(c)
  \/ CRelock(c) \/ CBranch(c) \/ CCount(c) \/ CInc(c)
-----------------------------------------------------------------------------
(***************************************************************************)
(* main.                                                                   *)
(***************************************************************************)
IdAhead(n) == n + 1
IdFor(n) == n

MCreate ==
  /\ mpc = "create"
  /\ IF i \in Consumers
       THEN /\ consumerId' = IdFor(i) /\ CGoto(i, "start")
            /\ i' = i + 1 /\ UNCHANGED mpc
       ELSE mpc' = "join" /\ i' = 0 /\ UNCHANGED <<consumerId, cpc>>
  /\ UNCHANGED <<nodes, producer, q, lineNum, customerID, result, end, mutex,
                 alphaCount, spurious>>

Exited(t) == IF t = Producer THEN ppc = "exit" ELSE cpc[t] = "exit"

ToJoinAllButLast == Threads \ {NumConsumers}
ToJoin == Threads

MJoin ==
  /\ mpc = "join"
  /\ IF i \in ToJoin
       THEN Exited(i) /\ i' = i + 1 /\ UNCHANGED mpc
       ELSE mpc' = "finilize" /\ UNCHANGED i
  /\ UNCHANGED <<nodes, producer, consumer, consumerId, result, end, mutex,
                 alphaCount, spurious>>

finilize ==
  /\ mpc = "finilize" /\ mpc' = "exit" /\ result' = alphaCount
  /\ UNCHANGED <<nodes, producer, consumer, i, consumerId, end, mutex,
                 alphaCount, spurious>>

\* "Unable to create file.": exit(EXIT_FAILURE).
FinilizeFails ==
  /\ FopenMayFail /\ mpc = "finilize" /\ mpc' = "failed"
  /\ UNCHANGED <<nodes, producer, consumer, i, consumerId, result, end, mutex,
                 alphaCount, spurious>>

MainStep == MCreate \/ MJoin \/ finilize \/ FinilizeFails

Next ==
  \/ ProducerStep \/ MainStep
  \/ \E c \in Consumers : ConsumerStep(c) \/ CSpurious(c)

Spec == Init /\ [][Next]_vars

\* Every thread the scheduler can run gets to run; a spurious wakeup need not
\* happen.
Fairness ==
  /\ WF_vars(ProducerStep) /\ WF_vars(MainStep)
  /\ \A c \in Consumers : WF_vars(ConsumerStep(c))

FairSpec == Spec /\ Fairness
-----------------------------------------------------------------------------
\* Every variable has its type: the pointers stay inside the list, and each
\* pc is a point of the thread's function.
TypeOK ==
  /\ check \in [Node -> 0 .. 3] /\ vals \in [Node -> Line \cup {Blank}]
  /\ next \in [Node -> Node \cup {Wild}]
  /\ ppc \in PStates /\ bq \in Node \cup {Wild} /\ pLine \in 0 .. NumLines
  /\ cpc \in [Consumers -> CStates] /\ q \in [Consumers -> Node \cup {Wild}]
  /\ lineNum \in [Consumers -> Nat] /\ customerID \in [Consumers -> Threads]
  /\ mpc \in {"create", "join", "finilize", "exit", "failed"} /\ i \in Nat
  /\ consumerId \in Threads /\ end \in 0 .. NumLines
  /\ mutex \in Threads \cup {NoOwner}
  /\ alphaCount \in [Line -> Nat] /\ result \in [Line -> Nat]
  /\ spurious \in 0 .. MaxSpurious

\* The points at which a thread touches the list or the histogram.
Touching(t) ==
  IF t = Producer THEN ppc \in {"alloc", "publish", "signal", "unlock"}
  ELSE cpc[t] \in {"check", "branch", "count", "inc"}

\* No two threads touch the list or alphaCount at once (cq->mutex), also
\* when one of them comes back from pthread_cond_wait.
NoDataRace ==
  \A s, t \in Threads : Touching(s) /\ Touching(t) => s = t

\* A consumer never follows the uninitialised next pointer main leaves in the
\* first node, never tests a check field malloc left indeterminate, and never
\* counts the text of a node the producer has not filled.
NoWildRead ==
  \A c \in Consumers :
    cpc[c] \in {"check", "branch", "count"} =>
      Readable(c) /\ (cpc[c] = "count" => vals[q[c]] \in Line)

\* The line of node n is in the histogram once, or its consumer, alone, is
\* about to add it.
Claimed(n) ==
  \/ alphaCount[n] = 1 /\ \A c \in Consumers : q[c] = n => cpc[c] # "count"
  \/ alphaCount[n] = 0 /\ \E c \in Consumers : q[c] = n /\ cpc[c] = "count"

\* Wherever a consumer stands, every line before it has been claimed by
\* exactly one consumer: walking past nodes others consumed skips no line.
NothingLeftBehind ==
  \A c \in Consumers : \A l \in Line : q[c] # Wild /\ l < q[c] => Claimed(l)

\* If some consumer walked to the end of the list, the histogram main writes
\* has every line of the file once.
ReportComplete ==
  mpc = "exit" /\ (\E c \in Consumers : q[c] = pLine) =>
    \A l \in Line : l < pLine => result[l] = 1

\* A line in the queue is never left to sleepers: if it is uncounted and a
\* consumer sleeps, another consumer is up or a wakeup is on its way.  One
\* signal per line suffices even when it wakes a consumer far behind.
WorkHasWorker ==
  (\E n \in Node : check[n] = Produced) /\ Waiters # {} =>
    \/ ppc \in {"signal", "broadcast"}
    \/ \E c \in Consumers : cpc[c] \notin {"new", "wait", "exit"}

\* A consumer that sleeps once the producer is gone sleeps forever; it has
\* walked the whole list, so its hanging costs no line.
HangLosesNoLine ==
  \A c \in Consumers : ppc = "exit" /\ cpc[c] = "wait" =>
    q[c] = pLine /\ \A l \in Line : l < pLine => check[l] = Consumed

\* No consumer leaves the loop before every line of the file is in the queue,
\* and none ever leaves when the file is empty or was not opened: `end` is then
\* 0, which consumers take for "not known yet" (consumer.c:41).
NoExitBeforeEOF ==
  \A c \in Consumers : cpc[c] = "exit" =>
    ppc \in {"broadcast", "exit"} /\ end = pLine /\ pLine > 0

\* A consumer tests lineNum, not its position, against `end`.  The two drift
\* apart only by wakeups that find no line: the spurious ones and the final
\* broadcast, never a signal.
DriftBounded ==
  \A c \in Consumers : cpc[c] = "testEnd" =>
    /\ q[c] <= lineNum[c]
    /\ lineNum[c] <= q[c] + spurious + (IF ppc = "exit" THEN 1 ELSE 0)

\* The id a consumer logs under is its own or that of a later consumer:
\* main's next store to consumerId may overtake the consumer's first load.
OwnIdOrLater ==
  \A c \in Consumers : cpc[c] \notin {"new", "start"} => customerID[c] >= c

\* Exactly-once, in file order, and nothing after the report: the threads
\* implement LineTally.
Abstract == INSTANCE LineTally WITH
  published <- pLine, tally <- alphaCount, reported <- mpc = "exit",
  report <- result

ImplementsTally == Abstract!TSpec

\* "Our program counts the starting letter for each word in the file"
\* (README.md:21): the histogram has every line.
CountsEachWord == mpc = "exit" => \A l \in Line : l < pLine => result[l] = 1

\* "wait for all the threads to be finished" (main.c:61): the joins return, and
\* main writes the histogram, at least if the file has a line.
JoinReturns == <>(mpc = "exit" \/ (ppc = "exit" /\ pLine = 0))

\* The producer gets to the end of the file whatever the consumers do, and a line
\* in the queue is eventually claimed, unless every consumer leaves.
PublishedLineClaimed ==
  /\ <>(ppc = "exit")
  /\ \A l \in Line :
       check[l] = Produced ~>
         check[l] = Consumed \/ \A c \in Consumers : cpc[c] = "exit"
=============================================================================
