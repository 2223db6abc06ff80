------------------------ MODULE MapReduceServiceProofs ------------------------
(***************************************************************************)
(* Project 4 for any number of client programs, mappers, files, letters,   *)
(* rows and places at the server.  The inductive invariant is a chain, each *)
(* part preserved with the help of those before it:                        *)
(*   ForkInv       no process is forked twice;                             *)
(*   CommandInv    a mapper's command says how far its session is;         *)
(*   ConnInv       who has which end of a connection, and who is queued;   *)
(*   MessageInv, ThreadInv   types of what is sent, held and counted;      *)
(*   TurnInv       places taken at the server, and who was turned away;    *)
(*   SessionInv    client and thread of a connection alternate;            *)
(*   PastInv       nothing sent, held or answered is ahead of what its     *)
(*                 client asked last;                                      *)
(*   RowInv        who marked the rows of mappers that are checked in;     *)
(*   RowCountInv, AzCountInv   the counters are the sums of what arrived;  *)
(*   CoverInv      what an answer covers;                                  *)
(*   DeadInv       the thread of a client that died has at most one        *)
(*                 message left to find;                                   *)
(*   BoundInv      a letter holds at most what was sent and read again.    *)
(* RowInv to CoverInv speak of runs in which no client died in its session *)
(* (Undisturbed); all the others hold whoever dies.                        *)
(***************************************************************************)
EXTENDS MapReduceService, FiniteSums

(***************************************************************************)
(* The fork loops: no process is forked twice.                             *)
(***************************************************************************)
BeforeSession == {"unborn", "fork", "connect", "wait"}
InSession == {"send", "receive", "close"}

ForkInv ==
  /\ cpc \in [Process -> CPStates] /\ k \in [Process -> Nat \ {0}]
  /\ \A p \in Process :
       /\ p[2] = {} => cpc[p] \in {"fork", "wait", "exited"}
       /\ cpc[p] = "unborn" => k[p] = 1
       /\ cpc[p] = "fork" => k[p] <= Mappers(p)
       /\ cpc[p] # "unborn" => \A e \in p[2] : e < k[p]
       /\ \A n \in k[p] .. Mappers(p) :
            (\A e \in p[2] : e < n) => cpc[Child(p, n)] = "unborn"

(***************************************************************************)
(* A mapper's command, and how many of its files it has sent.              *)
(***************************************************************************)
CommandInv ==
  /\ command \in [Process -> Command] /\ messageCount \in [Process -> Nat]
  /\ faults \subseteq Faults \X Process
  /\ \A p \in Process :
       /\ cpc[p] \in BeforeSession \/ p[2] = {} => command[p] = 0
       /\ cpc[p] = "send" => command[p] # CHECKOUT
       /\ cpc[p] = "receive" => command[p] # 0
       /\ cpc[p] = "close" => command[p] = CHECKOUT
       /\ command[p] \in {0, CHECKIN} => messageCount[p] = 0
       /\ command[p] = UPDATE_AZLIST => messageCount[p] > 0
       /\ \A n \in 0 .. messageCount[p] - 1 : FileOf(p, n) \in 1 .. NumFiles

(***************************************************************************)
(* The two ends of a connection.  One that waits in the queue has no       *)
(* thread yet and is queued once.                                          *)
(***************************************************************************)
ConnInv ==
  /\ end \in [Process -> [Side -> {"none", "open", "closed"}]]
  /\ backlog \in Seq(Process) /\ listening \in BOOLEAN /\ tpc \in [Process -> TStates]
  /\ IsInjective(backlog)
  /\ ~listening => backlog = <<>>
  /\ \A n \in DOMAIN backlog : end[backlog[n]]["server"] = "open" /\ tpc[backlog[n]] = "none"
  /\ \A p \in Process :
       /\ cpc[p] \in BeforeSession => end[p]["client"] = "none"
       /\ p[2] = {} => end[p]["client"] = "none"
       /\ cpc[p] \in InSession <=> end[p]["client"] = "open"
       /\ end[p]["client"] = "none" <=> end[p]["server"] = "none"
       /\ tpc[p] # "none" => end[p]["client"] # "none"
       /\ tpc[p] # "none" /\ listening =>
            end[p]["server"] = IF tpc[p] = "exit" THEN "closed" ELSE "open"

(***************************************************************************)
(* The clients told that the server is busy: the lock, once main keeps it, *)
(* has turned away exactly one.                                            *)
(***************************************************************************)
Turned == {p \in Process : ~Admitted(p) /\ end[p]["server"] = "closed"}

TurnInv ==
  /\ currentConn \in 0 .. MaxConn /\ locked \in BOOLEAN
  /\ Cardinality(Clients) <= currentConn
  /\ listening => /\ ~locked => Turned = {}
                  /\ locked => \E p \in Process : Turned = {p}

(***************************************************************************)
(* Types.  A thread is in a handler only for the command of that handler,  *)
(* and its loop variable and register are those the handler started with.  *)
(***************************************************************************)
RealRequest == {r \in Request : r.command # 0 /\ r.pid # 0}

HandlerOf(s) ==
  CASE s = "checkin" -> {CHECKIN}
    [] s = "copy" -> {GET_AZLIST}
    [] s = "own" -> {GET_MAPPER_UPDATES}
    [] s = "sum" -> {GET_ALL_UPDATES}
    [] s \in {"loadRow", "storeRow", "loadAz", "storeAz"} -> {UPDATE_AZLIST}
    [] s = "checkout" -> {CHECKOUT}
    [] OTHER -> Command

MessageInv ==
  /\ inbox \in [Process -> [Side -> Seq(Request \cup Response)]]
  /\ lost \in [Process -> [Side -> 0 .. MaxLost]]
  /\ answer \in [Process -> Response]
  /\ \A p \in Process :
       /\ inbox[p]["server"] \in Seq(RealRequest) /\ inbox[p]["client"] \in Seq(Response)
       /\ cpc[p] \in BeforeSession => inbox[p]["server"] = <<>> /\ inbox[p]["client"] = <<>>

ThreadTyped ==
  /\ azList \in [Letter -> Nat] /\ numUpdates \in [Row -> Nat]
  /\ isCheckedIn \in [Row -> {-1, 0, CHECKIN, CHECKOUT}]
  /\ buffer \in [Process -> RealRequest \cup {NoRequest}]
  /\ bufferResponse \in [Process -> Response]
  /\ i \in [Process -> Nat] /\ reg \in [Process -> Nat]
  /\ crossedRow \subseteq Row /\ crossedAz \subseteq Letter

ThreadOk(t) ==
  /\ buffer[t].command \in HandlerOf(tpc[t])
  /\ tpc[t] \in {"copy", "loadAz", "storeAz"} => i[t] < NumLetters
  /\ tpc[t] = "sum" => i[t] < Rows
  /\ tpc[t] \notin {"copy", "loadAz", "storeAz", "sum"} => i[t] = 0
  /\ tpc[t] \notin {"sum", "storeRow", "storeAz"} => reg[t] = 0

ThreadInv == ThreadTyped /\ \A t \in Process : ThreadOk(t)
-----------------------------------------------------------------------------
(***************************************************************************)
(* A session is in one of four phases: the client's request is in the      *)
(* thread's inbox, or in its handler, or answered, or the answer is read.  *)
(* Ask(p) is the request p made last, Given(p) the answer it has or will   *)
(* read next, HasAnswer(p) that this is the answer to Ask(p).              *)
(***************************************************************************)
Ask(p) ==
  [command |-> command[p], pid |-> Id(p),
   data |-> IF command[p] = UPDATE_AZLIST THEN FileWords(p, messageCount[p] - 1) ELSE Zeros]

Handling == TStates \ {"none", "read", "close", "exit"}
AfterReply(p) == IF command[p] = CHECKOUT THEN {"close", "exit"} ELSE {"read"}

Asked(p) ==
  /\ cpc[p] = "receive"
  /\ inbox[p]["server"] = <<Ask(p)>> /\ inbox[p]["client"] = <<>>
  /\ tpc[p] = "read"
InHandler(p) ==
  /\ cpc[p] = "receive"
  /\ inbox[p]["server"] = <<>> /\ inbox[p]["client"] = <<>>
  /\ tpc[p] \in Handling /\ buffer[p] = Ask(p)
Replied(p) ==
  /\ cpc[p] = "receive"
  /\ inbox[p]["server"] = <<>> /\ \E m \in Response : inbox[p]["client"] = <<m>>
  /\ tpc[p] \in AfterReply(p)
Told(p) ==
  /\ cpc[p] \in {"send", "close", "exited"}
  /\ command[p] = CHECKOUT <=> cpc[p] # "send"
  /\ inbox[p]["server"] = <<>> /\ inbox[p]["client"] = <<>>
  /\ tpc[p] \in AfterReply(p)

Given(p) ==
  IF cpc[p] # "receive" THEN answer[p]
  ELSE IF inbox[p]["client"] # <<>> THEN Head(inbox[p]["client"])
  ELSE bufferResponse[p]
HasAnswer(p) ==
  /\ command[p] # 0
  /\ cpc[p] # "receive" \/ inbox[p]["client"] # <<>> \/ tpc[p] = "reply"

CheckedIn(p) == command[p] > CHECKIN \/ HasAnswer(p)

Session(p) ==
  /\ Asked(p) \/ InHandler(p) \/ Replied(p) \/ Told(p)
  /\ CheckedIn(p) => isCheckedIn[Id(p) - 1] \in {CHECKIN, CHECKOUT}
  /\ HasAnswer(p) => /\ Given(p).command = command[p]
                     /\ Given(p).code = RSP_NOK => command[p] = CHECKIN

\* A client without a thread has sent nothing, or its CHECKIN.
Waiting(p) ==
  /\ inbox[p]["client"] = <<>>
  /\ \/ cpc[p] = "send" /\ command[p] = 0 /\ inbox[p]["server"] = <<>>
     \/ cpc[p] = "receive" /\ command[p] = CHECKIN /\ inbox[p]["server"] = <<Ask(p)>>

\* A client not yet served waits; one that is served and alive is in its session.
Live(p) == Admitted(p) /\ cpc[p] # "killed"
SessionInv ==
  /\ \A p \in Process : end[p]["server"] = "open" =>
       listening /\ (~Admitted(p) /\ cpc[p] # "killed" => Waiting(p))
  /\ Undisturbed => listening
  /\ listening => \A p \in Process : Live(p) => Session(p)
-----------------------------------------------------------------------------
(***************************************************************************)
(* A row marks its mapper as checked in only if a mapper of that id is, or *)
(* if the one before it has asked to check out.                            *)
(***************************************************************************)
Explained(p) ==
  \E q \in Process \ {p} :
    \/ Admitted(q) /\ Id(q) = Id(p) /\ CheckedIn(q)
    \/ Admitted(q) /\ Id(q) = Id(p) - 1 /\ command[q] = CHECKOUT

RowInv ==
  Undisturbed =>
    /\ \A r \in Row : isCheckedIn[r] \in {CHECKIN, CHECKOUT} =>
         \E q \in Clients :
           \/ Id(q) = r + 1 /\ CheckedIn(q)
           \/ Id(q) = r /\ command[q] = CHECKOUT
    /\ \A p \in Clients : HasAnswer(p) /\ Given(p).code = RSP_NOK => Explained(p)
-----------------------------------------------------------------------------
(***************************************************************************)
(* An update is counted in the row of its mapper and then, letter by       *)
(* letter, in the list.  RowToCome and AzToCome say that p's last update   *)
(* is not yet counted there; RowAdded and AzAdded are what p has added.    *)
(***************************************************************************)
Updating(p) == cpc[p] = "receive" /\ command[p] = UPDATE_AZLIST

RowToCome(p) ==
  Updating(p) /\ (inbox[p]["server"] # <<>> \/ tpc[p] \in {"loadRow", "storeRow"})
AzToCome(p, l) ==
  /\ Updating(p)
  /\ \/ inbox[p]["server"] # <<>> \/ tpc[p] \in {"loadRow", "storeRow"}
     \/ tpc[p] \in {"loadAz", "storeAz"} /\ i[p] < l

RowAdded(p) == IF RowToCome(p) THEN messageCount[p] - 1 ELSE messageCount[p]
WordsOf(p, l, n) == SumFunctionOnSet([m \in Nat |-> FileWords(p, m)[l]], 0 .. n - 1)
AzAdded(p, l) == WordsOf(p, l, IF AzToCome(p, l) THEN messageCount[p] - 1 ELSE messageCount[p])

RowsAdded(P) == SumFunctionOnSet([p \in Process |-> RowAdded(p)], P)
AllAzAdded(l) == SumFunctionOnSet([p \in Process |-> AzAdded(p, l)], Clients)
OfRow(r) == {p \in Clients : Id(p) = r}
BelowRow(r) == {p \in Clients : Id(p) < r}

(***************************************************************************)
(* A row, or a letter, holds at most what the clients added to it, and     *)
(* exactly that unless two threads crossed; a thread about to store has    *)
(* loaded the value that is still there, unless it crossed another.        *)
(***************************************************************************)
RowCounted(r) ==
  /\ numUpdates[r] <= RowsAdded(OfRow(r))
  /\ r \notin crossedRow => numUpdates[r] = RowsAdded(OfRow(r))
RowLoaded(t) ==
  /\ reg[t] <= RowsAdded(OfRow(Id(t)))
  /\ Id(t) \notin crossedRow => reg[t] = numUpdates[Id(t)]
  /\ \A u \in Process \ {t} : tpc[u] = "storeRow" /\ Id(u) = Id(t) => Id(t) \in crossedRow
RowsSummed(t) ==
  /\ reg[t] <= RowsAdded(BelowRow(i[t]))
  /\ Id(t) < i[t] /\ Id(t) \notin crossedRow => messageCount[t] <= reg[t]

RowCountInv ==
  Undisturbed =>
    /\ \A r \in Row : RowCounted(r)
    /\ \A t \in Clients : tpc[t] = "storeRow" => RowLoaded(t)
    /\ \A t \in Clients : tpc[t] = "sum" => RowsSummed(t)

AzCounted(l) ==
  /\ azList[l] <= AllAzAdded(l)
  /\ l \notin crossedAz => azList[l] = AllAzAdded(l)
AzLoaded(t) ==
  /\ reg[t] <= AllAzAdded(i[t] + 1)
  /\ i[t] + 1 \notin crossedAz => reg[t] = azList[i[t] + 1]
  /\ \A u \in Process \ {t} : tpc[u] = "storeAz" /\ i[u] = i[t] => i[t] + 1 \in crossedAz

AzCountInv ==
  Undisturbed =>
    /\ \A l \in Letter : AzCounted(l)
    /\ \A t \in Clients : tpc[t] = "storeAz" => AzLoaded(t)

(***************************************************************************)
(* An answer under way, or given, covers what its client has sent.         *)
(***************************************************************************)
LettersCovered(p, data, n) ==
  \A l \in 1 .. n :
    /\ data[l] <= AllSent(l)
    /\ l \notin crossedAz => Sent(p, l) <= data[l]

AnswerCovers(p) ==
  /\ command[p] = GET_AZLIST => LettersCovered(p, Given(p).data, NumLetters)
  /\ command[p] = GET_ALL_UPDATES =>
       /\ Given(p).data[1] <= AllMessages
       /\ Id(p) \notin crossedRow => messageCount[p] <= Given(p).data[1]

CoverInv ==
  Undisturbed =>
    /\ \A t \in Clients : tpc[t] = "copy" => LettersCovered(t, bufferResponse[t].data, i[t])
    /\ \A p \in Clients : HasAnswer(p) => AnswerCovers(p)
-----------------------------------------------------------------------------
(***************************************************************************)
(* The processes, their number and their ids.                              *)
(***************************************************************************)
LEMMA ProcessForm ==
  ASSUME NEW p \in Process
  PROVE  /\ p = <<p[1], p[2]>> /\ p[1] \in Master
         /\ p[2] \in SUBSET (1 .. Mappers(p))
         /\ Mappers(p) \in 1 .. Rows - 1 /\ Rows \in Nat
  <1>1. PICK m \in Master : p \in {m} \X SUBSET (1 .. NumMappers[m])
    BY ProcessAssumption DEF Processes
  <1>2. p[1] = m /\ p = <<p[1], p[2]>> /\ p[2] \in SUBSET (1 .. NumMappers[m]) BY <1>1
  <1>3. NumMappers[m] \in 1 .. Rows - 1 BY ClientAssumption
  <1> QED BY <1>2, <1>3, ProtocolAssumption DEF Mappers

LEMMA ProcessMade ==
  ASSUME NEW m \in Master, NEW s \in SUBSET (1 .. NumMappers[m])
  PROVE  <<m, s>> \in Process
  <1>1. <<m, s>> \in {m} \X SUBSET (1 .. NumMappers[m]) OBVIOUS
  <1> QED BY <1>1, ProcessAssumption DEF Processes

LEMMA ProcessFinite == IsFiniteSet(Process)
  <1> DEFINE of == [m \in Master |-> {m} \X SUBSET (1 .. NumMappers[m])]
             T == {of[m] : m \in Master}
  <1>1. IsFiniteSet(T)
    <2>1. of \in Surjection(Master, T) BY DEF Surjection
    <2> QED BY <2>1, FS_Surjection, ClientAssumption
  <1>2. ASSUME NEW t \in T  PROVE IsFiniteSet(t)
    <2>1. PICK m \in Master : t = {m} \X SUBSET (1 .. NumMappers[m]) OBVIOUS
    <2>2. IsFiniteSet(1 .. NumMappers[m]) BY FS_Interval, ClientAssumption, ProtocolAssumption
    <2>3. IsFiniteSet(SUBSET (1 .. NumMappers[m])) BY <2>2, FS_SUBSET
    <2>4. IsFiniteSet({m}) BY FS_Singleton
    <2> QED BY <2>1, <2>3, <2>4, FS_Product
  <1>3. Process = UNION T BY ProcessAssumption DEF Processes
  <1> HIDE DEF T
  <1> QED BY <1>1, <1>2, <1>3, FS_UNION

LEMMA GreatestNumber ==
  ASSUME NEW n \in Nat, NEW S \in SUBSET (1 .. n), S # {}
  PROVE  /\ Max(S) \in S
         /\ \A e \in S : e <= Max(S)
  <1> DEFINE T == {d \in Nat : n - d \in S}
  <1>1. PICK d \in T : \A c \in T : <<c, d>> \notin OpToRel(<, Nat)
    <2>1. T # {}
      <3>1. PICK e \in S : TRUE OBVIOUS
      <3>2. n - e \in Nat /\ n - (n - e) = e BY <3>1
      <3> QED BY <3>1, <3>2
    <2>2. T \subseteq Nat OBVIOUS
    <2> HIDE DEF T
    <2> QED BY <2>1, <2>2, NatLessThanWellFounded, WFMin
  <1>2. \A e \in S : e <= n - d
    <2> SUFFICES ASSUME NEW e \in S, e > n - d  PROVE FALSE OBVIOUS
    <2>1. n - e \in Nat /\ n - (n - e) = e /\ n - e < d OBVIOUS
    <2>2. n - e \in T BY <2>1
    <2>3. <<n - e, d>> \in OpToRel(<, Nat) BY <2>1 DEF OpToRel
    <2> QED BY <1>1, <2>2, <2>3
  <1>3. n - d \in S OBVIOUS
  <1> QED BY <1>2, <1>3 DEF Max

LEMMA IdInRange ==
  ASSUME NEW p \in Process, p[2] # {}
  PROVE  Id(p) \in 1 .. Mappers(p) /\ Id(p) \in Row /\ Id(p) - 1 \in Row /\ Id(p) # 0
  <1>1. Id(p) \in p[2] BY GreatestNumber, ProcessForm DEF Id
  <1> QED BY <1>1, ProcessForm DEF Row

LEMMA FilesOfMapper ==
  ASSUME NEW p \in Process, p[2] # {}, NEW n \in Nat
  PROVE  FileOf(p, n) \in Nat /\ n + 1 <= FileOf(p, n)
  <1>1. Id(p) \in Nat \ {0} /\ Mappers(p) \in Nat \ {0} BY IdInRange, ProcessForm
  <1>2. n * Mappers(p) \in Nat /\ n <= n * Mappers(p) BY <1>1
  <1> QED BY <1>1, <1>2 DEF FileOf

(***************************************************************************)
(* The fork loops.                                                         *)
(***************************************************************************)
LEMMA ForkInit == Init => ForkInv
  <1> SUFFICES ASSUME Init  PROVE ForkInv OBVIOUS
  <1> USE DEF Init, ClientsInit
  <1>1. cpc \in [Process -> CPStates] /\ k \in [Process -> Nat \ {0}] BY DEF CPStates
  <1>2. ASSUME NEW p \in Process, NEW n \in k[p] .. Mappers(p)
        PROVE  cpc[Child(p, n)] = "unborn"
    <2>1. n \in 1 .. Mappers(p) BY <1>2, ProcessForm
    <2>2. p[2] \cup {n} \in SUBSET (1 .. NumMappers[p[1]]) BY <2>1, ProcessForm DEF Mappers
    <2>3. <<p[1], p[2] \cup {n}>> \in Process BY <2>2, ProcessForm, ProcessMade
    <2> QED BY <2>3 DEF Child
  <1>3. ASSUME NEW p \in Process
        PROVE  /\ p[2] = {} => cpc[p] \in {"fork", "wait", "exited"}
               /\ cpc[p] = "unborn" => k[p] = 1
               /\ cpc[p] = "fork" => k[p] <= Mappers(p)
               /\ cpc[p] # "unborn" => \A e \in p[2] : e < k[p]
    BY ProcessForm
  <1> QED BY <1>1, <1>2, <1>3 DEF ForkInv

LEMMA GotoKeepsForks ==
  ASSUME ForkInv, NEW p \in Process, NEW s \in CPStates \ {"unborn"},
         cpc[p] # "unborn", p[2] = {} => s \in {"fork", "wait", "exited"},
         s = "fork" => k[p] <= Mappers(p),
         CGoto(p, s), k' = k
  PROVE  ForkInv'
  BY DEF ForkInv, CGoto, Mappers, Child

LEMMA ForkKeepsForks ==
  ASSUME ForkInv, NEW p \in Process, Fork(p)
  PROVE  /\ ForkInv'
         /\ Child(p, k[p]) \in Process /\ Child(p, k[p]) # p
         /\ cpc[Child(p, k[p])] = "unborn" /\ cpc[p] = "fork"
         /\ Child(p, k[p])[2] # {}
  <1> DEFINE c == Child(p, k[p])
  <1>1. /\ cpc[p] = "fork" /\ k[p] \in 1 .. Mappers(p)
        /\ \A e \in p[2] : e < k[p]
    BY ProcessForm DEF Fork, ForkInv
  <1>2. c \in Process /\ c # p /\ c[1] = p[1] /\ c[2] = p[2] \cup {k[p]}
    <2>1. p[2] \cup {k[p]} \in SUBSET (1 .. NumMappers[p[1]]) BY <1>1, ProcessForm DEF Mappers
    <2>2. c \in Process BY <2>1, ProcessForm, ProcessMade DEF Child
    <2> QED BY <1>1, <2>2 DEF Child
  <1>3. cpc[c] = "unborn" /\ k[c] = 1 BY <1>1, <1>2 DEF ForkInv
  <1> DEFINE s == LoopState(p, k[p] + 1)
  <1>4. /\ cpc' = [cpc EXCEPT ![p] = s, ![c] = "connect"]
        /\ k' = [k EXCEPT ![p] = @ + 1, ![c] = k[p] + 1]
    BY DEF Fork
  <1>5. s \in {"fork", "wait"} /\ (s = "fork" => k[p] + 1 <= Mappers(p)) BY DEF LoopState
  <1> HIDE DEF c, s
  <1>6. cpc'[p] = s /\ cpc'[c] = "connect" /\ k'[p] = k[p] + 1 /\ k'[c] = k[p] + 1
    BY <1>2, <1>4 DEF ForkInv
  <1>7. \A q \in Process \ {p, c} : cpc'[q] = cpc[q] /\ k'[q] = k[q]
    BY <1>4 DEF ForkInv
  <1>8. cpc' \in [Process -> CPStates] /\ k' \in [Process -> Nat \ {0}]
    BY <1>2, <1>4, <1>5 DEF ForkInv, CPStates
  <1>9. ASSUME NEW q \in Process
        PROVE  /\ q[2] = {} => cpc'[q] \in {"fork", "wait", "exited"}
               /\ cpc'[q] = "unborn" => k'[q] = 1
               /\ cpc'[q] = "fork" => k'[q] <= Mappers(q)
               /\ cpc'[q] # "unborn" => \A e \in q[2] : e < k'[q]
    <2>1. CASE q = p
      <3>1. \A e \in p[2] : e < k[p] + 1 BY <1>1, ProcessForm
      <3> QED BY <2>1, <3>1, <1>5, <1>6
    <2>2. CASE q = c
      <3>1. \A e \in c[2] : e < k[p] + 1 BY <1>1, <1>2, ProcessForm
      <3> QED BY <2>2, <3>1, <1>2, <1>6
    <2>3. CASE q \notin {p, c} BY <2>3, <1>7 DEF ForkInv
    <2> QED BY <2>1, <2>2, <2>3
  <1>10. ASSUME NEW q \in Process, NEW n \in k'[q] .. Mappers(q), \A e \in q[2] : e < n
         PROVE  cpc'[Child(q, n)] = "unborn"
    <2>1. n \in 1 .. Mappers(q) /\ n \in Nat BY <1>8, ProcessForm
    <2>2. k[q] <= n /\ n \in k[q] .. Mappers(q)
      <3>1. k[q] \in Nat /\ k'[q] \in Nat /\ k'[q] <= n BY <1>8, ProcessForm DEF ForkInv
      <3>2. k[q] <= k'[q] BY <1>1, <1>3, <1>6, <1>7 DEF ForkInv
      <3> QED BY <3>1, <3>2, <2>1, ProcessForm
    <2>3. cpc[Child(q, n)] = "unborn" BY <2>2, <1>10 DEF ForkInv
    <2>4. Child(q, n) \in Process
      <3>1. q[2] \cup {n} \in SUBSET (1 .. NumMappers[q[1]]) BY <2>1, ProcessForm DEF Mappers
      <3> QED BY <3>1, ProcessForm, ProcessMade DEF Child
    <2>5. Child(q, n) # c
      <3> SUFFICES ASSUME Child(q, n) = c  PROVE FALSE OBVIOUS
      <3>1. q[1] = p[1] /\ q[2] \cup {n} = p[2] \cup {k[p]} BY <1>2 DEF Child
      <3>2. \A e \in q[2] : e < n /\ e \in Nat BY <1>10, ProcessForm
      <3>3. \A e \in p[2] : e < k[p] /\ e \in Nat BY <1>1, ProcessForm
      <3>4. n = k[p] BY <2>1, <3>1, <3>2, <3>3, <1>1
      <3>5. q[2] = p[2] BY <3>1, <3>2, <3>3, <3>4
      <3>6. q = p BY <3>1, <3>5, ProcessForm
      <3> QED BY <3>4, <3>6, <1>6, <1>10, <1>1, ProcessForm
    <2>6. Child(q, n) # p BY <2>3, <1>1
    <2> QED BY <1>7, <2>3, <2>4, <2>5, <2>6
  <1>11. ForkInv'
    <2>1. \A q \in Process, n \in Nat : Child(q, n)' = Child(q, n) /\ Mappers(q)' = Mappers(q)
      BY DEF Child, Mappers
    <2> QED BY <1>8, <1>9, <1>10 DEF ForkInv, Child, Mappers
  <1> QED BY <1>1, <1>2, <1>3, <1>11 DEF c

(***************************************************************************)
(* Only a client's own step changes where the clients are.                 *)
(***************************************************************************)
ClientsRest == UNCHANGED <<cpc, k, command, messageCount, answer>>

LEMMA OthersLeaveClients ==
  /\ MainStep => ClientsRest
  /\ \A p \in Process : ThreadStep(p) => ClientsRest /\ UNCHANGED faults
  /\ UNCHANGED vars => ClientsRest /\ UNCHANGED <<faults, sockets, server>>
  BY DEF MainStep, ThreadStep, ClientsRest, vars, clients

LEMMA ForkStep == ForkInv /\ [Next]_vars => ForkInv'
  <1> SUFFICES ASSUME ForkInv, [Next]_vars  PROVE ForkInv' OBVIOUS
  <1>1. CASE MainStep \/ UNCHANGED vars \/ \E p \in Process : ThreadStep(p)
    BY <1>1, OthersLeaveClients DEF ClientsRest, ForkInv, Child, Mappers
  <1>2. ASSUME NEW p \in Process, Client(p) \/ ClientFault(p)  PROVE ForkInv'
    <2> USE DEF CPStates, Terminated
    <2>1. CASE Fork(p) BY <2>1, ForkKeepsForks
    <2>2. CASE Wait(p) BY <2>2, GotoKeepsForks DEF Wait
    <2>3. CASE Connects(p) BY <2>3, GotoKeepsForks DEF Connects, ForkInv
    <2>4. CASE ConnectFails(p)
      BY <2>4, GotoKeepsForks DEF ConnectFails, AfterRefusal, LoopState
    <2>5. CASE Send(p) BY <2>5, GotoKeepsForks DEF Send, ForkInv
    <2>6. CASE Receive(p) BY <2>6, GotoKeepsForks DEF Receive, ForkInv
    <2>7. CASE Leave(p) BY <2>7, GotoKeepsForks DEF Leave, ForkInv
    <2>8. CASE BrokenPipe(p) BY <2>8, GotoKeepsForks DEF BrokenPipe, ForkInv
    <2>9. CASE ForkFails(p) BY <2>9, GotoKeepsForks DEF ForkFails
    <2>10. CASE SocketFails(p) BY <2>10, GotoKeepsForks DEF SocketFails
    <2>11. CASE Garble(p) BY <2>11 DEF Garble, ForkInv, Child, Mappers
    <2>12. CASE Die(p) BY <2>12, GotoKeepsForks DEF Die, ForkInv
    <2> QED BY <1>2, <2>1, <2>2, <2>3, <2>4, <2>5, <2>6, <2>7, <2>8, <2>9, <2>10,
               <2>11, <2>12 DEF Client, ClientFault
  <1> QED BY <1>1, <1>2 DEF Next, ClientStep, FaultStep

(***************************************************************************)
(* The clients' commands.                                                  *)
(***************************************************************************)
Commands == CommandInv /\ ForkInv

LEMMA CommandInit == Init => CommandInv
  BY DEF Init, ClientsInit, CommandInv, Command, CHECKOUT, CHECKIN, UPDATE_AZLIST, BeforeSession

LEMMA NextCommandIs ==
  ASSUME NEW p \in Process, command[p] \in Command, command[p] # CHECKOUT
  PROVE  /\ NextCommand(p) \in Command /\ NextCommand(p) # 0
         /\ NextCommand(p) # CHECKIN => command[p] # 0
         /\ NextCommand(p) = CHECKIN => command[p] = 0
         /\ NextCommand(p) = UPDATE_AZLIST <=>
              command[p] \in {CHECKIN, UPDATE_AZLIST} /\ MoreFiles(p)
         /\ NextCommand(p) > CHECKIN <=> command[p] # 0
         /\ command[p] >= GET_AZLIST => NextCommand(p) > GET_AZLIST
  BY DEF NextCommand, Command, CHECKOUT, CHECKIN, UPDATE_AZLIST, GET_AZLIST

LEMMA SendCommands ==
  ASSUME Commands, NEW p \in Process, Send(p)  PROVE CommandInv'
  <1> DEFINE c == NextCommand(p)
  <1>1. /\ cpc[p] = "send" /\ cpc' = [cpc EXCEPT ![p] = "receive"]
        /\ command' = [command EXCEPT ![p] = c]
        /\ messageCount' =
             [messageCount EXCEPT ![p] = IF c = UPDATE_AZLIST THEN @ + 1 ELSE @]
        /\ faults' = faults
    BY DEF Send, CGoto
  <1>2. c \in Command /\ c # 0 /\ (c = CHECKIN => command[p] = 0)
        /\ (c = UPDATE_AZLIST => MoreFiles(p))
    BY <1>1, NextCommandIs DEF Commands, CommandInv
  <1>3. p[2] # {} BY <1>1 DEF Commands, ForkInv
  <1> HIDE DEF c
  <1>4. ASSUME NEW q \in Process, NEW n \in 0 .. messageCount'[q] - 1
        PROVE  FileOf(q, n) \in 1 .. NumFiles
    <2>1. CASE n \in 0 .. messageCount[q] - 1 BY <2>1 DEF Commands, CommandInv
    <2>2. CASE n \notin 0 .. messageCount[q] - 1
      <3>1. q = p /\ c = UPDATE_AZLIST /\ n = messageCount[p]
        BY <1>1, <2>2 DEF Commands, CommandInv
      <3>2. messageCount[p] \in Nat BY DEF Commands, CommandInv
      <3>3. FileOf(p, messageCount[p]) \in Nat /\ messageCount[p] + 1 <= FileOf(p, messageCount[p])
        BY <1>3, <3>2, FilesOfMapper
      <3>4. FileOf(p, messageCount[p]) <= NumFiles BY <3>1, <1>2 DEF MoreFiles
      <3> QED BY <3>1, <3>2, <3>3, <3>4, ClientAssumption
    <2> QED BY <2>1, <2>2
  <1>5. messageCount' \in [Process -> Nat] /\ command' \in [Process -> Command]
        /\ (faults \subseteq Faults \X Process)'
    BY <1>1, <1>2 DEF Commands, CommandInv
  <1>6. ASSUME NEW q \in Process
        PROVE  /\ cpc'[q] \in BeforeSession \/ q[2] = {} => command'[q] = 0
               /\ cpc'[q] = "send" => command'[q] # CHECKOUT
               /\ cpc'[q] = "receive" => command'[q] # 0
               /\ cpc'[q] = "close" => command'[q] = CHECKOUT
               /\ command'[q] \in {0, CHECKIN} => messageCount'[q] = 0
               /\ command'[q] = UPDATE_AZLIST => messageCount'[q] > 0
    <2>1. CASE q = p
      BY <2>1, <1>1, <1>2, <1>3 DEF Commands, CommandInv, ForkInv, BeforeSession, CHECKIN, UPDATE_AZLIST
    <2>2. CASE q # p BY <2>2, <1>1 DEF Commands, CommandInv, ForkInv
    <2> QED BY <2>1, <2>2
  <1> QED BY <1>4, <1>5, <1>6 DEF CommandInv, FileOf, Id, Mappers

LEMMA FaultKeepsType ==
  ASSUME faults \subseteq Faults \X Process, NEW kind, NEW p \in Process, Fault(kind, p)
  PROVE  faults' \subseteq Faults \X Process
  BY DEF Fault

LEMMA CommandStep == Commands /\ [Next]_vars => CommandInv'
  <1> SUFFICES ASSUME Commands, [Next]_vars  PROVE CommandInv' OBVIOUS
  <1> USE DEF Commands, CommandInv, FileOf, Id, Mappers
  <1>1. CASE MainStep \/ UNCHANGED vars \/ \E p \in Process : ThreadStep(p)
    <2>1. ClientsRest BY <1>1, OthersLeaveClients
    <2>2. faults' \subseteq Faults \X Process
      BY <1>1, OthersLeaveClients, FaultKeepsType DEF MainStep, clients
    <2> QED BY <2>1, <2>2 DEF ClientsRest
  <1>2. ASSUME NEW p \in Process, Client(p) \/ ClientFault(p)  PROVE CommandInv'
    <2> USE DEF CGoto, BeforeSession, ForkInv
    <2>1. CASE Fork(p)
      <3>1. Child(p, k[p]) \in Process /\ cpc[Child(p, k[p])] = "unborn" /\ cpc[p] = "fork"
        BY <2>1, ForkKeepsForks
      <3> QED BY <3>1, <2>1 DEF Fork, LoopState
    <2>2. CASE Wait(p) BY <2>2 DEF Wait
    <2>3. CASE Connects(p) BY <2>3 DEF Connects, CHECKOUT
    <2>4. CASE ConnectFails(p)
      <3>1. faults' \subseteq Faults \X Process BY <2>4, FaultKeepsType DEF ConnectFails
      <3> QED BY <2>4, <3>1 DEF ConnectFails, AfterRefusal, LoopState
    <2>5. CASE Send(p) BY <2>5, SendCommands
    <2>6. CASE Receive(p) BY <2>6 DEF Receive, SessionOver
    <2>7. CASE Leave(p) BY <2>7 DEF Leave
    <2>8. CASE BrokenPipe(p) BY <2>8 DEF BrokenPipe
    <2>9. CASE ForkFails(p) BY <2>9, FaultKeepsType DEF ForkFails
    <2>10. CASE SocketFails(p) BY <2>10, FaultKeepsType DEF SocketFails
    <2>11. CASE Garble(p) BY <2>11, FaultKeepsType DEF Garble
    <2>12. CASE Die(p) BY <2>12, FaultKeepsType DEF Die
    <2> QED BY <1>2, <2>1, <2>2, <2>3, <2>4, <2>5, <2>6, <2>7, <2>8, <2>9, <2>10,
               <2>11, <2>12 DEF Client, ClientFault
  <1> QED BY <1>1, <1>2 DEF Next, ClientStep, FaultStep

(***************************************************************************)
(* The connections.                                                        *)
(***************************************************************************)
Connections == ConnInv /\ Commands

LEMMA ConnInit == Init => ConnInv
  BY DEF Init, SocketsInit, ServerInit, ClientsInit, ConnInv, TStates, Side, BeforeSession,
         InSession, IsInjective

LEMMA HandlerKeepsConn ==
  ASSUME ConnInv, NEW t \in Process, tpc[t] \notin {"none", "exit"},
         NEW s \in TStates \ {"none", "exit"}, Goto(t, s),
         UNCHANGED <<end, backlog, listening, cpc>>
  PROVE  ConnInv'
  BY DEF ConnInv, Goto, IsInjective

LEMMA SessionKeepsConn ==
  ASSUME ConnInv,
         UNCHANGED <<end, backlog, listening, tpc>>,
         \A q \in Process : \/ cpc'[q] = cpc[q]
                            \/ cpc[q] \in BeforeSession /\ cpc'[q] \notin InSession
                            \/ cpc[q] \in InSession /\ cpc'[q] \in InSession
  PROVE  ConnInv'
  BY DEF ConnInv, IsInjective, BeforeSession, InSession

LEMMA CloseIs ==
  ASSUME end \in [Process -> [Side -> {"none", "open", "closed"}]],
         NEW p \in Process, NEW s \in Side, Close({p}, s)
  PROVE  /\ end' \in [Process -> [Side -> {"none", "open", "closed"}]]
         /\ end'[p][s] = "closed"
         /\ end'[p][Peer(s)] = end[p][Peer(s)]
         /\ \A q \in Process \ {p} : end'[q] = end[q]
         /\ UNCHANGED <<inbox, backlog, listening>>
  BY DEF Close, EndsAfterClose, Side, Peer

LEMMA ClientCloseKeepsConn ==
  ASSUME ConnInv, NEW p \in Process, cpc[p] \in InSession, Close({p}, "client"),
         NEW s \in Terminated, CGoto(p, s), cpc \in [Process -> CPStates], tpc' = tpc
  PROVE  ConnInv'
  <1>1. /\ end' \in [Process -> [Side -> {"none", "open", "closed"}]]
        /\ end'[p]["client"] = "closed" /\ end'[p]["server"] = end[p]["server"]
        /\ \A q \in Process \ {p} : end'[q] = end[q]
        /\ UNCHANGED <<backlog, listening>>
    BY CloseIs DEF ConnInv, Side, Peer
  <1>2. cpc'[p] = s /\ \A q \in Process \ {p} : cpc'[q] = cpc[q] BY DEF CGoto
  <1>3. s \notin BeforeSession /\ s \notin InSession BY DEF Terminated, BeforeSession, InSession
  <1>4. \A q \in Process :
          /\ cpc'[q] \in BeforeSession => end'[q]["client"] = "none"
          /\ q[2] = {} => end'[q]["client"] = "none"
          /\ cpc'[q] \in InSession <=> end'[q]["client"] = "open"
          /\ end'[q]["client"] = "none" <=> end'[q]["server"] = "none"
          /\ tpc'[q] # "none" => end'[q]["client"] # "none"
          /\ tpc'[q] # "none" /\ listening' =>
               end'[q]["server"] = IF tpc'[q] = "exit" THEN "closed" ELSE "open"
    BY <1>1, <1>2, <1>3 DEF ConnInv
  <1>5. \A n \in DOMAIN backlog' : end'[backlog'[n]]["server"] = "open" /\ tpc'[backlog'[n]] = "none"
    BY <1>1 DEF ConnInv
  <1> QED BY <1>1, <1>4, <1>5 DEF ConnInv

LEMMA AcceptTakesFirst ==
  ASSUME ConnInv, NEW p \in Process, Accepts(p)
  PROVE  /\ listening /\ ~locked
         /\ p = backlog[1] /\ backlog # <<>> /\ end[p]["server"] = "open" /\ tpc[p] = "none"
         /\ \E n \in DOMAIN backlog : backlog[n] = p
         /\ backlog' \in Seq(Process) /\ IsInjective(backlog')
         /\ \A n \in DOMAIN backlog' :
              n + 1 \in DOMAIN backlog /\ backlog'[n] = backlog[n + 1] /\ backlog'[n] # p
  BY DEF ConnInv, Accepts, IsInjective

LEMMA AcceptKeepsConn ==
  ASSUME ConnInv, NEW p \in Process, Admit(p, TRUE) \/ Admit(p, FALSE) \/ TurnAway(p),
         UNCHANGED cpc
  PROVE  ConnInv'
  <1>1. Accepts(p) BY DEF Admit, TurnAway
  <1>2. CASE Admit(p, TRUE) \/ Admit(p, FALSE)
    <2>1. /\ UNCHANGED <<end, listening>>
          /\ tpc' = tpc \/ tpc' = [tpc EXCEPT ![p] = "read"]
      BY <1>2 DEF Admit
    <2>2. tpc' \in [Process -> TStates] /\ \A q \in Process \ {p} : tpc'[q] = tpc[q]
      BY <2>1 DEF ConnInv, TStates
    <2>3. tpc'[p] \in {"none", "read"} /\ tpc[p] = "none" /\ end[p]["server"] = "open"
      BY <1>1, <2>1, AcceptTakesFirst DEF ConnInv
    <2>4. \A n \in DOMAIN backlog' : end'[backlog'[n]]["server"] = "open" /\ tpc'[backlog'[n]] = "none"
      BY <1>1, <2>1, <2>2, AcceptTakesFirst DEF ConnInv
    <2>5. /\ backlog' \in Seq(Process) /\ IsInjective(backlog') /\ listening
      BY <1>1, AcceptTakesFirst
    <2> QED BY <2>1, <2>2, <2>3, <2>4, <2>5 DEF ConnInv
  <1>3. CASE TurnAway(p)
    <2>1. end' = EndsAfterClose({p}, "server") /\ UNCHANGED <<listening, tpc>>
      BY <1>3 DEF TurnAway
    <2>2. /\ end' \in [Process -> [Side -> {"none", "open", "closed"}]]
          /\ end'[p]["client"] = end[p]["client"] /\ end'[p]["server"] = "closed"
          /\ \A q \in Process \ {p} : end'[q] = end[q]
      BY <2>1 DEF EndsAfterClose, ConnInv, Side
    <2>3. \A n \in DOMAIN backlog' : end'[backlog'[n]]["server"] = "open" /\ tpc'[backlog'[n]] = "none"
      <3> SUFFICES ASSUME NEW n \in DOMAIN backlog'
                   PROVE  end'[backlog'[n]]["server"] = "open" /\ tpc'[backlog'[n]] = "none"
        OBVIOUS
      <3>1. n + 1 \in DOMAIN backlog /\ backlog'[n] = backlog[n + 1] /\ backlog'[n] # p
        BY <1>1, AcceptTakesFirst
      <3>2. backlog[n + 1] \in Process BY <3>1 DEF ConnInv
      <3>3. end[backlog[n + 1]]["server"] = "open" /\ tpc[backlog[n + 1]] = "none"
        BY <3>1 DEF ConnInv
      <3> QED BY <2>1, <2>2, <3>1, <3>2, <3>3
    <2>4. /\ backlog' \in Seq(Process) /\ IsInjective(backlog') /\ listening
      BY <1>1, AcceptTakesFirst
    <2>5. tpc[p] = "none" /\ end[p]["server"] = "open"
      BY <1>1, AcceptTakesFirst
    <2>6. ASSUME NEW q \in Process
          PROVE  /\ cpc'[q] \in BeforeSession => end'[q]["client"] = "none"
                 /\ q[2] = {} => end'[q]["client"] = "none"
                 /\ cpc'[q] \in InSession <=> end'[q]["client"] = "open"
                 /\ end'[q]["client"] = "none" <=> end'[q]["server"] = "none"
                 /\ tpc'[q] # "none" => end'[q]["client"] # "none"
                 /\ tpc'[q] # "none" /\ listening' =>
                      end'[q]["server"] = IF tpc'[q] = "exit" THEN "closed" ELSE "open"
      <3>1. CASE q = p
        <4>1. /\ end'[p]["client"] = end[p]["client"] /\ end'[p]["server"] = "closed"
              /\ tpc'[p] = "none" /\ cpc'[p] = cpc[p] /\ end[p]["server"] # "none"
          BY <2>1, <2>2, <2>5
        <4> QED BY <3>1, <4>1 DEF ConnInv
      <3>2. CASE q # p
        <4>1. /\ end'[q] = end[q] /\ tpc'[q] = tpc[q] /\ cpc'[q] = cpc[q]
              /\ listening' = listening
          BY <3>2, <2>1, <2>2
        <4> QED BY <4>1 DEF ConnInv
      <3> QED BY <3>1, <3>2
    <2>7. tpc' \in [Process -> TStates] /\ listening' BY <2>1, <2>4 DEF ConnInv
    <2> QED BY <2>2, <2>3, <2>4, <2>6, <2>7 DEF ConnInv
  <1> QED BY <1>2, <1>3

LEMMA ServerGoneIs ==
  ASSUME end \in [Process -> [Side -> {"none", "open", "closed"}]], ServerGone
  PROVE  /\ end' \in [Process -> [Side -> {"none", "open", "closed"}]]
         /\ \A q \in Process :
              /\ end'[q]["client"] = end[q]["client"]
              /\ end'[q]["server"] = IF end[q]["server"] = "open" THEN "closed"
                                     ELSE end[q]["server"]
         /\ backlog' = <<>> /\ listening' = FALSE /\ inbox' = inbox
  BY DEF ServerGone, EndsAfterClose, Side

LEMMA ConnectIs ==
  ASSUME ConnInv, NEW p \in Process, Connects(p), tpc' = tpc, ForkInv
  PROVE  ConnInv'
  <1>1. /\ listening /\ listening' = listening /\ cpc[p] = "connect" /\ tpc' = tpc
        /\ end' = [end EXCEPT ![p] = [s \in Side |-> "open"]]
        /\ backlog' = Append(backlog, p) /\ cpc' = [cpc EXCEPT ![p] = "send"]
    BY DEF Connects, Connect, CGoto
  <1>2. end[p]["server"] = "none" /\ tpc[p] = "none" BY <1>1 DEF ConnInv, BeforeSession
  <1>3. p[2] # {} BY <1>1 DEF ForkInv
  <1>4. /\ end' \in [Process -> [Side -> {"none", "open", "closed"}]]
        /\ end'[p]["client"] = "open" /\ end'[p]["server"] = "open"
        /\ \A q \in Process \ {p} : end'[q] = end[q]
    BY <1>1 DEF ConnInv, Side
  <1>5. cpc'[p] = "send" /\ \A q \in Process \ {p} : cpc'[q] = cpc[q] BY <1>1 DEF ForkInv
  <1>6. \A q \in Process :
          /\ cpc'[q] \in BeforeSession => end'[q]["client"] = "none"
          /\ q[2] = {} => end'[q]["client"] = "none"
          /\ cpc'[q] \in InSession <=> end'[q]["client"] = "open"
          /\ end'[q]["client"] = "none" <=> end'[q]["server"] = "none"
          /\ tpc'[q] # "none" => end'[q]["client"] # "none"
          /\ tpc'[q] # "none" /\ listening' =>
               end'[q]["server"] = IF tpc'[q] = "exit" THEN "closed" ELSE "open"
    BY <1>1, <1>2, <1>3, <1>4, <1>5 DEF ConnInv, InSession, BeforeSession
  <1>7. /\ backlog' \in Seq(Process) /\ IsInjective(backlog')
        /\ \A n \in DOMAIN backlog' : end'[backlog'[n]]["server"] = "open" /\ tpc'[backlog'[n]] = "none"
    <2>1. \A n \in DOMAIN backlog : backlog[n] # p /\ backlog[n] \in Process
      BY <1>2 DEF ConnInv
    <2>2. backlog' \in Seq(Process) /\ IsInjective(backlog')
      BY <1>1, <2>1 DEF ConnInv, IsInjective
    <2>3. \A n \in DOMAIN backlog' : backlog'[n] = p \/ (n \in DOMAIN backlog /\ backlog'[n] = backlog[n])
      BY <1>1 DEF ConnInv
    <2> QED BY <1>1, <1>2, <1>4, <2>1, <2>2, <2>3 DEF ConnInv
  <1> QED BY <1>1, <1>4, <1>6, <1>7 DEF ConnInv

LEMMA ConnStep == Connections /\ [Next]_vars => ConnInv'
  <1> SUFFICES ASSUME Connections, [Next]_vars  PROVE ConnInv' OBVIOUS
  <1> USE DEF Connections, Commands
  <1>1. CASE MainStep
    BY <1>1, AcceptKeepsConn DEF MainStep, clients
  <1>2. ASSUME NEW t \in Process, ThreadStep(t)  PROVE ConnInv'
    <2>1. cpc' = cpc BY <1>2, OthersLeaveClients DEF ClientsRest
    <2> DEFINE Handled(s) == tpc[t] \notin {"none", "exit"} /\ s \in TStates \ {"none", "exit"}
                             /\ Goto(t, s) /\ UNCHANGED <<end, backlog, listening>>
    <2>2. \A s : Handled(s) => ConnInv' BY <2>1, HandlerKeepsConn
    <2>3. CASE Read(t)
      <3>1. \A request, unchecked : Dispatch(request, unchecked) # "refuse" =>
              Dispatch(request, unchecked) \in TStates \ {"none", "exit"}
        BY DEF Dispatch, TStates
      <3> QED BY <2>2, <2>3, <3>1 DEF Read, At, Take, sockets, TStates
    <2>4. CASE \/ Checkin(t) \/ Copy(t) \/ Own(t) \/ Sum(t) \/ LoadRow(t) \/ StoreRow(t)
               \/ LoadAz(t) \/ StoreAz(t) \/ Checkout(t)
      BY <2>2, <2>4 DEF Checkin, Copy, Own, Sum, LoadRow, StoreRow, LoadAz, StoreAz,
                        Checkout, Handle, At, sockets, TStates
    <2>5. CASE Reply(t)
      BY <2>2, <2>5 DEF Reply, At, WriteAnswer, Write, TStates
    <2>6. CASE Sigpipe(t)
      <3>1. ServerGone /\ tpc' = tpc BY <2>6 DEF Sigpipe
      <3>2. /\ end' \in [Process -> [Side -> {"none", "open", "closed"}]]
            /\ \A q \in Process :
                 /\ end'[q]["client"] = end[q]["client"]
                 /\ end'[q]["server"] = IF end[q]["server"] = "open" THEN "closed"
                                        ELSE end[q]["server"]
            /\ backlog' = <<>> /\ listening' = FALSE
        BY <3>1, ServerGoneIs DEF ConnInv
      <3>3. backlog' \in Seq(Process) /\ IsInjective(backlog') BY <3>2 DEF IsInjective
      <3>4. \A q \in Process : end'[q]["client"] = "none" <=> end'[q]["server"] = "none"
        BY <3>2 DEF ConnInv
      <3>5. \A q \in Process :
              /\ cpc[q] \in BeforeSession => end'[q]["client"] = "none"
              /\ q[2] = {} => end'[q]["client"] = "none"
              /\ cpc[q] \in InSession <=> end'[q]["client"] = "open"
              /\ tpc[q] # "none" => end'[q]["client"] # "none"
        BY <3>2 DEF ConnInv
      <3>6. tpc \in [Process -> TStates] BY DEF ConnInv
      <3>7. backlog' = <<>> /\ listening' = FALSE BY <3>2
      <3>8. \A n \in DOMAIN backlog' : FALSE BY <3>7
      <3> QED BY <2>1, <3>1, <3>2, <3>3, <3>4, <3>5, <3>6, <3>7, <3>8 DEF ConnInv
    <2>7. CASE CloseSocket(t)
      <3>1. /\ listening /\ tpc[t] = "close" /\ tpc' = [tpc EXCEPT ![t] = "exit"]
            /\ Close({t}, "server")
        BY <2>7 DEF CloseSocket, At, Goto
      <3>2. /\ end' \in [Process -> [Side -> {"none", "open", "closed"}]]
            /\ end'[t]["server"] = "closed" /\ end'[t]["client"] = end[t]["client"]
            /\ \A q \in Process \ {t} : end'[q] = end[q]
            /\ UNCHANGED <<backlog, listening>>
        BY <3>1, CloseIs DEF ConnInv, Side, Peer
      <3>3. /\ tpc' \in [Process -> TStates] /\ tpc'[t] = "exit"
            /\ \A q \in Process \ {t} : tpc'[q] = tpc[q]
        BY <3>1 DEF ConnInv, TStates
      <3>4. end[t]["server"] = "open" BY <3>1 DEF ConnInv
      <3>5. \A n \in DOMAIN backlog : backlog[n] \in Process /\ backlog[n] # t
        BY <3>1 DEF ConnInv
      <3> QED BY <2>1, <3>2, <3>3, <3>4, <3>5 DEF ConnInv
    <2> QED BY <1>2, <2>3, <2>4, <2>5, <2>6, <2>7 DEF ThreadStep, Thread
  <1>3. ASSUME NEW p \in Process, Client(p) \/ ClientFault(p), UNCHANGED server
        PROVE  ConnInv'
    <2>1. tpc' = tpc BY <1>3 DEF server
    <2> USE DEF CGoto, BeforeSession, InSession, ForkInv, CPStates
    <2>2. CASE Fork(p)
      <3>1. Child(p, k[p]) \in Process /\ cpc[Child(p, k[p])] = "unborn" /\ cpc[p] = "fork"
        BY <2>2, ForkKeepsForks
      <3> QED BY <2>1, <2>2, <3>1, SessionKeepsConn DEF Fork, LoopState, sockets
    <2>3. CASE Wait(p) BY <2>1, <2>3, SessionKeepsConn DEF Wait, sockets
    <2>4. CASE Connects(p) BY <2>1, <2>4, ConnectIs
    <2>5. CASE ConnectFails(p)
      BY <2>1, <2>5, SessionKeepsConn DEF ConnectFails, AfterRefusal, LoopState, sockets
    <2>6. CASE Send(p) BY <2>1, <2>6, SessionKeepsConn DEF Send, Write
    <2>7. CASE Receive(p) BY <2>1, <2>7, SessionKeepsConn DEF Receive, Take, sockets
    <2>8. CASE Leave(p) BY <2>1, <2>8, ClientCloseKeepsConn DEF Leave, Terminated
    <2>9. CASE BrokenPipe(p) BY <2>1, <2>9, ClientCloseKeepsConn DEF BrokenPipe, Terminated
    <2>10. CASE ForkFails(p) BY <2>1, <2>10, SessionKeepsConn DEF ForkFails, sockets
    <2>11. CASE SocketFails(p) BY <2>1, <2>11, SessionKeepsConn DEF SocketFails, sockets
    <2>12. CASE Garble(p) BY <2>1, <2>12, SessionKeepsConn DEF Garble, sockets
    <2>13. CASE Die(p) BY <2>1, <2>13, ClientCloseKeepsConn DEF Die, Terminated
    <2> QED BY <1>3, <2>2, <2>3, <2>4, <2>5, <2>6, <2>7, <2>8, <2>9, <2>10, <2>11,
               <2>12, <2>13 DEF Client, ClientFault
  <1>4. CASE UNCHANGED vars
    BY <1>4, OthersLeaveClients, SessionKeepsConn DEF ClientsRest, sockets, server
  <1> QED BY <1>1, <1>2, <1>3, <1>4 DEF Next, ClientStep, FaultStep

(***************************************************************************)
(* The messages and the threads' variables.                                *)
(***************************************************************************)
Typed == MessageInv /\ ThreadInv /\ Connections

LEMMA Protocols ==
  /\ NumLetters \in Nat \ {0} /\ Rows \in Nat /\ Rows > 4
  /\ Zeros \in [Letter -> Nat] /\ 1 \in Letter
  /\ NoRequest \in Request /\ NoRequest.command = 0 /\ NoRequest.pid = 0
  /\ NoResponse \in Response
  /\ \A r \in RealRequest :
       /\ r \in Request /\ r.command \in 1 .. 6 /\ r.pid \in Row \ {0} /\ r.pid - 1 \in Row
       /\ r.data \in [Letter -> Nat]
  /\ \A r \in RealRequest \cup {NoRequest} :
       /\ r \in Request /\ r.command \in Command /\ r.pid \in Row /\ r.data \in [Letter -> Nat]
  BY ProtocolAssumption
     DEF GET_MAPPER_UPDATES, Zeros, Letter, NoRequest, NoResponse, Request, Response,
         Command, CHECKOUT, Row, RealRequest, RSP_OK

LEMMA TypedInit == Init => MessageInv /\ ThreadInv
  <1> USE DEF ThreadTyped, ThreadOk
  <1> SUFFICES ASSUME Init  PROVE MessageInv /\ ThreadInv OBVIOUS
  <1> USE Protocols, MaxLostAssumption DEF Init, SocketsInit, ServerInit, ClientsInit
  <1>1. MessageInv BY DEF MessageInv, Side
  <1>2. \A p \in Process : buffer[p].command \in HandlerOf(tpc[p]) BY DEF HandlerOf, Command
  <1>3. ThreadInv
    BY <1>2 DEF ThreadInv, CHECKIN, CHECKOUT, Row
  <1> QED BY <1>1, <1>3

LEMMA TakeIs ==
  ASSUME MessageInv, NEW p \in Process, NEW s \in Side, HasMessage(p, s), Take(p, s)
  PROVE  /\ inbox' \in [Process -> [Side -> Seq(Request \cup Response)]]
         /\ inbox[p][s] # <<>> /\ inbox'[p][s] = Tail(inbox[p][s])
         /\ inbox'[p][Peer(s)] = inbox[p][Peer(s)]
         /\ \A q \in Process \ {p} : inbox'[q] = inbox[q]
         /\ UNCHANGED <<end, lost, backlog, listening>>
  <1>1. inbox[p][s] \in Seq(Request \cup Response) /\ inbox[p][s] # <<>>
    BY DEF MessageInv, HasMessage
  <1>2. Tail(inbox[p][s]) \in Seq(Request \cup Response) BY <1>1
  <1> QED BY <1>1, <1>2 DEF MessageInv, Take, Side, Peer

LEMMA WriteIs ==
  ASSUME MessageInv, NEW p \in Process, NEW s \in Side,
         NEW m \in Request \cup Response, Write(p, s, m)
  PROVE  /\ inbox' \in [Process -> [Side -> Seq(Request \cup Response)]]
         /\ lost' \in [Process -> [Side -> 0 .. MaxLost]]
         /\ inbox'[p][s] = inbox[p][s]
         /\ end[p][Peer(s)] \in {"open", "closed"}
         /\ inbox'[p][Peer(s)] = IF end[p][Peer(s)] = "open" THEN Append(inbox[p][Peer(s)], m)
                                 ELSE inbox[p][Peer(s)]
         /\ \A q \in Process \ {p} : inbox'[q] = inbox[q]
         /\ UNCHANGED <<end, backlog, listening>>
  <1>1. Peer(s) \in Side /\ Peer(s) # s BY DEF Side, Peer
  <1>2. inbox[p][Peer(s)] \in Seq(Request \cup Response) BY <1>1 DEF MessageInv
  <1>3. Append(inbox[p][Peer(s)], m) \in Seq(Request \cup Response) BY <1>2
  <1>4. CASE end[p][Peer(s)] = "open"
    <2>1. inbox' = [inbox EXCEPT ![p][Peer(s)] = Append(@, m)] /\ lost' = lost
          /\ UNCHANGED <<end, backlog, listening>>
      BY <1>4 DEF Write
    <2> QED BY <1>1, <1>3, <1>4, <2>1 DEF MessageInv
  <1>5. CASE end[p][Peer(s)] # "open"
    <2>1. /\ lost' = [lost EXCEPT ![p][s] = @ + 1] /\ inbox' = inbox /\ lost[p][s] < MaxLost
          /\ end[p][Peer(s)] = "closed" /\ UNCHANGED <<end, backlog, listening>>
      BY <1>5 DEF Write
    <2>2. lost[p][s] + 1 \in 0 .. MaxLost BY <2>1, MaxLostAssumption DEF MessageInv
    <2> QED BY <1>1, <1>5, <2>1, <2>2 DEF MessageInv
  <1> QED BY <1>4, <1>5

LEMMA ClosedLost ==
  ASSUME MessageInv, NEW P \in SUBSET Process, NEW s \in Side
  PROVE  LostAfterClose(P, s) \in [Process -> [Side -> 0 .. MaxLost]]
  <1> SUFFICES ASSUME NEW p \in Process
               PROVE  [lost[p] EXCEPT ![Peer(s)] = 1] \in [Side -> 0 .. MaxLost]
    BY DEF LostAfterClose, MessageInv
  <1> QED BY MaxLostAssumption DEF MessageInv, Side, Peer

LEMMA MessagesKept ==
  ASSUME MessageInv, UNCHANGED <<inbox, answer>>,
         lost' \in [Process -> [Side -> 0 .. MaxLost]],
         \A q \in Process : cpc'[q] \in BeforeSession => cpc[q] \in BeforeSession
  PROVE  MessageInv'
  BY DEF MessageInv

LEMMA AskTyped ==
  ASSUME Commands, NEW p \in Process, NEW n \in 0 .. messageCount[p] - 1
  PROVE  FileWords(p, n) \in [Letter -> Nat]
  BY ClientAssumption, Protocols DEF FileWords, Commands, CommandInv

LEMMA SendMessages ==
  ASSUME Typed, NEW p \in Process, Send(p), tpc' = tpc
  PROVE  MessageInv'
  <1> DEFINE c == NextCommand(p)
             m == [command |-> c, pid |-> Id(p),
                   data |-> IF c = UPDATE_AZLIST THEN FileWords(p, messageCount[p]) ELSE Zeros]
  <1>1. cpc[p] = "send" /\ cpc' = [cpc EXCEPT ![p] = "receive"] /\ answer' = answer
        /\ Write(p, "client", m)
    BY DEF Send, CGoto
  <1>2. c \in 1 .. 6 /\ (c = UPDATE_AZLIST => MoreFiles(p))
    BY <1>1, NextCommandIs DEF Typed, Connections, Commands, CommandInv, Command, CHECKOUT
  <1>3. p[2] # {} BY <1>1 DEF Typed, Connections, Commands, ForkInv
  <1>4. c = UPDATE_AZLIST => FileWords(p, messageCount[p]) \in [Letter -> Nat]
    <2>1. messageCount[p] \in Nat BY DEF Typed, Connections, Commands, CommandInv
    <2>2. c = UPDATE_AZLIST => FileOf(p, messageCount[p]) \in 1 .. NumFiles
      <3>1. FileOf(p, messageCount[p]) \in Nat /\ messageCount[p] + 1 <= FileOf(p, messageCount[p])
        BY <1>3, <2>1, FilesOfMapper
      <3>2. c = UPDATE_AZLIST => FileOf(p, messageCount[p]) <= NumFiles BY <1>2 DEF MoreFiles
      <3> QED BY <2>1, <3>1, <3>2, ClientAssumption
    <2> QED BY <2>2, ClientAssumption, Protocols DEF FileWords
  <1> HIDE DEF c
  <1>5. m \in RealRequest
    BY <1>2, <1>3, <1>4, IdInRange, Protocols DEF RealRequest, Request, Command, CHECKOUT
  <1>6. m \in Request \cup Response BY <1>5 DEF RealRequest
  <1> HIDE DEF m
  <1>7. /\ inbox' \in [Process -> [Side -> Seq(Request \cup Response)]]
        /\ lost' \in [Process -> [Side -> 0 .. MaxLost]]
        /\ inbox'[p]["client"] = inbox[p]["client"]
        /\ inbox'[p]["server"] \in {Append(inbox[p]["server"], m), inbox[p]["server"]}
        /\ \A q \in Process \ {p} : inbox'[q] = inbox[q]
    <2>1. Peer("client") = "server" /\ "client" \in Side BY DEF Peer, Side
    <2> QED BY <1>1, <1>6, <2>1, WriteIs DEF Typed
  <1>8. inbox'[p]["server"] \in Seq(RealRequest)
    <2>1. inbox[p]["server"] \in Seq(RealRequest) BY DEF Typed, MessageInv
    <2>2. Append(inbox[p]["server"], m) \in Seq(RealRequest) BY <1>5, <2>1
    <2>3. CASE inbox'[p]["server"] = Append(inbox[p]["server"], m) BY <2>2, <2>3
    <2>4. CASE inbox'[p]["server"] = inbox[p]["server"] BY <2>1, <2>4
    <2> QED BY <1>7, <2>3, <2>4
  <1>9. \A q \in Process : cpc'[q] \in BeforeSession => q # p /\ cpc[q] \in BeforeSession
    BY <1>1 DEF BeforeSession, Typed, Connections, Commands, ForkInv
  <1>10. answer' \in [Process -> Response] BY <1>1 DEF Typed, MessageInv
  <1> QED BY <1>7, <1>8, <1>9, <1>10 DEF Typed, MessageInv

LEMMA ReceiveMessages ==
  ASSUME Typed, NEW p \in Process, Receive(p)
  PROVE  MessageInv'
  <1>1. cpc[p] = "receive" /\ \A q \in Process : cpc'[q] \in BeforeSession => q # p /\ cpc[q] \in BeforeSession
    BY DEF Receive, CGoto, BeforeSession, Typed, Connections, Commands, ForkInv
  <1>2. CASE HasMessage(p, "client") /\ Take(p, "client")
    <2>1. answer' = [answer EXCEPT ![p] = Head(inbox[p]["client"])]
      <3>1. ~EndOfAnswers(p) BY <1>2 DEF EndOfAnswers, AtEOF
      <3> QED BY <3>1 DEF Receive
    <2>2. Peer("client") = "server" /\ "client" \in Side BY DEF Peer, Side
    <2>3. /\ inbox' \in [Process -> [Side -> Seq(Request \cup Response)]]
          /\ inbox[p]["client"] # <<>> /\ inbox'[p]["client"] = Tail(inbox[p]["client"])
          /\ inbox'[p]["server"] = inbox[p]["server"] /\ lost' = lost
          /\ \A q \in Process \ {p} : inbox'[q] = inbox[q]
      BY <1>2, <2>2, TakeIs DEF Typed
    <2>4. inbox[p]["client"] \in Seq(Response) BY DEF Typed, MessageInv
    <2>5. Head(inbox[p]["client"]) \in Response /\ Tail(inbox[p]["client"]) \in Seq(Response)
      BY <2>3, <2>4
    <2>6. answer' \in [Process -> Response] BY <2>1, <2>5 DEF Typed, MessageInv
    <2> QED BY <1>1, <2>3, <2>5, <2>6 DEF Typed, MessageInv
  <1>3. CASE UNCHANGED <<sockets, answer>>
    BY <1>1, <1>3 DEF Typed, MessageInv, sockets
  <1> QED BY <1>2, <1>3 DEF Receive

LEMMA ThreadMessages ==
  ASSUME Typed, NEW t \in Process, ThreadStep(t)
  PROVE  MessageInv'
  <1>1. cpc' = cpc /\ answer' = answer BY OthersLeaveClients DEF ClientsRest
  <1>2. lost \in [Process -> [Side -> 0 .. MaxLost]] BY DEF Typed, MessageInv
  <1>3. CASE UNCHANGED sockets BY <1>1, <1>2, <1>3, MessagesKept DEF Typed, sockets
  <1>4. CASE HasMessage(t, "server") /\ Take(t, "server")
    <2>1. Peer("server") = "client" /\ "server" \in Side BY DEF Peer, Side
    <2>2. /\ inbox' \in [Process -> [Side -> Seq(Request \cup Response)]]
          /\ inbox[t]["server"] # <<>> /\ inbox'[t]["server"] = Tail(inbox[t]["server"])
          /\ inbox'[t]["client"] = inbox[t]["client"] /\ lost' = lost
          /\ \A q \in Process \ {t} : inbox'[q] = inbox[q]
      BY <1>4, <2>1, TakeIs DEF Typed
    <2>3. inbox[t]["server"] \in Seq(RealRequest) BY DEF Typed, MessageInv
    <2>4. Tail(inbox[t]["server"]) \in Seq(RealRequest) BY <2>2, <2>3
    <2> QED BY <1>1, <1>2, <2>2, <2>3, <2>4 DEF Typed, MessageInv
  <1>5. CASE Write(t, "server", bufferResponse[t])
    <2>1. Peer("server") = "client" /\ "server" \in Side BY DEF Peer, Side
    <2>2. bufferResponse[t] \in Response BY DEF Typed, ThreadInv, ThreadTyped
    <2>3. /\ inbox' \in [Process -> [Side -> Seq(Request \cup Response)]]
          /\ lost' \in [Process -> [Side -> 0 .. MaxLost]]
          /\ inbox'[t]["server"] = inbox[t]["server"]
          /\ end[t]["client"] \in {"open", "closed"}
          /\ inbox'[t]["client"] \in {Append(inbox[t]["client"], bufferResponse[t]), inbox[t]["client"]}
          /\ \A q \in Process \ {t} : inbox'[q] = inbox[q]
      <3>1. bufferResponse[t] \in Request \cup Response BY <2>2
      <3>2. MessageInv BY DEF Typed
      <3>3. /\ inbox' \in [Process -> [Side -> Seq(Request \cup Response)]]
            /\ lost' \in [Process -> [Side -> 0 .. MaxLost]]
            /\ inbox'[t]["server"] = inbox[t]["server"]
            /\ end[t][Peer("server")] \in {"open", "closed"}
            /\ inbox'[t][Peer("server")] =
                 IF end[t][Peer("server")] = "open"
                 THEN Append(inbox[t][Peer("server")], bufferResponse[t])
                 ELSE inbox[t][Peer("server")]
            /\ \A q \in Process \ {t} : inbox'[q] = inbox[q]
        BY <1>5, <2>1, <3>1, <3>2, WriteIs
      <3> QED BY <2>1, <3>3
    <2>4. inbox[t]["client"] \in Seq(Response) BY DEF Typed, MessageInv
    <2>5. Append(inbox[t]["client"], bufferResponse[t]) \in Seq(Response) BY <2>2, <2>4
    <2>6. inbox'[t]["client"] \in Seq(Response) BY <2>3, <2>4, <2>5
    <2>7. cpc[t] \notin BeforeSession BY <2>3 DEF Typed, Connections, ConnInv
    <2> QED BY <1>1, <2>3, <2>6, <2>7 DEF Typed, MessageInv
  <1>6. CASE Sigpipe(t)
    <2>1. lost' \in [Process -> [Side -> 0 .. MaxLost]]
      <3>1. "server" \in Side BY DEF Side
      <3> QED BY <1>6, <3>1, ClosedLost DEF Sigpipe, ServerGone, Typed
    <2> QED BY <1>1, <1>6, <2>1, MessagesKept DEF Sigpipe, ServerGone, Typed
  <1>7. CASE CloseSocket(t)
    <2>1. lost' \in [Process -> [Side -> 0 .. MaxLost]]
      <3>1. "server" \in Side BY DEF Side
      <3> QED BY <1>7, <3>1, ClosedLost DEF CloseSocket, Close, Typed
    <2> QED BY <1>1, <1>7, <2>1, MessagesKept DEF CloseSocket, Close, Typed
  <1> QED BY <1>3, <1>4, <1>5, <1>6, <1>7
          DEF ThreadStep, Thread, Read, Checkin, Copy, Own, Sum, LoadRow, StoreRow, LoadAz,
              StoreAz, Checkout, Handle, Reply, WriteAnswer

LEMMA ClientCloseMessages ==
  ASSUME Typed, NEW p \in Process, Close({p}, "client"), NEW s \in Terminated, CGoto(p, s),
         answer' = answer
  PROVE  MessageInv'
  <1>1. lost' \in [Process -> [Side -> 0 .. MaxLost]] /\ inbox' = inbox
    <2>1. "client" \in Side BY DEF Side
    <2> QED BY <2>1, ClosedLost DEF Close, Typed
  <1>2. \A q \in Process : cpc'[q] \in BeforeSession => cpc[q] \in BeforeSession
    BY DEF CGoto, Terminated, BeforeSession, Typed, Connections, Commands, ForkInv
  <1> QED BY <1>1, <1>2, MessagesKept DEF Typed

LEMMA MessageStep == Typed /\ [Next]_vars => MessageInv'
  <1> SUFFICES ASSUME Typed, [Next]_vars  PROVE MessageInv' OBVIOUS
  <1>1. lost \in [Process -> [Side -> 0 .. MaxLost]] /\ MessageInv BY DEF Typed, MessageInv
  <1>2. CASE MainStep
    <2>1. cpc' = cpc /\ answer' = answer BY <1>2, OthersLeaveClients DEF ClientsRest
    <2>2. inbox' = inbox BY <1>2 DEF MainStep, Admit, TurnAway
    <2>3. lost' \in [Process -> [Side -> 0 .. MaxLost]]
      <3>1. "server" \in Side BY DEF Side
      <3>2. PICK p \in Process : lost' = lost \/ lost' = LostAfterClose({p}, "server")
        BY <1>2 DEF MainStep, Admit, TurnAway
      <3>3. {p} \in SUBSET Process OBVIOUS
      <3>4. LostAfterClose({p}, "server") \in [Process -> [Side -> 0 .. MaxLost]]
        BY <1>1, <3>1, <3>3, ClosedLost
      <3> QED BY <1>1, <3>2, <3>4
    <2> QED BY <1>1, <2>1, <2>2, <2>3, MessagesKept
  <1>3. ASSUME NEW p \in Process, Client(p) \/ ClientFault(p), UNCHANGED server
        PROVE  MessageInv'
    <2> DEFINE Unsent == UNCHANGED <<inbox, lost, answer>>
                         /\ \A q \in Process : cpc'[q] \in BeforeSession => cpc[q] \in BeforeSession
    <2>1. Unsent => MessageInv' BY <1>1, MessagesKept
    <2> HIDE DEF Unsent
    <2>2. CASE Fork(p) \/ Wait(p) \/ Connects(p) \/ ConnectFails(p)
      <3>1. cpc[p] \in BeforeSession BY <2>2 DEF Fork, Wait, Connects, ConnectFails, BeforeSession
      <3>2. CASE Fork(p)
        <4>1. cpc[Child(p, k[p])] = "unborn" /\ Child(p, k[p]) \in Process
          BY <3>2, ForkKeepsForks DEF Typed, Connections, Commands
        <4>2. \A q \in Process : cpc'[q] \in BeforeSession => cpc[q] \in BeforeSession
          BY <3>1, <3>2, <4>1
             DEF Fork, BeforeSession, Typed, Connections, Commands, ForkInv
        <4> QED BY <2>1, <3>2, <4>2 DEF Unsent, Fork, sockets
      <3>3. CASE Wait(p) \/ ConnectFails(p) \/ Connects(p)
        BY <2>1, <3>1, <3>3
           DEF Unsent, Wait, ConnectFails, Connects, Connect, CGoto, sockets, BeforeSession,
               Typed, Connections, Commands, ForkInv
      <3> QED BY <2>2, <3>2, <3>3
    <2>3. CASE Send(p) BY <1>3, <2>3, SendMessages DEF server
    <2>4. CASE Receive(p) BY <2>4, ReceiveMessages
    <2>5. CASE Leave(p) BY <2>5, ClientCloseMessages DEF Leave, Terminated
    <2>6. CASE BrokenPipe(p) BY <2>6, ClientCloseMessages DEF BrokenPipe, Terminated
    <2>7. CASE Die(p) BY <2>7, ClientCloseMessages DEF Die, Terminated
    <2>8. CASE ForkFails(p) \/ SocketFails(p) \/ Garble(p)
      BY <2>1, <2>8
         DEF Unsent, ForkFails, SocketFails, Garble, CGoto, sockets, BeforeSession,
             Typed, Connections, Commands, ForkInv
    <2> QED BY <1>3, <2>2, <2>3, <2>4, <2>5, <2>6, <2>7, <2>8 DEF Client, ClientFault
  <1>4. CASE UNCHANGED vars
    BY <1>1, <1>4, MessagesKept DEF vars, sockets, clients
  <1> QED BY <1>2, <1>3, <1>4, ThreadMessages DEF Next, ClientStep, FaultStep

(***************************************************************************)
(* A thread's step changes that thread's variables, and cells of the two   *)
(* tables.                                                                 *)
(***************************************************************************)
SameThread(u) ==
  /\ tpc'[u] = tpc[u] /\ buffer'[u] = buffer[u] /\ bufferResponse'[u] = bufferResponse[u]
  /\ i'[u] = i[u] /\ reg'[u] = reg[u]

LEMMA ThreadLeavesOthers ==
  ASSUME Typed, NEW t \in Process, ThreadStep(t), NEW u \in Process \ {t}
  PROVE  SameThread(u)
  BY DEF ThreadStep, Thread, Read, Checkin, Copy, Own, Sum, LoadRow, StoreRow, LoadAz,
         StoreAz, Checkout, Handle, Reply, Sigpipe, CloseSocket, Goto, Fill, SameThread,
         Typed, ThreadInv, ThreadTyped, Connections, ConnInv

LEMMA AnswerTyped ==
  ASSUME NEW r \in RealRequest \cup {NoRequest}, NEW c \in {RSP_OK, RSP_NOK},
         NEW d \in [Letter -> Nat]
  PROVE  Answer(r, c, d) \in Response
  BY Protocols DEF Answer, Response

LEMMA ScalarTyped ==
  ASSUME Typed, NEW t \in Process, NEW n \in Nat
  PROVE  Scalar(t, n) \in [Letter -> Nat]
  BY Protocols DEF Scalar, Typed, ThreadInv, ThreadTyped, Response

LEMMA ThreadTypedStep ==
  ASSUME Typed, NEW t \in Process, ThreadStep(t)
  PROVE  ThreadTyped'
  <1> USE DEF Typed, ThreadInv
  <1>1. ThreadTyped /\ ThreadOk(t) OBVIOUS
  <1>2. /\ buffer[t] \in RealRequest \cup {NoRequest}
        /\ buffer[t].command \in Command /\ buffer[t].pid \in Row
        /\ buffer[t].data \in [Letter -> Nat]
        /\ buffer[t].command # 0 => buffer[t].pid - 1 \in Row
        /\ i[t] \in Nat /\ reg[t] \in Nat
    BY Protocols DEF ThreadTyped
  <1>3. \A n \in Nat, c \in {RSP_OK, RSP_NOK} : Answer(buffer[t], c, Scalar(t, n)) \in Response
    BY <1>2, AnswerTyped, ScalarTyped
  <1>4. Row \subseteq Nat /\ \A r \in Row : numUpdates[r] \in Nat
    BY DEF ThreadTyped, Row
  <1>5. CASE Read(t)
    <2> DEFINE request == LastRequest(t)
    <2>1. request \in RealRequest \cup {NoRequest}
      <3>1. inbox[t]["server"] \in Seq(RealRequest) BY DEF MessageInv
      <3> QED BY <1>2, <3>1 DEF LastRequest, HasMessage
    <2>2. Answer(request, RSP_NOK, Scalar(t, request.pid)) \in Response
      BY <2>1, <1>4, Protocols, AnswerTyped, ScalarTyped
    <2> HIDE DEF request
    <2>3. /\ buffer' = [buffer EXCEPT ![t] = request]
          /\ \/ bufferResponse' = bufferResponse
             \/ bufferResponse' = [bufferResponse EXCEPT
                                    ![t] = Answer(request, RSP_NOK, Scalar(t, request.pid))]
          /\ UNCHANGED <<shared, i, reg, crossed>>
      BY <1>5 DEF Read, request
    <2> QED BY <1>1, <2>1, <2>2, <2>3 DEF ThreadTyped, shared, crossed
  <1>6. CASE Checkin(t) \/ Checkout(t)
    <2>1. buffer[t].pid \in Nat BY <1>2, <1>4
    <2> QED BY <1>1, <1>2, <1>3, <1>6, <2>1
       DEF ThreadTyped, Checkin, Checkout, Handle, Fill, crossed, CheckoutMark
  <1>7. CASE Copy(t)
    <2>1. i[t] + 1 \in Letter /\ azList[i[t] + 1] \in Nat
      BY <1>1, <1>2, <1>7, Protocols DEF Copy, Handle, At, ThreadOk, Letter, ThreadTyped
    <2>2. [bufferResponse[t].data EXCEPT ![i[t] + 1] = azList[i[t] + 1]] \in [Letter -> Nat]
      BY <1>1, <2>1 DEF ThreadTyped, Response
    <2>3. Answer(buffer[t], RSP_OK, [bufferResponse[t].data EXCEPT ![i[t] + 1] = azList[i[t] + 1]])
            \in Response
      BY <1>2, <2>2, AnswerTyped
    <2> QED BY <1>1, <1>2, <1>7, <2>3 DEF ThreadTyped, Copy, Handle, Fill, shared, crossed
  <1>8. CASE Own(t)
    <2>1. buffer[t].command \in Row
      BY <1>1, <1>8, Protocols, ProtocolAssumption
         DEF Own, Handle, At, ThreadOk, HandlerOf, Row, GET_MAPPER_UPDATES
    <2>2. numUpdates[OwnRow(t)] \in Nat BY <1>4, <2>1 DEF OwnRow
    <2> QED BY <1>1, <1>3, <1>8, <2>2 DEF ThreadTyped, Own, Handle, Fill, shared, crossed
  <1>9. CASE Sum(t)
    <2>1. i[t] \in Row
      BY <1>1, <1>2, <1>9, Protocols DEF Sum, Handle, At, ThreadOk, Row
    <2>2. reg[t] + numUpdates[i[t]] \in Nat BY <1>2, <1>4, <2>1
    <2> QED BY <1>1, <1>2, <1>3, <1>9, <2>2
        DEF ThreadTyped, Sum, Handle, Fill, shared, crossed
  <1>10. CASE LoadRow(t) \/ StoreRow(t)
    <2>1. CASE LoadRow(t)
      <3>1. crossedRow' \subseteq crossedRow \cup {buffer[t].pid} BY <2>1 DEF LoadRow
      <3>2. crossedRow' \subseteq Row BY <1>1, <1>2, <3>1 DEF ThreadTyped
      <3>3. reg' = [reg EXCEPT ![t] = numUpdates[buffer[t].pid]] BY <2>1 DEF LoadRow
      <3>4. UNCHANGED <<azList, numUpdates, isCheckedIn, buffer, bufferResponse, i, crossedAz>>
        BY <2>1 DEF LoadRow, Handle, shared
      <3> QED BY <1>1, <1>2, <1>4, <3>2, <3>3, <3>4 DEF ThreadTyped
    <2>2. CASE StoreRow(t)
      BY <1>1, <1>2, <1>4, <2>2 DEF ThreadTyped, StoreRow, Handle, crossed
    <2> QED BY <1>10, <2>1, <2>2
  <1>11. CASE LoadAz(t) \/ StoreAz(t)
    <2>1. i[t] + 1 \in Letter /\ azList[i[t] + 1] \in Nat /\ buffer[t].data[i[t] + 1] \in Nat
      BY <1>1, <1>2, <1>11, Protocols
         DEF LoadAz, StoreAz, Handle, At, ThreadOk, Letter, ThreadTyped
    <2>2. buffer[t].pid \in Nat BY <1>2, <1>4
    <2>3. CASE LoadAz(t)
      BY <1>1, <1>2, <2>1, <2>3 DEF ThreadTyped, LoadAz, Handle, shared, crossed
    <2>4. CASE StoreAz(t)
      <3>1. reg[t] + buffer[t].data[i[t] + 1] \in Nat BY <1>2, <2>1
      <3> QED BY <1>1, <1>2, <1>3, <2>1, <2>2, <2>4, <3>1
              DEF ThreadTyped, StoreAz, Handle, Fill, crossed
    <2> QED BY <1>11, <2>3, <2>4
  <1>12. CASE Reply(t) \/ Sigpipe(t) \/ CloseSocket(t)
    BY <1>1, <1>12 DEF ThreadTyped, Reply, Sigpipe, CloseSocket, shared, crossed
  <1> QED BY <1>5, <1>6, <1>7, <1>8, <1>9, <1>10, <1>11, <1>12 DEF ThreadStep, Thread

LEMMA ThreadOkStep ==
  ASSUME Typed, NEW t \in Process, ThreadStep(t)
  PROVE  ThreadOk(t)'
  <1> USE DEF Typed, ThreadInv
  <1>1. /\ ThreadTyped /\ ThreadOk(t) /\ tpc \in [Process -> TStates]
        /\ i[t] \in Nat /\ reg[t] \in Nat /\ buffer[t].command \in Command
        /\ NumLetters \in Nat \ {0} /\ Rows \in Nat \ {0}
    BY Protocols DEF Connections, ConnInv, ThreadTyped
  <1> USE DEF ThreadOk
  <1>2. CASE Read(t)
    <2> DEFINE request == LastRequest(t)
    <2>1. request \in RealRequest \cup {NoRequest}
      <3>1. inbox[t]["server"] \in Seq(RealRequest) BY DEF MessageInv
      <3> QED BY <1>1, <3>1 DEF LastRequest, HasMessage, ThreadTyped
    <2>2. request.command \in Command BY <2>1, Protocols
    <2> HIDE DEF request
    <2>3. /\ buffer'[t] = request /\ i'[t] = 0 /\ reg'[t] = 0
          /\ \E unchecked \in NotCheckedIn(request) :
               tpc'[t] = IF Dispatch(request, unchecked) = "refuse" THEN "reply"
                         ELSE Dispatch(request, unchecked)
      BY <1>1, <1>2 DEF Read, request, Goto, At, ThreadTyped
    <2>4. PICK unchecked \in NotCheckedIn(request) :
               tpc'[t] = IF Dispatch(request, unchecked) = "refuse" THEN "reply"
                         ELSE Dispatch(request, unchecked)
      BY <2>3
    <2>5. request.command \in HandlerOf(tpc'[t])
      BY <2>2, <2>4 DEF Dispatch, HandlerOf, Command, CHECKIN, CHECKOUT, GET_AZLIST,
                        GET_ALL_UPDATES, GET_MAPPER_UPDATES, UPDATE_AZLIST
    <2>6. tpc'[t] \notin {"loadAz", "storeAz", "storeRow"} BY <2>4 DEF Dispatch
    <2>7. 0 < NumLetters /\ 0 < Rows BY Protocols
    <2> QED BY <2>3, <2>5, <2>6, <2>7
  <1> USE DEF Handle, At, Goto, ThreadTyped
  <1>3. CASE Checkin(t) BY <1>1, <1>3 DEF Checkin, HandlerOf
  <1>4. CASE Copy(t)
    <2>1. /\ tpc[t] = "copy" /\ buffer'[t] = buffer[t] /\ reg'[t] = reg[t]
          /\ tpc'[t] = IF i[t] + 1 = NumLetters THEN "reply" ELSE "copy"
          /\ i'[t] = IF i[t] + 1 = NumLetters THEN 0 ELSE i[t] + 1
      BY <1>1, <1>4 DEF Copy, LastLetter
    <2>2. i[t] < NumLetters BY <1>1, <2>1
    <2>3. CASE i[t] + 1 = NumLetters
      <3>1. tpc'[t] = "reply" /\ i'[t] = 0 /\ reg'[t] = 0 BY <1>1, <2>1, <2>3
      <3> QED BY <1>1, <2>1, <3>1 DEF HandlerOf
    <2>4. CASE ~(i[t] + 1 = NumLetters)
      <3>1. tpc'[t] = "copy" /\ i'[t] = i[t] + 1 BY <2>1, <2>4
      <3>2. i[t] + 1 < NumLetters BY <1>1, <2>2, <2>4
      <3> QED BY <1>1, <2>1, <3>1, <3>2 DEF HandlerOf
    <2> QED BY <2>3, <2>4
  <1>5. CASE Own(t) BY <1>1, <1>5 DEF Own, HandlerOf
  <1>6. CASE Sum(t)
    <2>1. /\ tpc[t] = "sum" /\ buffer'[t] = buffer[t]
          /\ tpc'[t] = IF i[t] = Rows - 1 THEN "reply" ELSE "sum"
          /\ i'[t] = IF i[t] = Rows - 1 THEN 0 ELSE i[t] + 1
          /\ i[t] = Rows - 1 => reg'[t] = 0
      BY <1>1, <1>6 DEF Sum, LastRowSummed
    <2>2. i[t] < Rows BY <1>1, <2>1
    <2>3. CASE i[t] = Rows - 1
      <3>1. tpc'[t] = "reply" /\ i'[t] = 0 /\ reg'[t] = 0 BY <1>1, <2>1, <2>3
      <3> QED BY <1>1, <2>1, <3>1 DEF HandlerOf
    <2>4. CASE ~(i[t] = Rows - 1)
      <3>1. tpc'[t] = "sum" /\ i'[t] = i[t] + 1 BY <2>1, <2>4
      <3>2. i[t] + 1 < Rows BY <1>1, <2>2, <2>4
      <3> QED BY <1>1, <2>1, <3>1, <3>2 DEF HandlerOf
    <2> QED BY <2>3, <2>4
  <1>7. CASE LoadRow(t) BY <1>1, <1>7 DEF LoadRow, HandlerOf
  <1>8. CASE StoreRow(t) BY <1>1, <1>8 DEF StoreRow, HandlerOf
  <1>9. CASE LoadAz(t) BY <1>1, <1>9 DEF LoadAz, HandlerOf
  <1>10. CASE StoreAz(t)
    <2>1. /\ tpc[t] = "storeAz" /\ buffer'[t] = buffer[t] /\ reg'[t] = 0
          /\ tpc'[t] = IF i[t] + 1 = NumLetters THEN "reply" ELSE "loadAz"
          /\ i'[t] = IF i[t] + 1 = NumLetters THEN 0 ELSE i[t] + 1
      BY <1>1, <1>10 DEF StoreAz, LastLetter
    <2>2. i[t] < NumLetters BY <1>1, <2>1
    <2>3. CASE i[t] + 1 = NumLetters
      <3>1. tpc'[t] = "reply" /\ i'[t] = 0 /\ reg'[t] = 0 BY <1>1, <2>1, <2>3
      <3> QED BY <1>1, <2>1, <3>1 DEF HandlerOf
    <2>4. CASE ~(i[t] + 1 = NumLetters)
      <3>1. tpc'[t] = "loadAz" /\ i'[t] = i[t] + 1 BY <2>1, <2>4
      <3>2. i[t] + 1 < NumLetters BY <1>1, <2>2, <2>4
      <3> QED BY <1>1, <2>1, <3>1, <3>2 DEF HandlerOf
    <2> QED BY <2>3, <2>4
  <1>11. CASE Checkout(t) BY <1>1, <1>11 DEF Checkout, HandlerOf
  <1>12. CASE Reply(t) BY <1>1, <1>12 DEF Reply, HandlerOf
  <1>13. CASE Sigpipe(t) BY <1>1, <1>13 DEF Sigpipe, HandlerOf
  <1>14. CASE CloseSocket(t) BY <1>1, <1>14 DEF CloseSocket, HandlerOf
  <1> QED BY <1>2, <1>3, <1>4, <1>5, <1>6, <1>7, <1>8, <1>9, <1>10, <1>11, <1>12, <1>13,
             <1>14 DEF ThreadStep, Thread

LEMMA ThreadInvStep == Typed /\ [Next]_vars => ThreadInv'
  <1> SUFFICES ASSUME Typed, [Next]_vars  PROVE ThreadInv' OBVIOUS
  <1>1. ASSUME NEW t \in Process, ThreadStep(t)  PROVE ThreadInv'
    <2>1. \A u \in Process \ {t} : SameThread(u) /\ ThreadOk(u) BY <1>1, ThreadLeavesOthers DEF Typed, ThreadInv
    <2>2. \A u \in Process \ {t} : ThreadOk(u)' BY <2>1 DEF ThreadOk, SameThread
    <2> QED BY <1>1, <2>2, ThreadOkStep, ThreadTypedStep DEF ThreadInv
  <1>2. CASE UNCHANGED server
    BY <1>2 DEF Typed, ThreadInv, ThreadTyped, ThreadOk, server, shared, crossed
  <1>3. CASE MainStep
    <2>1. UNCHANGED <<shared, buffer, bufferResponse, i, reg, crossed>>
      BY <1>3 DEF MainStep, Admit, TurnAway
    <2>2. PICK p \in Process :
            /\ tpc[p] = "none"
            /\ tpc' = tpc \/ tpc' = [tpc EXCEPT ![p] = "read"]
      <3>1. PICK p \in Process : Admit(p, TRUE) \/ Admit(p, FALSE) \/ TurnAway(p)
        BY <1>3 DEF MainStep
      <3>2. tpc[p] = "none" BY <3>1, AcceptTakesFirst DEF Admit, TurnAway, Typed, Connections
      <3> QED BY <3>1, <3>2 DEF Admit, TurnAway
    <2>3. \A u \in Process : tpc'[u] = tpc[u] \/ (tpc[u] = "none" /\ tpc'[u] = "read")
      <3>1. tpc \in [Process -> TStates] BY DEF Typed, Connections, ConnInv
      <3> QED BY <2>2, <3>1
    <2>4. \A u \in Process : ThreadOk(u)'
      <3> SUFFICES ASSUME NEW u \in Process  PROVE ThreadOk(u)' OBVIOUS
      <3>1. HandlerOf("none") = HandlerOf("read") BY DEF HandlerOf
      <3> QED BY <2>1, <2>3, <3>1 DEF ThreadOk, Typed, ThreadInv
    <2> QED BY <2>1, <2>4 DEF ThreadInv, ThreadTyped, Typed, shared, crossed
  <1> QED BY <1>1, <1>2, <1>3 DEF Next, ClientStep, FaultStep, vars


(***************************************************************************)
(* The accept loop.                                                        *)
(***************************************************************************)
LEMMA TurnInit == Init => TurnInv
  <1> SUFFICES ASSUME Init  PROVE TurnInv OBVIOUS
  <1>1. Clients = {} /\ Turned = {} /\ currentConn = 0 /\ ~locked /\ locked \in BOOLEAN
    BY DEF Init, SocketsInit, ServerInit, Clients, Turned, Admitted, Side
  <1> QED BY <1>1, ServerAssumption, FS_EmptySet DEF TurnInv

LEMMA AdmitTurns ==
  ASSUME TurnInv, Typed, NEW p \in Process, NEW created \in BOOLEAN, Admit(p, created)
  PROVE  TurnInv'
  <1>1. /\ listening /\ ~locked /\ UNCHANGED <<listening, locked, end>>
        /\ tpc[p] = "none" /\ end[p]["server"] = "open"
        /\ currentConn # MaxConn /\ currentConn' = currentConn + 1
        /\ tpc' = IF created THEN [tpc EXCEPT ![p] = "read"] ELSE tpc
    BY AcceptTakesFirst DEF Admit, Full, Typed, Connections
  <1>2. currentConn' \in 0 .. MaxConn /\ currentConn \in Nat /\ currentConn' = currentConn + 1
    BY <1>1, ServerAssumption DEF TurnInv
  <1>3. \A q \in Process : tpc'[q] = tpc[q] \/ (q = p /\ tpc'[q] = "read")
    BY <1>1 DEF Typed, Connections, ConnInv
  <1>4. Clients' \subseteq Clients \cup {p} BY <1>3 DEF Clients, Admitted
  <1>5. IsFiniteSet(Clients) BY ProcessFinite, FS_Subset DEF Clients
  <1>6. Cardinality(Clients') <= currentConn'
    <2>1. p \notin Clients BY <1>1 DEF Clients, Admitted
    <2>2. /\ IsFiniteSet(Clients \cup {p})
          /\ Cardinality(Clients \cup {p}) = Cardinality(Clients) + 1
      BY <2>1, <1>5, FS_AddElement
    <2>3. Cardinality(Clients') <= Cardinality(Clients \cup {p}) /\ IsFiniteSet(Clients')
      BY <1>4, <2>2, FS_Subset
    <2>4. Cardinality(Clients') \in Nat /\ Cardinality(Clients) \in Nat
      BY <2>3, <1>5, FS_CardinalityType
    <2> QED BY <1>2, <2>2, <2>3, <2>4 DEF TurnInv
  <1>7. Turned' = {}
    <2>1. Turned = {} BY <1>1 DEF TurnInv
    <2> QED BY <1>1, <1>3, <2>1 DEF Turned, Admitted
  <1> QED BY <1>1, <1>2, <1>6, <1>7 DEF TurnInv

LEMMA TurnAwayTurns ==
  ASSUME TurnInv, Typed, NEW p \in Process, TurnAway(p)
  PROVE  TurnInv'
  <1>1. /\ listening /\ ~locked /\ tpc[p] = "none" /\ locked'
        /\ UNCHANGED <<listening, tpc, currentConn>>
        /\ end' = EndsAfterClose({p}, "server")
    BY AcceptTakesFirst DEF TurnAway, Typed, Connections
  <1>2. end'[p]["server"] = "closed" /\ \A q \in Process \ {p} : end'[q] = end[q]
    BY <1>1 DEF EndsAfterClose, Typed, Connections, ConnInv, Side
  <1>3. Turned = {} BY <1>1 DEF TurnInv
  <1>4. Turned' = {p} BY <1>1, <1>2, <1>3 DEF Turned, Admitted
  <1>5. Clients' = Clients BY <1>1 DEF Clients, Admitted
  <1>6. locked' \in BOOLEAN BY DEF TurnAway
  <1> QED BY <1>1, <1>4, <1>5, <1>6 DEF TurnInv

LEMMA OthersTurnNone ==
  ASSUME TurnInv, UNCHANGED accepting, Clients' = Clients, listening' => listening /\ Turned' = Turned
  PROVE  TurnInv'
  BY DEF TurnInv, accepting

LEMMA TurnStep == TurnInv /\ Typed /\ [Next]_vars => TurnInv'
  <1> SUFFICES ASSUME TurnInv, Typed, [Next]_vars  PROVE TurnInv' OBVIOUS
  <1>1. CASE MainStep BY <1>1, AdmitTurns, TurnAwayTurns DEF MainStep
  <1>2. ASSUME NEW t \in Process, ThreadStep(t)  PROVE TurnInv'
    <2>1. UNCHANGED accepting
      BY <1>2 DEF ThreadStep, Thread, Read, Checkin, Copy, Own, Sum, LoadRow, StoreRow, LoadAz,
         StoreAz, Checkout, Handle, Reply, Sigpipe, CloseSocket
    <2>2. \A u \in Process \ {t} : tpc'[u] = tpc[u] BY <1>2, ThreadLeavesOthers DEF SameThread
    <2>3. Admitted(t) /\ tpc'[t] # "none"
      BY <1>2 DEF ThreadStep, Thread, Read, Checkin, Copy, Own, Sum, LoadRow, StoreRow, LoadAz,
         StoreAz, Checkout, Handle, Reply, Sigpipe, CloseSocket, At, Goto, Admitted,
         Dispatch, Typed, Connections, ConnInv
    <2>4. Clients' = Clients BY <2>2, <2>3 DEF Clients, Admitted
    <2>5. listening' => listening /\ \A u \in Process \ {t} : end'[u] = end[u]
      BY <1>2, CloseIs
         DEF ThreadStep, Thread, Read, Checkin, Copy, Own, Sum, LoadRow, StoreRow, LoadAz,
         StoreAz, Checkout, Handle, Reply, Sigpipe, CloseSocket, sockets, Take, WriteAnswer, Write,
         ServerGone, Typed, Connections, ConnInv, Side, At
    <2>6. listening' => listening /\ Turned' = Turned
      BY <2>2, <2>3, <2>5 DEF Turned, Admitted
    <2> QED BY <2>1, <2>4, <2>6, OthersTurnNone
  <1>3. ASSUME NEW p \in Process, Client(p) \/ ClientFault(p), UNCHANGED server  PROVE TurnInv'
    <2>1. tpc' = tpc /\ UNCHANGED accepting BY <1>3 DEF server
    <2>2. /\ listening' = listening
          /\ \A q \in Process : end'[q]["server"] = end[q]["server"]
                                \/ (end[q]["server"] = "none" /\ end'[q]["server"] = "open")
      <3>1. CASE Connects(p)
        <4>1. end[p]["server"] = "none"
          BY <3>1 DEF Connects, Typed, Connections, ConnInv, BeforeSession
        <4> QED BY <3>1, <4>1 DEF Connects, Connect, Side, Typed, Connections, ConnInv
      <3>2. CASE Leave(p) \/ BrokenPipe(p) \/ Die(p)
        <4>1. Peer("client") = "server" /\ "client" \in Side BY DEF Peer, Side
        <4>2. Close({p}, "client") BY <3>2 DEF Leave, BrokenPipe, Die
        <4>3. end \in [Process -> [Side -> {"none", "open", "closed"}]]
          BY DEF Typed, Connections, ConnInv
        <4>4. /\ end'[p]["server"] = end[p]["server"] /\ listening' = listening
              /\ \A q \in Process \ {p} : end'[q] = end[q]
          BY <4>1, <4>2, <4>3, CloseIs
        <4> QED BY <4>4
      <3>3. CASE ~(Connects(p) \/ Leave(p) \/ BrokenPipe(p) \/ Die(p))
        BY <1>3, <3>3
           DEF Client, ClientFault, Fork, ForkFails, Wait, SocketFails, ConnectFails, Send, Garble,
               Receive, Write, Take, sockets
      <3> QED BY <3>1, <3>2, <3>3
    <2>3. Clients' = Clients /\ Turned' = Turned BY <2>1, <2>2 DEF Clients, Turned, Admitted
    <2> QED BY <2>1, <2>2, <2>3, OthersTurnNone
  <1>4. CASE UNCHANGED vars
    <2>1. UNCHANGED accepting /\ UNCHANGED <<tpc, end, listening>> BY <1>4 DEF vars, server, sockets
    <2> QED BY <2>1, OthersTurnNone DEF Clients, Turned, Admitted
  <1> QED BY <1>1, <1>2, <1>3, <1>4 DEF Next, ClientStep, FaultStep

LEMMA SpecTyped == Spec => [](Typed /\ TurnInv)
  <1>1. Init => Typed
    BY ForkInit, CommandInit, ConnInit, TypedInit DEF Typed, Connections, Commands
  <1>2. Typed /\ [Next]_vars => Typed'
    BY ForkStep, CommandStep, ConnStep, MessageStep, ThreadInvStep DEF Typed, Connections, Commands
  <1> QED BY <1>1, <1>2, TurnInit, TurnStep, PTL DEF Spec

(***************************************************************************)
(* Every variable of the service keeps its type: no thread reads outside   *)
(* the two tables, no mapper sends more updates than there are files.      *)
(***************************************************************************)
THEOREM ServiceTyped == Spec => []TypeOK
  <1>1. Spec => [](Typed /\ TurnInv) BY SpecTyped
  <1>2. Typed /\ TurnInv => TypeOK
    <2> SUFFICES ASSUME Typed, TurnInv  PROVE TypeOK OBVIOUS
    <2> USE DEF Typed, Connections, Commands
    <2>1. SocketsTypeOK(Request \cup Response)
      BY DEF SocketsTypeOK, ConnInv, MessageInv
    <2>2. ServerTypeOK
      <3>1. buffer \in [Process -> Request] BY Protocols DEF ThreadInv, ThreadTyped
      <3> QED BY <3>1 DEF ServerTypeOK, ThreadInv, ThreadTyped, ConnInv, TurnInv
    <2>3. \A p \in Process : messageCount[p] \in 0 .. NumFiles
      <3> SUFFICES ASSUME NEW p \in Process  PROVE messageCount[p] \in 0 .. NumFiles OBVIOUS
      <3>1. messageCount[p] \in Nat BY DEF CommandInv
      <3>2. CASE messageCount[p] = 0 BY <3>2, ClientAssumption
      <3>3. CASE messageCount[p] # 0
        <4> DEFINE n == messageCount[p] - 1
        <4>1. n \in Nat /\ n \in 0 .. messageCount[p] - 1 /\ n + 1 = messageCount[p]
          BY <3>1, <3>3
        <4> HIDE DEF n
        <4>2. FileOf(p, n) \in 1 .. NumFiles BY <4>1 DEF CommandInv
        <4>3. p[2] # {}
          <5>1. command[p] \notin {0, CHECKIN} BY <3>3 DEF CommandInv
          <5> QED BY <5>1 DEF CommandInv
        <4>4. FileOf(p, n) \in Nat /\ n + 1 <= FileOf(p, n)
          BY <4>1, <4>3, FilesOfMapper
        <4> QED BY <3>1, <4>1, <4>2, <4>4, ClientAssumption
      <3> QED BY <3>2, <3>3
    <2>4. ClientsTypeOK
      BY <2>3 DEF ClientsTypeOK, ForkInv, CommandInv, MessageInv
    <2> QED BY <2>1, <2>2, <2>4 DEF TypeOK
  <1> QED BY <1>1, <1>2, PTL

(***************************************************************************)
(* main admits at most MaxConn clients, and while the server lives exactly *)
(* one client has been told that it is too busy if and only if main holds  *)
(* the lock it never gives back.                                           *)
(***************************************************************************)
THEOREM OneTurnedAway == Spec => []TurnedAwayAtMostOnce
  <1>1. Spec => [](Typed /\ TurnInv) BY SpecTyped
  <1>2. TurnInv => TurnedAwayAtMostOnce
    <2> SUFFICES ASSUME TurnInv  PROVE TurnedAwayAtMostOnce OBVIOUS
    <2>1. Cardinality(Clients) <= MaxConn
      <3>1. IsFiniteSet(Clients) BY ProcessFinite, FS_Subset DEF Clients
      <3>2. Cardinality(Clients) \in Nat BY <3>1, FS_CardinalityType
      <3> QED BY <3>2, ServerAssumption DEF TurnInv
    <2>2. listening => Cardinality(Turned) = IF locked THEN 1 ELSE 0
      BY FS_EmptySet, FS_Singleton DEF TurnInv
    <2> QED BY <2>1, <2>2 DEF TurnedAwayAtMostOnce, Turned
  <1> QED BY <1>1, <1>2, PTL

(***************************************************************************)
(* What a step of one process leaves alone.                                *)
(***************************************************************************)
StepOf(p) ==
  \/ (Admit(p, TRUE) \/ TurnAway(p)) /\ UNCHANGED clients
  \/ Admit(p, FALSE) /\ Fault("create", p) /\ UNCHANGED <<cpc, k, command, messageCount, answer>>
  \/ ThreadStep(p) \/ ClientStep(p) \/ FaultStep(p)

Garbled(u) == <<"garbled", u>> \in faults

SameClient(u) ==
  /\ cpc'[u] = cpc[u] /\ command'[u] = command[u] /\ messageCount'[u] = messageCount[u]
  /\ answer'[u] = answer[u] /\ inbox'[u] = inbox[u] /\ Garbled(u)' = Garbled(u)
Same(u) == SameClient(u) /\ SameThread(u)

LEMMA StepIsOfOne == Next <=> \E p \in Process : StepOf(p)
  BY DEF Next, MainStep, StepOf

LEMMA FaultOfOne ==
  ASSUME NEW kind, NEW p, NEW u, Fault(kind, p), kind # "garbled" \/ u # p
  PROVE  Garbled(u)' = Garbled(u)
  BY DEF Fault, Garbled

LEMMA ClientLeavesOthers ==
  ASSUME Typed, NEW p \in Process, Client(p) \/ ClientFault(p), UNCHANGED server,
         NEW u \in Process \ {p}, cpc[u] # "unborn"
  PROVE  Same(u)
  <1>1. SameThread(u) BY DEF SameThread, server
  <1>2. /\ cpc \in [Process -> CPStates] /\ command \in [Process -> Command]
        /\ messageCount \in [Process -> Nat] /\ answer \in [Process -> Response]
        /\ inbox \in [Process -> [Side -> Seq(Request \cup Response)]]
    BY DEF Typed, Connections, Commands, ForkInv, CommandInv, MessageInv
  <1>3. cpc'[u] = cpc[u]
    <2>1. CASE Fork(p)
      <3>1. cpc[Child(p, k[p])] = "unborn"
        BY <2>1, ForkKeepsForks DEF Typed, Connections, Commands
      <3> QED BY <1>2, <2>1, <3>1 DEF Fork
    <2>2. CASE ~Fork(p)
      BY <1>2, <2>2 DEF Client, ClientFault, Wait, Connects, ConnectFails, Send, Receive,
                        Leave, BrokenPipe, ForkFails, SocketFails, Garble, Die, CGoto
    <2> QED BY <2>1, <2>2
  <1>4. Garbled(u)' = Garbled(u)
    BY FaultOfOne DEF Client, ClientFault, Fork, Wait, Connects, ConnectFails, Send, Receive,
                        Leave, BrokenPipe, ForkFails, SocketFails, Garble, Die, Garbled
  <1>5. inbox'[u] = inbox[u]
    BY <1>2 DEF Client, ClientFault, Fork, Wait, Connects, ConnectFails, Send, Receive,
                        Leave, BrokenPipe, ForkFails, SocketFails, Garble, Die, Connect, Write,
                        Take, Close, sockets
  <1>6. command'[u] = command[u] /\ messageCount'[u] = messageCount[u] /\ answer'[u] = answer[u]
    BY <1>2 DEF Client, ClientFault, Fork, Wait, Connects, ConnectFails, Send, Receive,
                        Leave, BrokenPipe, ForkFails, SocketFails, Garble, Die
  <1> QED BY <1>1, <1>3, <1>4, <1>5, <1>6 DEF Same, SameClient

LEMMA OthersSame ==
  ASSUME Typed, NEW p \in Process, StepOf(p), NEW u \in Process \ {p}, cpc[u] # "unborn"
  PROVE  Same(u)
  <1>1. CASE ThreadStep(p)
    <2>1. SameThread(u) BY <1>1, ThreadLeavesOthers
    <2>2. UNCHANGED clients BY <1>1 DEF ThreadStep
    <2>3. inbox'[u] = inbox[u]
      BY <1>1 DEF ThreadStep, Thread, Read, Checkin, Copy, Own, Sum, LoadRow, StoreRow, LoadAz,
         StoreAz, Checkout, Handle, Reply, Sigpipe, CloseSocket, WriteAnswer, Write, Take,
         ServerGone, Close, sockets, Typed, MessageInv
    <2> QED BY <2>1, <2>2, <2>3 DEF Same, SameClient, clients, Garbled
  <1>2. CASE ClientStep(p) \/ FaultStep(p)
    BY <1>2, ClientLeavesOthers DEF ClientStep, FaultStep
  <1>3. CASE ~(ThreadStep(p) \/ ClientStep(p) \/ FaultStep(p))
    <2>1. /\ UNCHANGED <<cpc, command, messageCount, answer, inbox, buffer, bufferResponse, i, reg>>
          /\ tpc' = tpc \/ tpc' = [tpc EXCEPT ![p] = "read"]
      BY <1>3 DEF StepOf, Admit, TurnAway, clients
    <2>2. tpc'[u] = tpc[u] BY <2>1 DEF Typed, Connections, ConnInv
    <2>3. Garbled(u)' = Garbled(u)
      BY <1>3, FaultOfOne DEF StepOf, clients, Garbled
    <2> QED BY <2>1, <2>2, <2>3 DEF Same, SameClient, SameThread
  <1> QED BY <1>1, <1>2, <1>3

LEMMA StaysAdmitted ==
  ASSUME Typed, NEW p \in Process, StepOf(p), NEW u \in Process, Admitted(u)
  PROVE  Admitted(u)' /\ cpc[u] # "unborn" /\ (cpc[u] = "killed" => cpc'[u] = "killed")
  <1>1. cpc[u] \notin BeforeSession
    BY DEF Typed, Connections, ConnInv, Admitted
  <1>2. CASE u # p
    BY <1>1, <1>2, OthersSame DEF Same, SameThread, SameClient, Admitted, BeforeSession
  <1>3. CASE u = p
    <2>1. CASE ThreadStep(p)
      <3>1. cpc' = cpc BY <2>1 DEF ThreadStep, clients
      <3>2. tpc'[p] # "none"
        BY <1>3, <2>1 DEF ThreadStep, Thread, Read, Checkin, Copy, Own, Sum, LoadRow, StoreRow,
         LoadAz, StoreAz, Checkout, Handle, Reply, Sigpipe, CloseSocket, At, Goto, Admitted,
         Dispatch, Typed, Connections, ConnInv
      <3> QED BY <1>1, <1>3, <3>1, <3>2 DEF Admitted, BeforeSession
    <2>2. CASE ClientStep(p) \/ FaultStep(p)
      <3>1. tpc' = tpc BY <2>2 DEF ClientStep, FaultStep, server
      <3>2. cpc[p] # "killed"
        BY <2>2 DEF ClientStep, FaultStep, Client, ClientFault, Fork, Wait, Connects, ConnectFails,
                    Send, Receive, Leave, BrokenPipe, ForkFails, SocketFails, Garble, Die
      <3> QED BY <1>1, <1>3, <3>1, <3>2 DEF Admitted, BeforeSession
    <2>3. CASE ~(ThreadStep(p) \/ ClientStep(p) \/ FaultStep(p))
      <3>1. cpc' = cpc /\ (tpc' = tpc \/ tpc' = [tpc EXCEPT ![p] = "read"])
        BY <2>3 DEF StepOf, Admit, TurnAway, clients
      <3> QED BY <1>1, <1>3, <3>1 DEF Admitted, BeforeSession, Typed, Connections, ConnInv
    <2> QED BY <2>1, <2>2, <2>3
  <1> QED BY <1>2, <1>3

LEMMA StaysDisturbed ==
  ASSUME Typed, NEW p \in Process, StepOf(p), Undisturbed'
  PROVE  Undisturbed
  BY StaysAdmitted DEF Undisturbed

LEMMA StaysKilled ==
  ASSUME Typed, NEW p \in Process, StepOf(p), NEW u \in Process, cpc[u] = "killed"
  PROVE  cpc'[u] = "killed"
  <1>1. CASE u # p BY <1>1, OthersSame DEF Same, SameClient
  <1>2. CASE u = p
    <2>1. ~(ClientStep(p) \/ FaultStep(p))
      BY <1>2 DEF ClientStep, FaultStep, Client, ClientFault, Fork, Wait, Connects, ConnectFails,
                  Send, Receive, Leave, BrokenPipe, ForkFails, SocketFails, Garble, Die
    <2> QED BY <1>2, <2>1 DEF StepOf, ThreadStep, clients
  <1> QED BY <1>1, <1>2

\* Nobody opens a connection to a server that is gone.
LEMMA ClosedStays ==
  ASSUME Typed, NEW p \in Process, StepOf(p), NEW q \in Process, ~listening,
         end[q]["server"] # "open"
  PROVE  end'[q]["server"] # "open" /\ ~listening' /\ ~ThreadStep(p)
  <1>1. end \in [Process -> [Side -> {"none", "open", "closed"}]] /\ "server" \in Side
    BY DEF Typed, Connections, ConnInv, Side
  <1>2. ~ThreadStep(p) /\ ~Accepts(p)
    BY DEF ThreadStep, Thread, Read, Checkin, Copy, Own, Sum, LoadRow, StoreRow, LoadAz,
           StoreAz, Checkout, Handle, Reply, Sigpipe, CloseSocket, At, Accepts
  <1>3. ClientStep(p) \/ FaultStep(p) BY <1>2 DEF StepOf, Admit, TurnAway
  <1>4. listening' = listening /\ (end' = end \/ end' = EndsAfterClose({p}, "client"))
    BY <1>3 DEF ClientStep, FaultStep, Client, ClientFault, Fork, Wait, Connects, Connect, ConnectFails, Send,
       Receive, Leave, BrokenPipe, ForkFails, SocketFails, Garble, Die, Write, Take, Close, sockets
  <1> QED BY <1>1, <1>2, <1>4 DEF EndsAfterClose

RowsStay ==
  \A r \in Row : isCheckedIn[r] \in {CHECKIN, CHECKOUT} => isCheckedIn'[r] \in {CHECKIN, CHECKOUT}

LEMMA MarksStay ==
  ASSUME Typed, NEW p \in Process, StepOf(p)
  PROVE  RowsStay
  BY DEF Typed, ThreadInv, ThreadTyped, RowsStay, StepOf, Admit, TurnAway, ClientStep, FaultStep,
         server, shared,
         ThreadStep, Thread, Read, Checkin, Copy, Own, Sum, LoadRow, StoreRow, LoadAz,
         StoreAz, Checkout, Reply, Sigpipe, CloseSocket, CheckoutMark

(***************************************************************************)
(* The sessions.                                                           *)
(***************************************************************************)
LEMMA SameSession ==
  ASSUME NEW p \in Process, Same(p), RowsStay, Session(p), Id(p) - 1 \in Row
  PROVE  Session(p)'
  <1>1. Id(p)' = Id(p) /\ FileWords(p, messageCount[p] - 1)' = FileWords(p, messageCount[p] - 1)
    BY DEF Id, FileWords, FileOf, Mappers, Same, SameClient, Garbled
  <1>2. Ask(p)' = Ask(p) BY <1>1 DEF Ask, Same, SameClient
  <1>3. AfterReply(p)' = AfterReply(p) BY DEF AfterReply, Same, SameClient
  <1>4. (Asked(p) \/ InHandler(p) \/ Replied(p) \/ Told(p))'
    <2>1. Asked(p) => Asked(p)' BY <1>2 DEF Asked, Same, SameClient, SameThread
    <2>2. InHandler(p) => InHandler(p)' BY <1>2 DEF InHandler, Same, SameClient, SameThread
    <2>3. Replied(p) => Replied(p)' BY <1>3 DEF Replied, Same, SameClient, SameThread
    <2>4. Told(p) => Told(p)' BY <1>3 DEF Told, Same, SameClient, SameThread
    <2> QED BY <2>1, <2>2, <2>3, <2>4 DEF Session
  <1>5. HasAnswer(p)' = HasAnswer(p) /\ Given(p)' = Given(p) /\ command'[p] = command[p]
    BY DEF HasAnswer, Given, Same, SameClient, SameThread
  <1>6. CheckedIn(p)' = CheckedIn(p) BY <1>5 DEF CheckedIn
  <1> QED BY <1>1, <1>4, <1>5, <1>6 DEF Session, RowsStay

LEMMA SameWaiting ==
  ASSUME NEW p \in Process, Same(p), Waiting(p)
  PROVE  Waiting(p)'
  <1>1. Id(p)' = Id(p) /\ FileWords(p, messageCount[p] - 1)' = FileWords(p, messageCount[p] - 1)
    BY DEF Id, FileWords, FileOf, Mappers, Same, SameClient, Garbled
  <1>2. Ask(p)' = Ask(p) BY <1>1 DEF Ask, Same, SameClient
  <1> QED BY <1>2 DEF Waiting, Same, SameClient

\* A client the living server serves.
LEMMA InService ==
  ASSUME Typed, NEW p \in Process, Admitted(p)
  PROVE  /\ cpc[p] \notin BeforeSession /\ p[2] # {}
         /\ Id(p) \in Row \ {0} /\ Id(p) - 1 \in Row
         /\ command[p] \in 0 .. 6 /\ messageCount[p] \in Nat
         /\ cpc[p] \in InSession <=> end[p]["client"] = "open"
         /\ end[p]["client"] \in {"open", "closed"}
         /\ listening => end[p]["server"] = IF tpc[p] = "exit" THEN "closed" ELSE "open"
         /\ tpc[p] \in TStates
         /\ inbox[p] \in [Side -> Seq(Request \cup Response)]
  <1>1. cpc[p] \notin BeforeSession /\ cpc[p] \in CPStates BY DEF Typed, Connections, ConnInv, Admitted, Commands, ForkInv
  <1>2. p[2] # {} BY DEF Typed, Connections, ConnInv, Admitted
  <1>3. Id(p) \in Row \ {0} /\ Id(p) - 1 \in Row BY <1>2, IdInRange
  <1>4. /\ command[p] \in 0 .. 6 /\ messageCount[p] \in Nat /\ tpc[p] \in TStates
        /\ inbox[p] \in [Side -> Seq(Request \cup Response)]
    BY DEF Typed, Connections, Commands, ConnInv, CommandInv, Command, CHECKOUT, MessageInv
  <1>5. /\ cpc[p] \in InSession <=> end[p]["client"] = "open"
        /\ end[p]["client"] # "none" /\ end[p]["client"] \in {"none", "open", "closed"}
        /\ listening => end[p]["server"] = IF tpc[p] = "exit" THEN "closed" ELSE "open"
    BY DEF Typed, Connections, ConnInv, Admitted, Side
  <1> QED BY <1>1, <1>2, <1>3, <1>4, <1>5

\* No answer is given, and nothing the client has done is undone.
Advances(p) ==
  /\ HasAnswer(p)' => /\ HasAnswer(p) /\ Given(p)' = Given(p)
                      /\ command'[p] = command[p] /\ messageCount'[p] = messageCount[p]
  /\ CheckedIn(p) => CheckedIn(p)'
  /\ command[p] = CHECKOUT => command'[p] = CHECKOUT

LEMMA PhaseIs ==
  ASSUME Typed, NEW p \in Process, Session(p)
  PROVE  /\ cpc[p] = "send" => Told(p)
         /\ cpc[p] \in {"close", "exited"} => Told(p)
         /\ tpc[p] \in Handling => InHandler(p)
         /\ tpc[p] = "read" => Asked(p) \/ Replied(p) \/ Told(p)
         /\ tpc[p] \in {"close", "exit"} => Replied(p) \/ Told(p)
         /\ cpc[p] # "killed" /\ tpc[p] # "none"
  BY DEF Session, Asked, InHandler, Replied, Told, AfterReply, Handling

LEMMA SendSession ==
  ASSUME Typed, NEW p \in Process, Admitted(p), listening, Session(p), Send(p), UNCHANGED server
  PROVE  Session(p)' /\ Advances(p) /\ Asked(p)'
  <1> DEFINE c == NextCommand(p)
             m == [command |-> c, pid |-> Id(p),
                   data |-> IF c = UPDATE_AZLIST THEN FileWords(p, messageCount[p]) ELSE Zeros]
  <1>1. /\ cpc[p] = "send" /\ cpc' = [cpc EXCEPT ![p] = "receive"] /\ answer' = answer
        /\ command' = [command EXCEPT ![p] = c] /\ faults' = faults
        /\ messageCount' = [messageCount EXCEPT ![p] = IF c = UPDATE_AZLIST THEN @ + 1 ELSE @]
        /\ Write(p, "client", m) /\ UNCHANGED <<tpc, isCheckedIn>>
    BY DEF Send, CGoto, server, shared
  <1>2. Told(p) BY <1>1, PhaseIs
  <1>3. /\ tpc[p] = "read" /\ inbox[p]["server"] = <<>> /\ inbox[p]["client"] = <<>>
        /\ command[p] # CHECKOUT
    BY <1>1, <1>2 DEF Told, AfterReply
  <1>4. /\ cpc'[p] = "receive" /\ command'[p] = c
        /\ messageCount'[p] = IF c = UPDATE_AZLIST THEN messageCount[p] + 1 ELSE messageCount[p]
        /\ messageCount[p] \in Nat
    BY <1>1 DEF Typed, Connections, Commands, ForkInv, CommandInv
  <1>5. Ask(p)' = m
    <2>1. c = UPDATE_AZLIST => messageCount'[p] - 1 = messageCount[p] BY <1>4
    <2> HIDE DEF c
    <2> QED BY <1>1, <1>4, <2>1 DEF Ask, FileWords, FileOf, Id, Mappers
  <1> HIDE DEF m
  <1>6. inbox'[p]["server"] = <<m>> /\ inbox'[p]["client"] = <<>>
    <2>1. end[p]["server"] = "open" BY <1>3, InService
    <2>2. inbox' = [inbox EXCEPT ![p]["server"] = Append(@, m)] BY <1>1, <2>1 DEF Write, Peer
    <2>3. Append(inbox[p]["server"], m) = <<m>> BY <1>3
    <2> QED BY <1>3, <2>2, <2>3 DEF Typed, MessageInv, Side
  <1>7. Asked(p)' BY <1>1, <1>3, <1>4, <1>5, <1>6 DEF Asked
  <1>8. ~HasAnswer(p)' BY <1>1, <1>3, <1>4, <1>6 DEF HasAnswer
  <1>9. CheckedIn(p)' => CheckedIn(p)
    <2>1. c > CHECKIN => command[p] # 0
      BY <1>3, NextCommandIs DEF Typed, Connections, Commands, CommandInv
    <2>2. command[p] # 0 => HasAnswer(p) BY <1>1 DEF HasAnswer
    <2> QED BY <1>4, <1>8, <2>1, <2>2 DEF CheckedIn
  <1>10. Id(p)' = Id(p) BY DEF Id
  <1>11. CheckedIn(p) => CheckedIn(p)'
    <2>1. CheckedIn(p) => command[p] # 0 BY DEF CheckedIn, HasAnswer, CHECKIN
    <2>2. command[p] # 0 => c > CHECKIN
      BY <1>3, NextCommandIs DEF Typed, Connections, Commands, CommandInv
    <2> QED BY <1>4, <2>1, <2>2 DEF CheckedIn
  <1> QED BY <1>1, <1>3, <1>7, <1>8, <1>9, <1>10, <1>11 DEF Session, Advances

LEMMA ReceiveSession ==
  ASSUME Typed, NEW p \in Process, Admitted(p), listening, Session(p), Receive(p), UNCHANGED server
  PROVE  Session(p)' /\ Advances(p)
  <1>1. /\ cpc[p] = "receive" /\ UNCHANGED <<command, tpc, isCheckedIn>>
        /\ cpc'[p] = IF command[p] = CHECKOUT THEN "close" ELSE "send"
    BY DEF Receive, CGoto, server, shared, SessionOver, Typed, Connections, Commands, ForkInv
  <1>2. inbox[p]["client"] # <<>>
    <2> SUFFICES ASSUME inbox[p]["client"] = <<>>  PROVE FALSE OBVIOUS
    <2>1. end[p]["server"] = "closed" BY DEF Receive, HasMessage, EndOfAnswers, AtEOF, Peer
    <2>2. tpc[p] = "exit" BY <2>1, InService
    <2> QED BY <1>1, <2>2, PhaseIs DEF Replied, Told
  <1>3. Replied(p) BY <1>1, <1>2 DEF Session, Asked, InHandler, Told
  <1>4. /\ inbox' = [inbox EXCEPT ![p]["client"] = Tail(@)]
        /\ answer' = [answer EXCEPT ![p] = Head(inbox[p]["client"])]
    BY <1>2 DEF Receive, HasMessage, EndOfAnswers, AtEOF, Take
  <1>5. /\ inbox'[p]["client"] = <<>> /\ inbox'[p]["server"] = <<>>
        /\ answer'[p] = Head(inbox[p]["client"])
    <2>1. PICK m \in Response : inbox[p]["client"] = <<m>> BY <1>3 DEF Replied
    <2>2. Tail(inbox[p]["client"]) = <<>> BY <2>1
    <2> QED BY <1>3, <1>4, <2>2 DEF Replied, Typed, MessageInv, Side
  <1>6. Told(p)' BY <1>1, <1>3, <1>5 DEF Told, Replied, AfterReply
  <1>7. HasAnswer(p) /\ HasAnswer(p)' /\ Given(p)' = Given(p) /\ command'[p] = command[p]
    <2>1. command[p] # 0 BY <1>1 DEF Typed, Connections, Commands, CommandInv
    <2> QED BY <1>1, <1>2, <1>5, <2>1 DEF HasAnswer, Given
  <1>8. Id(p)' = Id(p) BY DEF Id
  <1>9. messageCount' = messageCount BY DEF Receive
  <1> QED BY <1>1, <1>6, <1>7, <1>8, <1>9 DEF Session, CheckedIn, Advances

LEMMA LeaveSession ==
  ASSUME Typed, NEW p \in Process, Session(p), Leave(p) \/ Garble(p), UNCHANGED server
  PROVE  Session(p)' /\ Advances(p)
  <1>1. /\ \/ cpc[p] = "close" /\ cpc'[p] = "exited"
           \/ cpc[p] = "send" /\ cpc'[p] = "send"
        /\ UNCHANGED <<command, messageCount, inbox, answer, tpc, isCheckedIn>>
    BY DEF Leave, Garble, Close, CGoto, sockets, server, shared, Typed, Connections, Commands, ForkInv
  <1>2. Told(p) BY <1>1, PhaseIs
  <1>3. Told(p)' BY <1>1, <1>2 DEF Told, AfterReply
  <1>4. HasAnswer(p)' = HasAnswer(p) /\ Given(p)' = Given(p) BY <1>1 DEF HasAnswer, Given
  <1>5. Id(p)' = Id(p) BY DEF Id
  <1> QED BY <1>1, <1>3, <1>4, <1>5 DEF Session, CheckedIn, Advances

LEMMA ClientSession ==
  ASSUME Typed, NEW p \in Process, Admitted(p), listening, Session(p),
         Client(p) \/ ClientFault(p), UNCHANGED server, cpc'[p] # "killed"
  PROVE  Session(p)' /\ Advances(p)
  <1>1. cpc[p] \notin BeforeSession BY InService
  <1>2. ~(Fork(p) \/ Wait(p) \/ Connects(p) \/ ConnectFails(p) \/ ForkFails(p) \/ SocketFails(p))
    BY <1>1 DEF BeforeSession, Fork, Wait, Connects, ConnectFails, ForkFails, SocketFails
  <1>3. ~(BrokenPipe(p) \/ Die(p))
    BY DEF BrokenPipe, Die, CGoto, Typed, Connections, Commands, ForkInv
  <1> QED BY <1>2, <1>3, SendSession, ReceiveSession, LeaveSession DEF Client, ClientFault

LEMMA ReadSession ==
  ASSUME Typed, NEW p \in Process, listening, Session(p), Read(p), UNCHANGED clients
  PROVE  /\ Session(p)' /\ Asked(p)
         /\ inbox'[p]["server"] = <<>> /\ buffer'[p] = Ask(p) /\ tpc'[p] \in Handling
         /\ HasAnswer(p)' =>
              command[p] = CHECKIN /\ isCheckedIn[Id(p) - 1] \in {CHECKIN, CHECKOUT}
         /\ ~HasAnswer(p)' => tpc'[p] \notin {"reply", "storeRow", "loadAz", "storeAz"}
  <1>1. tpc[p] = "read" /\ Admitted(p) BY DEF Read, At, Admitted
  <1>2. Asked(p) \/ Replied(p) \/ Told(p) BY <1>1, PhaseIs
  <1>3. end[p]["client"] = "open"
    <2>1. cpc[p] \in {"send", "receive"} BY <1>1, <1>2 DEF Asked, Replied, Told, AfterReply
    <2> QED BY <1>1, <2>1, InService DEF InSession
  <1>4. HasMessage(p, "server") BY <1>3 DEF Read, EndOfInput, AtEOF, Peer
  <1>5. Asked(p) BY <1>2, <1>4 DEF Replied, Told, HasMessage
  <1> DEFINE r == Ask(p)
  <1>6. /\ r \in RealRequest /\ r.command = command[p] /\ r.pid = Id(p)
        /\ LastRequest(p) = r /\ inbox[p]["server"] = <<r>>
    <2>1. inbox[p]["server"] = <<r>> /\ inbox[p]["server"] \in Seq(RealRequest)
      BY <1>5 DEF Asked, Typed, MessageInv
    <2>2. LastRequest(p) = r BY <2>1, <1>4 DEF LastRequest
    <2>3. r \in RealRequest BY <2>1
    <2> QED BY <2>1, <2>2, <2>3 DEF Ask
  <1>7. /\ UNCHANGED <<cpc, command, messageCount, answer, faults, isCheckedIn>>
        /\ buffer' = [buffer EXCEPT ![p] = r]
        /\ inbox' = [inbox EXCEPT ![p]["server"] = Tail(@)]
        /\ \E unchecked \in NotCheckedIn(r) :
             \/ /\ Dispatch(r, unchecked) = "refuse" /\ Goto(p, "reply")
                /\ bufferResponse' = [bufferResponse EXCEPT
                     ![p] = Answer(r, RSP_NOK, Scalar(p, r.pid))]
             \/ Dispatch(r, unchecked) # "refuse" /\ Goto(p, Dispatch(r, unchecked))
    <2> HIDE DEF r
    <2> QED BY <1>4, <1>6 DEF Read, clients, shared, Take, EndOfInput, AtEOF
  <1>8. Ask(p)' = r BY <1>7 DEF Ask, FileWords, FileOf, Id, Mappers
  <1> HIDE DEF r
  <1> DEFINE u == isCheckedIn[Id(p) - 1] \in {0, -1}
  <1>9. /\ inbox'[p]["server"] = <<>> /\ inbox'[p]["client"] = <<>> /\ buffer'[p] = r
        /\ tpc'[p] = IF Dispatch(r, u) = "refuse" THEN "reply" ELSE Dispatch(r, u)
        /\ Dispatch(r, u) = "refuse" => bufferResponse'[p] = Answer(r, RSP_NOK, Scalar(p, r.pid))
    <2>1. NotCheckedIn(r) = {u} BY <1>1, <1>6, InService DEF NotCheckedIn
    <2>2. Tail(inbox[p]["server"]) = <<>> BY <1>6
    <2> HIDE DEF u
    <2>3. inbox'[p]["server"] = <<>> /\ inbox'[p]["client"] = <<>>
      BY <1>5, <1>7, <2>2 DEF Asked, Typed, MessageInv, Side
    <2> QED BY <1>7, <2>1, <2>3
            DEF Goto, Typed, Connections, ConnInv, ThreadInv, ThreadTyped
  <1>10. isCheckedIn[Id(p) - 1] \in {CHECKIN, CHECKOUT} <=> ~u
    BY <1>1, InService DEF Typed, ThreadInv, ThreadTyped, CHECKIN, CHECKOUT
  <1>11. command[p] > CHECKIN => ~u
    BY <1>10 DEF Session, CheckedIn
  <1>12. command[p] \in 1 .. 6 BY <1>6, Protocols
  <1> HIDE DEF u
  <1>13. /\ Dispatch(r, u) = "refuse" => command[p] = CHECKIN /\ ~u
         /\ Dispatch(r, u) \in Handling \cup {"refuse"} 
         /\ Dispatch(r, u) \notin {"reply", "storeRow", "loadAz", "storeAz"}
    BY <1>6, <1>11, <1>12
       DEF Dispatch, Handling, TStates, CHECKIN, CHECKOUT, GET_AZLIST,
           GET_ALL_UPDATES, GET_MAPPER_UPDATES, UPDATE_AZLIST
  <1>14. InHandler(p)'
    BY <1>5, <1>7, <1>8, <1>9, <1>13 DEF InHandler, Asked, Handling, TStates
  <1>15. HasAnswer(p)' <=> Dispatch(r, u) = "refuse"
    BY <1>5, <1>7, <1>9, <1>12, <1>13 DEF HasAnswer, Asked
  <1>16. HasAnswer(p)' => Given(p)' = Answer(r, RSP_NOK, Scalar(p, r.pid))
    BY <1>5, <1>7, <1>9, <1>15 DEF Given, Asked
  <1>17. Id(p)' = Id(p) BY DEF Id
  <1>18. Session(p)'
    <2>1. CheckedIn(p)' => isCheckedIn'[Id(p)' - 1] \in {CHECKIN, CHECKOUT}
      BY <1>7, <1>10, <1>11, <1>13, <1>15, <1>17 DEF CheckedIn
    <2>2. HasAnswer(p)' => /\ (Given(p).command = command[p])'
                           /\ command'[p] = CHECKIN
      BY <1>6, <1>7, <1>13, <1>15, <1>16 DEF Answer
    <2> QED BY <1>14, <2>1, <2>2 DEF Session
  <1> QED BY <1>5, <1>9, <1>8, <1>10, <1>13, <1>14, <1>15, <1>18, <1>6 DEF r, InHandler

\* A step of one of the handlers.
Handler(t) ==
  \/ Checkin(t) \/ Copy(t) \/ Own(t) \/ Sum(t) \/ LoadRow(t) \/ StoreRow(t)
  \/ LoadAz(t) \/ StoreAz(t) \/ Checkout(t)

LEMMA HandlerIs ==
  ASSUME Typed, NEW t \in Process, Handler(t)
  PROVE  /\ listening /\ tpc[t] \in Handling \ {"reply"} /\ tpc'[t] \in Handling
         /\ UNCHANGED <<sockets, buffer>>
         /\ tpc'[t] = "reply" => /\ bufferResponse'[t].command = buffer[t].command
                                 /\ bufferResponse'[t].code = RSP_OK
         /\ tpc'[t] = "reply" /\ buffer[t].command = CHECKIN =>
              isCheckedIn' = [isCheckedIn EXCEPT ![buffer[t].pid - 1] = CHECKIN]
  <1>1. tpc \in [Process -> TStates] /\ bufferResponse \in [Process -> Response]
    BY DEF Typed, Connections, ConnInv, ThreadInv, ThreadTyped
  <1>2. listening /\ tpc[t] \in Handling \ {"reply"} /\ tpc'[t] \in Handling
        /\ UNCHANGED <<sockets, buffer>>
    BY <1>1 DEF Handler, Checkin, Copy, Own, Sum, LoadRow, StoreRow, LoadAz, StoreAz, Checkout,
                Handle, At, Goto, Handling, TStates
  <1>3. tpc'[t] = "reply" => bufferResponse'[t].command = buffer[t].command
                             /\ bufferResponse'[t].code = RSP_OK
    <2>1. tpc'[t] = "reply" => \E d : Fill(t, RSP_OK, d)
      BY <1>1 DEF Handler, Checkin, Copy, Own, Sum, LoadRow, StoreRow, LoadAz, StoreAz, Checkout,
                Handle, At, Goto
    <2>2. ASSUME NEW d, Fill(t, RSP_OK, d)
          PROVE  bufferResponse'[t].command = buffer[t].command /\ bufferResponse'[t].code = RSP_OK
      BY <1>1, <2>2 DEF Fill, Answer
    <2> QED BY <2>1, <2>2
  <1>4. tpc'[t] = "reply" /\ buffer[t].command = CHECKIN =>
          isCheckedIn' = [isCheckedIn EXCEPT ![buffer[t].pid - 1] = CHECKIN]
    <2>1. buffer[t].command \in HandlerOf(tpc[t]) BY DEF Typed, ThreadInv, ThreadOk
    <2>2. buffer[t].command = CHECKIN => tpc[t] = "checkin"
      BY <1>2, <2>1 DEF HandlerOf, CHECKIN, CHECKOUT, GET_AZLIST, UPDATE_AZLIST, TStates,
           GET_ALL_UPDATES, GET_MAPPER_UPDATES, Handling
    <2> QED BY <2>2 DEF Handler, Checkin, Copy, Own, Sum, LoadRow, StoreRow, LoadAz, StoreAz,
                        Checkout, Handle, At
  <1> QED BY <1>2, <1>3, <1>4

LEMMA HandlerSession ==
  ASSUME Typed, NEW p \in Process, Session(p), Handler(p), UNCHANGED clients
  PROVE  /\ Session(p)' /\ InHandler(p)
         /\ HasAnswer(p)' <=> tpc'[p] = "reply"
  <1>1. /\ listening /\ tpc[p] \in Handling \ {"reply"} /\ tpc'[p] \in Handling
        /\ UNCHANGED <<inbox, buffer, cpc, command, messageCount, answer, faults>>
        /\ tpc'[p] = "reply" => /\ bufferResponse'[p].command = buffer[p].command
                                /\ bufferResponse'[p].code = RSP_OK
        /\ tpc'[p] = "reply" /\ buffer[p].command = CHECKIN =>
              isCheckedIn' = [isCheckedIn EXCEPT ![buffer[p].pid - 1] = CHECKIN]
    BY HandlerIs DEF sockets, clients
  <1>2. InHandler(p) BY <1>1, PhaseIs
  <1>3. Id(p)' = Id(p) /\ Ask(p)' = Ask(p) BY <1>1 DEF Ask, FileWords, FileOf, Id, Mappers
  <1>4. InHandler(p)' BY <1>1, <1>2, <1>3 DEF InHandler
  <1>5. /\ buffer[p].command = command[p] /\ buffer[p].pid = Id(p)
        /\ command[p] # 0
    <2>1. command[p] # 0
      BY <1>2 DEF InHandler, Typed, Connections, Commands, CommandInv
    <2> QED BY <1>2, <2>1 DEF InHandler, Ask
  <1>6. HasAnswer(p)' <=> tpc'[p] = "reply" BY <1>1, <1>2, <1>5 DEF HasAnswer, InHandler
  <1>7. HasAnswer(p)' => Given(p)' = bufferResponse'[p] BY <1>1, <1>2 DEF Given, InHandler
  <1>8. Admitted(p) BY PhaseIs DEF Admitted
  <1>9. CheckedIn(p)' => isCheckedIn'[Id(p) - 1] \in {CHECKIN, CHECKOUT}
    <2>1. StepOf(p)
      BY DEF StepOf, ThreadStep, Thread, Handler
    <2>2. RowsStay BY <2>1, MarksStay
    <2>3. CASE command[p] > CHECKIN
      BY <1>8, <2>2, <2>3, InService DEF Session, CheckedIn, RowsStay
    <2>4. CASE ~(command[p] > CHECKIN) /\ HasAnswer(p)'
      <3>1. command[p] = CHECKIN BY <1>5, <1>8, <2>4, InService DEF CHECKIN
      <3>2. isCheckedIn' = [isCheckedIn EXCEPT ![Id(p) - 1] = CHECKIN] BY <1>1, <1>5, <1>6, <2>4, <3>1
      <3> QED BY <1>8, <3>2, InService DEF Typed, ThreadInv, ThreadTyped
    <2> QED BY <1>1, <2>3, <2>4 DEF CheckedIn
  <1>10. HasAnswer(p)' => /\ (Given(p).command = command[p])'
                          /\ (Given(p).code # RSP_NOK)'
    BY <1>1, <1>5, <1>6, <1>7 DEF RSP_OK, RSP_NOK
  <1> QED BY <1>2, <1>3, <1>4, <1>6, <1>9, <1>10 DEF Session

LEMMA ReplySession ==
  ASSUME Typed, NEW p \in Process, Session(p), Reply(p), UNCHANGED clients
  PROVE  Session(p)' /\ Advances(p)
  <1>1. /\ listening /\ tpc[p] = "reply" /\ Write(p, "server", bufferResponse[p])
        /\ UNCHANGED <<buffer, bufferResponse, isCheckedIn, cpc, command, messageCount, answer, faults>>
        /\ tpc'[p] = IF CheckedOut(p) THEN "close" ELSE "read"
    BY DEF Reply, At, Goto, WriteAnswer, shared, clients, Typed, Connections, ConnInv
  <1>2. InHandler(p) BY <1>1, PhaseIs DEF Handling, TStates
  <1>3. Admitted(p) BY <1>1 DEF Admitted
  <1>4. end[p]["client"] = "open" BY <1>2, <1>3, InService DEF InHandler, InSession
  <1>5. inbox' = [inbox EXCEPT ![p]["client"] = Append(@, bufferResponse[p])]
    BY <1>1, <1>4 DEF Write, Peer
  <1>6. inbox'[p]["client"] = <<bufferResponse[p]>> /\ inbox'[p]["server"] = <<>>
    <2>1. Append(inbox[p]["client"], bufferResponse[p]) = <<bufferResponse[p]>>
      BY <1>2 DEF InHandler
    <2> QED BY <1>2, <1>5, <2>1 DEF InHandler, Typed, MessageInv, Side
  <1>7. command[p] # 0
    BY <1>2 DEF InHandler, Typed, Connections, Commands, CommandInv
  <1>8. HasAnswer(p) /\ Given(p) = bufferResponse[p]
    BY <1>1, <1>2, <1>7 DEF HasAnswer, Given, InHandler
  <1>9. HasAnswer(p)' /\ Given(p)' = bufferResponse[p]
    <2>1. Head(<<bufferResponse[p]>>) = bufferResponse[p] OBVIOUS
    <2> QED BY <1>1, <1>2, <1>6, <1>7, <2>1 DEF HasAnswer, Given, InHandler
  <1>10. CheckedOut(p) <=> command[p] = CHECKOUT
    <2>1. bufferResponse[p].command = command[p]
          /\ (bufferResponse[p].code = RSP_NOK => command[p] = CHECKIN)
      BY <1>8 DEF Session
    <2>2. bufferResponse[p].code \in {RSP_OK, RSP_NOK}
      BY DEF Typed, ThreadInv, ThreadTyped, Response
    <2> QED BY <2>1, <2>2 DEF CheckedOut, CHECKIN, CHECKOUT
  <1>11. Replied(p)'
    <2>1. bufferResponse[p] \in Response BY DEF Typed, ThreadInv, ThreadTyped
    <2> QED BY <1>1, <1>2, <1>6, <1>10, <2>1 DEF Replied, InHandler, AfterReply
  <1>12. Id(p)' = Id(p) BY DEF Id
  <1> QED BY <1>1, <1>8, <1>9, <1>11, <1>12 DEF Session, CheckedIn, Advances

LEMMA ThreadSession ==
  ASSUME Typed, NEW p \in Process, listening, Session(p), ThreadStep(p)
  PROVE  Session(p)' /\ listening' /\ (Advances(p) \/ Read(p) \/ Handler(p))
  <1>1. UNCHANGED clients BY DEF ThreadStep
  <1>2. CASE Read(p)
    BY <1>1, <1>2, ReadSession DEF Read, Take, sockets
  <1>3. CASE Handler(p)
    BY <1>1, <1>3, HandlerSession, HandlerIs DEF sockets
  <1>4. CASE Reply(p)
    BY <1>1, <1>4, ReplySession DEF Reply, WriteAnswer, Write
  <1>5. CASE Sigpipe(p)
    <2>1. tpc[p] = "reply" /\ end[p]["client"] = "closed" BY <1>5 DEF Sigpipe, At, Reset, Peer
    <2>2. InHandler(p) BY <2>1, PhaseIs DEF Handling, TStates
    <2> QED BY <2>1, <2>2, InService DEF InHandler, InSession, Admitted
  <1>6. CASE CloseSocket(p)
    <2>1. /\ tpc[p] = "close" /\ tpc'[p] = "exit"
          /\ UNCHANGED <<inbox, listening, bufferResponse, isCheckedIn, cpc, command, messageCount, answer>>
      BY <1>1, <1>6 DEF CloseSocket, At, Goto, Close, shared, clients, Typed, Connections, ConnInv
    <2>2. Replied(p) \/ Told(p) BY <2>1, PhaseIs
    <2>3. Replied(p)' \/ Told(p)' BY <2>1, <2>2 DEF Replied, Told, AfterReply
    <2>4. HasAnswer(p)' = HasAnswer(p) /\ Given(p)' = Given(p)
      BY <2>1, <2>2 DEF HasAnswer, Given, Replied, Told
    <2>5. Id(p)' = Id(p) BY DEF Id
    <2> QED BY <2>1, <2>3, <2>4, <2>5 DEF Session, CheckedIn, Advances
  <1> QED BY <1>2, <1>3, <1>4, <1>5, <1>6 DEF ThreadStep, Thread, Handler

LEMMA SendWaiting ==
  ASSUME Typed, NEW p \in Process, tpc[p] = "none", end[p]["server"] = "open", Waiting(p), Send(p)
  PROVE  Waiting(p)'
  <1> DEFINE c == NextCommand(p)
             m == [command |-> c, pid |-> Id(p),
                   data |-> IF c = UPDATE_AZLIST THEN FileWords(p, messageCount[p]) ELSE Zeros]
  <1>1. /\ cpc[p] = "send" /\ cpc' = [cpc EXCEPT ![p] = "receive"]
        /\ command' = [command EXCEPT ![p] = c] /\ faults' = faults
        /\ messageCount' = [messageCount EXCEPT ![p] = IF c = UPDATE_AZLIST THEN @ + 1 ELSE @]
        /\ Write(p, "client", m)
    BY DEF Send, CGoto
  <1>2. command[p] = 0 /\ inbox[p]["client"] = <<>> /\ inbox[p]["server"] = <<>>
    BY <1>1 DEF Waiting
  <1>3. c = CHECKIN BY <1>2 DEF NextCommand, CHECKIN, UPDATE_AZLIST
  <1>4. cpc'[p] = "receive" /\ command'[p] = CHECKIN
    BY <1>1, <1>3 DEF Typed, Connections, Commands, ForkInv, CommandInv
  <1>5. Ask(p)' = m
    BY <1>3, <1>4 DEF Ask, Id, CHECKIN, UPDATE_AZLIST
  <1> HIDE DEF m, c
  <1>6. inbox'[p]["server"] = <<m>> /\ inbox'[p]["client"] = <<>>
    <2>1. inbox' = [inbox EXCEPT ![p]["server"] = Append(@, m)] BY <1>1 DEF Write, Peer
    <2>2. Append(inbox[p]["server"], m) = <<m>> BY <1>2
    <2> QED BY <1>2, <2>1, <2>2 DEF Typed, MessageInv, Side
  <1> QED BY <1>4, <1>5, <1>6 DEF Waiting

LEMMA WaitingStays ==
  ASSUME Typed, NEW p \in Process, tpc[p] = "none", end[p]["server"] = "open", Waiting(p),
         Client(p) \/ ClientFault(p), cpc'[p] # "killed"
  PROVE  Waiting(p)'
  <1>1. cpc[p] \in {"send", "receive"} /\ inbox[p]["client"] = <<>>
        /\ (cpc[p] = "send" => command[p] = 0)
    BY DEF Waiting
  <1>2. ~(BrokenPipe(p) \/ Die(p))
    BY DEF BrokenPipe, Die, CGoto, Typed, Connections, Commands, ForkInv
  <1>3. ~(\/ Fork(p) \/ Wait(p) \/ Connects(p) \/ ConnectFails(p) \/ ForkFails(p) \/ SocketFails(p)
          \/ Leave(p))
    BY <1>1 DEF Fork, Wait, Connects, ConnectFails, ForkFails, SocketFails, Leave
  <1>4. ~Receive(p)
    BY <1>1 DEF Receive, HasMessage, EndOfAnswers, AtEOF, Peer
  <1>5. ~Garble(p) BY <1>1 DEF Garble, CHECKIN
  <1> QED BY <1>2, <1>3, <1>4, <1>5, SendWaiting DEF Client, ClientFault

\* Only connect opens a connection, and only at a server that is there.
LEMMA OpenStays ==
  ASSUME Typed, NEW p \in Process, StepOf(p), NEW q \in Process, end'[q]["server"] = "open",
         listening
  PROVE  listening' /\ (end[q]["server"] = "open" \/ (Connects(p) /\ q = p))
  <1>1. end \in [Process -> [Side -> {"none", "open", "closed"}]] /\ "server" \in Side
    BY DEF Typed, Connections, ConnInv, Side
  <1>2. CASE Connects(p)
    BY <1>1, <1>2 DEF Connects, Connect
  <1>3. CASE ServerGone
    <2>1. end' = EndsAfterClose({u \in Process : end[u]["server"] = "open"}, "server")
      BY <1>3 DEF ServerGone
    <2>2. end'[q]["server"] # "open" BY <1>1, <2>1 DEF EndsAfterClose
    <2> QED BY <2>2
  <1>4. CASE UNCHANGED <<end, listening>> BY <1>4
  <1>5. ASSUME NEW P, NEW s \in Side, end' = EndsAfterClose(P, s), listening' = listening
        PROVE  listening' /\ end[q]["server"] = "open"
    BY <1>1, <1>5 DEF EndsAfterClose
  <1>6. CASE ThreadStep(p)
    BY <1>3, <1>4, <1>5, <1>6 DEF ThreadStep, Thread, Read, Checkin, Copy, Own, Sum, LoadRow, StoreRow, LoadAz,
       StoreAz, Checkout, Handle, Reply, Sigpipe, CloseSocket, WriteAnswer, Write, Take, Close, sockets, Side
  <1>7. CASE ClientStep(p) \/ FaultStep(p)
    BY <1>2, <1>4, <1>5, <1>7 DEF ClientStep, FaultStep, Client, ClientFault, Fork, Wait, ConnectFails, Send,
       Receive, Leave, BrokenPipe, ForkFails, SocketFails, Garble, Die, Write, Take, Close, sockets, Side
  <1>8. CASE Admit(p, TRUE) \/ Admit(p, FALSE) \/ TurnAway(p)
    BY <1>4, <1>5, <1>8 DEF Admit, TurnAway, Side
  <1> QED BY <1>6, <1>7, <1>8 DEF StepOf

LEMMA OpenWaits ==
  ASSUME Typed, SessionInv, NEW p \in Process, StepOf(p), NEW q \in Process,
         end'[q]["server"] = "open", ~Admitted(q)', cpc'[q] # "killed"
  PROVE  Waiting(q)'
  <1>1. CASE Connects(p) /\ q = p
    <2>1. /\ cpc[p] = "connect" /\ cpc'[p] = "send" /\ inbox' = inbox /\ command' = command
          /\ p \in Process
      BY <1>1 DEF Connects, CGoto, Connect, Typed, Connections, Commands, ForkInv
    <2>2. command[p] = 0 /\ inbox[p]["client"] = <<>> /\ inbox[p]["server"] = <<>>
      BY <2>1 DEF Typed, Connections, Commands, CommandInv, MessageInv, BeforeSession
    <2> QED BY <1>1, <2>1, <2>2 DEF Waiting
  <1>2. CASE ~(Connects(p) /\ q = p)
    <2>1. listening
      <3>1. CASE ~listening
        <4>1. ~Connects(p) BY <3>1 DEF Connects, Connect
        <4>2. end[q]["server"] # "open" BY <3>1 DEF SessionInv
        <4>3. end'[q]["server"] # "open" BY <3>1, <4>1, <4>2, ClosedStays
        <4> QED BY <4>3
      <3> QED BY <3>1
    <2>2. end[q]["server"] = "open" BY <1>2, <2>1, OpenStays
    <2>3. ~Admitted(q) /\ tpc[q] = "none" BY StaysAdmitted DEF Admitted
    <2>4. cpc[q] \notin BeforeSession
      BY <2>2 DEF Typed, Connections, ConnInv
    <2>5. cpc[q] # "killed" BY StaysKilled
    <2>6. Waiting(q) BY <2>2, <2>3, <2>5 DEF SessionInv
    <2>7. CASE q # p
      <3>1. Same(q) BY <2>4, <2>7, OthersSame DEF BeforeSession
      <3> QED BY <2>6, <3>1, SameWaiting
    <2>8. CASE q = p /\ (ClientStep(p) \/ FaultStep(p))
      BY <2>2, <2>3, <2>6, <2>8, WaitingStays DEF ClientStep, FaultStep
    <2>9. CASE q = p /\ ThreadStep(p)
      BY <2>3, <2>9 DEF ThreadStep, Thread, Read, Checkin, Copy, Own, Sum, LoadRow, StoreRow, LoadAz,
             StoreAz, Checkout, Handle, Reply, Sigpipe, CloseSocket, At
    <2>10. CASE q = p /\ (Admit(p, TRUE) \/ TurnAway(p))
      <3>1. CASE Admit(p, TRUE)
        BY <2>10, <3>1 DEF Admit, Admitted, Typed, Connections, ConnInv
      <3>2. CASE TurnAway(p)
        BY <2>10, <3>2 DEF TurnAway, EndsAfterClose, Typed, Connections, ConnInv, Side
      <3> QED BY <2>10, <3>1, <3>2
    <2>11. CASE q = p /\ Admit(p, FALSE) /\ Fault("create", p) /\ UNCHANGED <<cpc, k, command, messageCount, answer>>
      <3>1. UNCHANGED <<cpc, command, messageCount, inbox>> BY <2>11 DEF Admit
      <3>2. command[p] # UPDATE_AZLIST BY <2>6, <2>11 DEF Waiting, CHECKIN, UPDATE_AZLIST
      <3>3. Ask(p)' = Ask(p) BY <3>1, <3>2 DEF Ask, Id
      <3> QED BY <2>6, <2>11, <3>1, <3>3 DEF Waiting
    <2> QED BY <2>7, <2>8, <2>9, <2>10, <2>11 DEF StepOf
  <1> QED BY <1>1, <1>2

LEMMA SessionInit == Init => SessionInv
  BY DEF Init, SocketsInit, ServerInit, SessionInv, Live, Admitted, Side

LEMMA AdmitSession ==
  ASSUME Typed, NEW p \in Process, Waiting(p), Admit(p, TRUE), UNCHANGED clients
  PROVE  Session(p)' /\ cpc[p] # "killed" /\ ~CheckedIn(p)' /\ ~HasAnswer(p)'
  <1>1. /\ UNCHANGED <<cpc, command, messageCount, answer, faults, inbox>>
        /\ tpc'[p] = "read"
    BY DEF Admit, clients, Typed, Connections, ConnInv
  <1>2. Ask(p)' = Ask(p) BY <1>1 DEF Ask, FileWords, FileOf, Id, Mappers
  <1>3. Told(p)' \/ Asked(p)'
    BY <1>1, <1>2 DEF Waiting, Told, Asked, AfterReply, CHECKOUT
  <1>4. ~CheckedIn(p)' /\ ~HasAnswer(p)'
    BY <1>1 DEF CheckedIn, HasAnswer, Waiting, CHECKIN
  <1>5. cpc[p] # "killed" BY DEF Waiting
  <1> QED BY <1>3, <1>4, <1>5 DEF Session

\* A step the server survives.
LEMMA LiveStep ==
  ASSUME Typed, SessionInv, NEW p \in Process, StepOf(p), listening'
  PROVE  /\ listening
         /\ \A q \in Process : Live(q)' => Session(q)'
         /\ \A q \in Process : Live(q)' => cpc[q] # "killed" /\ (Admitted(q) => Session(q))
         /\ \A q \in Process \ {p} : Admitted(q)' => Admitted(q) /\ Same(q)
         /\ Live(p)' /\ Admitted(p) => Advances(p) \/ (UNCHANGED clients /\ (Read(p) \/ Handler(p)))
         /\ Admit(p, TRUE) /\ cpc'[p] # "killed" => Waiting(p)
  <1>1. listening /\ RowsStay /\ \A q \in Process : Live(q) => Session(q)
    <2>1. listening
      <3>1. CASE ~listening
        <4>1. end[p]["server"] # "open" BY <3>1 DEF SessionInv
        <4> QED BY <3>1, <4>1, ClosedStays
      <3> QED BY <3>1
    <2> QED BY <2>1, MarksStay DEF SessionInv
  <1>2. ASSUME NEW q \in Process, Live(q)'
        PROVE  cpc[q] # "killed" /\ (Admitted(q) => Live(q) /\ Session(q))
    <2>1. cpc[q] # "killed" BY <1>2, StaysKilled DEF Live
    <2> QED BY <1>1, <2>1 DEF Live
  <1>3. ASSUME NEW q \in Process \ {p}, Admitted(q)'
        PROVE  Admitted(q) /\ Same(q) /\ (Live(q)' => Session(q)')
    <2>1. tpc'[q] = tpc[q]
      <3>1. CASE ThreadStep(p) BY <1>3, <3>1, ThreadLeavesOthers DEF SameThread
      <3>2. CASE ~ThreadStep(p)
        <4>1. tpc' = tpc \/ tpc' = [tpc EXCEPT ![p] = "read"]
          BY <3>2 DEF StepOf, ClientStep, FaultStep, server, Admit, TurnAway
        <4> QED BY <1>3, <4>1 DEF Typed, Connections, ConnInv
      <3> QED BY <3>1, <3>2
    <2>2. Admitted(q) BY <1>3, <2>1 DEF Admitted
    <2>3. cpc[q] # "unborn" /\ Id(q) - 1 \in Row BY <2>2, InService DEF BeforeSession
    <2>4. Same(q) BY <1>3, <2>3, OthersSame
    <2> QED BY <1>1, <1>2, <2>2, <2>3, <2>4, SameSession
  <1>4. Admit(p, TRUE) /\ cpc'[p] # "killed" => Waiting(p)
    <2> SUFFICES ASSUME Admit(p, TRUE), cpc'[p] # "killed"  PROVE Waiting(p) OBVIOUS
    <2>1. \E n \in DOMAIN backlog : backlog[n] = p
      <3>1. Accepts(p) BY DEF Admit
      <3> QED BY <3>1, AcceptTakesFirst DEF Typed, Connections, ConnInv
    <2>2. end[p]["server"] = "open" /\ ~Admitted(p)
      BY <2>1 DEF Typed, Connections, ConnInv, Admitted
    <2> QED BY <2>2, StaysKilled DEF SessionInv
  <1>5. Live(p)' => /\ Session(p)'
                    /\ Admitted(p) => Advances(p) \/ (UNCHANGED clients /\ (Read(p) \/ Handler(p)))
    <2> SUFFICES ASSUME Live(p)'
                 PROVE  /\ Session(p)'
                        /\ Admitted(p) => Advances(p) \/ (UNCHANGED clients /\ (Read(p) \/ Handler(p)))
      OBVIOUS
    <2>1. CASE ThreadStep(p)
      <3>1. Admitted(p)
        BY <2>1 DEF ThreadStep, Thread, Read, Checkin, Copy, Own, Sum, LoadRow, StoreRow, LoadAz,
             StoreAz, Checkout, Handle, Reply, Sigpipe, CloseSocket, At, Admitted
      <3>2. Session(p) BY <1>2, <3>1
      <3> QED BY <1>1, <2>1, <3>2, ThreadSession DEF ThreadStep
    <2>2. CASE ClientStep(p) \/ FaultStep(p)
      <3>1. UNCHANGED server /\ (Client(p) \/ ClientFault(p)) BY <2>2 DEF ClientStep, FaultStep
      <3>2. Admitted(p) BY <3>1 DEF Live, Admitted, server
      <3>3. cpc'[p] # "killed" BY DEF Live
      <3>4. Session(p) BY <1>2, <3>2
      <3> QED BY <1>1, <3>1, <3>2, <3>3, <3>4, ClientSession
    <2>3. CASE Admit(p, TRUE) /\ UNCHANGED clients
      <3>1. ~Admitted(p)
        <4>1. Accepts(p) BY <2>3 DEF Admit
        <4> QED BY <4>1, AcceptTakesFirst DEF Typed, Connections, Admitted
      <3>2. Waiting(p) BY <1>4, <2>3 DEF Live
      <3> QED BY <2>3, <3>1, <3>2, AdmitSession
    <2>4. CASE TurnAway(p) \/ Admit(p, FALSE)
      <3>1. tpc' = tpc /\ tpc[p] = "none"
        <4>1. Accepts(p) BY <2>4 DEF Admit, TurnAway
        <4> QED BY <2>4, <4>1, AcceptTakesFirst DEF Admit, TurnAway, Typed, Connections
      <3> QED BY <3>1 DEF Live, Admitted
    <2> QED BY <2>1, <2>2, <2>3, <2>4 DEF StepOf
  <1>6. ASSUME NEW q \in Process, Live(q)'  PROVE Session(q)'
    <2>1. CASE q = p BY <1>5, <1>6, <2>1
    <2>2. CASE q # p BY <1>3, <1>6, <2>2 DEF Live
    <2> QED BY <2>1, <2>2
  <1>7. \A q \in Process \ {p} : Admitted(q)' => Admitted(q) /\ Same(q) BY <1>3
  <1>8. \A q \in Process : Live(q)' => cpc[q] # "killed" /\ (Admitted(q) => Session(q)) BY <1>2
  <1>9. Live(p)' /\ Admitted(p) => Advances(p) \/ (UNCHANGED clients /\ (Read(p) \/ Handler(p)))
    BY <1>5
  <1> QED BY <1>1, <1>4, <1>6, <1>7, <1>8, <1>9

\* Only a dead client's answer ends the server.
LEMMA ServerStays ==
  ASSUME Typed, SessionInv, NEW p \in Process, StepOf(p), Undisturbed'
  PROVE  Undisturbed /\ listening /\ listening'
  <1>1. Undisturbed /\ listening BY StaysDisturbed DEF SessionInv
  <1>2. CASE ThreadStep(p)
    <2>1. Admitted(p)
      BY <1>2 DEF ThreadStep, Thread, Read, Checkin, Copy, Own, Sum, LoadRow, StoreRow, LoadAz,
             StoreAz, Checkout, Handle, Reply, Sigpipe, CloseSocket, At, Admitted
    <2>2. Session(p) BY <1>1, <2>1 DEF SessionInv, Live, Undisturbed
    <2> QED BY <1>1, <1>2, <2>2, ThreadSession
  <1>3. CASE ClientStep(p) \/ FaultStep(p)
    BY <1>1, <1>3 DEF ClientStep, FaultStep, Client, ClientFault, Fork, Wait, Connects, Connect, ConnectFails,
       Send, Receive, Leave, BrokenPipe, ForkFails, SocketFails, Garble, Die, Write, Take, Close, sockets
  <1>4. CASE Admit(p, TRUE) \/ Admit(p, FALSE) \/ TurnAway(p)
    BY <1>1, <1>4 DEF Admit, TurnAway
  <1> QED BY <1>1, <1>2, <1>3, <1>4 DEF StepOf

\* A step, while the server is there, for one client that is served and alive.
LEMMA LiveStays ==
  ASSUME Typed, SessionInv, NEW p \in Process, StepOf(p), listening',
         NEW q \in Clients', cpc'[q] # "killed"
  PROVE  /\ listening /\ q \in Process /\ cpc[q] # "killed" /\ Session(q)'
         /\ q \in Clients => Session(q)
         /\ q # p => q \in Clients /\ Same(q)
         /\ q = p /\ q \in Clients => Advances(p) \/ (UNCHANGED clients /\ (Read(p) \/ Handler(p)))
         /\ q = p /\ Admit(p, TRUE) => Waiting(p)
  <1>1. q \in Process /\ Admitted(q)' /\ Live(q)' BY DEF Clients, Live
  <1>2. q \in Clients <=> Admitted(q) BY <1>1 DEF Clients
  <1> QED BY <1>1, <1>2, LiveStep

\* A step of an undisturbed run.
LEMMA SessionsStay ==
  ASSUME Typed, SessionInv, NEW p \in Process, StepOf(p), Undisturbed'
  PROVE  /\ Undisturbed /\ listening /\ listening'
         /\ \A q \in Clients : q \in Process /\ Session(q)
         /\ \A q \in Clients' : Session(q)'
         /\ \A q \in Clients' \ {p} : q \in Clients /\ Same(q) /\ Session(q)
         /\ p \in Clients => Advances(p) \/ (UNCHANGED clients /\ (Read(p) \/ Handler(p)))
         /\ Admit(p, TRUE) => Waiting(p)
  <1>1. Undisturbed /\ listening /\ listening' BY ServerStays
  <1>2. \A q \in Clients' : q \in Process /\ Admitted(q)' /\ cpc'[q] # "killed" /\ Live(q)'
    BY DEF Clients, Undisturbed, Live
  <1>3. \A q \in Clients : q \in Process /\ Admitted(q) /\ Live(q) /\ Session(q) /\ q \in Clients'
    BY <1>1, StaysAdmitted DEF SessionInv, Clients, Undisturbed, Live
  <1>4. ASSUME Admit(p, TRUE)  PROVE Waiting(p)
    <2>1. tpc'[p] # "none" BY <1>4 DEF Admit, Typed, Connections, ConnInv
    <2>2. cpc'[p] # "killed" BY <2>1 DEF Undisturbed, Admitted
    <2> QED BY <1>1, <1>4, <2>2, LiveStep
  <1>5. \A q \in Clients' \ {p} : q \in Clients /\ Same(q) /\ Session(q)
    BY <1>1, <1>2, <1>3, LiveStep DEF Clients
  <1>6. \A q \in Clients' : Session(q)' BY <1>1, <1>2, LiveStep
  <1>7. p \in Clients => Advances(p) \/ (UNCHANGED clients /\ (Read(p) \/ Handler(p)))
    BY <1>1, <1>2, <1>3, LiveStep
  <1> QED BY <1>1, <1>3, <1>4, <1>5, <1>6, <1>7

LEMMA UndisturbedLive ==
  ASSUME Typed, SessionInv, NEW p \in Process, StepOf(p), Undisturbed'
  PROVE  listening' /\ \A q \in Clients' : cpc'[q] # "killed"
  BY ServerStays DEF Undisturbed, Clients

LEMMA SessionStep == Typed /\ SessionInv /\ [Next]_vars => SessionInv'
  <1> SUFFICES ASSUME Typed, SessionInv, [Next]_vars  PROVE SessionInv' OBVIOUS
  <1>1. CASE UNCHANGED vars
    <2>1. UNCHANGED <<end, inbox, listening, tpc, isCheckedIn, buffer, bufferResponse,
                      cpc, command, messageCount, answer, faults>>
      BY <1>1 DEF vars, sockets, server, shared, clients
    <2>2. \A q : Session(q)' = Session(q) /\ Waiting(q)' = Waiting(q) /\ Admitted(q)' = Admitted(q)
      BY <2>1 DEF Session, Waiting, Asked, InHandler, Replied, Told, AfterReply, Ask, FileWords,
                  FileOf, Id, Mappers, HasAnswer, Given, CheckedIn, Admitted
    <2> QED BY <2>1, <2>2 DEF SessionInv, Undisturbed, Live
  <1>2. ASSUME NEW p \in Process, StepOf(p)  PROVE SessionInv'
    <2>1. ASSUME NEW q \in Process, end'[q]["server"] = "open"
          PROVE  listening' /\ (~Admitted(q)' /\ cpc'[q] # "killed" => Waiting(q)')
      <3>1. listening
        <4>1. CASE ~listening
          <5>1. end[q]["server"] # "open" BY <4>1 DEF SessionInv
          <5> QED BY <1>2, <2>1, <4>1, <5>1, ClosedStays
        <4> QED BY <4>1
      <3> QED BY <1>2, <2>1, <3>1, OpenStays, OpenWaits
    <2>2. Undisturbed' => listening' BY <1>2, ServerStays
    <2>3. listening' => \A q \in Process : Live(q)' => Session(q)'
      BY <1>2, LiveStep
    <2> QED BY <2>1, <2>2, <2>3 DEF SessionInv
  <1> QED BY <1>1, <1>2, StepIsOfOne

(***************************************************************************)
(* What follows from the order of the sessions.                            *)
(***************************************************************************)
Served == Typed /\ TurnInv /\ SessionInv

LEMMA SpecServed == Spec => []Served
  <1>1. Init => SessionInv BY SessionInit
  <1>2. SessionInv /\ Typed /\ [Next]_vars => SessionInv' BY SessionStep
  <1> QED BY <1>1, <1>2, SpecTyped, PTL DEF Spec, Served

(***************************************************************************)
(* As long as no client dies in its session, nothing ends the server: its  *)
(* answers are never written to a closed connection.                       *)
(***************************************************************************)
THEOREM ServerOutlives == Spec => []ServerOutlivesSessions
  <1>1. Served => ServerOutlivesSessions
    BY DEF Served, SessionInv, ServerOutlivesSessions
  <1> QED BY <1>1, SpecServed, PTL

LEMMA AnsweredHas ==
  ASSUME Served, NEW p \in Process, NEW c \in Command \ {0}, Answered(p, c)
  PROVE  /\ Undisturbed /\ p \in Clients /\ Session(p) /\ command[p] = c
         /\ HasAnswer(p) /\ Given(p) = answer[p]
  BY DEF Served, SessionInv, Answered, HasRead, Undisturbed, Live, Clients, HasAnswer, Given

(***************************************************************************)
(* Nothing sent, held or answered is ahead of what its client asked last.  *)
(***************************************************************************)
UpTo(messages, c) == \A n \in DOMAIN messages : messages[n].command <= c

Behind(p) ==
  /\ answer[p].command <= command[p] /\ buffer[p].command <= command[p]
  /\ bufferResponse[p].command <= command[p]
  /\ \A s \in Side : UpTo(inbox[p][s], command[p])
PastInv == \A p \in Process : Behind(p)

LEMMA UpToMore ==
  ASSUME NEW S, NEW s \in Seq(S), NEW m, NEW c, UpTo(s, c), m.command <= c
  PROVE  UpTo(Append(s, m), c)
  <1> DEFINE T == S \cup {m}
  <1>1. s \in Seq(T) /\ m \in T OBVIOUS
  <1> HIDE DEF T
  <1> QED BY <1>1 DEF UpTo

LEMMA UpToLater ==
  ASSUME NEW s \in Seq(Request \cup Response), NEW c \in 0 .. 6, NEW d \in 0 .. 6, c <= d,
         UpTo(s, c)
  PROVE  UpTo(s, d)
  <1> SUFFICES ASSUME NEW n \in DOMAIN s  PROVE s[n].command <= d BY DEF UpTo
  <1>1. s[n] \in Request \cup Response OBVIOUS
  <1>2. s[n].command \in 0 .. 6 BY <1>1 DEF Request, Response, Command, CHECKOUT
  <1>3. s[n].command <= c BY DEF UpTo
  <1> QED BY <1>2, <1>3

LEMMA UpToLess ==
  ASSUME NEW S, NEW s \in Seq(S), NEW c, UpTo(s, c), s # <<>>
  PROVE  UpTo(Tail(s), c) /\ Head(s).command <= c
  BY DEF UpTo

LEMMA PastTypes ==
  ASSUME Typed, NEW p \in Process
  PROVE  /\ command[p] \in 0 .. 6 /\ answer[p].command \in 0 .. 6
         /\ buffer[p].command \in 0 .. 6 /\ bufferResponse[p].command \in 0 .. 6
         /\ \A s \in Side : inbox[p][s] \in Seq(Request \cup Response)
  <1>1. command[p] \in 0 .. 6
    BY DEF Typed, Connections, Commands, CommandInv, Command, CHECKOUT
  <1>2. answer[p] \in Response BY DEF Typed, MessageInv
  <1>3. bufferResponse[p] \in Response BY DEF Typed, ThreadInv, ThreadTyped
  <1>4. buffer[p] \in Request
    <2>1. buffer[p] \in RealRequest \cup {NoRequest} BY DEF Typed, ThreadInv, ThreadTyped
    <2> QED BY <2>1, Protocols DEF RealRequest
  <1>5. \A s \in Side : inbox[p][s] \in Seq(Request \cup Response) BY DEF Typed, MessageInv
  <1> QED BY <1>1, <1>2, <1>3, <1>4, <1>5 DEF Request, Response, Command, CHECKOUT

LEMMA PastShapes ==
  ASSUME Typed
  PROVE  /\ command \in [Process -> Command] /\ answer \in [Process -> Response]
         /\ buffer \in [Process -> RealRequest \cup {NoRequest}]
         /\ bufferResponse \in [Process -> Response]
         /\ inbox \in [Process -> [Side -> Seq(Request \cup Response)]]
  BY DEF Typed, Connections, Commands, CommandInv, MessageInv, ThreadInv, ThreadTyped

\* A client's own step.
LEMMA ClientPast ==
  ASSUME Typed, NEW p \in Process, Client(p) \/ ClientFault(p), UNCHANGED server, Behind(p)
  PROVE  Behind(p)'
  <1>0. /\ command[p] \in 0 .. 6 /\ \A s \in Side : inbox[p][s] \in Seq(Request \cup Response)
        /\ command \in [Process -> Command] /\ answer \in [Process -> Response]
        /\ inbox \in [Process -> [Side -> Seq(Request \cup Response)]]
    BY PastTypes, PastShapes
  <1>1. CASE Send(p)
    <2> DEFINE c == NextCommand(p)
               m == [command |-> c, pid |-> Id(p),
                     data |-> IF c = UPDATE_AZLIST THEN FileWords(p, messageCount[p]) ELSE Zeros]
    <2>1. /\ command' = [command EXCEPT ![p] = c] /\ answer' = answer
          /\ UNCHANGED <<buffer, bufferResponse>> /\ Write(p, "client", m)
      BY <1>1 DEF Send, server
    <2>2. c \in 0 .. 6 /\ command[p] <= c /\ m.command = c
      <3>1. command[p] \in 0 .. 5
        BY <1>0, <1>1 DEF Send, Typed, Connections, Commands, CommandInv, CHECKOUT
      <3> QED BY <3>1 DEF NextCommand, CHECKIN, UPDATE_AZLIST, GET_AZLIST
    <2>3. command'[p] = c BY <1>0, <2>1
    <2> HIDE DEF c, m
    <2>4. ASSUME NEW s \in Side  PROVE UpTo(inbox'[p][s], c)
      <3>1. UpTo(inbox[p][s], c) BY <1>0, <2>2, UpToLater DEF Behind
      <3>2. inbox'[p][s] = inbox[p][s] \/ inbox'[p][s] = Append(inbox[p][s], m)
        BY <1>0, <2>1 DEF Write, Peer, Side
      <3>3. m.command <= c BY <2>2
      <3>4. UpTo(Append(inbox[p][s], m), c) BY <1>0, <3>1, <3>3, UpToMore
      <3> QED BY <3>1, <3>2, <3>4
    <2>5. /\ answer[p].command <= c /\ buffer[p].command <= c /\ bufferResponse[p].command <= c
      <3>1. /\ answer[p].command \in 0 .. 6 /\ buffer[p].command \in 0 .. 6
            /\ bufferResponse[p].command \in 0 .. 6
        BY PastTypes
      <3>2. /\ answer[p].command <= command[p] /\ buffer[p].command <= command[p]
            /\ bufferResponse[p].command <= command[p]
        BY DEF Behind
      <3> QED BY <1>0, <2>2, <3>1, <3>2
    <2>6. answer'[p] = answer[p] /\ buffer'[p] = buffer[p] /\ bufferResponse'[p] = bufferResponse[p]
      BY <2>1
    <2> QED BY <2>3, <2>4, <2>5, <2>6 DEF Behind
  <1>2. CASE Receive(p)
    <2>1. UNCHANGED <<command, buffer, bufferResponse>> BY <1>2 DEF Receive, server
    <2>2. CASE UNCHANGED <<inbox, answer>> BY <2>1, <2>2 DEF Behind
    <2>3. CASE ~UNCHANGED <<inbox, answer>>
      <3>1. /\ inbox[p]["client"] # <<>> /\ inbox' = [inbox EXCEPT ![p]["client"] = Tail(@)]
            /\ answer' = [answer EXCEPT ![p] = Head(inbox[p]["client"])]
        BY <1>2, <2>3 DEF Receive, HasMessage, Take, sockets
      <3>2. "client" \in Side /\ UpTo(inbox[p]["client"], command[p]) BY DEF Behind, Side
      <3>3. /\ UpTo(Tail(inbox[p]["client"]), command[p])
            /\ Head(inbox[p]["client"]).command <= command[p]
        BY <1>0, <3>1, <3>2, UpToLess
      <3>4. \A s \in Side : inbox'[p][s] = IF s = "client" THEN Tail(inbox[p]["client"]) ELSE inbox[p][s]
        BY <1>0, <3>1, <3>2
      <3>5. \A s \in Side : UpTo(inbox'[p][s], command[p]) BY <3>3, <3>4 DEF Behind
      <3>6. answer'[p].command <= command[p] BY <1>0, <3>1, <3>3
      <3> QED BY <2>1, <3>5, <3>6 DEF Behind
    <2> QED BY <2>2, <2>3
  <1>3. CASE ~Send(p) /\ ~Receive(p)
    <2>1. UNCHANGED <<command, answer, buffer, bufferResponse, inbox>>
      BY <1>3 DEF Client, ClientFault, Fork, Wait, Connects, Connect, ConnectFails,
                  Leave, BrokenPipe, ForkFails, SocketFails, Garble, Die, Close, sockets, server
    <2> QED BY <2>1 DEF Behind
  <1> QED BY <1>1, <1>2, <1>3

LEMMA ThreadPast ==
  ASSUME Typed, NEW p \in Process, ThreadStep(p), Behind(p)
  PROVE  Behind(p)'
  <1>0. /\ command[p] \in 0 .. 6 /\ \A s \in Side : inbox[p][s] \in Seq(Request \cup Response)
        /\ buffer \in [Process -> RealRequest \cup {NoRequest}]
        /\ bufferResponse \in [Process -> Response]
        /\ inbox \in [Process -> [Side -> Seq(Request \cup Response)]]
    BY PastTypes, PastShapes
  <1>1. UNCHANGED <<command, answer>> BY DEF ThreadStep, clients
  <1>2. CASE Read(p)
    <2> DEFINE r == LastRequest(p)
    <2>1. /\ buffer' = [buffer EXCEPT ![p] = r]
          /\ \/ UNCHANGED inbox
             \/ inbox[p]["server"] # <<>> /\ inbox' = [inbox EXCEPT ![p]["server"] = Tail(@)]
          /\ \/ UNCHANGED bufferResponse
             \/ bufferResponse' = [bufferResponse EXCEPT ![p] = Answer(r, RSP_NOK, Scalar(p, r.pid))]
      BY <1>2 DEF Read, Take, HasMessage, sockets
    <2>2. "server" \in Side /\ UpTo(inbox[p]["server"], command[p]) BY DEF Behind, Side
    <2>3. inbox[p]["server"] # <<>> => /\ UpTo(Tail(inbox[p]["server"]), command[p])
                                       /\ Head(inbox[p]["server"]).command <= command[p]
      BY <1>0, <2>2, UpToLess
    <2>4. r.command <= command[p] BY <2>3 DEF LastRequest, HasMessage, Behind
    <2> HIDE DEF r
    <2>5. buffer'[p].command <= command[p] BY <1>0, <2>1, <2>4
    <2>6. bufferResponse'[p].command <= command[p]
      <3>1. CASE UNCHANGED bufferResponse BY <3>1 DEF Behind
      <3>2. CASE bufferResponse' = [bufferResponse EXCEPT ![p] = Answer(r, RSP_NOK, Scalar(p, r.pid))]
        <4>1. bufferResponse'[p].command = r.command BY <1>0, <3>2 DEF Answer
        <4> QED BY <2>4, <4>1
      <3> QED BY <2>1, <3>1, <3>2
    <2>7. ASSUME NEW s \in Side  PROVE UpTo(inbox'[p][s], command[p])
      <3>1. CASE UNCHANGED inbox BY <3>1 DEF Behind
      <3>2. CASE ~UNCHANGED inbox
        <4>1. inbox' = [inbox EXCEPT ![p]["server"] = Tail(@)] BY <2>1, <3>2
        <4>2. inbox'[p] = [inbox[p] EXCEPT !["server"] = Tail(@)] BY <1>0, <4>1
        <4>3. inbox'[p][s] = IF s = "server" THEN Tail(inbox[p]["server"]) ELSE inbox[p][s]
          BY <1>0, <4>2
        <4> QED BY <2>1, <2>3, <3>2, <4>3 DEF Behind
      <3> QED BY <3>1, <3>2
    <2> QED BY <1>1, <2>5, <2>6, <2>7 DEF Behind
  <1>3. CASE Handler(p)
    <2>1. UNCHANGED <<inbox, buffer>> BY <1>3, HandlerIs DEF sockets
    <2>2. bufferResponse'[p].command \in {bufferResponse[p].command, buffer[p].command}
      <3>1. bufferResponse' = bufferResponse \/ \E c, d : Fill(p, c, d)
        <4>1. CASE Copy(p) \/ Sum(p) BY <4>1 DEF Copy, Sum
        <4>2. CASE Checkin(p) \/ Own(p) \/ Checkout(p) BY <4>2 DEF Checkin, Own, Checkout
        <4>3. CASE StoreAz(p) BY <4>3 DEF StoreAz
        <4>4. CASE LoadRow(p) \/ StoreRow(p) \/ LoadAz(p) BY <4>4 DEF LoadRow, StoreRow, LoadAz
        <4> QED BY <1>3, <4>1, <4>2, <4>3, <4>4 DEF Handler
      <3>2. ASSUME NEW c, NEW d, Fill(p, c, d)  PROVE bufferResponse'[p].command = buffer[p].command
        BY <1>0, <3>2 DEF Fill, Answer
      <3> QED BY <3>1, <3>2
    <2>3. buffer'[p].command <= command[p] /\ bufferResponse'[p].command <= command[p]
      BY <2>1, <2>2 DEF Behind
    <2> QED BY <1>1, <2>1, <2>3 DEF Behind
  <1>4. CASE Reply(p)
    <2>1. /\ UNCHANGED <<buffer, bufferResponse>>
          /\ \/ UNCHANGED inbox
             \/ inbox' = [inbox EXCEPT ![p]["client"] = Append(@, bufferResponse[p])]
      BY <1>4 DEF Reply, WriteAnswer, Write, Peer
    <2>2. ASSUME NEW s \in Side  PROVE UpTo(inbox'[p][s], command[p])
      <3>1. inbox'[p][s] = inbox[p][s] \/ inbox'[p][s] = Append(inbox[p][s], bufferResponse[p])
        BY <1>0, <2>1
      <3>2. UpTo(inbox[p][s], command[p]) /\ bufferResponse[p].command <= command[p] BY DEF Behind
      <3>3. UpTo(Append(inbox[p][s], bufferResponse[p]), command[p]) BY <1>0, <3>2, UpToMore
      <3> QED BY <3>1, <3>2, <3>3
    <2> QED BY <1>1, <2>1, <2>2 DEF Behind
  <1>5. CASE Sigpipe(p) \/ CloseSocket(p)
    <2>1. UNCHANGED <<inbox, buffer, bufferResponse>>
      BY <1>5 DEF Sigpipe, CloseSocket, ServerGone, Close
    <2> QED BY <1>1, <2>1 DEF Behind
  <1> QED BY <1>2, <1>3, <1>4, <1>5 DEF ThreadStep, Thread, Handler

LEMMA UnbornPast ==
  ASSUME Typed, NEW p \in Process, StepOf(p), NEW q \in Process, q # p, cpc[q] = "unborn"
  PROVE  UNCHANGED <<command[q], answer[q], buffer[q], bufferResponse[q], inbox[q]>>
  <1>0. /\ command \in [Process -> Command] /\ answer \in [Process -> Response]
        /\ buffer \in [Process -> RealRequest \cup {NoRequest}]
        /\ bufferResponse \in [Process -> Response]
        /\ inbox \in [Process -> [Side -> Seq(Request \cup Response)]]
    BY PastShapes
  <1>1. UNCHANGED <<command[q], answer[q]>>
    <2>1. CASE ClientStep(p) \/ FaultStep(p)
      BY <1>0, <2>1 DEF ClientStep, FaultStep, Client, ClientFault, Fork, Wait, Connects,
                        ConnectFails, Send, Receive, Leave, BrokenPipe, ForkFails, SocketFails,
                        Garble, Die
    <2>2. CASE ~ClientStep(p) /\ ~FaultStep(p)
      BY <2>2 DEF StepOf, ThreadStep, clients
    <2> QED BY <2>1, <2>2
  <1>2. UNCHANGED <<buffer[q], bufferResponse[q]>>
    <2>1. CASE ThreadStep(p) BY <2>1, ThreadLeavesOthers DEF SameThread
    <2>2. CASE ~ThreadStep(p)
      BY <2>2 DEF StepOf, Admit, TurnAway, ClientStep, FaultStep, server
    <2> QED BY <2>1, <2>2
  <1>3. inbox'[q] = inbox[q]
    <2>1. CASE ThreadStep(p)
      BY <2>1 DEF ThreadStep, Thread, Read, Checkin, Copy, Own, Sum, LoadRow, StoreRow, LoadAz,
         StoreAz, Checkout, Handle, Reply, Sigpipe, CloseSocket, WriteAnswer, Write, Take,
         ServerGone, Close, sockets, Typed, MessageInv
    <2>2. CASE ClientStep(p) \/ FaultStep(p)
      BY <1>0, <2>2 DEF ClientStep, FaultStep, Client, ClientFault, Fork, Wait, Connects,
                        ConnectFails, Send, Receive, Leave, BrokenPipe, ForkFails, SocketFails,
                        Garble, Die, Connect, Write, Take, Close, sockets
    <2>3. CASE ~ThreadStep(p) /\ ~ClientStep(p) /\ ~FaultStep(p)
      BY <2>3 DEF StepOf, Admit, TurnAway
    <2> QED BY <2>1, <2>2, <2>3
  <1> QED BY <1>1, <1>2, <1>3

LEMMA PastStep == Typed /\ PastInv /\ [Next]_vars => PastInv'
  <1> SUFFICES ASSUME Typed, PastInv, [Next]_vars, NEW q \in Process  PROVE Behind(q)'
    BY DEF PastInv
  <1>1. Behind(q) BY DEF PastInv
  <1>2. CASE UNCHANGED vars
    BY <1>1, <1>2 DEF vars, sockets, server, clients, Behind
  <1>3. ASSUME NEW p \in Process, StepOf(p)  PROVE Behind(q)'
    <2>1. CASE q # p
      <3>1. UNCHANGED <<command[q], answer[q], buffer[q], bufferResponse[q], inbox[q]>>
        BY <1>3, <2>1, UnbornPast, OthersSame DEF Same, SameClient, SameThread
      <3> QED BY <1>1, <3>1 DEF Behind
    <2>2. CASE q = p /\ ThreadStep(p) BY <1>1, <2>2, ThreadPast
    <2>3. CASE q = p /\ (ClientStep(p) \/ FaultStep(p))
      BY <1>1, <2>3, ClientPast DEF ClientStep, FaultStep
    <2>4. CASE q = p /\ ~ThreadStep(p) /\ ~ClientStep(p) /\ ~FaultStep(p)
      <3>1. UNCHANGED <<command, answer, buffer, bufferResponse, inbox>>
        BY <1>3, <2>4 DEF StepOf, Admit, TurnAway, clients
      <3> QED BY <1>1, <2>4, <3>1 DEF Behind
    <2> QED BY <1>3, <2>1, <2>2, <2>3, <2>4
  <1> QED BY <1>2, <1>3, StepIsOfOne

LEMMA PastInit == Init => PastInv
  <1> SUFFICES ASSUME Init, NEW p \in Process  PROVE Behind(p) BY DEF PastInv
  <1>1. command[p] = 0 /\ answer[p].command = 0 BY DEF Init, ClientsInit, NoResponse
  <1>2. buffer[p].command = 0 /\ bufferResponse[p].command = 0
    BY DEF Init, ServerInit, NoRequest, NoResponse
  <1>3. \A s \in Side : inbox[p][s] = <<>> BY DEF Init, SocketsInit
  <1> QED BY <1>1, <1>2, <1>3 DEF Behind, UpTo

(***************************************************************************)
(* Although neither side looks at what read and write return, and whoever  *)
(* dies, requests and answers alternate on the connection of a client that *)
(* is served: the answer it holds is the one to the request it sent last.  *)
(* Any other client that holds an older answer has been closed on.         *)
(***************************************************************************)
THEOREM AnswersBelong == Spec => []AnswersMatch
  <1>1. Served /\ PastInv => AnswersMatch
    <2> SUFFICES ASSUME Served, PastInv, NEW p \in Process, NEW c \in Command \ {0},
                        HasRead(p, c), answer[p].command # c
                 PROVE  /\ answer[p].command < c /\ end[p]["server"] = "closed"
                        /\ ~(listening /\ Admitted(p))
      BY DEF AnswersMatch
    <2>1. Typed /\ SessionInv BY DEF Served
    <2>2. command[p] = c /\ cpc[p] \in {"send", "close"} /\ (cpc[p] = "close" => c = CHECKOUT)
      BY DEF HasRead
    <2>3. answer[p].command < c
      <3>1. answer[p].command \in 0 .. 6 /\ command[p] \in 0 .. 6 BY <2>1, PastTypes
      <3>2. answer[p].command <= command[p] BY DEF PastInv, Behind
      <3> QED BY <2>2, <3>1, <3>2
    <2>4. ~(listening /\ Admitted(p))
      <3> SUFFICES ASSUME listening, Admitted(p)  PROVE FALSE OBVIOUS
      <3>1. Session(p) BY <2>1, <2>2 DEF SessionInv, Live
      <3>2. HasAnswer(p) /\ Given(p) = answer[p] BY <2>2 DEF HasAnswer, Given
      <3> QED BY <2>2, <3>1, <3>2 DEF Session
    <2>5. end[p]["server"] = "closed"
      <3>1. end[p]["server"] # "none" /\ end[p]["server"] \in {"none", "open", "closed"}
        BY <2>1, <2>2 DEF Typed, Connections, ConnInv, InSession, Side
      <3>2. CASE end[p]["server"] = "open"
        <4>1. listening /\ ~Admitted(p) BY <2>1, <2>4, <3>2 DEF SessionInv
        <4>2. Waiting(p) BY <2>1, <2>2, <3>2, <4>1 DEF SessionInv
        <4> QED BY <2>2, <4>2 DEF Waiting
      <3> QED BY <3>1, <3>2
    <2> QED BY <2>3, <2>4, <2>5
  <1>2. Served /\ PastInv /\ [Next]_vars => PastInv' BY PastStep DEF Served
  <1> QED BY <1>1, <1>2, PastInit, SpecServed, PTL DEF Spec

LEMMA SameAdvances ==
  ASSUME NEW q \in Process, Same(q)
  PROVE  Advances(q)
  BY DEF Advances, HasAnswer, Given, CheckedIn, Same, SameClient, SameThread

\* How the clients get on in a step of an undisturbed run.
LEMMA NewClient ==
  ASSUME Typed, SessionInv, NEW p \in Process, StepOf(p), listening', p \in Clients', p \notin Clients,
         cpc'[p] # "killed"
  PROVE  Admit(p, TRUE) /\ UNCHANGED clients /\ Waiting(p) /\ tpc[p] = "none"
  <1>1. tpc[p] = "none" /\ tpc'[p] # "none" BY DEF Clients, Admitted
  <1>2. ~ThreadStep(p)
    BY <1>1 DEF ThreadStep, Thread, Read, Checkin, Copy, Own, Sum, LoadRow, StoreRow, LoadAz,
           StoreAz, Checkout, Handle, Reply, Sigpipe, CloseSocket, At
  <1>3. ~(ClientStep(p) \/ FaultStep(p)) BY <1>1 DEF ClientStep, FaultStep, server
  <1>4. ~TurnAway(p) /\ ~Admit(p, FALSE) BY <1>1 DEF TurnAway, Admit
  <1>5. Admit(p, TRUE) /\ UNCHANGED clients BY <1>2, <1>3, <1>4 DEF StepOf
  <1> QED BY <1>1, <1>5, LiveStays

LEMMA ClientsGetOn ==
  ASSUME Typed, SessionInv, NEW p \in Process, StepOf(p), Undisturbed'
  PROVE  /\ \A q \in Clients : q \in Clients' /\ (CheckedIn(q) => CheckedIn(q)')
                               /\ (command[q] = CHECKOUT => command'[q] = CHECKOUT)
         /\ \A q \in Clients' :
              \/ q \in Clients /\ Advances(q)
              \/ q = p /\ q \in Clients /\ UNCHANGED clients /\ (Read(p) \/ Handler(p))
              \/ q \notin Clients /\ ~HasAnswer(q)'
  <1>1. \A q \in Clients : q \in Clients' BY StaysAdmitted DEF Clients
  <1>2. \A q \in Clients' \ {p} : q \in Clients /\ Advances(q)
    BY SessionsStay, SameAdvances DEF Clients
  <1>3. p \in Clients' =>
          \/ p \in Clients /\ Advances(p)
          \/ p \in Clients /\ UNCHANGED clients /\ (Read(p) \/ Handler(p))
          \/ p \notin Clients /\ ~HasAnswer(p)'
    <2> SUFFICES ASSUME p \in Clients', p \notin Clients  PROVE ~HasAnswer(p)'
      BY SessionsStay
    <2> QED BY NewClient, AdmitSession, UndisturbedLive
  <1>4. ASSUME UNCHANGED clients, Read(p) \/ Handler(p), p \in Clients
        PROVE  (CheckedIn(p) => CheckedIn(p)') /\ command' = command
    <2>1. UNCHANGED <<cpc, command>> BY <1>4 DEF clients
    <2>2. Session(p) /\ listening /\ p \in Process BY <1>4, SessionsStay DEF SessionInv, Clients
    <2>3. InHandler(p) \/ Asked(p) BY <1>4, <2>2, ReadSession, HandlerSession
    <2>4. tpc[p] # "reply" BY <1>4, HandlerIs DEF Read, At
    <2>5. ~HasAnswer(p) BY <2>3, <2>4 DEF HasAnswer, InHandler, Asked
    <2> QED BY <2>1, <2>5 DEF CheckedIn
  <1> QED BY <1>1, <1>2, <1>3, <1>4, SessionsStay DEF Advances

(***************************************************************************)
(* The rows of the mappers that checked in.                                *)
(***************************************************************************)
MarkedBy(r, q) ==
  \/ Id(q) = r + 1 /\ CheckedIn(q)
  \/ Id(q) = r /\ command[q] = CHECKOUT

LEMMA RowInit == Init => RowInv
  <1> SUFFICES ASSUME Init  PROVE RowInv OBVIOUS
  <1>1. Clients = {} /\ \A r \in Row : isCheckedIn[r] \notin {CHECKIN, CHECKOUT}
    BY DEF Init, ServerInit, Clients, Admitted, CHECKIN, CHECKOUT
  <1> QED BY <1>1 DEF RowInv

LEMMA NewMark ==
  ASSUME Typed, SessionInv, NEW p \in Process, StepOf(p), Undisturbed', NEW r \in Row,
         isCheckedIn[r] \notin {CHECKIN, CHECKOUT}, isCheckedIn'[r] \in {CHECKIN, CHECKOUT}
  PROVE  p \in Clients' /\ MarkedBy(r, p)'
  <1>1. isCheckedIn \in [Row -> {-1, 0, CHECKIN, CHECKOUT}] BY DEF Typed, ThreadInv, ThreadTyped
  <1>2. isCheckedIn' # isCheckedIn OBVIOUS
  <1>3. (Checkin(p) \/ Checkout(p)) /\ UNCHANGED clients
    BY <1>2 DEF StepOf, ClientStep, FaultStep, Admit, TurnAway, server, shared, ThreadStep, Thread,
       Read, Copy, Own, Sum, LoadRow, StoreRow, LoadAz, StoreAz, Reply, Sigpipe, CloseSocket
  <1>4. p \in Clients /\ Session(p) /\ listening
    <2>1. p \in Clients BY <1>3 DEF Checkin, Checkout, Handle, At, Clients, Admitted
    <2> QED BY <2>1, SessionsStay DEF SessionInv
  <1>5. p \in Clients' /\ InHandler(p) BY <1>3, <1>4, ClientsGetOn, HandlerSession DEF Handler
  <1>6. buffer[p].pid = Id(p) /\ buffer[p].command = command[p] BY <1>5 DEF InHandler, Ask
  <1>7. buffer[p].command \in HandlerOf(tpc[p]) BY DEF Typed, ThreadInv, ThreadOk
  <1>8. command' = command /\ Id(p)' = Id(p) BY <1>3 DEF clients, Id
  <1>9. CASE Checkin(p)
    <2>1. isCheckedIn' = [isCheckedIn EXCEPT ![Id(p) - 1] = CHECKIN] BY <1>6, <1>9 DEF Checkin
    <2>2. r = Id(p) - 1 BY <1>1, <2>1
    <2>3. Id(p) = r + 1 BY <1>4, <2>2, InService DEF Clients, Row
    <2>4. tpc'[p] = "reply" BY <1>9 DEF Checkin, Handle, Goto, At, Typed, Connections, ConnInv
    <2>5. HasAnswer(p)' BY <1>3, <1>4, <1>9, <2>4, HandlerSession DEF Handler
    <2> QED BY <1>5, <1>8, <2>3, <2>5 DEF MarkedBy, CheckedIn
  <1>10. CASE Checkout(p)
    <2>1. isCheckedIn' = [isCheckedIn EXCEPT ![Id(p)] = CHECKOUT] BY <1>6, <1>10 DEF Checkout, CheckoutMark
    <2>2. r = Id(p) BY <1>1, <2>1
    <2>3. command[p] = CHECKOUT
      BY <1>6, <1>7, <1>10 DEF Checkout, Handle, At, HandlerOf
    <2> QED BY <1>5, <1>8, <2>2, <2>3 DEF MarkedBy
  <1> QED BY <1>3, <1>9, <1>10

LEMMA RowStep == Typed /\ SessionInv /\ RowInv /\ [Next]_vars => RowInv'
  <1> SUFFICES ASSUME Typed, SessionInv, RowInv, [Next]_vars  PROVE RowInv' OBVIOUS
  <1>1. CASE UNCHANGED vars
    <2>1. UNCHANGED <<inbox, tpc, isCheckedIn, bufferResponse, cpc, command, answer>>
      BY <1>1 DEF vars, sockets, server, shared, clients
    <2> QED BY <2>1 DEF RowInv, Undisturbed, Clients, Admitted, CheckedIn, HasAnswer, Given,
                        Explained, Id
  <1>2. ASSUME NEW p \in Process, StepOf(p), Undisturbed'
        PROVE  /\ \A r \in Row : isCheckedIn'[r] \in {CHECKIN, CHECKOUT} =>
                    \E q \in Clients' : MarkedBy(r, q)'
               /\ \A q \in Clients' : HasAnswer(q)' /\ Given(q)'.code = RSP_NOK => Explained(q)'
    <2>1. /\ \A q \in Clients : q \in Clients' /\ (CheckedIn(q) => CheckedIn(q)')
                               /\ (command[q] = CHECKOUT => command'[q] = CHECKOUT)
          /\ \A q \in Clients' :
              \/ q \in Clients /\ Advances(q)
              \/ q = p /\ q \in Clients /\ UNCHANGED clients /\ (Read(p) \/ Handler(p))
              \/ q \notin Clients /\ ~HasAnswer(q)'
      BY <1>2, ClientsGetOn
    <2>2. Undisturbed BY <1>2, StaysDisturbed
    <2>3. \A q \in Process : Id(q)' = Id(q) BY DEF Id
    <2>4. \A r \in Row, q \in Clients : MarkedBy(r, q) => MarkedBy(r, q)'
      BY <2>1, <2>3 DEF MarkedBy, Clients
    <2>5. \A r \in Row : isCheckedIn[r] \in {CHECKIN, CHECKOUT} => \E q \in Clients : MarkedBy(r, q)
      BY <2>2 DEF RowInv, MarkedBy
    <2>6. \A q \in Process : Explained(q) => Explained(q)'
      BY <2>1, <2>3 DEF Explained, Clients
    <2>7. ASSUME NEW r \in Row, isCheckedIn'[r] \in {CHECKIN, CHECKOUT}
          PROVE  \E q \in Clients' : MarkedBy(r, q)'
      BY <1>2, <2>1, <2>4, <2>5, <2>7, NewMark
    <2>8. ASSUME NEW q \in Clients', HasAnswer(q)', Given(q)'.code = RSP_NOK
          PROVE  Explained(q)'
      <3>1. CASE q \in Clients /\ Advances(q)
        <4>1. HasAnswer(q) /\ Given(q).code = RSP_NOK BY <2>8, <3>1 DEF Advances
        <4>2. Explained(q) BY <2>2, <3>1, <4>1 DEF RowInv
        <4> QED BY <2>6, <3>1, <4>2 DEF Clients
      <3>2. CASE q = p /\ q \in Clients /\ UNCHANGED clients /\ (Read(p) \/ Handler(p))
        <4>1. Session(p) /\ listening BY <1>2, <3>2, SessionsStay DEF SessionInv
        <4>2. CASE Read(p)
          <5>1. /\ Asked(p) /\ command[p] = CHECKIN
                /\ isCheckedIn[Id(p) - 1] \in {CHECKIN, CHECKOUT}
            BY <2>8, <3>2, <4>1, <4>2, ReadSession
          <5>2. Id(p) - 1 \in Row /\ Id(p) \in Nat BY <3>2, InService DEF Clients, Row
          <5>3. PICK w \in Clients : MarkedBy(Id(p) - 1, w) BY <2>5, <5>1, <5>2
          <5>4. ~CheckedIn(p)
            BY <5>1 DEF CheckedIn, HasAnswer, Asked, CHECKIN
          <5>5. (Id(w) = Id(p) /\ CheckedIn(w)) \/ (Id(w) = Id(p) - 1 /\ command[w] = CHECKOUT)
            BY <5>2, <5>3 DEF MarkedBy
          <5>6. w # p BY <5>2, <5>4, <5>5
          <5>7. Explained(p) BY <5>5, <5>6 DEF Explained, Clients
          <5> QED BY <2>6, <3>2, <5>7
        <4>3. CASE Handler(p)
          <5>1. tpc'[p] = "reply" /\ InHandler(p) /\ UNCHANGED <<cpc, inbox>>
            BY <2>8, <3>2, <4>1, <4>3, HandlerSession, HandlerIs DEF clients, sockets
          <5>2. bufferResponse'[p].code = RSP_OK BY <4>3, <5>1, HandlerIs
          <5>3. Given(p)' = bufferResponse'[p] BY <5>1 DEF Given, InHandler
          <5> QED BY <2>8, <3>2, <5>2, <5>3 DEF RSP_OK, RSP_NOK
        <4> QED BY <3>2, <4>2, <4>3
      <3> QED BY <2>1, <2>8, <3>1, <3>2
    <2> QED BY <2>7, <2>8
  <1>3. CASE \E p \in Process : StepOf(p)
    BY <1>2, <1>3 DEF RowInv, MarkedBy
  <1> QED BY <1>1, <1>3, StepIsOfOne

(***************************************************************************)
(* Only a CHECKIN is ever refused, and only to a mapper whose row another  *)
(* has marked: one of the same id that is checked in, or the mapper before *)
(* it that has asked to check out.                                         *)
(***************************************************************************)
THEOREM RefusalsAreExplained == Spec => []RefusalsExplained
  <1>1. Served /\ RowInv => RefusalsExplained
    <2> SUFFICES ASSUME Served, RowInv, NEW p \in Process, NEW c \in Command \ {0},
                        Answered(p, c), answer[p].code = RSP_NOK
                 PROVE  c = CHECKIN /\ Explained(p)
      BY DEF RefusalsExplained, Explained, CheckedIn, HasAnswer, CHECKIN
    <2>1. /\ Undisturbed /\ p \in Clients /\ Session(p) /\ command[p] = c
          /\ HasAnswer(p) /\ Given(p) = answer[p]
      BY AnsweredHas
    <2> QED BY <2>1 DEF RowInv, Session
  <1>2. Served /\ RowInv /\ [Next]_vars => RowInv' BY RowStep DEF Served
  <1> QED BY <1>1, <1>2, RowInit, SpecServed, PTL DEF Spec

(***************************************************************************)
(* The words a client has sent.                                            *)
(***************************************************************************)
LEMMA FileWordsStay ==
  ASSUME Typed, NEW p \in Process, StepOf(p) \/ UNCHANGED vars, NEW q \in Process,
         NEW n \in 0 .. messageCount[q] - 1
  PROVE  FileWords(q, n)' = FileWords(q, n)
  <1>1. Garbled(q)' = Garbled(q)
    <2>1. CASE UNCHANGED vars BY <2>1 DEF vars, clients, Garbled
    <2>2. CASE StepOf(p) /\ q # p
      <3>1. cpc[q] # "unborn"
        BY DEF Typed, Connections, Commands, CommandInv, BeforeSession
      <3> QED BY <2>2, <3>1, OthersSame DEF Same, SameClient
    <2>3. CASE StepOf(p) /\ q = p
      <3>1. ~Garble(p)
        BY <2>3 DEF Garble, Typed, Connections, Commands, CommandInv
      <3> QED BY <2>3, <3>1, FaultOfOne
              DEF StepOf, ThreadStep, ClientStep, FaultStep, Garbled, clients,
                  Client, ClientFault, Fork, Wait, Connects, ConnectFails, Send,
                  Receive, Leave, BrokenPipe, ForkFails, SocketFails, Die
    <2> QED BY <2>1, <2>2, <2>3
  <1> QED BY <1>1 DEF FileWords, Garbled, FileOf, Id, Mappers

LEMMA WordsType ==
  ASSUME Typed, NEW q \in Process, NEW l \in Letter, NEW n \in 0 .. messageCount[q]
  PROVE  /\ WordsOf(q, l, n) \in Nat
         /\ \A m \in 0 .. n - 1 : FileWords(q, m)[l] \in Nat
  <1>1. messageCount[q] \in Nat BY DEF Typed, Connections, Commands, CommandInv
  <1>2. \A m \in 0 .. n - 1 : FileWords(q, m)[l] \in Nat
    <2> SUFFICES ASSUME NEW m \in 0 .. n - 1  PROVE FileWords(q, m)[l] \in Nat OBVIOUS
    <2>1. m \in 0 .. messageCount[q] - 1 BY <1>1
    <2> QED BY <2>1, AskTyped DEF Typed, Connections
  <1>3. IsFiniteSet(0 .. n - 1) BY <1>1, FS_Interval
  <1>4. 0 .. n - 1 \subseteq Nat BY <1>1
  <1> DEFINE f == [m \in Nat |-> FileWords(q, m)[l]]
  <1>5. \A m \in 0 .. n - 1 : f[m] \in Nat BY <1>2, <1>4
  <1> HIDE DEF f
  <1>6. SumFunctionOnSet(f, 0 .. n - 1) \in Nat BY <1>3, <1>5, SumIsNat
  <1> QED BY <1>2, <1>6 DEF WordsOf, f

LEMMA WordsStay ==
  ASSUME Typed, NEW p \in Process, StepOf(p) \/ UNCHANGED vars, NEW q \in Process,
         NEW l \in Letter, NEW n \in 0 .. messageCount[q]
  PROVE  WordsOf(q, l, n)' = WordsOf(q, l, n)
  <1>1. messageCount[q] \in Nat BY DEF Typed, Connections, Commands, CommandInv
  <1> DEFINE f == [m \in Nat |-> FileWords(q, m)[l]]
             g == [m \in Nat |-> FileWords(q, m)'[l]]
  <1>2. IsFiniteSet(0 .. n - 1) BY <1>1, FS_Interval
  <1>3. 0 .. n - 1 \subseteq Nat /\ 0 .. n - 1 \subseteq 0 .. messageCount[q] - 1 BY <1>1
  <1>4. \A m \in 0 .. n - 1 : f[m] \in Nat /\ g[m] = f[m]
    BY <1>3, WordsType, FileWordsStay
  <1>5. SumFunctionOnSet(g, 0 .. n - 1) = SumFunctionOnSet(f, 0 .. n - 1)
    <2> HIDE DEF f, g
    <2> QED BY <1>2, <1>4, SumSame
  <1> QED BY <1>5 DEF WordsOf

LEMMA WordsGrow ==
  ASSUME Typed, NEW q \in Process, NEW l \in Letter, NEW n \in 0 .. messageCount[q] - 1
  PROVE  WordsOf(q, l, n + 1) = WordsOf(q, l, n) + FileWords(q, n)[l]
  <1>1. messageCount[q] \in Nat BY DEF Typed, Connections, Commands, CommandInv
  <1>2. n + 1 \in 0 .. messageCount[q] /\ n \in 0 .. messageCount[q] BY <1>1
  <1> DEFINE f == [m \in Nat |-> FileWords(q, m)[l]]
  <1>3. /\ 0 .. n + 1 - 1 = (0 .. n - 1) \cup {n} /\ n \notin 0 .. n - 1
        /\ IsFiniteSet(0 .. n - 1) /\ 0 .. n + 1 - 1 \subseteq Nat
    <2>1. n \in Nat BY <1>1
    <2>2. n + 1 - 1 = n /\ n - 1 \in Int BY <2>1
    <2>3. 0 .. n = (0 .. n - 1) \cup {n} /\ n \notin 0 .. n - 1 BY <2>1
    <2> QED BY <2>1, <2>2, <2>3, FS_Interval
  <1>4. \A m \in (0 .. n - 1) \cup {n} : f[m] \in Nat /\ f[m] = FileWords(q, m)[l]
    BY <1>2, <1>3, WordsType
  <1> HIDE DEF f
  <1>5. SumFunctionOnSet(f, (0 .. n - 1) \cup {n}) = f[n] + SumFunctionOnSet(f, 0 .. n - 1)
    BY <1>3, <1>4, SumGrows
  <1>6. f[n] \in Nat /\ SumFunctionOnSet(f, 0 .. n - 1) \in Nat
    BY <1>3, <1>4, SumIsNat
  <1>7. f[n] = FileWords(q, n)[l] BY <1>4
  <1>8. /\ WordsOf(q, l, n + 1) = SumFunctionOnSet(f, (0 .. n - 1) \cup {n})
        /\ WordsOf(q, l, n) = SumFunctionOnSet(f, 0 .. n - 1)
    <2>1. /\ WordsOf(q, l, n + 1) = SumFunctionOnSet(f, 0 .. n + 1 - 1)
          /\ WordsOf(q, l, n) = SumFunctionOnSet(f, 0 .. n - 1)
      BY DEF WordsOf, f
    <2>2. 0 .. n + 1 - 1 = (0 .. n - 1) \cup {n} BY <1>3
    <2> QED BY <2>1, <2>2, Zenon
  <1> QED BY <1>5, <1>6, <1>7, <1>8

LEMMA NoWords ==
  ASSUME NEW q, NEW l
  PROVE  WordsOf(q, l, 0) = 0
  <1>1. 0 .. 0 - 1 = {} OBVIOUS
  <1> QED BY <1>1, SumOfNone DEF WordsOf

LEMMA SentIs ==
  ASSUME NEW q, NEW l
  PROVE  Sent(q, l) = WordsOf(q, l, messageCount[q])
  BY DEF Sent, WordsOf

\* What a client has sent only grows.
LEMMA CountsGrow ==
  ASSUME Typed, NEW p \in Process, StepOf(p) \/ UNCHANGED vars, NEW q \in Process
  PROVE  /\ messageCount[q] \in Nat /\ messageCount'[q] \in {messageCount[q], messageCount[q] + 1}
         /\ messageCount'[q] # messageCount[q] => Send(p) /\ q = p /\ command'[p] = UPDATE_AZLIST
         /\ Send(p) /\ q = p => command'[p] = NextCommand(p)
                                /\ messageCount'[p] = IF command'[p] = UPDATE_AZLIST
                                                      THEN messageCount[p] + 1 ELSE messageCount[p]
  <1>1. /\ messageCount \in [Process -> Nat] /\ command \in [Process -> Command]
    BY DEF Typed, Connections, Commands, CommandInv
  <1>2. CASE Send(p)
    BY <1>1, <1>2 DEF Send
  <1>3. CASE ~Send(p)
    <2>1. messageCount' = messageCount
      BY <1>3 DEF StepOf, ThreadStep, ClientStep, FaultStep, clients, vars,
                  Client, ClientFault, Fork, Wait, Connects, ConnectFails,
                  Receive, Leave, BrokenPipe, ForkFails, SocketFails, Die, Garble
    <2> QED BY <1>1, <1>3, <2>1
  <1> QED BY <1>2, <1>3


LEMMA SentGrows ==
  ASSUME Typed, NEW p \in Process, StepOf(p) \/ UNCHANGED vars, NEW q \in Process, NEW l \in Letter
  PROVE  /\ Sent(q, l) \in Nat /\ Sent(q, l)' \in Nat /\ Sent(q, l) <= Sent(q, l)'
         /\ messageCount'[q] = messageCount[q] => Sent(q, l)' = Sent(q, l)
  <1> DEFINE f == [m \in Nat |-> FileWords(q, m)[l]]
             g == [m \in Nat |-> FileWords(q, m)'[l]]
             S == 0 .. messageCount[q] - 1
             T == 0 .. messageCount'[q] - 1
  <1>1. messageCount[q] \in Nat /\ messageCount'[q] \in {messageCount[q], messageCount[q] + 1}
    BY CountsGrow
  <1>2. \A m \in T : FileWords(q, m)' \in [Letter -> Nat]
    <2>1. [Next]_vars BY StepIsOfOne
    <2>2. CommandInv' BY <2>1, CommandStep DEF Typed, Connections
    <2> QED BY <2>2, ClientAssumption, Protocols DEF FileWords, CommandInv
  <1>3. S \subseteq T /\ T \subseteq Nat /\ IsFiniteSet(T) /\ IsFiniteSet(S)
    <2>1. messageCount'[q] \in Nat /\ messageCount[q] <= messageCount'[q] BY <1>1
    <2>2. S \subseteq T /\ T \subseteq Nat BY <1>1, <2>1
    <2>3. messageCount[q] - 1 \in Int /\ messageCount'[q] - 1 \in Int BY <1>1, <2>1
    <2> QED BY <2>2, <2>3, FS_Interval
  <1>4. \A m \in S : f[m] \in Nat /\ g[m] = f[m]
    <2>1. messageCount[q] \in 0 .. messageCount[q] BY <1>1
    <2> QED BY <1>3, <2>1, WordsType, FileWordsStay
  <1>5. \A m \in T : g[m] \in Nat BY <1>2, <1>3
  <1>6. Sent(q, l) = SumFunctionOnSet(f, S) /\ Sent(q, l)' = SumFunctionOnSet(g, T)
    BY DEF Sent
  <1>7. messageCount'[q] = messageCount[q] => T = S OBVIOUS
  <1> HIDE DEF f, g, S, T
  <1>8. /\ SumFunctionOnSet(f, S) \in Nat /\ SumFunctionOnSet(g, T) \in Nat
        /\ SumFunctionOnSet(f, S) <= SumFunctionOnSet(g, T)
    <2>1. \A m \in S : f[m] \in Nat /\ f[m] <= g[m] BY <1>4
    <2> QED BY <1>3, <1>5, <2>1, SumIsNat, SumMonotone
  <1>9. SumFunctionOnSet(g, S) = SumFunctionOnSet(f, S) BY <1>3, <1>4, SumSame
  <1> QED BY <1>6, <1>7, <1>8, <1>9

LEMMA AllSentGrows ==
  ASSUME Typed, NEW p \in Process, StepOf(p) \/ UNCHANGED vars, NEW l \in Letter
  PROVE  AllSent(l) \in Nat /\ AllSent(l)' \in Nat /\ AllSent(l) <= AllSent(l)'
  <1> DEFINE f == [q \in Process |-> Sent(q, l)]
             g == [q \in Process |-> Sent(q, l)']
  <1>1. \A q \in Process : f[q] \in Nat /\ g[q] \in Nat /\ f[q] <= g[q] BY SentGrows
  <1>2. Clients \subseteq Clients' /\ Clients' \subseteq Process
    BY StaysAdmitted DEF Clients, vars, server, Admitted
  <1>3. IsFiniteSet(Clients) /\ IsFiniteSet(Clients')
    BY <1>2, ProcessFinite, FS_Subset
  <1> HIDE DEF f, g
  <1>4. /\ SumFunctionOnSet(f, Clients) \in Nat /\ SumFunctionOnSet(g, Clients') \in Nat
        /\ SumFunctionOnSet(f, Clients) <= SumFunctionOnSet(g, Clients')
    BY <1>1, <1>2, <1>3, SumIsNat, SumMonotone
  <1> QED BY <1>4 DEF AllSent, f, g

LEMMA AllMessagesGrow ==
  ASSUME Typed, NEW p \in Process, StepOf(p) \/ UNCHANGED vars
  PROVE  AllMessages \in Nat /\ AllMessages' \in Nat /\ AllMessages <= AllMessages'
  <1>1. \A q \in Process : /\ messageCount[q] \in Nat /\ messageCount'[q] \in Nat
                           /\ messageCount[q] <= messageCount'[q]
    BY CountsGrow
  <1>2. Clients \subseteq Clients' /\ Clients' \subseteq Process
    BY StaysAdmitted DEF Clients, vars, server, Admitted
  <1>3. IsFiniteSet(Clients) /\ IsFiniteSet(Clients')
    BY <1>2, ProcessFinite, FS_Subset
  <1>4. SumFunctionOnSet(messageCount, Clients) \in Nat /\ SumFunctionOnSet(messageCount', Clients') \in Nat
    BY <1>1, <1>2, <1>3, SumIsNat
  <1>5. SumFunctionOnSet(messageCount, Clients) <= SumFunctionOnSet(messageCount', Clients')
    BY <1>1, <1>2, <1>3, SumMonotone
  <1> QED BY <1>4, <1>5 DEF AllMessages

(***************************************************************************)
(* The updates on their way.                                               *)
(***************************************************************************)
ToComeStays(q) ==
  /\ RowToCome(q)' <=> RowToCome(q)
  /\ \A l \in Letter : AzToCome(q, l)' <=> AzToCome(q, l)
  /\ messageCount'[q] = messageCount[q]
Nothing(q) == ~RowToCome(q) /\ \A l \in Letter : ~AzToCome(q, l)

LEMMA NothingToCome ==
  ASSUME NEW q, ~Updating(q) \/ (/\ inbox[q]["server"] = <<>>
                                /\ tpc[q] \notin {"loadRow", "storeRow", "loadAz", "storeAz"})
  PROVE  Nothing(q)
  BY DEF Nothing, RowToCome, AzToCome

LEMMA ClientToCome ==
  ASSUME Typed, SessionInv, NEW p \in Clients, ClientStep(p) \/ FaultStep(p), listening',
         cpc'[p] # "killed"
  PROVE  \/ ToComeStays(p)
         \/ /\ Send(p) /\ Nothing(p)
            /\ RowToCome(p)' <=> command'[p] = UPDATE_AZLIST
            /\ \A l \in Letter : AzToCome(p, l)' <=> command'[p] = UPDATE_AZLIST
  <1>1. StepOf(p) /\ p \in Process BY DEF StepOf, Clients
  <1>2. /\ Session(p) /\ Session(p)' /\ Advances(p)
    <2>1. tpc' = tpc BY DEF ClientStep, FaultStep, server
    <2>2. p \in Clients' BY <1>1, StaysAdmitted DEF Clients
    <2>3. Session(p) /\ listening /\ Session(p)' BY <1>1, <2>2, LiveStays
    <2>4. Advances(p)
      BY <1>1, <2>3, ClientSession DEF ClientStep, FaultStep, Clients
    <2> QED BY <2>3, <2>4
  <1>3. cpc[p] \notin BeforeSession /\ command[p] \in 0 .. 6 BY <1>1, InService DEF Clients
  <1>4. ~(Fork(p) \/ Wait(p) \/ Connects(p) \/ ConnectFails(p) \/ ForkFails(p) \/ SocketFails(p))
    BY <1>3 DEF BeforeSession, Fork, Wait, Connects, ConnectFails, ForkFails, SocketFails
  <1>5. ~(BrokenPipe(p) \/ Die(p))
    <2>1. cpc'[p] # "killed" BY <1>2, PhaseIs DEF Session, Asked, InHandler, Replied, Told
    <2> QED BY <1>1, <2>1 DEF BrokenPipe, Die, CGoto, Typed, Connections, Commands, ForkInv
  <1>6. CASE Send(p)
    <2>1. cpc[p] = "send" /\ cpc'[p] = "receive" /\ tpc' = tpc
      BY <1>1, <1>6 DEF Send, CGoto, Typed, Connections, Commands, ForkInv, ClientStep, FaultStep, server
    <2>5. Asked(p)'
      <3>1. listening /\ UNCHANGED server
        <4>1. p \in Clients' BY <1>1, StaysAdmitted DEF Clients
        <4> QED BY <1>1, <4>1, LiveStays DEF ClientStep, FaultStep
      <3> QED BY <1>1, <1>2, <1>6, <3>1, SendSession DEF Clients
    <2>6. inbox'[p]["server"] # <<>> BY <2>5 DEF Asked
    <2>7. Nothing(p)
      <3>1. ~Updating(p) BY <2>1 DEF Updating
      <3> QED BY <3>1, NothingToCome
    <2>8. /\ RowToCome(p)' <=> command'[p] = UPDATE_AZLIST
          /\ \A l \in Letter : AzToCome(p, l)' <=> command'[p] = UPDATE_AZLIST
      BY <2>1, <2>6 DEF RowToCome, AzToCome, Updating
    <2> QED BY <1>6, <2>7, <2>8
  <1>7. CASE Receive(p) \/ Leave(p) \/ Garble(p)
    <2>1. cpc'[p] # "receive" /\ command' = command /\ messageCount' = messageCount
      BY <1>1, <1>7 DEF Receive, Leave, Garble, CGoto, Typed, Connections, Commands, ForkInv
    <2>2. ~Updating(p)' BY <2>1 DEF Updating
    <2>3. ~RowToCome(p)' /\ \A l \in Letter : ~AzToCome(p, l)'
      BY <2>2 DEF RowToCome, AzToCome
    <2>4. Nothing(p)
      <3>1. CASE Receive(p)
        <4>1. cpc[p] = "receive" BY <3>1 DEF Receive
        <4>2. HasAnswer(p)'
          <5>1. command[p] # 0 BY <1>1, <4>1 DEF Typed, Connections, Commands, CommandInv
          <5> QED BY <2>1, <5>1 DEF HasAnswer
        <4>3. HasAnswer(p) BY <1>2, <4>2 DEF Advances
        <4>4. inbox[p]["server"] = <<>> /\ tpc[p] \notin {"loadRow", "storeRow", "loadAz", "storeAz"}
          BY <1>2, <4>1, <4>3
             DEF HasAnswer, Session, Asked, InHandler, Replied, Told, AfterReply
        <4> QED BY <4>4, NothingToCome
      <3>2. CASE Leave(p) \/ Garble(p)
        <4>1. ~Updating(p) BY <3>2 DEF Leave, Garble, Updating
        <4> QED BY <4>1, NothingToCome
      <3> QED BY <1>7, <3>1, <3>2
    <2> QED BY <2>1, <2>3, <2>4 DEF ToComeStays, Nothing
  <1> QED BY <1>4, <1>5, <1>6, <1>7 DEF ClientStep, FaultStep, Client, ClientFault

LEMMA ThreadToCome ==
  ASSUME Typed, SessionInv, NEW p \in Clients, ThreadStep(p), listening',
         cpc'[p] # "killed"
  PROVE  /\ messageCount' = messageCount
         /\ \/ ToComeStays(p) /\ ~StoreRow(p) /\ ~StoreAz(p)
            \/ /\ StoreRow(p) /\ ~StoreAz(p) /\ Updating(p)
               /\ RowToCome(p) /\ ~RowToCome(p)'
               /\ \A l \in Letter : AzToCome(p, l)' <=> AzToCome(p, l)
            \/ /\ StoreAz(p) /\ ~StoreRow(p) /\ Updating(p)
               /\ ~RowToCome(p) /\ ~RowToCome(p)'
               /\ AzToCome(p, i[p] + 1) /\ i[p] + 1 \in Letter
               /\ \A l \in Letter : AzToCome(p, l)' <=> (AzToCome(p, l) /\ l # i[p] + 1)
  <1>1. StepOf(p) /\ p \in Process /\ UNCHANGED clients BY DEF StepOf, Clients, ThreadStep
  <1>2. messageCount' = messageCount /\ Updating(p)' = Updating(p)
    BY <1>1 DEF clients, Updating
  <1>3. Session(p) /\ listening /\ listening'
    <2>1. p \in Clients' BY <1>1, StaysAdmitted DEF Clients
    <2> QED BY <1>1, <2>1, LiveStays
  <1>4. /\ tpc \in [Process -> TStates] /\ i[p] \in Nat
        /\ tpc[p] \in {"copy", "loadAz", "storeAz"} => i[p] < NumLetters
        /\ buffer[p].command \in HandlerOf(tpc[p])
        /\ i \in [Process -> Nat]
        /\ NumLetters \in Nat
    BY <1>1, Protocols DEF Typed, Connections, ConnInv, ThreadInv, ThreadTyped, ThreadOk
  <1>5. CASE Read(p)
    <2>1. /\ Asked(p) /\ tpc'[p] \in Handling /\ buffer'[p] = Ask(p)
          /\ HasAnswer(p)' => command[p] = CHECKIN
          /\ ~HasAnswer(p)' => tpc'[p] \notin {"reply", "storeRow", "loadAz", "storeAz"}
      BY <1>1, <1>3, <1>5, ReadSession
    <2>2. buffer'[p].command \in HandlerOf(tpc'[p])
      <3>1. ThreadOk(p)' BY <1>1, ThreadOkStep
      <3> QED BY <3>1 DEF ThreadOk
    <2>3. Updating(p) => tpc'[p] = "loadRow"
      BY <2>1, <2>2 DEF Updating, Ask, HandlerOf, Handling, TStates, CHECKIN, UPDATE_AZLIST,
           GET_AZLIST, GET_ALL_UPDATES, GET_MAPPER_UPDATES, CHECKOUT
    <2>4. inbox[p]["server"] # <<>> BY <2>1 DEF Asked
    <2>5. ToComeStays(p) BY <1>2, <2>3, <2>4 DEF ToComeStays, RowToCome, AzToCome
    <2> QED BY <1>2, <1>5, <2>5 DEF Read, At, StoreRow, StoreAz, Handle
  <1>6. CASE Handler(p)
    <2>1. InHandler(p) /\ UNCHANGED <<sockets, buffer>> /\ inbox[p]["server"] = <<>>
      BY <1>1, <1>3, <1>6, HandlerSession, HandlerIs DEF InHandler
    <2>2. buffer[p].command = command[p] /\ inbox'[p]["server"] = <<>> BY <2>1 DEF InHandler, Ask, sockets
    <2>3. CASE Checkin(p) \/ Copy(p) \/ Own(p) \/ Sum(p) \/ Checkout(p)
      <3>1. tpc[p] \in {"checkin", "copy", "own", "sum", "checkout"}
        BY <2>3 DEF Checkin, Copy, Own, Sum, Checkout, Handle, At
      <3>2. command[p] # UPDATE_AZLIST
        BY <1>4, <2>2, <3>1 DEF HandlerOf, CHECKIN, UPDATE_AZLIST,
           GET_AZLIST, GET_ALL_UPDATES, GET_MAPPER_UPDATES, CHECKOUT
      <3>3. ToComeStays(p) BY <1>2, <3>2 DEF ToComeStays, RowToCome, AzToCome, Updating
      <3> QED BY <1>2, <3>1, <3>3 DEF StoreRow, StoreAz, Handle, At
    <2>4. CASE LoadRow(p) \/ StoreRow(p) \/ LoadAz(p) \/ StoreAz(p)
      <3>1. tpc[p] \in {"loadRow", "storeRow", "loadAz", "storeAz"}
        BY <2>4 DEF LoadRow, StoreRow, LoadAz, StoreAz, Handle, At
      <3>2. Updating(p)
        BY <1>4, <2>1, <2>2, <3>1 DEF HandlerOf, InHandler, Updating
      <3>3. CASE LoadRow(p)
        <4>1. tpc[p] = "loadRow" /\ tpc'[p] = "storeRow"
          BY <1>1, <1>4, <3>3 DEF LoadRow, Handle, At, Goto
        <4> QED BY <1>2, <4>1 DEF ToComeStays, RowToCome, AzToCome, StoreRow, StoreAz, Handle, At
      <3>4. CASE StoreRow(p)
        <4>1. tpc[p] = "storeRow" /\ tpc'[p] = "loadAz" /\ i'[p] = i[p]
          BY <1>1, <1>4, <3>4 DEF StoreRow, Handle, At, Goto
        <4>2. i[p] = 0 BY <1>1, <4>1 DEF Typed, ThreadInv, ThreadOk
        <4>3. \A l \in Letter : 0 < l BY DEF Letter
        <4>4. RowToCome(p) /\ ~RowToCome(p)' /\ \A l \in Letter : AzToCome(p, l)' /\ AzToCome(p, l)
          BY <1>2, <2>2, <3>2, <4>1, <4>2, <4>3 DEF RowToCome, AzToCome
        <4>5. ~StoreAz(p) BY <4>1 DEF StoreAz, Handle, At
        <4> QED BY <1>2, <3>2, <3>4, <4>4, <4>5
      <3>5. CASE LoadAz(p)
        <4>1. tpc[p] = "loadAz" /\ tpc'[p] = "storeAz" /\ i'[p] = i[p]
          BY <1>1, <1>4, <3>5 DEF LoadAz, Handle, At, Goto
        <4> QED BY <1>2, <2>1, <2>2, <4>1 DEF ToComeStays, RowToCome, AzToCome, StoreRow, StoreAz, Handle, At
      <3>6. CASE StoreAz(p)
        <4>1. /\ tpc[p] = "storeAz"
              /\ tpc'[p] = IF i[p] + 1 = NumLetters THEN "reply" ELSE "loadAz"
              /\ i'[p] = IF i[p] + 1 = NumLetters THEN 0 ELSE i[p] + 1
          BY <1>1, <1>4, <3>6 DEF StoreAz, Handle, At, Goto, LastLetter
        <4>2. i[p] < NumLetters /\ i[p] + 1 \in Letter BY <1>4, <4>1 DEF Letter
        <4>3. \A l \in Letter : AzToCome(p, l) <=> i[p] < l
          BY <2>1, <3>2, <4>1 DEF AzToCome
        <4>4. \A l \in Letter : AzToCome(p, l)' <=> (i[p] + 1 # NumLetters /\ i[p] + 1 < l)
          BY <1>2, <2>2, <3>2, <4>1 DEF AzToCome
        <4>5. \A l \in Letter : (i[p] + 1 # NumLetters /\ i[p] + 1 < l) <=> (i[p] < l /\ l # i[p] + 1)
          BY <1>4, <4>2 DEF Letter
        <4>6. ~RowToCome(p) /\ ~RowToCome(p)'
          BY <2>1, <2>2, <4>1 DEF RowToCome
        <4>7. ~StoreRow(p) BY <4>1 DEF StoreRow, Handle, At
        <4>8. i[p] < i[p] + 1 BY <1>4
        <4> QED BY <1>2, <3>2, <3>6, <4>2, <4>3, <4>4, <4>5, <4>6, <4>7, <4>8
      <3> QED BY <2>4, <3>3, <3>4, <3>5, <3>6
    <2> QED BY <1>6, <2>3, <2>4 DEF Handler
  <1>7. CASE Reply(p) \/ CloseSocket(p)
    <2>1. /\ tpc[p] \in {"reply", "close"} /\ tpc'[p] \in {"close", "read", "exit"}
          /\ inbox'[p]["server"] = inbox[p]["server"]
      BY <1>1, <1>4, <1>7 DEF Reply, CloseSocket, At, Goto, WriteAnswer, Write, Close, Peer, Typed, MessageInv, Side
    <2>2. ToComeStays(p) BY <1>2, <2>1 DEF ToComeStays, RowToCome, AzToCome
    <2>3. ~StoreRow(p) /\ ~StoreAz(p) BY <2>1 DEF StoreRow, StoreAz, Handle, At
    <2> QED BY <1>2, <2>2, <2>3
  <1>8. ~Sigpipe(p) BY <1>3 DEF Sigpipe, ServerGone
  <1> QED BY <1>5, <1>6, <1>7, <1>8 DEF ThreadStep, Thread, Handler

(***************************************************************************)
(* What a step does to what is on its way, while its client is alive.      *)
(***************************************************************************)
LEMMA ToComeStep ==
  ASSUME Typed, SessionInv, NEW p \in Process, StepOf(p), listening', NEW q \in Clients',
         cpc'[q] # "killed"
  PROVE  \/ q \in Clients /\ ToComeStays(q) /\ (q = p => ~StoreRow(p) /\ ~StoreAz(p))
         \/ /\ q = p /\ q \in Clients /\ Send(p) /\ ~StoreRow(p) /\ ~StoreAz(p) /\ Nothing(p)
            /\ RowToCome(p)' <=> command'[p] = UPDATE_AZLIST
            /\ \A l \in Letter : AzToCome(p, l)' <=> command'[p] = UPDATE_AZLIST
         \/ /\ q = p /\ q \in Clients /\ StoreRow(p) /\ ~StoreAz(p) /\ Updating(p)
            /\ RowToCome(p) /\ ~RowToCome(p)'
            /\ \A l \in Letter : AzToCome(p, l)' <=> AzToCome(p, l)
            /\ messageCount'[p] = messageCount[p]
         \/ /\ q = p /\ q \in Clients /\ StoreAz(p) /\ ~StoreRow(p) /\ Updating(p)
            /\ ~RowToCome(p) /\ ~RowToCome(p)'
            /\ AzToCome(p, i[p] + 1) /\ i[p] + 1 \in Letter
            /\ \A l \in Letter : AzToCome(p, l)' <=> (AzToCome(p, l) /\ l # i[p] + 1)
            /\ messageCount'[p] = messageCount[p]
         \/ q \notin Clients /\ messageCount'[q] = 0 /\ ~StoreRow(p) /\ ~StoreAz(p) /\ Nothing(q)'
  <1>1. CASE q # p
    <2>1. q \in Clients /\ Same(q) BY <1>1, LiveStays
    <2>2. ToComeStays(q)
      BY <2>1 DEF ToComeStays, RowToCome, AzToCome, Updating, Same, SameClient, SameThread
    <2> QED BY <1>1, <2>1, <2>2
  <1>2. CASE q = p /\ p \in Clients
    <2>1. CASE ThreadStep(p) BY <1>2, <2>1, ThreadToCome
    <2>2. CASE ClientStep(p) \/ FaultStep(p)
      <3>1. ~StoreRow(p) /\ ~StoreAz(p)
        <4>1. tpc' = tpc BY <2>2 DEF ClientStep, FaultStep, server
        <4>2. tpc \in [Process -> TStates] BY DEF Typed, Connections, ConnInv
        <4>3. LastLetter = NumLetters BY DEF LastLetter
        <4> QED BY <4>1, <4>2 DEF StoreRow, StoreAz, Handle, At, Goto
      <3> QED BY <1>2, <2>2, <3>1, ClientToCome
    <2>3. CASE ~(ThreadStep(p) \/ ClientStep(p) \/ FaultStep(p))
      <3>1. Accepts(p) BY <2>3 DEF StepOf, Admit, TurnAway
      <3>2. tpc[p] = "none" BY <3>1, AcceptTakesFirst DEF Typed, Connections, ConnInv
      <3> QED BY <1>2, <3>2 DEF Clients, Admitted
    <2> QED BY <2>1, <2>2, <2>3
  <1>3. CASE q = p /\ p \notin Clients
    <2>1. Admit(p, TRUE) /\ UNCHANGED clients /\ Waiting(p) /\ tpc[p] = "none"
      BY <1>3, NewClient
    <2>2. ~StoreRow(p) /\ ~StoreAz(p) BY <2>1 DEF StoreRow, StoreAz, Handle, At
    <2>3. command'[p] \in {0, CHECKIN} /\ messageCount'[p] = 0
      BY <2>1 DEF Waiting, clients, Typed, Connections, Commands, CommandInv
    <2>4. Nothing(p)'
      BY <2>3 DEF Nothing, RowToCome, AzToCome, Updating, CHECKIN, UPDATE_AZLIST
    <2> QED BY <1>3, <2>2, <2>3, <2>4
  <1> QED BY <1>1, <1>2, <1>3

LEMMA HandlerInSession ==
  ASSUME Typed, SessionInv, NEW p \in Process, StepOf(p), listening', Handler(p),
         cpc'[p] # "killed"
  PROVE  /\ p \in Clients /\ p \in Clients' /\ Session(p) /\ UNCHANGED clients
         /\ InHandler(p) /\ buffer[p] = Ask(p) /\ buffer[p].pid = Id(p)
  <1>1. listening /\ tpc[p] \in Handling /\ p \in Clients
    BY HandlerIs DEF Clients, Admitted, Handling
  <1>2. p \in Clients' BY <1>1, StaysAdmitted DEF Clients
  <1>3. Session(p) BY <1>1, <1>2, LiveStays
  <1>4. UNCHANGED clients
    <2>1. tpc \in [Process -> TStates] BY DEF Typed, Connections, ConnInv
    <2>2. /\ i \in [Process -> Nat] /\ NumLetters \in Nat /\ Rows \in Nat
          /\ LastLetter = NumLetters /\ LastRowSummed = Rows - 1
          /\ tpc[p] = "sum" => i[p] < Rows
      BY ProtocolAssumption DEF Typed, ThreadInv, ThreadTyped, ThreadOk, LastLetter, LastRowSummed
    <2>3. tpc' # tpc \/ i' # i
      <3>1. CASE Copy(p) BY <2>1, <2>2, <3>1 DEF Copy, Handle, At, Goto
      <3>2. CASE Sum(p) BY <2>1, <2>2, <3>2 DEF Sum, Handle, At, Goto
      <3>3. CASE ~Copy(p) /\ ~Sum(p)
        BY <2>1, <2>2, <3>3 DEF Handler, Checkin, Own, LoadRow, StoreRow, LoadAz, StoreAz,
                                Checkout, Handle, At, Goto
      <3> QED BY <3>1, <3>2, <3>3
    <2>4. ~(ClientStep(p) \/ FaultStep(p)) BY <2>3 DEF ClientStep, FaultStep, server
    <2>5. ~Accepts(p)
      BY <1>1, AcceptTakesFirst DEF Typed, Connections, Handling
    <2> QED BY <2>4, <2>5 DEF StepOf, Admit, TurnAway, ThreadStep
  <1>5. InHandler(p) BY <1>1, <1>3, PhaseIs
  <1> QED BY <1>1, <1>2, <1>3, <1>4, <1>5 DEF InHandler, Ask

LEMMA StoresInSession ==
  ASSUME Typed, SessionInv, NEW p \in Process, StepOf(p), Undisturbed', Handler(p)
  PROVE  /\ p \in Clients /\ p \in Clients' /\ Session(p) /\ UNCHANGED clients
         /\ InHandler(p) /\ buffer[p] = Ask(p) /\ buffer[p].pid = Id(p)
  <1>1. Admitted(p) BY HandlerIs DEF Admitted, Handling
  <1>2. listening' /\ cpc'[p] # "killed" BY <1>1, UndisturbedLive, StaysAdmitted DEF Clients
  <1> QED BY <1>2, HandlerInSession

LEMMA RowAddedStep ==
  ASSUME Typed, SessionInv, NEW p \in Process, StepOf(p), Undisturbed', NEW q \in Clients'
  PROVE  /\ q \in Clients => /\ RowAdded(q) \in Nat
                             /\ RowAdded(q)' = RowAdded(q) + (IF q = p THEN IF StoreRow(p) THEN 1 ELSE 0 ELSE 0)
         /\ q \notin Clients => RowAdded(q)' = 0
  <1>1. q \in Process BY DEF Clients
  <1>2. /\ messageCount[q] \in Nat /\ messageCount'[q] \in Nat
        /\ command[q] = UPDATE_AZLIST => messageCount[q] > 0
    BY <1>1, CountsGrow DEF Typed, Connections, Commands, CommandInv
  <1>3. /\ RowAdded(q) = IF RowToCome(q) THEN messageCount[q] - 1 ELSE messageCount[q]
        /\ RowAdded(q)' = IF RowToCome(q)' THEN messageCount'[q] - 1 ELSE messageCount'[q]
    BY DEF RowAdded
  <1>4. RowToCome(q) => messageCount[q] > 0 BY <1>2 DEF RowToCome, Updating
  <1>5. RowAdded(q) \in Nat BY <1>2, <1>3, <1>4
  <1>6. CASE q \in Clients /\ ToComeStays(q) /\ (q = p => ~StoreRow(p) /\ ~StoreAz(p))
    <2>1. RowAdded(q)' = RowAdded(q) BY <1>3, <1>6 DEF ToComeStays
    <2> QED BY <1>5, <1>6, <2>1
  <1>7. CASE /\ q = p /\ q \in Clients /\ Send(p) /\ ~StoreRow(p) /\ Nothing(p)
             /\ RowToCome(p)' <=> command'[p] = UPDATE_AZLIST
    <2>1. messageCount'[p] = IF command'[p] = UPDATE_AZLIST THEN messageCount[p] + 1 ELSE messageCount[p]
      BY <1>7, CountsGrow
    <2>2. ~RowToCome(p) BY <1>7 DEF Nothing
    <2>3. RowAdded(q)' = RowAdded(q) BY <1>2, <1>3, <1>7, <2>1, <2>2
    <2> QED BY <1>5, <1>7, <2>3
  <1>8. CASE /\ q = p /\ q \in Clients /\ StoreRow(p) /\ RowToCome(p) /\ ~RowToCome(p)'
             /\ messageCount'[p] = messageCount[p]
    BY <1>2, <1>3, <1>5, <1>8
  <1>9. CASE /\ q = p /\ q \in Clients /\ ~StoreRow(p) /\ ~RowToCome(p) /\ ~RowToCome(p)'
             /\ messageCount'[p] = messageCount[p]
    BY <1>2, <1>3, <1>5, <1>9
  <1>10. CASE q \notin Clients /\ messageCount'[q] = 0 /\ Nothing(q)'
    BY <1>3, <1>10 DEF Nothing
  <1> QED BY <1>6, <1>7, <1>8, <1>9, <1>10, ToComeStep, UndisturbedLive

LEMMA AzAddedNext ==
  ASSUME Typed, NEW p \in Process, StepOf(p), NEW q \in Process, NEW l \in Letter,
         NEW n \in 0 .. messageCount[q],
         n = IF AzToCome(q, l)' THEN messageCount'[q] - 1 ELSE messageCount'[q]
  PROVE  AzAdded(q, l)' = WordsOf(q, l, n)
  <1>1. WordsOf(q, l, n)' = WordsOf(q, l, n) BY WordsStay
  <1> QED BY <1>1 DEF AzAdded, WordsOf

LEMMA AzAddedStep ==
  ASSUME Typed, SessionInv, NEW p \in Process, StepOf(p), listening', NEW q \in Clients',
         cpc'[q] # "killed", NEW l \in Letter
  PROVE  /\ q \in Clients =>
              /\ AzAdded(q, l) \in Nat /\ buffer[p].data[l] \in Nat
              /\ AzAdded(q, l)' =
                   AzAdded(q, l) + (IF q = p THEN IF StoreAz(p) /\ i[p] + 1 = l
                                                  THEN buffer[p].data[l] ELSE 0 ELSE 0)
         /\ q \notin Clients => AzAdded(q, l)' = 0
  <1> DEFINE old == IF AzToCome(q, l) THEN messageCount[q] - 1 ELSE messageCount[q]
             new == IF AzToCome(q, l)' THEN messageCount'[q] - 1 ELSE messageCount'[q]
  <1>1. q \in Process BY DEF Clients
  <1>2. /\ messageCount[q] \in Nat /\ messageCount'[q] \in Nat
        /\ command[q] = UPDATE_AZLIST => messageCount[q] > 0
    BY <1>1, CountsGrow DEF Typed, Connections, Commands, CommandInv
  <1>3. AzAdded(q, l) = WordsOf(q, l, old) BY DEF AzAdded
  <1>4. old \in 0 .. messageCount[q]
    <2>1. AzToCome(q, l) => messageCount[q] > 0 BY <1>2 DEF AzToCome, Updating
    <2> QED BY <1>2, <2>1
  <1>5. AzAdded(q, l) \in Nat BY <1>1, <1>3, <1>4, WordsType
  <1>6. buffer[p].data[l] \in Nat
    BY DEF Typed, ThreadInv, ThreadTyped, RealRequest, Request, NoRequest, Zeros
  <1>7. ASSUME q \in Clients, new = old, q = p => ~(StoreAz(p) /\ i[p] + 1 = l)
        PROVE  AzAdded(q, l)' = AzAdded(q, l) + (IF q = p THEN IF StoreAz(p) /\ i[p] + 1 = l
                                                  THEN buffer[p].data[l] ELSE 0 ELSE 0)
    <2>1. AzAdded(q, l)' = AzAdded(q, l) BY <1>1, <1>3, <1>4, <1>7, AzAddedNext
    <2> QED BY <1>5, <1>7, <2>1
  <1>8. CASE q \in Clients /\ ToComeStays(q) /\ (q = p => ~StoreRow(p) /\ ~StoreAz(p))
    <2>1. new = old BY <1>8 DEF ToComeStays
    <2> QED BY <1>5, <1>6, <1>7, <1>8, <2>1
  <1>9. CASE /\ q = p /\ q \in Clients /\ Send(p) /\ ~StoreAz(p) /\ Nothing(p)
             /\ \A m \in Letter : AzToCome(p, m)' <=> command'[p] = UPDATE_AZLIST
    <2>1. messageCount'[p] = IF command'[p] = UPDATE_AZLIST THEN messageCount[p] + 1 ELSE messageCount[p]
      BY <1>9, CountsGrow
    <2>2. ~AzToCome(p, l) BY <1>9 DEF Nothing
    <2>3. AzToCome(p, l)' <=> command'[p] = UPDATE_AZLIST BY <1>9
    <2>4. new = old BY <1>2, <1>9, <2>1, <2>2, <2>3
    <2> QED BY <1>5, <1>6, <1>7, <1>9, <2>4
  <1>10. CASE /\ q = p /\ q \in Clients /\ StoreRow(p) /\ ~StoreAz(p)
              /\ \A m \in Letter : AzToCome(p, m)' <=> AzToCome(p, m)
              /\ messageCount'[p] = messageCount[p]
    <2>1. new = old BY <1>10
    <2> QED BY <1>5, <1>6, <1>7, <1>10, <2>1
  <1>11. CASE /\ q = p /\ q \in Clients /\ StoreAz(p) /\ Updating(p)
              /\ AzToCome(p, i[p] + 1) /\ i[p] + 1 \in Letter
              /\ \A m \in Letter : AzToCome(p, m)' <=> (AzToCome(p, m) /\ m # i[p] + 1)
              /\ messageCount'[p] = messageCount[p]
    <2>1. CASE l # i[p] + 1
      <3>1. new = old BY <1>11, <2>1
      <3> QED BY <1>5, <1>6, <1>7, <1>11, <2>1, <3>1
    <2>2. CASE l = i[p] + 1
      <3>1. /\ AzToCome(p, l) /\ ~AzToCome(p, l)' /\ messageCount[p] - 1 \in 0 .. messageCount[p] - 1
            /\ messageCount[p] \in 0 .. messageCount[p] /\ messageCount[p] - 1 + 1 = messageCount[p]
        BY <1>2, <1>11, <2>2 DEF Updating
      <3>2. AzAdded(q, l)' = WordsOf(p, l, messageCount[p]) BY <1>1, <1>11, <3>1, AzAddedNext
      <3>3. WordsOf(p, l, messageCount[p]) =
              WordsOf(p, l, messageCount[p] - 1) + FileWords(p, messageCount[p] - 1)[l]
        BY <3>1, WordsGrow
      <3>4. AzAdded(q, l) = WordsOf(p, l, messageCount[p] - 1) BY <1>3, <1>11, <3>1
      <3>5. buffer[p] = Ask(p)
        <4>1. Handler(p) BY <1>11 DEF Handler
        <4> QED BY <1>11, <4>1, HandlerInSession
      <3>6. buffer[p].data[l] = FileWords(p, messageCount[p] - 1)[l]
        BY <1>11, <3>5 DEF Ask, Updating
      <3> QED BY <1>5, <1>6, <1>11, <2>2, <3>2, <3>3, <3>4, <3>6
    <2> QED BY <2>1, <2>2
  <1>12. CASE q \notin Clients /\ messageCount'[q] = 0 /\ Nothing(q)'
    <2>1. new = 0 /\ 0 \in 0 .. messageCount[q] BY <1>2, <1>12 DEF Nothing
    <2> QED BY <1>1, <1>12, <2>1, AzAddedNext, NoWords
  <1> QED BY <1>8, <1>9, <1>10, <1>11, <1>12, ToComeStep

LEMMA ClientsFinite ==
  ASSUME Typed, NEW p \in Process, StepOf(p) \/ UNCHANGED vars
  PROVE  IsFiniteSet(Clients) /\ IsFiniteSet(Clients') /\ Clients \subseteq Clients'
  <1>1. Clients \subseteq Clients' /\ Clients' \subseteq Process
    BY StaysAdmitted DEF Clients, vars, server, Admitted
  <1> QED BY <1>1, ProcessFinite, FS_Subset

LEMMA RowsAddedStep ==
  ASSUME Typed, SessionInv, NEW p \in Process, StepOf(p), Undisturbed',
         NEW S \in SUBSET Clients, NEW T \in SUBSET Clients', S \subseteq T, T \cap Clients \subseteq S
  PROVE  /\ RowsAdded(S) \in Nat
         /\ SumFunctionOnSet([q \in Process |-> RowAdded(q)'], T)
              = RowsAdded(S) + (IF p \in S THEN IF StoreRow(p) THEN 1 ELSE 0 ELSE 0)
  <1> DEFINE f == [q \in Process |-> RowAdded(q)]
             g == [q \in Process |-> RowAdded(q)']
             d == IF StoreRow(p) THEN 1 ELSE 0
  <1>1. /\ IsFiniteSet(S) /\ IsFiniteSet(T)
        /\ S \subseteq Process /\ T \subseteq Process /\ S \subseteq Clients'
    BY ClientsFinite, FS_Subset DEF Clients
  <1>2. \A q \in S : f[q] \in Nat /\ g[q] = f[q] + (IF q = p THEN d ELSE 0)
    BY <1>1, RowAddedStep
  <1>3. \A q \in T \ S : g[q] = 0 BY <1>1, RowAddedStep
  <1>4. d \in Nat OBVIOUS
  <1>5. RowsAdded(S) = SumFunctionOnSet(f, S) BY DEF RowsAdded
  <1> HIDE DEF f, g, d
  <1>6. SumFunctionOnSet(f, S) \in Nat BY <1>1, <1>2, SumIsNat
  <1>7. SumFunctionOnSet(g, T) = SumFunctionOnSet(f, S) + (IF p \in S THEN d ELSE 0)
    BY <1>1, <1>2, <1>3, <1>4, SumStep
  <1> QED BY <1>5, <1>6, <1>7 DEF g, d

LEMMA RowSums ==
  ASSUME Typed, SessionInv, NEW p \in Process, StepOf(p), Undisturbed', NEW r \in Int
  PROVE  /\ RowsAdded(OfRow(r)) \in Nat /\ RowsAdded(BelowRow(r)) \in Nat
         /\ RowsAdded(OfRow(r))' = RowsAdded(OfRow(r)) + (IF StoreRow(p) /\ Id(p) = r THEN 1 ELSE 0)
         /\ RowsAdded(BelowRow(r))' \in Nat /\ RowsAdded(BelowRow(r)) <= RowsAdded(BelowRow(r))'
  <1>1. \A q \in Process : Id(q)' = Id(q) BY DEF Id
  <1>2. Clients \subseteq Clients' BY ClientsFinite
  <1>3. StoreRow(p) => p \in Clients BY StoresInSession DEF Handler
  <1>4. /\ OfRow(r) \in SUBSET Clients /\ OfRow(r)' \in SUBSET Clients' /\ OfRow(r) \subseteq OfRow(r)'
        /\ OfRow(r)' \cap Clients \subseteq OfRow(r)
        /\ p \in Clients => (p \in OfRow(r) <=> Id(p) = r)
    BY <1>1, <1>2 DEF OfRow, Clients
  <1>5. /\ BelowRow(r) \in SUBSET Clients /\ BelowRow(r)' \in SUBSET Clients'
        /\ BelowRow(r) \subseteq BelowRow(r)' /\ BelowRow(r)' \cap Clients \subseteq BelowRow(r)
    BY <1>1, <1>2 DEF BelowRow, Clients
  <1>6. /\ RowsAdded(OfRow(r))' = SumFunctionOnSet([q \in Process |-> RowAdded(q)'], OfRow(r)')
        /\ RowsAdded(BelowRow(r))' = SumFunctionOnSet([q \in Process |-> RowAdded(q)'], BelowRow(r)')
    BY DEF RowsAdded
  <1>7. /\ RowsAdded(OfRow(r)) \in Nat
        /\ RowsAdded(OfRow(r))'
             = RowsAdded(OfRow(r)) + (IF p \in OfRow(r) THEN IF StoreRow(p) THEN 1 ELSE 0 ELSE 0)
    BY <1>4, <1>6, RowsAddedStep
  <1>8. /\ RowsAdded(BelowRow(r)) \in Nat
        /\ RowsAdded(BelowRow(r))'
             = RowsAdded(BelowRow(r)) + (IF p \in BelowRow(r) THEN IF StoreRow(p) THEN 1 ELSE 0 ELSE 0)
    BY <1>5, <1>6, RowsAddedStep
  <1>9. (p \in OfRow(r) /\ StoreRow(p)) <=> (StoreRow(p) /\ Id(p) = r) BY <1>3, <1>4
  <1> QED BY <1>7, <1>8, <1>9

LEMMA AzSums ==
  ASSUME Typed, SessionInv, NEW p \in Process, StepOf(p), Undisturbed', NEW l \in Letter
  PROVE  /\ AllAzAdded(l) \in Nat /\ buffer[p].data[l] \in Nat
         /\ AllAzAdded(l)' = AllAzAdded(l) + (IF StoreAz(p) /\ i[p] + 1 = l THEN buffer[p].data[l] ELSE 0)
  <1> DEFINE f == [q \in Process |-> AzAdded(q, l)]
             g == [q \in Process |-> AzAdded(q, l)']
             d == IF StoreAz(p) /\ i[p] + 1 = l THEN buffer[p].data[l] ELSE 0
  <1>1. /\ IsFiniteSet(Clients) /\ IsFiniteSet(Clients') /\ Clients \subseteq Clients'
        /\ Clients \subseteq Process /\ Clients' \subseteq Process
    BY ClientsFinite DEF Clients
  <1>2. buffer[p].data[l] \in Nat
    BY DEF Typed, ThreadInv, ThreadTyped, RealRequest, Request, NoRequest, Zeros
  <1>3. d \in Nat BY <1>2
  <1>4. \A q \in Clients : f[q] \in Nat /\ g[q] = f[q] + (IF q = p THEN d ELSE 0)
    BY <1>1, AzAddedStep, UndisturbedLive
  <1>5. \A q \in Clients' \ Clients : g[q] = 0 BY <1>1, AzAddedStep, UndisturbedLive
  <1>6. AllAzAdded(l) = SumFunctionOnSet(f, Clients) /\ AllAzAdded(l)' = SumFunctionOnSet(g, Clients')
    BY DEF AllAzAdded
  <1>7. StoreAz(p) => p \in Clients BY StoresInSession DEF Handler
  <1> HIDE DEF f, g, d
  <1>8. SumFunctionOnSet(f, Clients) \in Nat BY <1>1, <1>4, SumIsNat
  <1>9. SumFunctionOnSet(g, Clients') = SumFunctionOnSet(f, Clients) + (IF p \in Clients THEN d ELSE 0)
    BY <1>1, <1>3, <1>4, <1>5, SumStep
  <1>10. p \notin Clients => d = 0 BY <1>7 DEF d
  <1> QED BY <1>2, <1>6, <1>8, <1>9, <1>10 DEF d

(***************************************************************************)
(* The updates counted in the rows.                                        *)
(***************************************************************************)
LEMMA NoHandler ==
  ASSUME Typed, NEW p \in Process, StepOf(p), ~Handler(p)
  PROVE  /\ UNCHANGED <<azList, numUpdates, reg, i, crossed>>
         /\ tpc'[p] \in {"storeRow", "storeAz"} => tpc'[p] = tpc[p]
         /\ tpc'[p] \in {"sum", "copy"} => tpc'[p] = tpc[p] \/ (tpc[p] = "read" /\ i[p] = 0 /\ reg[p] = 0)
  <1>1. tpc \in [Process -> TStates] /\ ThreadOk(p) BY DEF Typed, Connections, ConnInv, ThreadInv
  <1>2. CASE ThreadStep(p)
    <2>1. Read(p) \/ Reply(p) \/ Sigpipe(p) \/ CloseSocket(p)
      BY <1>2 DEF ThreadStep, Thread, Handler
    <2>2. UNCHANGED <<azList, numUpdates, reg, i, crossed>>
      BY <2>1 DEF Read, Reply, Sigpipe, CloseSocket, shared
    <2>3. CASE Read(p)
      <3>1. tpc[p] = "read" BY <2>3 DEF Read, At
      <3>2. tpc'[p] \notin {"storeRow", "storeAz"} BY <1>1, <2>3 DEF Read, Goto, Dispatch
      <3> QED BY <1>1, <2>2, <3>1, <3>2 DEF ThreadOk
    <2>4. CASE ~Read(p)
      <3>1. tpc'[p] \in {tpc[p], "close", "read", "exit"}
        BY <1>1, <2>1, <2>4 DEF Reply, Sigpipe, CloseSocket, Goto
      <3> QED BY <2>2, <3>1
    <2> QED BY <2>3, <2>4
  <1>3. CASE ~ThreadStep(p)
    <2>1. /\ UNCHANGED <<azList, numUpdates, reg, i, crossed>>
          /\ tpc' = tpc \/ tpc' = [tpc EXCEPT ![p] = "read"]
      BY <1>3 DEF StepOf, Admit, TurnAway, ClientStep, FaultStep, server, shared
    <2> QED BY <1>1, <2>1
  <1> QED BY <1>2, <1>3

LEMMA RowTyped ==
  ASSUME Typed, NEW t \in Clients
  PROVE  /\ t \in Process /\ Id(t) \in Row /\ Id(t) \in Int /\ reg[t] \in Nat /\ i[t] \in Nat
         /\ messageCount[t] \in Nat
         /\ numUpdates \in [Row -> Nat] /\ reg \in [Process -> Nat] /\ i \in [Process -> Nat]
         /\ azList \in [Letter -> Nat] /\ tpc \in [Process -> TStates]
         /\ tpc[t] = "sum" => i[t] \in Row
         /\ LastRowSummed = Rows - 1 /\ Rows \in Nat /\ NumLetters \in Nat /\ LastLetter = NumLetters
  <1>1. t \in Process /\ Admitted(t) BY DEF Clients
  <1>2. Id(t) \in Row /\ messageCount[t] \in Nat BY <1>1, InService
  <1>3. Rows \in Nat /\ NumLetters \in Nat BY ProtocolAssumption
  <1>4. tpc[t] = "sum" => i[t] < Rows BY <1>1 DEF Typed, ThreadInv, ThreadOk
  <1> QED BY <1>1, <1>2, <1>3, <1>4
          DEF Row, LastRowSummed, LastLetter, Typed, ThreadInv, ThreadTyped, Connections, ConnInv

LEMMA RowCountedStep ==
  ASSUME Typed, SessionInv, RowCountInv, NEW p \in Process, StepOf(p), Undisturbed', NEW r \in Row
  PROVE  RowCounted(r)'
  <1>1. /\ Undisturbed /\ RowCounted(r) /\ r \in Int
        /\ \A t \in Clients : tpc[t] = "storeRow" => RowLoaded(t)
    BY StaysDisturbed DEF RowCountInv, Row
  <1>2. /\ RowsAdded(OfRow(r)) \in Nat
        /\ RowsAdded(OfRow(r))' = RowsAdded(OfRow(r)) + (IF StoreRow(p) /\ Id(p) = r THEN 1 ELSE 0)
    BY <1>1, RowSums
  <1>3. numUpdates[r] \in Nat /\ crossedRow \subseteq crossedRow'
    <2>1. crossedRow' = crossedRow \/ LoadRow(p) BY NoHandler DEF Handler, Checkin, Copy, Own, Sum, StoreRow,
            LoadAz, StoreAz, Checkout, crossed
    <2> QED BY <2>1 DEF LoadRow, Typed, ThreadInv, ThreadTyped
  <1>4. CASE StoreRow(p)
    <2>1. p \in Clients /\ buffer[p].pid = Id(p) BY <1>4, StoresInSession DEF Handler
    <2>2. /\ tpc[p] = "storeRow" /\ crossedRow' = crossedRow
          /\ numUpdates' = [numUpdates EXCEPT ![Id(p)] = reg[p] + 1]
      BY <1>4, <2>1 DEF StoreRow, Handle, At, crossed
    <2>3. RowLoaded(p) /\ reg[p] \in Nat BY <1>1, <2>1, <2>2, RowTyped
    <2>4. numUpdates'[r] = IF r = Id(p) THEN reg[p] + 1 ELSE numUpdates[r] BY <2>1, <2>2, RowTyped
    <2>5. CASE r = Id(p)
      <3>1. reg[p] <= RowsAdded(OfRow(r)) /\ (r \notin crossedRow => reg[p] = RowsAdded(OfRow(r)))
        BY <1>1, <2>3, <2>5 DEF RowLoaded, RowCounted
      <3>2. numUpdates'[r] = reg[p] + 1 /\ RowsAdded(OfRow(r))' = RowsAdded(OfRow(r)) + 1
        BY <1>2, <1>4, <2>4, <2>5
      <3> QED BY <1>2, <2>2, <2>3, <3>1, <3>2 DEF RowCounted
    <2>6. CASE r # Id(p)
      <3>1. numUpdates'[r] = numUpdates[r] /\ RowsAdded(OfRow(r))' = RowsAdded(OfRow(r))
        BY <1>2, <2>4, <2>6
      <3> QED BY <1>1, <2>2, <3>1 DEF RowCounted
    <2> QED BY <2>5, <2>6
  <1>5. CASE ~StoreRow(p)
    <2>1. numUpdates' = numUpdates
      BY <1>5, NoHandler DEF Handler, Checkin, Copy, Own, Sum, LoadRow, LoadAz, StoreAz, Checkout, shared
    <2>2. RowsAdded(OfRow(r))' = RowsAdded(OfRow(r)) BY <1>2, <1>5
    <2> QED BY <1>1, <1>3, <2>1, <2>2 DEF RowCounted
  <1> QED BY <1>4, <1>5

LEMMA RowLoadedStep ==
  ASSUME Typed, SessionInv, RowCountInv, NEW p \in Process, StepOf(p), Undisturbed',
         NEW t \in Clients', tpc'[t] = "storeRow"
  PROVE  RowLoaded(t)'
  <1>1. /\ Undisturbed
        /\ \A r \in Row : RowCounted(r)
        /\ \A u \in Clients : tpc[u] = "storeRow" => RowLoaded(u)
    BY StaysDisturbed DEF RowCountInv
  <1>2. \A q \in Process : Id(q)' = Id(q) BY DEF Id
  <1>3. t \in Clients /\ (t # p => tpc[t] = "storeRow" /\ reg'[t] = reg[t])
    <2>1. CASE t # p BY <2>1, SessionsStay DEF Same, SameThread
    <2>2. CASE t = p
      <3>1. CASE Handler(p) BY <2>2, <3>1, StoresInSession
      <3>2. CASE ~Handler(p) BY <2>2, <3>2, NoHandler DEF Clients, Admitted
      <3> QED BY <2>2, <3>1, <3>2
    <2> QED BY <2>1, <2>2
  <1> DEFINE r == Id(t)
  <1>4. r \in Row /\ r \in Int /\ numUpdates[r] \in Nat /\ reg[t] \in Nat /\ crossedRow \subseteq crossedRow'
    <2>1. crossedRow' = crossedRow \/ LoadRow(p)
      BY NoHandler DEF Handler, Checkin, Copy, Own, Sum, StoreRow, LoadAz, StoreAz, Checkout, crossed
    <2> QED BY <1>3, <2>1, RowTyped DEF LoadRow
  <1>5. RowsAdded(OfRow(r)) \in Nat /\ RowsAdded(OfRow(r)) <= RowsAdded(OfRow(r))'
        /\ RowsAdded(OfRow(r))' \in Nat
    <2> HIDE DEF r
    <2> QED BY <1>4, RowSums
  <1>6. CASE LoadRow(p)
    <2>1. p \in Clients /\ buffer[p].pid = Id(p) BY <1>6, StoresInSession DEF Handler
    <2>2. /\ numUpdates' = numUpdates /\ reg' = [reg EXCEPT ![p] = numUpdates[Id(p)]]
          /\ crossedRow' = crossedRow \cup
               {x \in {Id(p)} : \E u \in Process : tpc[u] = "storeRow" /\ buffer[u].pid = x}
          /\ tpc[p] = "loadRow" /\ tpc' = [tpc EXCEPT ![p] = "storeRow"]
      BY <1>6, <2>1 DEF LoadRow, Handle, At, Goto, shared
    <2>3. ASSUME NEW u \in Process, tpc[u] = "storeRow", Id(u) = Id(p)  PROVE Id(p) \in crossedRow'
      <3>1. u \in Clients BY <2>3 DEF Clients, Admitted
      <3>2. Session(u) BY <1>1, <3>1 DEF SessionInv, Undisturbed, Live, Clients
      <3>3. InHandler(u) BY <2>3, <3>2, PhaseIs DEF Handling, TStates
      <3>4. buffer[u].pid = Id(p) BY <2>3, <3>3 DEF InHandler, Ask
      <3> QED BY <2>2, <2>3, <3>4
    <2>4. \A u \in Process \ {p} : tpc'[u] = "storeRow" <=> tpc[u] = "storeRow"
      BY <2>1, <2>2, RowTyped
    <2>5. CASE t = p
      <3>1. reg'[t] = numUpdates[r] /\ numUpdates'[r] = numUpdates[r] BY <2>1, <2>2, <2>5, RowTyped
      <3>2. reg'[t] <= RowsAdded(OfRow(r)) BY <1>1, <1>4, <3>1 DEF RowCounted
      <3>3. reg'[t] <= RowsAdded(OfRow(r))' BY <1>4, <1>5, <3>1, <3>2
      <3> HIDE DEF r
      <3>4. Id(t)' = r BY <1>2, <1>3 DEF Clients, r
      <3>5. \A u \in Process \ {t} : tpc'[u] = "storeRow" /\ Id(u)' = r => r \in crossedRow'
        BY <1>2, <2>3, <2>4, <2>5 DEF r
      <3> QED BY <1>2, <3>1, <3>3, <3>4, <3>5 DEF RowLoaded, r
    <2>6. CASE t # p
      <3>1. RowLoaded(t) /\ tpc[t] = "storeRow" /\ reg'[t] = reg[t] BY <1>1, <1>3, <2>6
      <3>2. reg'[t] <= RowsAdded(OfRow(r))' BY <1>4, <1>5, <3>1 DEF RowLoaded
      <3>3. r \notin crossedRow' => reg'[t] = numUpdates'[r] BY <1>4, <2>2, <3>1 DEF RowLoaded
      <3>4. ASSUME NEW u \in Process \ {t}, tpc'[u] = "storeRow", Id(u)' = r  PROVE r \in crossedRow'
        <4>1. CASE u = p BY <1>2, <1>3, <2>3, <3>1, <3>4, <4>1 DEF Clients
        <4>2. CASE u # p BY <1>2, <1>4, <2>4, <3>1, <3>4, <4>2 DEF RowLoaded
        <4> QED BY <4>1, <4>2
      <3>5. Id(t)' = r BY <1>2, <1>3 DEF Clients
      <3> HIDE DEF r
      <3> QED BY <1>2, <3>2, <3>3, <3>4, <3>5 DEF RowLoaded, r
    <2> QED BY <2>5, <2>6
  <1>7. CASE ~LoadRow(p)
    <2>1. /\ crossedRow' = crossedRow /\ tpc[t] = "storeRow" /\ reg'[t] = reg[t]
          /\ \A u \in Process : tpc'[u] = "storeRow" => tpc[u] = "storeRow"
      <3>1. /\ tpc'[p] = "storeRow" => tpc[p] = "storeRow" /\ reg'[p] = reg[p]
            /\ crossedRow' = crossedRow
        <4>1. CASE Handler(p)
          BY <1>7, <4>1 DEF Handler, Checkin, Copy, Own, Sum, StoreRow, LoadAz, StoreAz, Checkout,
             Handle, At, Goto, crossed, Typed, Connections, ConnInv
        <4>2. CASE ~Handler(p) BY <4>2, NoHandler DEF crossed
        <4> QED BY <4>1, <4>2
      <3>2. ASSUME NEW u \in Process, u # p, tpc'[u] = "storeRow"  PROVE tpc[u] = "storeRow"
        <4>1. u \in Clients' BY <3>2 DEF Clients, Admitted
        <4> QED BY <3>2, <4>1, SessionsStay DEF Same, SameThread
      <3> QED BY <1>3, <3>1, <3>2
    <2>2. RowLoaded(t) BY <1>1, <1>3, <2>1
    <2>3. r \notin crossedRow => numUpdates'[r] = numUpdates[r]
      <3>1. CASE StoreRow(p)
        <4>1. p \in Clients /\ buffer[p].pid = Id(p) BY <3>1, StoresInSession DEF Handler
        <4>2. /\ tpc[p] = "storeRow" /\ tpc'[p] = "loadAz"
              /\ numUpdates' = [numUpdates EXCEPT ![Id(p)] = reg[p] + 1]
          BY <3>1, <4>1, RowTyped DEF StoreRow, Handle, At, Goto
        <4>3. Id(p) = r => r \in crossedRow BY <2>2, <4>2 DEF RowLoaded
        <4> QED BY <1>4, <4>1, <4>2, <4>3, RowTyped
      <3>2. CASE ~StoreRow(p)
        BY <1>7, <3>2, NoHandler DEF Handler, Checkin, Copy, Own, Sum, LoadAz, StoreAz, Checkout, shared
      <3> QED BY <3>1, <3>2
    <2>4. reg'[t] <= RowsAdded(OfRow(r))' BY <1>4, <1>5, <2>1, <2>2 DEF RowLoaded
    <2>5. r \notin crossedRow' => reg'[t] = numUpdates'[r] BY <2>1, <2>2, <2>3 DEF RowLoaded
    <2>6. \A u \in Process \ {t} : tpc'[u] = "storeRow" /\ Id(u)' = r => r \in crossedRow'
      BY <1>2, <2>1, <2>2 DEF RowLoaded
    <2>7. Id(t)' = r BY <1>2, <1>3 DEF Clients
    <2> HIDE DEF r
    <2> QED BY <1>2, <2>4, <2>5, <2>6, <2>7 DEF RowLoaded, r
  <1> QED BY <1>6, <1>7

LEMMA BelowNext ==
  ASSUME Typed, NEW p \in Process, StepOf(p) \/ UNCHANGED vars, NEW r \in Int,
         \A q \in Clients : RowAdded(q) \in Nat
  PROVE  RowsAdded(BelowRow(r + 1)) = RowsAdded(BelowRow(r)) + RowsAdded(OfRow(r))
  <1>1. \A q \in Clients : q \in Process /\ Id(q) \in Int BY InService DEF Clients, Row
  <1>2. BelowRow(r + 1) = BelowRow(r) \cup OfRow(r) /\ BelowRow(r) \cap OfRow(r) = {}
    BY <1>1 DEF BelowRow, OfRow
  <1>3. IsFiniteSet(BelowRow(r)) /\ IsFiniteSet(OfRow(r))
    <2>1. BelowRow(r) \subseteq Clients /\ OfRow(r) \subseteq Clients BY DEF BelowRow, OfRow
    <2> QED BY <2>1, ClientsFinite, FS_Subset
  <1> DEFINE f == [q \in Process |-> RowAdded(q)]
  <1>4. \A q \in BelowRow(r) \cup OfRow(r) : f[q] \in Nat BY <1>1 DEF BelowRow, OfRow
  <1>5. \A S : RowsAdded(S) = SumFunctionOnSet(f, S) BY DEF RowsAdded
  <1> HIDE DEF f
  <1>6. SumFunctionOnSet(f, BelowRow(r) \cup OfRow(r))
          = SumFunctionOnSet(f, BelowRow(r)) + SumFunctionOnSet(f, OfRow(r))
    BY <1>2, <1>3, <1>4, SumJoins
  <1> QED BY <1>2, <1>5, <1>6

\* A row more in the sum of GET_ALL_UPDATES.
LEMMA SumsNextRow ==
  ASSUME Typed, SessionInv, RowCountInv, NEW p \in Process, StepOf(p), Undisturbed', Sum(p),
         NEW n \in Int, n = i[p] + 1
  PROVE  /\ p \in Clients /\ messageCount'[p] = messageCount[p]
         /\ reg[p] + numUpdates[i[p]] \in Nat
         /\ reg[p] + numUpdates[i[p]] <= RowsAdded(BelowRow(n))
         /\ Id(p) < n /\ Id(p) \notin crossedRow => messageCount[p] <= reg[p] + numUpdates[i[p]]
  <1>1. /\ p \in Clients /\ Session(p) /\ InHandler(p) /\ UNCHANGED clients
    BY StoresInSession DEF Handler
  <1>2. tpc[p] = "sum" BY DEF Sum, Handle, At
  <1>3. PICK r \in Row : r = i[p] BY <1>1, <1>2, RowTyped
  <1>4. r \in Int /\ n = r + 1 BY <1>3 DEF Row
  <1>5. /\ numUpdates[r] \in Nat /\ reg[p] \in Nat /\ messageCount[p] \in Nat /\ Id(p) \in Int
    BY <1>1, RowTyped
  <1>6. RowsSummed(p) /\ RowCounted(r)
    BY <1>1, <1>2, StaysDisturbed DEF RowCountInv
  <1>7. \A q \in Clients : RowAdded(q) \in Nat
    <2>1. Clients \subseteq Clients' BY ClientsFinite
    <2> QED BY <2>1, RowAddedStep
  <1>8. /\ RowsAdded(BelowRow(n)) = RowsAdded(BelowRow(r)) + RowsAdded(OfRow(r))
        /\ RowsAdded(BelowRow(r)) \in Nat /\ RowsAdded(OfRow(r)) \in Nat
    BY <1>4, <1>7, BelowNext, RowSums
  <1>9. reg[p] <= RowsAdded(BelowRow(r)) /\ numUpdates[r] <= RowsAdded(OfRow(r))
    BY <1>3, <1>6 DEF RowsSummed, RowCounted
  <1>10. command[p] = GET_ALL_UPDATES
    <2>1. buffer[p].command = GET_ALL_UPDATES BY <1>2 DEF Typed, ThreadInv, ThreadOk, HandlerOf
    <2> QED BY <1>1, <2>1 DEF InHandler, Ask
  <1>11. ASSUME Id(p) < n, Id(p) \notin crossedRow  PROVE messageCount[p] <= reg[p] + numUpdates[r]
    <2>1. CASE Id(p) < r
      <3>1. messageCount[p] <= reg[p] BY <1>3, <1>6, <1>11, <2>1 DEF RowsSummed
      <3> QED BY <1>5, <3>1
    <2>2. CASE Id(p) = r
      <3>1. numUpdates[r] = RowsAdded(OfRow(r)) BY <1>6, <1>11, <2>2 DEF RowCounted
      <3>2. RowAdded(p) = messageCount[p]
        BY <1>10 DEF RowAdded, RowToCome, Updating, GET_ALL_UPDATES, UPDATE_AZLIST
      <3>3. p \in OfRow(r) /\ OfRow(r) \subseteq Clients BY <1>1, <2>2 DEF OfRow
      <3>4. RowAdded(p) <= RowsAdded(OfRow(r))
        <4> DEFINE f == [q \in Process |-> RowAdded(q)]
        <4>1. \A q \in OfRow(r) : f[q] \in Nat BY <1>7, <3>3 DEF Clients
        <4>2. IsFiniteSet(OfRow(r)) BY <3>3, ClientsFinite, FS_Subset
        <4>3. f[p] = RowAdded(p) /\ RowsAdded(OfRow(r)) = SumFunctionOnSet(f, OfRow(r))
          BY DEF RowsAdded
        <4> HIDE DEF f
        <4> QED BY <3>3, <4>1, <4>2, <4>3, SumCoversElement
      <3> QED BY <1>5, <3>1, <3>2, <3>4
    <2>3. Id(p) < r \/ Id(p) = r BY <1>4, <1>5, <1>11
    <2> QED BY <2>1, <2>2, <2>3
  <1>12. reg[p] + numUpdates[r] \in Nat /\ reg[p] + numUpdates[r] <= RowsAdded(BelowRow(n))
    BY <1>5, <1>8, <1>9
  <1> QED BY <1>1, <1>3, <1>11, <1>12 DEF clients

LEMMA RowsSummedStep ==
  ASSUME Typed, SessionInv, RowCountInv, NEW p \in Process, StepOf(p), Undisturbed',
         NEW t \in Clients', tpc'[t] = "sum"
  PROVE  RowsSummed(t)'
  <1>1. /\ Undisturbed
        /\ \A r \in Row : RowCounted(r)
        /\ \A u \in Clients : tpc[u] = "sum" => RowsSummed(u)
    BY StaysDisturbed DEF RowCountInv
  <1>2. t \in Clients /\ (t # p => tpc[t] = "sum" /\ reg'[t] = reg[t] /\ i'[t] = i[t]
                                   /\ messageCount'[t] = messageCount[t])
    <2>1. CASE t # p BY <2>1, SessionsStay DEF Same, SameThread, SameClient
    <2>2. CASE t = p
      <3>1. CASE Handler(p) BY <2>2, <3>1, StoresInSession
      <3>2. CASE ~Handler(p) BY <2>2, <3>2, NoHandler DEF Clients, Admitted
      <3> QED BY <2>2, <3>1, <3>2
    <2> QED BY <2>1, <2>2
  <1>3. Id(t)' = Id(t) BY DEF Id
  <1>4. /\ Id(t) \in Row /\ Id(t) \in Int /\ reg[t] \in Nat /\ i[t] \in Nat /\ messageCount[t] \in Nat
        /\ crossedRow \subseteq crossedRow'
    <2>1. crossedRow' = crossedRow \/ LoadRow(p)
      BY NoHandler DEF Handler, Checkin, Copy, Own, Sum, StoreRow, LoadAz, StoreAz, Checkout, crossed
    <2> QED BY <1>2, <2>1, RowTyped DEF LoadRow
  <1>5. ASSUME tpc[t] = "sum", reg'[t] = reg[t], i'[t] = i[t], messageCount'[t] = messageCount[t]
        PROVE  RowsSummed(t)'
    <2>1. RowsSummed(t) BY <1>1, <1>2, <1>5
    <2>0. PICK n \in Int : n = i[t] BY <1>4
    <2>2. RowsAdded(BelowRow(n))' = RowsAdded(BelowRow(i[t]))' BY <1>5, <2>0 DEF BelowRow, RowsAdded
    <2>3. RowsAdded(BelowRow(n)) \in Nat /\ RowsAdded(BelowRow(n))' \in Nat
          /\ RowsAdded(BelowRow(n)) <= RowsAdded(BelowRow(n))'
      BY RowSums
    <2>4. reg'[t] <= RowsAdded(BelowRow(i[t]))' BY <1>4, <1>5, <2>0, <2>1, <2>2, <2>3 DEF RowsSummed
    <2> QED BY <1>3, <1>4, <1>5, <2>1, <2>4 DEF RowsSummed
  <1>6. CASE t = p /\ ~Handler(p) /\ tpc[p] = "sum"
    <2>1. reg' = reg /\ i' = i BY <1>6, NoHandler
    <2>2. messageCount'[p] = messageCount[p]
      <3>1. Session(p) BY <1>1, <1>2, <1>6 DEF SessionInv, Undisturbed, Live, Clients
      <3>2. InHandler(p) BY <1>2, <1>6, <3>1, PhaseIs DEF Handling, TStates
      <3>3. ~Send(p) BY <3>2 DEF InHandler, Send
      <3> QED BY <3>3, CountsGrow
    <2> QED BY <1>5, <1>6, <2>1, <2>2
  <1>7. CASE t = p /\ ~Handler(p) /\ tpc[p] # "sum"
    <2>1. reg'[p] = 0 /\ i'[p] = 0 BY <1>7, NoHandler
    <2>2. RowsAdded(BelowRow(0))' \in Nat BY RowSums
    <2>3. RowsAdded(BelowRow(0))' = RowsAdded(BelowRow(i[p]))' BY <2>1 DEF RowsAdded, BelowRow
    <2>4. ~(Id(p) < 0) BY <1>4, <1>7 DEF Row
    <2> QED BY <1>3, <1>7, <2>1, <2>2, <2>3, <2>4 DEF RowsSummed
  <1>8. CASE t = p /\ Handler(p)
    <2>1. Sum(p)
      BY <1>8 DEF Handler, Checkin, Copy, Own, LoadRow, StoreRow, LoadAz, StoreAz, Checkout, Handle,
         At, Goto, Typed, Connections, ConnInv
    <2>2. i[p] # Rows - 1 BY <1>2, <1>8, <2>1, RowTyped DEF Sum, Handle, At, Goto
    <2>3. /\ i'[p] = i[p] + 1 /\ reg'[p] = reg[p] + numUpdates[i[p]] /\ crossedRow' = crossedRow
      BY <1>2, <1>8, <2>1, <2>2, RowTyped DEF Sum, crossed
    <2>4. PICK n \in Int : n = i[p] + 1 BY <1>4, <1>8
    <2>5. /\ reg'[p] \in Nat /\ reg'[p] <= RowsAdded(BelowRow(n))
          /\ Id(p) < n /\ Id(p) \notin crossedRow => messageCount[p] <= reg'[p]
          /\ messageCount'[p] = messageCount[p]
      BY <2>1, <2>3, <2>4, SumsNextRow
    <2>6. RowsAdded(BelowRow(n)) \in Nat /\ RowsAdded(BelowRow(n))' \in Nat
          /\ RowsAdded(BelowRow(n)) <= RowsAdded(BelowRow(n))'
      BY RowSums
    <2>7. RowsAdded(BelowRow(n))' = RowsAdded(BelowRow(i[p]))'
      BY <2>3, <2>4 DEF RowsAdded, BelowRow
    <2>8. reg'[p] <= RowsAdded(BelowRow(i[p]))' BY <2>5, <2>6, <2>7
    <2> QED BY <1>3, <1>8, <2>3, <2>4, <2>5, <2>8 DEF RowsSummed
  <1> QED BY <1>2, <1>5, <1>6, <1>7, <1>8

LEMMA RowCountStep ==
  ASSUME Typed, SessionInv, RowCountInv, [Next]_vars
  PROVE  RowCountInv'
  <1>1. CASE UNCHANGED vars
    <2>1. UNCHANGED <<sockets, server, clients>> BY <1>1 DEF vars
    <2> QED BY <2>1 DEF RowCountInv, RowCounted, RowLoaded, RowsSummed, RowsAdded, RowAdded,
         RowToCome, Updating, OfRow, BelowRow, Clients, Admitted, Undisturbed, Id, sockets, server,
         shared, crossed, clients
  <1>2. CASE \E p \in Process : StepOf(p)
    BY <1>2, RowCountedStep, RowLoadedStep, RowsSummedStep DEF RowCountInv
  <1> QED BY <1>1, <1>2, StepIsOfOne

LEMMA RowCountInit == Init => RowCountInv
  <1> SUFFICES ASSUME Init  PROVE RowCountInv OBVIOUS
  <1>1. Clients = {} BY DEF Init, ServerInit, Clients, Admitted
  <1>2. \A r \in Row : RowsAdded(OfRow(r)) = 0
    <2>1. \A r : OfRow(r) = {} BY <1>1 DEF OfRow
    <2> QED BY <2>1, SumOfNone DEF RowsAdded
  <1>3. \A r \in Row : numUpdates[r] = 0 BY DEF Init, ServerInit
  <1> QED BY <1>1, <1>2, <1>3 DEF RowCountInv, RowCounted

(***************************************************************************)
(* The words counted in the list.                                          *)
(***************************************************************************)
LEMMA CrossedGrow ==
  ASSUME Typed, NEW p \in Process, StepOf(p)
  PROVE  /\ crossedRow \subseteq crossedRow' /\ crossedAz \subseteq crossedAz'
         /\ ~LoadAz(p) => crossedAz' = crossedAz
         /\ ~LoadRow(p) => crossedRow' = crossedRow
  <1>1. crossedRow' = crossedRow \/ LoadRow(p)
    BY NoHandler DEF Handler, Checkin, Copy, Own, Sum, StoreRow, LoadAz, StoreAz, Checkout, crossed
  <1>2. crossedAz' = crossedAz \/ LoadAz(p)
    BY NoHandler DEF Handler, Checkin, Copy, Own, Sum, LoadRow, StoreRow, StoreAz, Checkout, crossed
  <1> QED BY <1>1, <1>2 DEF LoadRow, LoadAz

LEMMA AzCountedStep ==
  ASSUME Typed, SessionInv, AzCountInv, NEW p \in Process, StepOf(p), Undisturbed', NEW l \in Letter
  PROVE  AzCounted(l)'
  <1>1. /\ Undisturbed /\ AzCounted(l)
        /\ \A t \in Clients : tpc[t] = "storeAz" => AzLoaded(t)
    BY StaysDisturbed DEF AzCountInv
  <1>2. /\ AllAzAdded(l) \in Nat /\ buffer[p].data[l] \in Nat
        /\ AllAzAdded(l)' = AllAzAdded(l) + (IF StoreAz(p) /\ i[p] + 1 = l THEN buffer[p].data[l] ELSE 0)
    BY AzSums
  <1>3. /\ azList \in [Letter -> Nat] /\ reg \in [Process -> Nat] /\ tpc \in [Process -> TStates]
        /\ crossedAz \subseteq crossedAz'
    BY CrossedGrow DEF Typed, ThreadInv, ThreadTyped, Connections, ConnInv
  <1>4. CASE StoreAz(p) /\ i[p] + 1 = l
    <2>1. p \in Clients BY <1>4, StoresInSession DEF Handler
    <2>2. /\ tpc[p] = "storeAz" /\ crossedAz' = crossedAz
          /\ azList'[l] = reg[p] + buffer[p].data[l]
      BY <1>3, <1>4 DEF StoreAz, Handle, At, crossed
    <2>3. reg[p] <= AllAzAdded(l) /\ (l \notin crossedAz => reg[p] = AllAzAdded(l)) /\ reg[p] \in Nat
      BY <1>1, <1>3, <1>4, <2>1, <2>2 DEF AzLoaded, AzCounted
    <2>4. AllAzAdded(l)' = AllAzAdded(l) + buffer[p].data[l] BY <1>2, <1>4
    <2>5. azList'[l] <= AllAzAdded(l)' BY <1>2, <2>2, <2>3, <2>4
    <2>6. l \notin crossedAz' => azList'[l] = AllAzAdded(l)' BY <2>2, <2>3, <2>4
    <2> QED BY <2>5, <2>6 DEF AzCounted
  <1>5. CASE ~(StoreAz(p) /\ i[p] + 1 = l)
    <2>1. azList'[l] = azList[l]
      <3>1. CASE StoreAz(p) BY <1>3, <1>5, <3>1 DEF StoreAz
      <3>2. CASE ~StoreAz(p)
        BY <3>2, NoHandler DEF Handler, Checkin, Copy, Own, Sum, LoadRow, StoreRow, LoadAz, Checkout, shared
      <3> QED BY <3>1, <3>2
    <2>2. AllAzAdded(l)' = AllAzAdded(l) BY <1>2, <1>5
    <2> QED BY <1>1, <1>3, <2>1, <2>2 DEF AzCounted
  <1> QED BY <1>4, <1>5

LEMMA AzLoadedStep ==
  ASSUME Typed, SessionInv, AzCountInv, NEW p \in Process, StepOf(p), Undisturbed',
         NEW t \in Clients', tpc'[t] = "storeAz"
  PROVE  AzLoaded(t)'
  <1>1. /\ Undisturbed
        /\ \A l \in Letter : AzCounted(l)
        /\ \A u \in Clients : tpc[u] = "storeAz" => AzLoaded(u)
    BY StaysDisturbed DEF AzCountInv
  <1>2. t \in Clients /\ i'[t] = i[t] /\ (t # p => tpc[t] = "storeAz" /\ reg'[t] = reg[t])
    <2>1. CASE t # p BY <2>1, SessionsStay DEF Same, SameThread
    <2>2. CASE t = p
      <3>1. CASE Handler(p)
        <4>1. t \in Clients BY <2>2, <3>1, StoresInSession
        <4>2. LoadAz(p)
          BY <2>2, <3>1, <4>1, RowTyped DEF Handler, Checkin, Copy, Own, Sum, LoadRow, StoreRow, StoreAz,
             Checkout, Handle, At, Goto
        <4> QED BY <2>2, <4>1, <4>2 DEF LoadAz
      <3>2. CASE ~Handler(p) BY <2>2, <3>2, NoHandler DEF Clients, Admitted
      <3> QED BY <2>2, <3>1, <3>2
    <2> QED BY <2>1, <2>2
  <1>3. PICK l \in Letter : l = i[t] + 1
    <2>1. i'[t] \in Nat /\ i'[t] < NumLetters
      <3>1. ThreadOk(t)' BY <1>2, ThreadInvStep, StepIsOfOne DEF Clients, ThreadInv
      <3> QED BY <1>2, <3>1, RowTyped DEF ThreadOk
    <2> QED BY <1>2, <2>1, RowTyped DEF Letter
  <1>4. /\ azList[l] \in Nat /\ reg[t] \in Nat /\ i[t] \in Nat
        /\ azList \in [Letter -> Nat] /\ reg \in [Process -> Nat] /\ tpc \in [Process -> TStates]
        /\ crossedAz \subseteq crossedAz'
    BY <1>2, CrossedGrow, RowTyped
  <1>5. AllAzAdded(l) \in Nat /\ AllAzAdded(l) <= AllAzAdded(l)' /\ AllAzAdded(l)' \in Nat
    BY AzSums
  <1>6. AllAzAdded(i[t] + 1)' = AllAzAdded(l)' /\ i'[t] + 1 = l
    <2>1. i'[t] + 1 = l BY <1>2, <1>3
    <2> QED BY <2>1 DEF AllAzAdded, AzAdded, AzToCome, WordsOf
  <1>7. ASSUME reg'[t] <= AllAzAdded(l)', l \notin crossedAz' => reg'[t] = azList'[l],
               \A u \in Process \ {t} : tpc'[u] = "storeAz" /\ i'[u] = i[t] => l \in crossedAz'
        PROVE  AzLoaded(t)'
    BY <1>2, <1>6, <1>7 DEF AzLoaded
  <1>8. CASE LoadAz(p)
    <2>1. p \in Clients BY <1>8, StoresInSession DEF Handler
    <2>2. /\ azList' = azList /\ i' = i /\ reg' = [reg EXCEPT ![p] = azList[i[p] + 1]]
          /\ crossedAz' = crossedAz \cup
               {x \in {i[p] + 1} : \E u \in Process : tpc[u] = "storeAz" /\ i[u] + 1 = x}
          /\ tpc[p] = "loadAz" /\ tpc' = [tpc EXCEPT ![p] = "storeAz"]
      BY <1>8 DEF LoadAz, Handle, At, Goto, shared
    <2>3. ASSUME NEW u \in Process, tpc[u] = "storeAz", i[u] = i[p]  PROVE i[p] + 1 \in crossedAz'
      BY <2>2, <2>3
    <2>4. \A u \in Process \ {p} : tpc'[u] = "storeAz" <=> tpc[u] = "storeAz"
      BY <1>4, <2>2
    <2>5. CASE t = p
      <3>1. reg'[t] = azList[l] /\ azList'[l] = azList[l] BY <1>3, <1>4, <2>1, <2>2, <2>5, RowTyped
      <3>2. azList[l] <= AllAzAdded(l) BY <1>1 DEF AzCounted
      <3>3. reg'[t] <= AllAzAdded(l)' BY <1>4, <1>5, <3>1, <3>2
      <3>4. \A u \in Process \ {t} : tpc'[u] = "storeAz" /\ i'[u] = i[t] => l \in crossedAz'
        BY <1>3, <2>2, <2>3, <2>4, <2>5
      <3> QED BY <1>7, <3>1, <3>3, <3>4
    <2>6. CASE t # p
      <3>1. AzLoaded(t) /\ tpc[t] = "storeAz" /\ reg'[t] = reg[t] BY <1>1, <1>2, <2>6
      <3>2. reg'[t] <= AllAzAdded(l)' BY <1>3, <1>4, <1>5, <3>1 DEF AzLoaded
      <3>3. l \notin crossedAz' => reg'[t] = azList'[l] BY <1>3, <1>4, <2>2, <3>1 DEF AzLoaded
      <3>4. ASSUME NEW u \in Process \ {t}, tpc'[u] = "storeAz", i'[u] = i[t]  PROVE l \in crossedAz'
        <4>1. CASE u = p
          <5>1. i[t] = i[p] BY <2>2, <3>4, <4>1
          <5>2. t \in Process BY DEF Clients
          <5> QED BY <1>3, <2>3, <3>1, <5>1, <5>2
        <4>2. CASE u # p BY <1>3, <1>4, <2>2, <2>4, <3>1, <3>4, <4>2 DEF AzLoaded
        <4> QED BY <4>1, <4>2
      <3> QED BY <1>7, <3>2, <3>3, <3>4
    <2> QED BY <2>5, <2>6
  <1>9. CASE ~LoadAz(p)
    <2>1. /\ crossedAz' = crossedAz /\ tpc[t] = "storeAz" /\ reg'[t] = reg[t]
          /\ \A u \in Process : tpc'[u] = "storeAz" => tpc[u] = "storeAz" /\ i'[u] = i[u]
      <3>1. tpc'[p] = "storeAz" => tpc[p] = "storeAz" /\ reg'[p] = reg[p] /\ i'[p] = i[p]
        <4>1. CASE Handler(p)
          BY <1>4, <1>9, <4>1 DEF Handler, Checkin, Copy, Own, Sum, LoadRow, StoreRow, StoreAz, Checkout,
             Handle, At, Goto
        <4>2. CASE ~Handler(p) BY <4>2, NoHandler
        <4> QED BY <4>1, <4>2
      <3>2. ASSUME NEW u \in Process, u # p, tpc'[u] = "storeAz"
            PROVE  tpc[u] = "storeAz" /\ i'[u] = i[u]
        <4>1. u \in Clients' BY <3>2 DEF Clients, Admitted
        <4> QED BY <3>2, <4>1, SessionsStay DEF Same, SameThread
      <3> QED BY <1>2, <1>9, <3>1, <3>2, CrossedGrow
    <2>2. AzLoaded(t) BY <1>1, <1>2, <2>1
    <2>3. l \notin crossedAz => azList'[l] = azList[l]
      <3>1. CASE StoreAz(p)
        <4>1. /\ tpc[p] = "storeAz" /\ tpc'[p] # "storeAz"
              /\ azList' = [azList EXCEPT ![i[p] + 1] = reg[p] + buffer[p].data[i[p] + 1]]
          BY <1>4, <3>1 DEF StoreAz, Handle, At, Goto
        <4>2. i[p] + 1 = l => l \in crossedAz
          <5>1. p # t BY <4>1
          <5>2. i[p] \in Nat BY DEF Typed, ThreadInv, ThreadTyped
          <5>3. i[p] + 1 = l => i[p] = i[t] BY <1>3, <1>4, <5>2
          <5> QED BY <1>3, <2>2, <4>1, <5>1, <5>3 DEF AzLoaded
        <4> QED BY <1>4, <4>1, <4>2
      <3>2. CASE ~StoreAz(p)
        BY <1>9, <3>2, NoHandler DEF Handler, Checkin, Copy, Own, Sum, LoadRow, StoreRow, Checkout, shared
      <3> QED BY <3>1, <3>2
    <2>4. reg'[t] <= AllAzAdded(l)' BY <1>3, <1>4, <1>5, <2>1, <2>2 DEF AzLoaded
    <2>5. l \notin crossedAz' => reg'[t] = azList'[l] BY <1>3, <2>1, <2>2, <2>3 DEF AzLoaded
    <2>6. \A u \in Process \ {t} : tpc'[u] = "storeAz" /\ i'[u] = i[t] => l \in crossedAz'
      BY <1>3, <2>1, <2>2 DEF AzLoaded
    <2> QED BY <1>7, <2>4, <2>5, <2>6
  <1> QED BY <1>8, <1>9

LEMMA CountsUnchanged ==
  ASSUME UNCHANGED vars
  PROVE  \A q, l : AzAdded(q, l)' = AzAdded(q, l) /\ Sent(q, l)' = Sent(q, l)
  <1>1. UNCHANGED <<inbox, tpc, i, cpc, command, messageCount, faults>>
    BY DEF vars, sockets, server, clients
  <1>2. \A q, l, n : WordsOf(q, l, n)' = WordsOf(q, l, n)
    BY <1>1 DEF WordsOf, FileWords, FileOf, Mappers, Id
  <1>3. ASSUME NEW q, NEW l  PROVE AzAdded(q, l)' = AzAdded(q, l)
    <2>1. PICK n : n = IF AzToCome(q, l) THEN messageCount[q] - 1 ELSE messageCount[q] OBVIOUS
    <2>2. AzToCome(q, l)' <=> AzToCome(q, l) BY <1>1 DEF AzToCome, Updating
    <2>3. AzAdded(q, l)' = WordsOf(q, l, n)' BY <1>1, <2>1, <2>2 DEF AzAdded, WordsOf
    <2> QED BY <1>2, <2>1, <2>3 DEF AzAdded
  <1>4. ASSUME NEW q, NEW l  PROVE Sent(q, l)' = Sent(q, l)
    <2>1. PICK n : n = messageCount[q] OBVIOUS
    <2>2. Sent(q, l)' = WordsOf(q, l, n)' BY <1>1, <2>1 DEF Sent, WordsOf
    <2>3. Sent(q, l) = WordsOf(q, l, n) BY <2>1 DEF Sent, WordsOf
    <2>4. WordsOf(q, l, n)' = WordsOf(q, l, n) BY <1>2
    <2> QED BY <2>2, <2>3, <2>4
  <1> QED BY <1>3, <1>4

LEMMA AzCountStep ==
  ASSUME Typed, SessionInv, AzCountInv, [Next]_vars
  PROVE  AzCountInv'
  <1>1. CASE UNCHANGED vars
    <2>1. UNCHANGED <<inbox, azList, tpc, i, reg, crossedAz, cpc, command, messageCount, faults>>
      BY <1>1 DEF vars, sockets, server, shared, crossed, clients
    <2>2. Clients' = Clients /\ Undisturbed' = Undisturbed
      BY <2>1 DEF Clients, Admitted, Undisturbed
    <2>4. \A q, l : AzAdded(q, l)' = AzAdded(q, l) BY <1>1, CountsUnchanged
    <2>5. \A l : AllAzAdded(l)' = AllAzAdded(l) BY <2>2, <2>4 DEF AllAzAdded
    <2>6. \A l \in Letter : AzCounted(l) => AzCounted(l)' BY <2>1, <2>5 DEF AzCounted
    <2>7. \A t \in Clients : AzLoaded(t) => AzLoaded(t)'
      <3>1. \A t \in Clients : AllAzAdded(i[t] + 1)' = AllAzAdded(i[t] + 1)
        BY <2>1, <2>5 DEF AllAzAdded, AzAdded, AzToCome, Updating, WordsOf
      <3> QED BY <2>1, <3>1 DEF AzLoaded
    <2> QED BY <2>1, <2>2, <2>6, <2>7 DEF AzCountInv
  <1>2. CASE \E p \in Process : StepOf(p)
    BY <1>2, AzCountedStep, AzLoadedStep DEF AzCountInv
  <1> QED BY <1>1, <1>2, StepIsOfOne

LEMMA AzCountInit == Init => AzCountInv
  <1> SUFFICES ASSUME Init  PROVE AzCountInv OBVIOUS
  <1>1. Clients = {} BY DEF Init, ServerInit, Clients, Admitted
  <1>2. \A l \in Letter : AllAzAdded(l) = 0 BY <1>1, SumOfNone DEF AllAzAdded
  <1>3. \A l \in Letter : azList[l] = 0 BY DEF Init, ServerInit, Zeros
  <1> QED BY <1>1, <1>2, <1>3 DEF AzCountInv, AzCounted

(***************************************************************************)
(* What is counted of what was sent.                                       *)
(***************************************************************************)
LEMMA AddedOfSent ==
  ASSUME Typed, NEW q \in Process, NEW l \in Letter
  PROVE  /\ AzAdded(q, l) \in Nat /\ Sent(q, l) \in Nat /\ AzAdded(q, l) <= Sent(q, l)
         /\ ~AzToCome(q, l) => AzAdded(q, l) = Sent(q, l)
         /\ messageCount[q] \in Nat /\ RowAdded(q) \in Nat /\ RowAdded(q) <= messageCount[q]
  <1>1. messageCount[q] \in Nat /\ (command[q] = UPDATE_AZLIST => messageCount[q] > 0)
    BY DEF Typed, Connections, Commands, CommandInv
  <1>2. messageCount[q] \in 0 .. messageCount[q] BY <1>1
  <1>3. Sent(q, l) = WordsOf(q, l, messageCount[q]) /\ Sent(q, l) \in Nat
    BY <1>2, SentIs, WordsType
  <1>4. CASE AzToCome(q, l)
    <2>1. messageCount[q] - 1 \in 0 .. messageCount[q] - 1 /\ messageCount[q] - 1 + 1 = messageCount[q]
      BY <1>1, <1>4 DEF AzToCome, Updating
    <2>2. AzAdded(q, l) = WordsOf(q, l, messageCount[q] - 1) BY <1>4 DEF AzAdded
    <2>3. /\ WordsOf(q, l, messageCount[q] - 1) \in Nat
          /\ FileWords(q, messageCount[q] - 1)[l] \in Nat
      <3>1. messageCount[q] - 1 \in 0 .. messageCount[q] BY <1>1, <2>1
      <3> QED BY <1>2, <2>1, <3>1, WordsType
    <2>4. Sent(q, l) = WordsOf(q, l, messageCount[q] - 1) + FileWords(q, messageCount[q] - 1)[l]
      BY <1>3, <2>1, WordsGrow
    <2>5. RowAdded(q) \in Nat /\ RowAdded(q) <= messageCount[q]
      BY <1>1, <2>1 DEF RowAdded
    <2> QED BY <1>1, <1>3, <1>4, <2>2, <2>3, <2>4, <2>5
  <1>5. CASE ~AzToCome(q, l)
    <2>1. AzAdded(q, l) = Sent(q, l) BY <1>3, <1>5 DEF AzAdded
    <2>2. RowToCome(q) => messageCount[q] > 0 BY <1>1 DEF RowToCome, Updating
    <2>3. RowAdded(q) \in Nat /\ RowAdded(q) <= messageCount[q] BY <1>1, <2>2 DEF RowAdded
    <2> QED BY <1>1, <1>3, <2>1, <2>3
  <1> QED BY <1>4, <1>5

LEMMA AllAddedOfSent ==
  ASSUME Typed, NEW l \in Letter
  PROVE  /\ AllAzAdded(l) \in Nat /\ AllSent(l) \in Nat /\ AllAzAdded(l) <= AllSent(l)
         /\ \A q \in Clients : ~AzToCome(q, l) => Sent(q, l) <= AllAzAdded(l)
         /\ (\A q \in Clients : ~AzToCome(q, l)) => AllAzAdded(l) = AllSent(l)
         /\ RowsAdded(Clients) \in Nat /\ AllMessages \in Nat /\ RowsAdded(Clients) <= AllMessages
  <1> DEFINE f == [q \in Process |-> AzAdded(q, l)]
             g == [q \in Process |-> Sent(q, l)]
             h == [q \in Process |-> RowAdded(q)]
  <1>1. IsFiniteSet(Clients) /\ Clients \subseteq Process
    <2>1. Clients \subseteq Process BY DEF Clients
    <2> QED BY <2>1, ProcessFinite, FS_Subset
  <1>2. \A q \in Clients : /\ f[q] \in Nat /\ g[q] \in Nat /\ f[q] <= g[q]
                           /\ f[q] = AzAdded(q, l) /\ g[q] = Sent(q, l)
                           /\ ~AzToCome(q, l) => f[q] = g[q]
                           /\ h[q] \in Nat /\ messageCount[q] \in Nat /\ h[q] <= messageCount[q]
    BY <1>1, AddedOfSent
  <1>3. /\ AllAzAdded(l) = SumFunctionOnSet(f, Clients) /\ AllSent(l) = SumFunctionOnSet(g, Clients)
        /\ RowsAdded(Clients) = SumFunctionOnSet(h, Clients)
        /\ AllMessages = SumFunctionOnSet(messageCount, Clients)
    BY DEF AllAzAdded, AllSent, RowsAdded, AllMessages
  <1> HIDE DEF f, g, h
  <1>4. /\ SumFunctionOnSet(f, Clients) \in Nat /\ SumFunctionOnSet(g, Clients) \in Nat
        /\ SumFunctionOnSet(f, Clients) <= SumFunctionOnSet(g, Clients)
    BY <1>1, <1>2, SumIsNat, SumMonotone
  <1>5. /\ SumFunctionOnSet(h, Clients) \in Nat /\ SumFunctionOnSet(messageCount, Clients) \in Nat
        /\ SumFunctionOnSet(h, Clients) <= SumFunctionOnSet(messageCount, Clients)
    BY <1>1, <1>2, SumIsNat, SumMonotone
  <1>6. ASSUME NEW q \in Clients, ~AzToCome(q, l)  PROVE Sent(q, l) <= SumFunctionOnSet(f, Clients)
    <2>1. f[q] <= SumFunctionOnSet(f, Clients) BY <1>1, <1>2, SumCoversElement
    <2> QED BY <1>2, <1>6, <2>1
  <1>7. ASSUME \A q \in Clients : ~AzToCome(q, l)
        PROVE  SumFunctionOnSet(f, Clients) = SumFunctionOnSet(g, Clients)
    <2>1. \A q \in Clients : f[q] \in Nat /\ g[q] = f[q] BY <1>2, <1>7
    <2> QED BY <1>1, <2>1, SumSame
  <1> QED BY <1>3, <1>4, <1>5, <1>6, <1>7

-----------------------------------------------------------------------------
(***************************************************************************)
(* A client that died: its thread handles its last request again for every *)
(* answer that is lost, so that Held(p, l) bounds what p has added to a    *)
(* letter.                                                                 *)
(***************************************************************************)
Spent(p) ==
  \/ inbox[p]["server"] = <<>>
  \/ tpc[p] \in {"none", "read"} /\ Tail(inbox[p]["server"]) = <<>>
DeadInv == \A p \in Process : cpc[p] = "killed" /\ end[p]["server"] = "open" => Spent(p)

Replays(p, l) ==
  IF tpc[p] = "reply" \/ (tpc[p] \in {"loadAz", "storeAz"} /\ l <= i[p])
  THEN lost[p]["server"] + 1 ELSE lost[p]["server"]
Held(p, l) ==
  IF cpc[p] # "killed" THEN AzAdded(p, l)
  ELSE IF HasMessage(p, "server") THEN Sent(p, l)
  ELSE Sent(p, l) + Replays(p, l) * buffer[p].data[l]
AllHeld(l) == SumFunctionOnSet([p \in Process |-> Held(p, l)], Clients)

BoundInv ==
  /\ \A l \in Letter : azList[l] <= MayHold(l)
  /\ listening =>
       /\ \A l \in Letter : azList[l] <= AllHeld(l)
       /\ \A t \in Clients : \A l \in Letter :
            tpc[t] = "storeAz" /\ i[t] + 1 = l => reg[t] <= AllHeld(l)

LEMMA DeadInit == Init => DeadInv
  BY DEF Init, ClientsInit, DeadInv

\* A client dies in its session, or while it waits.
LEMMA DeathSpends ==
  ASSUME Typed, SessionInv, NEW p \in Process, ClientStep(p) \/ FaultStep(p),
         cpc[p] # "killed", cpc'[p] = "killed", end[p]["server"] = "open", listening
  PROVE  Spent(p)'
  <1>1. Die(p) \/ BrokenPipe(p)
    <2>1. cpc \in [Process -> CPStates] BY DEF Typed, Connections, Commands, ForkInv
    <2>2. ~Fork(p)
      <3>1. ASSUME Fork(p)  PROVE FALSE
        <4>1. cpc'[p] \in {"fork", "wait", "connect"} BY <2>1, <3>1 DEF Fork, LoopState
        <4> QED BY <4>1
      <3> QED BY <3>1
    <2> QED BY <2>1, <2>2 DEF ClientStep, FaultStep, Client, ClientFault, Wait, Connects, ConnectFails,
             Send, Receive, Leave, ForkFails, SocketFails, Garble, CGoto, AfterRefusal, LoopState
  <1>2. cpc[p] \in {"send", "receive"} /\ inbox' = inbox /\ tpc' = tpc
    BY <1>1 DEF Die, BrokenPipe, Close, ClientStep, FaultStep, server
  <1>3. CASE Admitted(p)
    <2>1. Session(p) BY <1>3 DEF SessionInv, Live
    <2>2. inbox[p]["server"] = <<>> \/ (tpc[p] = "read" /\ \E m : inbox[p]["server"] = <<m>>)
      BY <2>1 DEF Session, Asked, InHandler, Replied, Told
    <2>3. \A m : Tail(<<m>>) = <<>> OBVIOUS
    <2> QED BY <1>2, <2>2, <2>3 DEF Spent
  <1>4. CASE ~Admitted(p)
    <2>1. Waiting(p) BY <1>4 DEF SessionInv
    <2>2. inbox[p]["server"] = <<>> \/ \E m : inbox[p]["server"] = <<m>> BY <2>1 DEF Waiting
    <2>3. \A m : Tail(<<m>>) = <<>> OBVIOUS
    <2> QED BY <1>2, <1>4, <2>2, <2>3 DEF Spent, Admitted
  <1> QED BY <1>3, <1>4

\* The thread of a dead client takes the message there is, if any.
LEMMA DeadThread ==
  ASSUME Typed, NEW p \in Process, ThreadStep(p), Spent(p), listening',
         end'[p]["server"] = "open"
  PROVE  Spent(p)'
  <1>1. /\ inbox \in [Process -> [Side -> Seq(Request \cup Response)]]
        /\ end \in [Process -> [Side -> {"none", "open", "closed"}]]
    BY DEF Typed, MessageInv, Connections, ConnInv
  <1>2. CASE Read(p)
    <2>1. inbox'[p]["server"] = <<>>
      <3>1. CASE HasMessage(p, "server") /\ Take(p, "server")
        <4>1. inbox'[p] = [inbox[p] EXCEPT !["server"] = Tail(@)] BY <1>1, <3>1 DEF Take
        <4>2. inbox'[p]["server"] = Tail(inbox[p]["server"]) BY <1>1, <4>1 DEF Side
        <4> QED BY <3>1, <4>2 DEF Spent, HasMessage
      <3>2. CASE EndOfInput(p) /\ UNCHANGED sockets
        BY <3>2 DEF EndOfInput, AtEOF, HasMessage, sockets
      <3> QED BY <1>2, <3>1, <3>2 DEF Read
    <2> QED BY <2>1 DEF Spent
  <1>3. CASE Handler(p)
    <2>1. tpc[p] \in Handling /\ inbox' = inbox BY <1>3, HandlerIs DEF sockets
    <2> QED BY <2>1 DEF Spent, Handling
  <1>4. CASE Reply(p)
    <2>1. tpc[p] = "reply" BY <1>4 DEF Reply, At
    <2>2. inbox[p]["server"] = <<>> BY <2>1 DEF Spent
    <2>3. inbox' = inbox \/ inbox' = [inbox EXCEPT ![p]["client"] = Append(@, bufferResponse[p])]
      BY <1>4 DEF Reply, WriteAnswer, Write, Peer
    <2>4. inbox'[p]["server"] = inbox[p]["server"] BY <1>1, <2>3 DEF Side
    <2> QED BY <2>2, <2>4 DEF Spent
  <1>5. ~CloseSocket(p)
    BY <1>1 DEF CloseSocket, Close, EndsAfterClose, Side
  <1>6. ~Sigpipe(p) BY DEF Sigpipe, ServerGone
  <1> QED BY <1>2, <1>3, <1>4, <1>5, <1>6 DEF ThreadStep, Thread, Handler

LEMMA DeadStep == Typed /\ SessionInv /\ DeadInv /\ [Next]_vars => DeadInv'
  <1> SUFFICES ASSUME Typed, SessionInv, DeadInv, [Next]_vars, NEW q \in Process,
                      cpc'[q] = "killed", end'[q]["server"] = "open"
               PROVE  Spent(q)'
    BY DEF DeadInv
  <1>1. CASE UNCHANGED vars
    BY <1>1 DEF vars, sockets, server, clients, DeadInv, Spent
  <1>2. ASSUME NEW p \in Process, StepOf(p)  PROVE Spent(q)'
    <2>1. listening
      <3>1. ASSUME ~listening  PROVE FALSE
        <4>1. end[q]["server"] # "open" BY <3>1 DEF SessionInv
        <4> QED BY <1>2, <3>1, <4>1, ClosedStays
      <3> QED BY <3>1
    <2>2. listening' /\ (end[q]["server"] = "open" \/ (Connects(p) /\ q = p))
      BY <1>2, <2>1, OpenStays
    <2>3. ~(Connects(p) /\ q = p)
      BY DEF Connects, CGoto, Typed, Connections, Commands, ForkInv
    <2>4. CASE cpc[q] = "killed"
      <3>1. Spent(q) BY <2>2, <2>3, <2>4 DEF DeadInv
      <3>2. CASE q # p
        <4>1. Same(q) BY <1>2, <2>4, <3>2, OthersSame
        <4> QED BY <3>1, <4>1 DEF Spent, Same, SameClient, SameThread
      <3>3. CASE q = p /\ ThreadStep(p) BY <2>2, <3>1, <3>3, DeadThread
      <3>4. CASE q = p /\ ~ThreadStep(p)
        <4>1. ~(ClientStep(p) \/ FaultStep(p))
          BY <2>4, <3>4 DEF ClientStep, FaultStep, Client, ClientFault, Fork, Wait, Connects, ConnectFails,
                  Send, Receive, Leave, BrokenPipe, ForkFails, SocketFails, Garble, Die
        <4>2. inbox' = inbox /\ (tpc' = tpc \/ tpc' = [tpc EXCEPT ![p] = "read"]) /\ Accepts(p)
          BY <1>2, <3>4, <4>1 DEF StepOf, Admit, TurnAway
        <4>3. tpc[p] = "none" BY <4>2, AcceptTakesFirst DEF Typed, Connections
        <4>4. tpc'[p] \in {"none", "read"} BY <4>2, <4>3 DEF Typed, Connections, ConnInv
        <4> QED BY <3>1, <3>4, <4>2, <4>3, <4>4 DEF Spent
      <3> QED BY <3>2, <3>3, <3>4
    <2>5. CASE cpc[q] # "killed"
      <3>1. cpc' # cpc BY <2>5
      <3>2. ClientStep(p) \/ FaultStep(p)
        BY <1>2, <3>1 DEF StepOf, ThreadStep, clients
      <3>3. q = p
        <4>1. ASSUME q # p  PROVE FALSE
          <5>1. CASE cpc[q] = "unborn"
            <6>1. end[q]["server"] # "open"
              BY <5>1 DEF Typed, Connections, ConnInv, BeforeSession
            <6> QED BY <2>2, <4>1, <6>1
          <5>2. CASE cpc[q] # "unborn"
            <6>1. Same(q) BY <1>2, <4>1, <5>2, OthersSame
            <6> QED BY <2>5, <6>1 DEF Same, SameClient
          <5> QED BY <5>1, <5>2
        <4> QED BY <4>1
      <3> QED BY <2>1, <2>2, <2>3, <2>5, <3>2, <3>3, DeathSpends
    <2> QED BY <2>4, <2>5
  <1> QED BY <1>1, <1>2, StepIsOfOne

(***************************************************************************)
(* What Held counts, and that it keeps up with what a thread stores.       *)
(***************************************************************************)
LEMMA TimesOnce ==
  ASSUME NEW a \in Nat, NEW b \in Nat, NEW c \in Nat, a <= b
  PROVE  a * c \in Nat /\ b * c \in Nat /\ a * c <= b * c /\ (a + 1) * c = a * c + c
  <1>1. PICK d \in Nat : b = a + d
    <2>1. b - a \in Nat /\ b = a + (b - a) OBVIOUS
    <2> QED BY <2>1
  <1>2. a * c \in Nat /\ d * c \in Nat /\ b * c = a * c + d * c BY <1>1
  <1>3. (a + 1) * c = a * c + c OBVIOUS
  <1> QED BY <1>2, <1>3

LEMMA HeldIs ==
  ASSUME Typed, NEW q \in Process, NEW l \in Letter
  PROVE  /\ Held(q, l) \in Nat /\ Sent(q, l) \in Nat /\ Replayed(q, l) \in Nat
         /\ buffer[q].data[l] \in Nat /\ lost[q]["server"] \in Nat /\ Replays(q, l) \in Nat
         /\ Held(q, l) <= Sent(q, l) + Replayed(q, l)
  <1>1. /\ AzAdded(q, l) \in Nat /\ Sent(q, l) \in Nat /\ AzAdded(q, l) <= Sent(q, l)
    BY AddedOfSent
  <1>2. buffer[q].data[l] \in Nat
    BY DEF Typed, ThreadInv, ThreadTyped, RealRequest, Request, NoRequest, Zeros
  <1>3. lost[q]["server"] \in Nat
    <2>1. lost[q]["server"] \in 0 .. MaxLost BY DEF Typed, MessageInv, Side
    <2> QED BY <2>1, MaxLostAssumption
  <1>4. Replays(q, l) \in Nat /\ Replays(q, l) <= lost[q]["server"] + 1 BY <1>3 DEF Replays
  <1>5. /\ Replays(q, l) * buffer[q].data[l] \in Nat
        /\ (lost[q]["server"] + 1) * buffer[q].data[l] \in Nat
        /\ Replays(q, l) * buffer[q].data[l] <= (lost[q]["server"] + 1) * buffer[q].data[l]
    <2>1. lost[q]["server"] + 1 \in Nat BY <1>3
    <2> QED BY <1>2, <1>4, <2>1, TimesOnce
  <1>6. CASE cpc[q] # "killed"
    BY <1>1, <1>2, <1>3, <1>4, <1>6 DEF Held, Replayed
  <1>7. CASE cpc[q] = "killed" /\ HasMessage(q, "server")
    BY <1>1, <1>2, <1>3, <1>4, <1>7 DEF Held, Replayed
  <1>8. CASE cpc[q] = "killed" /\ ~HasMessage(q, "server")
    <2>1. /\ Held(q, l) = Sent(q, l) + Replays(q, l) * buffer[q].data[l]
          /\ Replayed(q, l) = (lost[q]["server"] + 1) * buffer[q].data[l]
      BY <1>8 DEF Held, Replayed
    <2> QED BY <1>1, <1>2, <1>3, <1>4, <1>5, <2>1
  <1> QED BY <1>6, <1>7, <1>8

LEMMA LostGrows ==
  ASSUME Typed, NEW p \in Process, StepOf(p), NEW q \in Process
  PROVE  /\ lost[q]["server"] \in Nat /\ lost'[q]["server"] \in Nat
         /\ lost[q]["server"] <= lost'[q]["server"]
  <1>1. /\ lost \in [Process -> [Side -> 0 .. MaxLost]] /\ MaxLost \in Nat
        /\ "server" \in Side /\ "client" \in Side
    BY MaxLostAssumption DEF Typed, MessageInv, Side
  <1>2. lost[q]["server"] \in Nat BY <1>1
  <1>3. CASE lost' = lost BY <1>2, <1>3
  <1>4. ASSUME NEW s \in Side, lost' = [lost EXCEPT ![p][s] = @ + 1]
        PROVE  lost'[q]["server"] \in {lost[q]["server"], lost[q]["server"] + 1}
    BY <1>1, <1>4
  <1>5. ASSUME NEW P, NEW s \in Side, lost' = LostAfterClose(P, s)
        PROVE  lost'[q]["server"] = lost[q]["server"]
               \/ (lost[q]["server"] = 0 /\ lost'[q]["server"] = 1)
    BY <1>1, <1>5 DEF LostAfterClose, Peer, Side
  <1>6. \/ lost' = lost
        \/ \E s \in Side : lost' = [lost EXCEPT ![p][s] = @ + 1]
        \/ \E P : \E s \in Side : lost' = LostAfterClose(P, s)
    <2>1. CASE ThreadStep(p)
      <3>1. CASE Handler(p) BY <3>1, HandlerIs DEF sockets
      <3>2. CASE Read(p) BY <3>2 DEF Read, Take, sockets
      <3>3. CASE Reply(p)
        BY <1>1, <3>3 DEF Reply, WriteAnswer, Write
      <3>4. CASE Sigpipe(p) BY <1>1, <3>4 DEF Sigpipe, ServerGone
      <3>5. CASE CloseSocket(p) BY <1>1, <3>5 DEF CloseSocket, Close
      <3> QED BY <2>1, <3>1, <3>2, <3>3, <3>4, <3>5 DEF ThreadStep, Thread, Handler
    <2>2. CASE ClientStep(p) \/ FaultStep(p)
      <3>1. CASE Send(p) BY <1>1, <3>1 DEF Send, Write
      <3>2. CASE Leave(p) \/ BrokenPipe(p) \/ Die(p)
        BY <1>1, <3>2 DEF Leave, BrokenPipe, Die, Close
      <3>3. CASE ~Send(p) /\ ~(Leave(p) \/ BrokenPipe(p) \/ Die(p))
        BY <2>2, <3>3 DEF ClientStep, FaultStep, Client, ClientFault, Fork, Wait, Connects, Connect,
           ConnectFails, Receive, ForkFails, SocketFails, Garble, Take, sockets
      <3> QED BY <3>1, <3>2, <3>3
    <2>3. CASE Admit(p, TRUE) \/ Admit(p, FALSE) BY <2>3 DEF Admit
    <2>4. CASE TurnAway(p) BY <1>1, <2>4 DEF TurnAway
    <2> QED BY <2>1, <2>2, <2>3, <2>4 DEF StepOf
  <1> QED BY <1>2, <1>3, <1>4, <1>5, <1>6

\* The thread of a dead client, which is the only one to go on.
LEMMA DeadHeldStep ==
  ASSUME Typed, NEW p \in Process, StepOf(p), listening', NEW q \in Clients, cpc[q] = "killed",
         cpc'[q] = "killed", listening, tpc[q] \in Handling => ~HasMessage(q, "server"),
         NEW l \in Letter, Held(q, l)' \in Nat, buffer'[q].data[l] \in Nat,
         Replays(q, l)' \in Nat
  PROVE  Held(q, l) + (IF q = p THEN IF StoreAz(p) /\ i[p] + 1 = l
                                     THEN buffer[p].data[l] ELSE 0 ELSE 0) <= Held(q, l)'
  <1> DEFINE d == IF q = p THEN IF StoreAz(p) /\ i[p] + 1 = l THEN buffer[p].data[l] ELSE 0 ELSE 0
             b == buffer[q].data[l]
  <1>1. /\ q \in Process /\ Held(q, l) \in Nat /\ Sent(q, l) \in Nat /\ b \in Nat
        /\ lost[q]["server"] \in Nat /\ Replays(q, l) \in Nat
    BY HeldIs DEF Clients
  <1>2. Sent(q, l)' \in Nat /\ Sent(q, l) <= Sent(q, l)' BY <1>1, SentGrows
  <1>3. lost'[q]["server"] \in Nat /\ lost[q]["server"] <= lost'[q]["server"] BY <1>1, LostGrows
  <1>4. Held(q, l)' = IF HasMessage(q, "server")' THEN Sent(q, l)'
                      ELSE Sent(q, l)' + Replays(q, l)' * buffer'[q].data[l]
    BY DEF Held
  <1>5. Held(q, l) = IF HasMessage(q, "server") THEN Sent(q, l)
                     ELSE Sent(q, l) + Replays(q, l) * b
    BY DEF Held
  <1>6. tpc \in [Process -> TStates] /\ i \in [Process -> Nat] /\ NumLetters \in Nat /\ l \in Nat /\ l > 0
        /\ inbox \in [Process -> [Side -> Seq(Request \cup Response)]]
        /\ buffer \in [Process -> RealRequest \cup {NoRequest}]
    BY Protocols DEF Typed, Connections, ConnInv, ThreadInv, ThreadTyped, Letter, MessageInv
  \* Nothing is stored, and the message was there already or is taken.
  <1>7. ASSUME HasMessage(q, "server"), ~(q = p /\ StoreAz(p))
        PROVE  Held(q, l) + d <= Held(q, l)'
    <2>1. d = 0 /\ Held(q, l) = Sent(q, l) BY <1>5, <1>7
    <2>2. Replays(q, l)' * buffer'[q].data[l] \in Nat BY TimesOnce
    <2>3. Sent(q, l)' <= Held(q, l)' BY <1>2, <1>4, <2>2
    <2> QED BY <1>1, <1>2, <2>1, <2>3
  \* The request in buffer stays, and is handled at least as often.
  <1>8. ASSUME ~HasMessage(q, "server"), ~HasMessage(q, "server")', buffer'[q] = buffer[q],
               Replays(q, l) <= Replays(q, l)', ~(q = p /\ StoreAz(p) /\ i[p] + 1 = l)
        PROVE  Held(q, l) + d <= Held(q, l)'
    <2>1. /\ d = 0 /\ Held(q, l) = Sent(q, l) + Replays(q, l) * b
          /\ Held(q, l)' = Sent(q, l)' + Replays(q, l)' * b
      BY <1>4, <1>5, <1>8
    <2>2. /\ Replays(q, l) * b \in Nat /\ Replays(q, l)' * b \in Nat
          /\ Replays(q, l) * b <= Replays(q, l)' * b
      BY <1>1, <1>8, TimesOnce
    <2> QED BY <1>1, <1>2, <2>1, <2>2
  <1>9. CASE q # p
    <2>1. Same(q)
      <3>1. cpc[q] # "unborn" OBVIOUS
      <3> QED BY <1>1, <1>9, <3>1, OthersSame
    <2>2. CASE HasMessage(q, "server") BY <1>7, <1>9, <2>2
    <2>3. CASE ~HasMessage(q, "server")
      <3>1. ~HasMessage(q, "server")' /\ buffer'[q] = buffer[q] /\ tpc'[q] = tpc[q] /\ i'[q] = i[q]
        BY <2>1, <2>3 DEF Same, SameClient, SameThread, HasMessage
      <3>2. Replays(q, l) <= Replays(q, l)' BY <1>1, <1>3, <3>1 DEF Replays
      <3> QED BY <1>8, <1>9, <2>3, <3>1, <3>2
    <2> QED BY <2>2, <2>3
  <1>10. CASE q = p
    <2>1. ThreadStep(p) /\ Admitted(p)
      <3>1. ~(ClientStep(p) \/ FaultStep(p))
        BY <1>10 DEF ClientStep, FaultStep, Client, ClientFault, Fork, Wait, Connects, ConnectFails,
                  Send, Receive, Leave, BrokenPipe, ForkFails, SocketFails, Garble, Die
      <3>2. ~Accepts(p)
        BY <1>10, AcceptTakesFirst DEF Typed, Connections, Clients, Admitted
      <3> QED BY <1>10, <3>1, <3>2 DEF StepOf, Admit, TurnAway, Clients
    <2>2. CASE HasMessage(p, "server")
      <3>1. ~StoreAz(p)
        <4>1. StoreAz(p) => tpc[p] = "storeAz" BY DEF StoreAz, Handle, At
        <4> QED BY <1>10, <2>2, <4>1 DEF Handling, TStates
      <3> QED BY <1>7, <1>10, <2>2, <3>1
    <2>3. CASE ~HasMessage(p, "server")
      <3>1. CASE Read(p)
        <4>1. /\ inbox' = inbox /\ tpc[p] = "read"
              /\ buffer' = [buffer EXCEPT ![p] = buffer[p]]
          BY <2>3, <3>1 DEF Read, LastRequest, At, sockets
        <4>2. ~HasMessage(p, "server")' /\ buffer'[p] = buffer[p]
          BY <1>6, <2>3, <4>1 DEF HasMessage
        <4>3. Replays(p, l) <= Replays(p, l)' BY <1>1, <1>3, <1>10, <4>1 DEF Replays
        <4>4. ~StoreAz(p) BY <4>1 DEF StoreAz, Handle, At
        <4> QED BY <1>8, <1>10, <2>3, <4>2, <4>3, <4>4
      <3>2. CASE Handler(p)
        <4>1. UNCHANGED <<sockets, buffer>> /\ tpc[p] # "reply" BY <3>2, HandlerIs
        <4>2. /\ ~HasMessage(p, "server")' /\ buffer'[p] = buffer[p]
              /\ lost'[p]["server"] = lost[p]["server"]
          BY <2>3, <4>1 DEF HasMessage, sockets
        <4>3. CASE StoreAz(p)
          <5>1. /\ tpc[p] = "storeAz" /\ i[p] < NumLetters
                /\ tpc'[p] = IF i[p] + 1 = NumLetters THEN "reply" ELSE "loadAz"
                /\ i'[p] = IF i[p] + 1 = NumLetters THEN 0 ELSE i[p] + 1
            BY <1>1, <1>6, <1>10, <4>3
               DEF StoreAz, Handle, At, Goto, LastLetter, Typed, ThreadInv, ThreadOk
          <5>2. l <= NumLetters /\ i[p] \in Nat BY <1>6, <1>1, <1>10 DEF Letter
          <5>3. Replays(p, l) = IF l <= i[p] THEN lost[p]["server"] + 1 ELSE lost[p]["server"]
            BY <5>1 DEF Replays
          <5>4. Replays(p, l)' = IF l <= i[p] + 1 THEN lost[p]["server"] + 1 ELSE lost[p]["server"]
            <6>1. CASE i[p] + 1 = NumLetters BY <1>6, <4>2, <5>1, <5>2, <6>1 DEF Replays
            <6>2. CASE i[p] + 1 # NumLetters BY <1>6, <4>2, <5>1, <5>2, <6>2 DEF Replays
            <6> QED BY <6>1, <6>2
          <5>5. CASE l # i[p] + 1
            <6>1. Replays(p, l) <= Replays(p, l)' BY <1>1, <1>6, <1>10, <5>2, <5>3, <5>4, <5>5
            <6> QED BY <1>8, <1>10, <2>3, <4>2, <5>5, <6>1
          <5>6. CASE l = i[p] + 1
            <6>1. Replays(p, l) = lost[p]["server"] /\ Replays(p, l)' = lost[p]["server"] + 1
              BY <1>6, <5>2, <5>3, <5>4, <5>6
            <6>2. /\ d = b /\ Held(p, l) = Sent(p, l) + lost[p]["server"] * b
                  /\ Held(p, l)' = Sent(p, l)' + (lost[p]["server"] + 1) * b
              BY <1>4, <1>5, <1>10, <2>3, <4>2, <4>3, <5>6, <6>1
            <6>3. /\ (lost[p]["server"] + 1) * b = lost[p]["server"] * b + b
                  /\ lost[p]["server"] * b \in Nat
              BY <1>1, <1>10, TimesOnce
            <6> QED BY <1>1, <1>2, <1>10, <6>2, <6>3
          <5> QED BY <5>5, <5>6
        <4>4. CASE ~StoreAz(p)
          <5>1. Replays(p, l) <= Replays(p, l)'
            <6>1. CASE LoadAz(p)
              <7>1. tpc[p] = "loadAz" /\ tpc'[p] = "storeAz" /\ i' = i
                BY <1>1, <1>6, <1>10, <6>1 DEF LoadAz, Handle, At, Goto
              <7> QED BY <1>1, <1>3, <1>10, <4>2, <7>1 DEF Replays
            <6>2. CASE ~LoadAz(p)
              <7>1. tpc[p] \notin {"reply", "loadAz", "storeAz"}
                BY <3>2, <4>4, <6>2 DEF Handler, Checkin, Copy, Own, Sum, LoadRow, StoreRow,
                                        Checkout, Handle, At
              <7>2. Replays(p, l) = lost[p]["server"] BY <7>1 DEF Replays
              <7> QED BY <1>1, <1>3, <1>10, <4>2, <7>2 DEF Replays
            <6> QED BY <6>1, <6>2
          <5> QED BY <1>8, <1>10, <2>3, <4>2, <4>4, <5>1
        <4> QED BY <4>3, <4>4
      <3>3. CASE Reply(p)
        <4>1. /\ tpc[p] = "reply" /\ tpc'[p] \in {"close", "read"} /\ buffer' = buffer
              /\ Write(p, "server", bufferResponse[p])
          BY <1>1, <1>6, <1>10, <3>3 DEF Reply, At, Goto, WriteAnswer
        <4>2. end[p]["client"] # "open"
          BY <1>1, <1>10 DEF Typed, Connections, ConnInv, InSession
        <4>3. inbox' = inbox /\ lost' = [lost EXCEPT ![p]["server"] = @ + 1]
          BY <4>1, <4>2 DEF Write, Peer
        <4>4. lost'[p]["server"] = lost[p]["server"] + 1
          BY <1>1, <1>10, <4>3 DEF Typed, MessageInv, Side
        <4>5. ~HasMessage(p, "server")' BY <2>3, <4>3 DEF HasMessage
        <4>6. Replays(p, l) <= Replays(p, l)' BY <1>1, <1>10, <4>1, <4>4 DEF Replays
        <4>7. ~StoreAz(p) BY <4>1 DEF StoreAz, Handle, At
        <4> QED BY <1>8, <1>10, <2>3, <4>1, <4>5, <4>6, <4>7
      <3>4. CASE CloseSocket(p)
        <4>1. tpc[p] = "close" /\ inbox' = inbox /\ buffer' = buffer
          BY <3>4 DEF CloseSocket, At, Close
        <4>2. Replays(p, l) <= Replays(p, l)' BY <1>1, <1>3, <1>10, <4>1 DEF Replays
        <4>3. ~HasMessage(p, "server")' BY <2>3, <4>1 DEF HasMessage
        <4>4. ~StoreAz(p) BY <4>1 DEF StoreAz, Handle, At
        <4> QED BY <1>8, <1>10, <2>3, <4>1, <4>2, <4>3, <4>4
      <3>5. ~Sigpipe(p) BY DEF Sigpipe, ServerGone
      <3> QED BY <2>1, <3>1, <3>2, <3>3, <3>4, <3>5 DEF ThreadStep, Thread, Handler
    <2> QED BY <1>10, <2>2, <2>3
  <1> QED BY <1>9, <1>10

\* What a client has added grows with what its thread stores.
HeldTyped ==
  \A q \in Process : \A l \in Letter :
    /\ Held(q, l) \in Nat /\ Sent(q, l) \in Nat /\ Replayed(q, l) \in Nat
    /\ buffer[q].data[l] \in Nat /\ lost[q]["server"] \in Nat /\ Replays(q, l) \in Nat
    /\ Held(q, l) <= Sent(q, l) + Replayed(q, l)

LEMMA HeldTypes == Typed => HeldTyped
  BY HeldIs DEF HeldTyped

LEMMA HeldStep ==
  ASSUME Typed, HeldTyped', SessionInv, DeadInv, NEW p \in Process, StepOf(p), listening',
         NEW q \in Clients, NEW l \in Letter
  PROVE  /\ Held(q, l) \in Nat /\ Held(q, l)' \in Nat /\ buffer[p].data[l] \in Nat
         /\ Held(q, l) + (IF q = p THEN IF StoreAz(p) /\ i[p] + 1 = l
                                        THEN buffer[p].data[l] ELSE 0 ELSE 0) <= Held(q, l)'
  <1>1. /\ q \in Process /\ Admitted(q) /\ q \in Clients' /\ cpc[q] # "unborn" /\ listening
        /\ cpc[q] = "killed" => cpc'[q] = "killed"
    BY StaysAdmitted, LiveStep DEF Clients
  <1>2. /\ Held(q, l) \in Nat /\ Sent(q, l) \in Nat /\ buffer[p].data[l] \in Nat
    BY <1>1, HeldIs
  <1>3. /\ Held(q, l)' \in Nat /\ buffer'[q].data[l] \in Nat /\ Replays(q, l)' \in Nat
    BY <1>1 DEF HeldTyped
  <1>4. CASE cpc'[q] # "killed"
    <2>1. Held(q, l) = AzAdded(q, l) /\ Held(q, l)' = AzAdded(q, l)' BY <1>1, <1>4 DEF Held
    <2>2. AzAdded(q, l)' =
            AzAdded(q, l) + (IF q = p THEN IF StoreAz(p) /\ i[p] + 1 = l
                                           THEN buffer[p].data[l] ELSE 0 ELSE 0)
      BY <1>1, <1>4, AzAddedStep
    <2> QED BY <1>2, <1>3, <2>1, <2>2
  <1>5. CASE cpc[q] = "killed"
    <2>1. tpc[q] \in Handling => ~HasMessage(q, "server")
      <3>1. tpc[q] \in Handling => end[q]["server"] = "open"
        BY <1>1 DEF Typed, Connections, ConnInv, Handling
      <3> QED BY <1>1, <1>5, <3>1 DEF DeadInv, Spent, Handling, HasMessage
    <2> QED BY <1>1, <1>2, <1>3, <1>5, <2>1, DeadHeldStep
  <1>6. CASE cpc[q] # "killed" /\ cpc'[q] = "killed"
    <2>1. ~(q = p /\ StoreAz(p))
      <3>1. cpc' # cpc BY <1>6
      <3>2. ClientStep(p) \/ FaultStep(p) BY <3>1 DEF StepOf, ThreadStep, clients
      <3>3. tpc' = tpc BY <3>2 DEF ClientStep, FaultStep, server
      <3>4. tpc \in [Process -> TStates] BY DEF Typed, Connections, ConnInv
      <3> QED BY <3>3, <3>4 DEF StoreAz, Handle, At, Goto
    <2>2. Held(q, l) <= Sent(q, l) BY <1>1, <1>6, AddedOfSent DEF Held
    <2>3. Sent(q, l)' \in Nat /\ Sent(q, l) <= Sent(q, l)' BY <1>1, SentGrows
    <2>4. Replays(q, l)' * buffer'[q].data[l] \in Nat BY <1>3, TimesOnce
    <2>5. Held(q, l)' = IF HasMessage(q, "server")' THEN Sent(q, l)'
                        ELSE Sent(q, l)' + Replays(q, l)' * buffer'[q].data[l]
      BY <1>6 DEF Held
    <2> QED BY <1>2, <1>3, <2>1, <2>2, <2>3, <2>4, <2>5
  <1> QED BY <1>1, <1>4, <1>5, <1>6

LEMMA AllHeldStep ==
  ASSUME Typed, HeldTyped', SessionInv, DeadInv, NEW p \in Process, StepOf(p), listening',
         NEW l \in Letter
  PROVE  /\ AllHeld(l) \in Nat /\ AllHeld(l)' \in Nat /\ buffer[p].data[l] \in Nat
         /\ AllHeld(l) + (IF StoreAz(p) /\ i[p] + 1 = l THEN buffer[p].data[l] ELSE 0)
              <= AllHeld(l)'
  <1> DEFINE d == IF StoreAz(p) /\ i[p] + 1 = l THEN buffer[p].data[l] ELSE 0
             f == [q \in Process |-> Held(q, l)]
             g == [q \in Process |-> Held(q, l)']
             h == [q \in Process |-> Held(q, l) + (IF q = p THEN d ELSE 0)]
  <1>1. /\ IsFiniteSet(Clients) /\ IsFiniteSet(Clients') /\ Clients \subseteq Clients'
        /\ Clients \subseteq Process /\ Clients' \subseteq Process
    BY ClientsFinite DEF Clients
  <1>2. buffer[p].data[l] \in Nat /\ d \in Nat BY HeldIs
  <1>3. \A q \in Clients : /\ f[q] \in Nat /\ h[q] = f[q] + (IF q = p THEN d ELSE 0)
                           /\ h[q] <= g[q]
    BY <1>1, HeldStep
  <1>4. \A q \in Clients' : g[q] \in Nat BY <1>1 DEF HeldTyped
  <1>5. AllHeld(l) = SumFunctionOnSet(f, Clients) /\ AllHeld(l)' = SumFunctionOnSet(g, Clients')
    BY DEF AllHeld
  <1>6. p \notin Clients => d = 0
    <2>1. StoreAz(p) => tpc[p] = "storeAz" BY DEF StoreAz, Handle, At
    <2> QED BY <2>1 DEF Clients, Admitted
  <1> HIDE DEF f, g, h, d
  <1>7. \A q \in Clients : h[q] \in Nat BY <1>2, <1>3
  <1>8. /\ SumFunctionOnSet(f, Clients) \in Nat /\ SumFunctionOnSet(g, Clients') \in Nat
        /\ SumFunctionOnSet(h, Clients) <= SumFunctionOnSet(g, Clients')
    BY <1>1, <1>3, <1>4, <1>7, SumIsNat, SumMonotone
  <1>9. SumFunctionOnSet(h, Clients) = SumFunctionOnSet(f, Clients) + (IF p \in Clients THEN d ELSE 0)
    BY <1>1, <1>2, <1>3, SumStep
  <1> QED BY <1>2, <1>5, <1>6, <1>8, <1>9 DEF d

HeldBounded == \A l \in Letter : AllHeld(l) \in Nat /\ MayHold(l) \in Nat /\ AllHeld(l) <= MayHold(l)

LEMMA HeldIsBounded == Typed => HeldBounded
  <1> SUFFICES ASSUME Typed, NEW l \in Letter
               PROVE  AllHeld(l) \in Nat /\ MayHold(l) \in Nat /\ AllHeld(l) <= MayHold(l)
    BY DEF HeldBounded
  <1> DEFINE f == [q \in Process |-> Held(q, l)]
             g == [q \in Process |-> Sent(q, l) + Replayed(q, l)]
  <1>1. IsFiniteSet(Clients) /\ Clients \subseteq Process
    <2>1. Clients \subseteq Process BY DEF Clients
    <2> QED BY <2>1, ProcessFinite, FS_Subset
  <1>2. \A q \in Clients : f[q] \in Nat /\ g[q] \in Nat /\ f[q] <= g[q]
    <2> SUFFICES ASSUME NEW q \in Clients  PROVE f[q] \in Nat /\ g[q] \in Nat /\ f[q] <= g[q]
      OBVIOUS
    <2>1. q \in Process BY <1>1
    <2>2. /\ Held(q, l) \in Nat /\ Sent(q, l) \in Nat /\ Replayed(q, l) \in Nat
          /\ Held(q, l) <= Sent(q, l) + Replayed(q, l)
      BY <2>1, HeldIs
    <2>3. f[q] = Held(q, l) /\ g[q] = Sent(q, l) + Replayed(q, l) BY <2>1
    <2> QED BY <2>2, <2>3
  <1>3. AllHeld(l) = SumFunctionOnSet(f, Clients) /\ MayHold(l) = SumFunctionOnSet(g, Clients)
    BY DEF AllHeld, MayHold
  <1> HIDE DEF f, g
  <1> QED BY <1>1, <1>2, <1>3, SumIsNat, SumMonotone

\* Once the server is gone no count changes.
LEMMA MayHoldGrows ==
  ASSUME Typed, NEW p \in Process, StepOf(p) \/ UNCHANGED vars, HeldTyped', ~listening',
         NEW l \in Letter
  PROVE  azList' = azList /\ MayHold(l) \in Nat /\ MayHold(l)' \in Nat /\ MayHold(l) <= MayHold(l)'
  <1>1. UNCHANGED <<azList, buffer>>
    <2>1. CASE UNCHANGED vars BY <2>1 DEF vars, server, shared
    <2>2. CASE ThreadStep(p)
      <3>1. CASE Sigpipe(p) BY <3>1 DEF Sigpipe, shared
      <3>2. CASE ~Sigpipe(p)
        <4>1. listening' = listening /\ listening
          <5>1. CASE Handler(p) BY <5>1, HandlerIs DEF sockets
          <5>2. CASE ~Handler(p)
            BY <2>2, <3>2, <5>2 DEF ThreadStep, Thread, Handler, Read, Reply, CloseSocket, At,
               WriteAnswer, Write, Take, Close, sockets
          <5> QED BY <5>1, <5>2
        <4> QED BY <4>1
      <3> QED BY <3>1, <3>2
    <2>3. CASE ~ThreadStep(p) /\ StepOf(p)
      BY <2>3 DEF StepOf, Admit, TurnAway, ClientStep, FaultStep, server, shared
    <2> QED BY <2>1, <2>2, <2>3
  <1> DEFINE f == [q \in Process |-> Sent(q, l) + Replayed(q, l)]
             g == [q \in Process |-> Sent(q, l)' + Replayed(q, l)']
  <1>2. /\ IsFiniteSet(Clients) /\ IsFiniteSet(Clients') /\ Clients \subseteq Clients'
        /\ Clients \subseteq Process /\ Clients' \subseteq Process
    BY ClientsFinite DEF Clients
  <1>3. ASSUME NEW q \in Clients  PROVE Replayed(q, l) <= Replayed(q, l)'
    <2>1. q \in Process /\ Replayed(q, l)' \in Nat BY <1>2 DEF HeldTyped
    <2>2. CASE cpc[q] # "killed" \/ HasMessage(q, "server") BY <2>1, <2>2 DEF Replayed
    <2>3. CASE cpc[q] = "killed" /\ ~HasMessage(q, "server") /\ StepOf(p)
      <3>1. cpc'[q] = "killed" BY <2>1, <2>3, StaysKilled
      <3>2. ~HasMessage(q, "server")'
        <4>1. CASE q # p BY <2>1, <2>3, <4>1, OthersSame DEF Same, SameClient, HasMessage
        <4>2. CASE q = p
          <5>1. ~(ClientStep(p) \/ FaultStep(p))
            BY <2>3, <4>2 DEF ClientStep, FaultStep, Client, ClientFault, Fork, Wait, Connects, ConnectFails,
                  Send, Receive, Leave, BrokenPipe, ForkFails, SocketFails, Garble, Die
          <5>2. CASE ThreadStep(p)
            <6>1. Sigpipe(p)
              <7>1. ASSUME ~Sigpipe(p)  PROVE FALSE
                <8>1. CASE Handler(p) BY <8>1, HandlerIs DEF sockets
                <8>2. CASE ~Handler(p)
                  BY <5>2, <7>1, <8>2 DEF ThreadStep, Thread, Handler, Read, Reply, CloseSocket, At,
                     WriteAnswer, Write, Take, Close, sockets
                <8> QED BY <8>1, <8>2
              <7> QED BY <7>1
            <6>2. inbox' = inbox BY <6>1 DEF Sigpipe, ServerGone
            <6> QED BY <2>3, <6>2 DEF HasMessage
          <5>3. CASE ~ThreadStep(p)
            BY <2>3, <5>1, <5>3 DEF StepOf, Admit, TurnAway, HasMessage
          <5> QED BY <5>2, <5>3
        <4> QED BY <4>1, <4>2
      <3>3. /\ lost[q]["server"] \in Nat /\ lost'[q]["server"] \in Nat
            /\ lost[q]["server"] <= lost'[q]["server"]
        BY <2>1, <2>3, LostGrows
      <3>4. buffer[q].data[l] \in Nat BY <2>1, HeldIs
      <3>5. (lost[q]["server"] + 1) * buffer[q].data[l]
              <= (lost'[q]["server"] + 1) * buffer[q].data[l]
        <4>1. /\ lost[q]["server"] + 1 \in Nat /\ lost'[q]["server"] + 1 \in Nat
              /\ lost[q]["server"] + 1 <= lost'[q]["server"] + 1
          BY <3>3
        <4> QED BY <3>4, <4>1, TimesOnce
      <3> QED BY <1>1, <2>3, <3>1, <3>2, <3>5 DEF Replayed
    <2>4. CASE UNCHANGED vars
      <3>1. Replayed(q, l)' = Replayed(q, l)
        BY <2>4 DEF vars, sockets, clients, server, Replayed, HasMessage
      <3>2. Replayed(q, l) \in Nat BY <2>1, HeldIs
      <3> QED BY <3>1, <3>2
    <2> QED BY <2>2, <2>3, <2>4
  <1>4. \A q \in Clients : f[q] \in Nat /\ g[q] \in Nat /\ f[q] <= g[q]
    <2> SUFFICES ASSUME NEW q \in Clients
                 PROVE  f[q] \in Nat /\ g[q] \in Nat /\ f[q] <= g[q]
      OBVIOUS
    <2>1. q \in Process BY <1>2
    <2>2. Sent(q, l) \in Nat /\ Sent(q, l)' \in Nat /\ Sent(q, l) <= Sent(q, l)' BY <2>1, SentGrows
    <2>3. Replayed(q, l) \in Nat /\ Replayed(q, l)' \in Nat BY <2>1, HeldIs DEF HeldTyped
    <2>4. f[q] = Sent(q, l) + Replayed(q, l) /\ g[q] = Sent(q, l)' + Replayed(q, l)' BY <2>1
    <2> QED BY <1>3, <2>2, <2>3, <2>4
  <1>5. \A q \in Clients' : g[q] \in Nat
    <2> SUFFICES ASSUME NEW q \in Clients'  PROVE g[q] \in Nat OBVIOUS
    <2>1. q \in Process BY <1>2
    <2>2. Sent(q, l)' \in Nat /\ Replayed(q, l)' \in Nat BY <2>1 DEF HeldTyped
    <2> QED BY <2>1, <2>2
  <1>6. MayHold(l) = SumFunctionOnSet(f, Clients) /\ MayHold(l)' = SumFunctionOnSet(g, Clients')
    BY DEF MayHold
  <1> HIDE DEF f, g
  <1> QED BY <1>1, <1>2, <1>4, <1>5, <1>6, SumIsNat, SumMonotone

LEMMA BoundStep ==
  ASSUME Typed, HeldTyped', HeldBounded', SessionInv, DeadInv, BoundInv,
         NEW p \in Process, StepOf(p)
  PROVE  BoundInv'
  <1>1. /\ azList \in [Letter -> Nat] /\ reg \in [Process -> Nat] /\ i \in [Process -> Nat]
        /\ tpc \in [Process -> TStates] /\ NumLetters \in Nat
    BY Protocols DEF Typed, Connections, ConnInv, ThreadInv, ThreadTyped
  <1>2. CASE ~listening'
    <2>1. ASSUME NEW l \in Letter  PROVE azList'[l] <= MayHold(l)'
      <3>1. azList' = azList /\ MayHold(l) \in Nat /\ MayHold(l)' \in Nat /\ MayHold(l) <= MayHold(l)'
        BY <1>2, MayHoldGrows
      <3> QED BY <1>1, <3>1 DEF BoundInv
    <2> QED BY <1>2, <2>1 DEF BoundInv
  <1>3. CASE listening'
    <2>1. listening BY <1>3, LiveStep
    <2>2. \A l \in Letter :
            /\ AllHeld(l) \in Nat /\ AllHeld(l)' \in Nat /\ buffer[p].data[l] \in Nat
            /\ AllHeld(l) <= AllHeld(l)'
            /\ StoreAz(p) /\ i[p] + 1 = l => AllHeld(l) + buffer[p].data[l] <= AllHeld(l)'
      <3> SUFFICES ASSUME NEW l \in Letter
                   PROVE  /\ AllHeld(l) \in Nat /\ AllHeld(l)' \in Nat /\ buffer[p].data[l] \in Nat
                          /\ AllHeld(l) <= AllHeld(l)'
                          /\ StoreAz(p) /\ i[p] + 1 = l =>
                               AllHeld(l) + buffer[p].data[l] <= AllHeld(l)'
        OBVIOUS
      <3>1. /\ AllHeld(l) \in Nat /\ AllHeld(l)' \in Nat /\ buffer[p].data[l] \in Nat
            /\ AllHeld(l) + (IF StoreAz(p) /\ i[p] + 1 = l THEN buffer[p].data[l] ELSE 0)
                 <= AllHeld(l)'
        BY <1>3, AllHeldStep
      <3>2. CASE StoreAz(p) /\ i[p] + 1 = l BY <3>1, <3>2
      <3>3. CASE ~(StoreAz(p) /\ i[p] + 1 = l) BY <3>1, <3>3
      <3> QED BY <3>2, <3>3
    <2>3. /\ \A l \in Letter : azList[l] <= AllHeld(l)
          /\ \A t \in Clients : \A l \in Letter :
               tpc[t] = "storeAz" /\ i[t] + 1 = l => reg[t] <= AllHeld(l)
      BY <2>1 DEF BoundInv
    <2>4. ASSUME NEW l \in Letter  PROVE azList'[l] \in Nat /\ azList'[l] <= AllHeld(l)'
      <3>1. CASE StoreAz(p) /\ l = i[p] + 1
        <4>1. p \in Clients /\ tpc[p] = "storeAz"
          BY <3>1 DEF StoreAz, Handle, At, Clients, Admitted
        <4>2. azList'[l] = reg[p] + buffer[p].data[l] BY <1>1, <3>1 DEF StoreAz
        <4>3. reg[p] <= AllHeld(l) /\ reg[p] \in Nat BY <1>1, <2>3, <3>1, <4>1
        <4>4. AllHeld(l) + buffer[p].data[l] <= AllHeld(l)' BY <2>2, <3>1
        <4> QED BY <2>2, <4>2, <4>3, <4>4
      <3>2. CASE ~(StoreAz(p) /\ l = i[p] + 1)
        <4>1. azList'[l] = azList[l]
          <5>1. CASE StoreAz(p) BY <1>1, <3>2, <5>1 DEF StoreAz
          <5>2. CASE ThreadStep(p) /\ ~StoreAz(p)
            BY <5>2 DEF ThreadStep, Thread, Read, Checkin, Copy, Own, Sum, LoadRow, StoreRow, LoadAz,
               Checkout, Reply, Sigpipe, CloseSocket, shared
          <5>3. CASE ~ThreadStep(p)
            BY <5>3 DEF StepOf, Admit, TurnAway, ClientStep, FaultStep, server, shared
          <5> QED BY <5>1, <5>2, <5>3
        <4>2. azList[l] <= AllHeld(l) /\ azList[l] \in Nat BY <1>1, <2>3
        <4>3. AllHeld(l) \in Nat /\ AllHeld(l)' \in Nat /\ AllHeld(l) <= AllHeld(l)' BY <2>2
        <4> QED BY <4>1, <4>2, <4>3
      <3> QED BY <3>1, <3>2
    <2>5. ASSUME NEW t \in Clients', NEW l \in Letter, tpc'[t] = "storeAz", i'[t] + 1 = l
          PROVE  reg'[t] <= AllHeld(l)'
      <3>1. t \in Process BY DEF Clients
      <3>2. CASE t = p /\ LoadAz(p)
        <4>1. tpc[p] = "loadAz" /\ reg'[p] = azList[i[p] + 1] /\ i'[p] = i[p]
          BY <1>1, <3>2 DEF LoadAz, Handle, At
        <4>2. azList[l] <= AllHeld(l) /\ azList[l] \in Nat BY <1>1, <2>3
        <4>3. AllHeld(l) \in Nat /\ AllHeld(l)' \in Nat /\ AllHeld(l) <= AllHeld(l)' BY <2>2
        <4>4. reg'[t] = azList[l] BY <2>5, <3>2, <4>1
        <4> QED BY <4>2, <4>3, <4>4
      <3>3. CASE ~(t = p /\ LoadAz(p))
        <4>1. tpc[t] = "storeAz" /\ reg'[t] = reg[t] /\ i'[t] = i[t]
          <5>1. CASE ThreadStep(p) /\ t # p BY <2>5, <3>1, <5>1, ThreadLeavesOthers DEF SameThread
          <5>2. CASE ThreadStep(p) /\ t = p
            <6>1. tpc'[p] # "storeAz"
              <7>1. CASE Read(p)
                BY <1>1, <7>1 DEF Read, Goto, Dispatch
              <7>2. CASE ~Read(p)
                BY <1>1, <3>3, <5>2, <7>2 DEF ThreadStep, Thread, Checkin, Copy, Own, Sum, LoadRow,
                   StoreRow, StoreAz, Checkout, Reply, Sigpipe, CloseSocket, Handle, At, Goto
              <7> QED BY <7>1, <7>2
            <6> QED BY <2>5, <5>2, <6>1
          <5>3. CASE ~ThreadStep(p)
            <6>1. /\ reg' = reg /\ i' = i
                  /\ tpc' = tpc \/ tpc' = [tpc EXCEPT ![p] = "read"]
              BY <5>3 DEF StepOf, Admit, TurnAway, ClientStep, FaultStep, server
            <6> QED BY <1>1, <2>5, <3>1, <6>1
          <5> QED BY <5>1, <5>2, <5>3
        <4>2. t \in Clients BY <3>1, <4>1 DEF Clients, Admitted
        <4>3. reg[t] <= AllHeld(l) /\ reg[t] \in Nat BY <1>1, <2>3, <2>5, <3>1, <4>1, <4>2
        <4>4. AllHeld(l) \in Nat /\ AllHeld(l)' \in Nat /\ AllHeld(l) <= AllHeld(l)' BY <2>2
        <4> QED BY <4>1, <4>3, <4>4
      <3> QED BY <3>2, <3>3
    <2>6. ASSUME NEW l \in Letter  PROVE azList'[l] <= MayHold(l)'
      <3>1. AllHeld(l)' \in Nat /\ MayHold(l)' \in Nat /\ AllHeld(l)' <= MayHold(l)'
        BY DEF HeldBounded
      <3> QED BY <2>4, <3>1
    <2> QED BY <2>4, <2>5, <2>6 DEF BoundInv
  <1> QED BY <1>2, <1>3

LEMMA BoundUnchanged ==
  ASSUME UNCHANGED vars, BoundInv
  PROVE  BoundInv'
  <1>1. UNCHANGED <<inbox, lost, listening, azList, tpc, buffer, i, reg, cpc>>
    BY DEF vars, sockets, server, shared, clients
  <1>2. Clients' = Clients BY <1>1 DEF Clients, Admitted
  <1>3. ASSUME NEW q, NEW l
        PROVE  Held(q, l)' = Held(q, l) /\ Sent(q, l)' + Replayed(q, l)' = Sent(q, l) + Replayed(q, l)
    <2>1. AzAdded(q, l)' = AzAdded(q, l) /\ Sent(q, l)' = Sent(q, l) BY CountsUnchanged
    <2>2. HasMessage(q, "server")' = HasMessage(q, "server") BY <1>1 DEF HasMessage
    <2>3. Replays(q, l)' = Replays(q, l) BY <1>1 DEF Replays
    <2>4. Replayed(q, l)' = Replayed(q, l) BY <1>1, <2>2 DEF Replayed
    <2>5. Held(q, l)' = Held(q, l) BY <1>1, <2>1, <2>2, <2>3 DEF Held
    <2> QED BY <2>1, <2>4, <2>5
  <1>4. \A l : AllHeld(l)' = AllHeld(l) /\ MayHold(l)' = MayHold(l)
    BY <1>2, <1>3 DEF AllHeld, MayHold
  <1> QED BY <1>1, <1>2, <1>4 DEF BoundInv

LEMMA BoundInit == Init => BoundInv
  <1> SUFFICES ASSUME Init  PROVE BoundInv OBVIOUS
  <1>1. Clients = {} BY DEF Init, ServerInit, Clients, Admitted
  <1>2. \A l \in Letter : AllHeld(l) = 0 /\ MayHold(l) = 0
    BY <1>1, SumOfNone DEF AllHeld, MayHold
  <1>3. \A l \in Letter : azList[l] = 0 BY DEF Init, ServerInit, Zeros
  <1> QED BY <1>1, <1>2, <1>3 DEF BoundInv

LEMMA SpecBound == Spec => [](Served /\ DeadInv /\ BoundInv)
  <1>1. ASSUME Typed, HeldTyped', HeldBounded', SessionInv, DeadInv, BoundInv, [Next]_vars
        PROVE  DeadInv' /\ BoundInv'
    <2>1. CASE UNCHANGED vars BY <1>1, <2>1, DeadStep, BoundUnchanged
    <2>2. CASE \E p \in Process : StepOf(p) BY <1>1, <2>2, DeadStep, BoundStep
    <2> QED BY <1>1, <2>1, <2>2, StepIsOfOne
  <1>2. Served => Typed /\ SessionInv BY DEF Served
  <1> QED BY <1>1, <1>2, HeldTypes, HeldIsBounded, DeadInit, BoundInit, SpecServed, PTL DEF Spec

\* The two counting invariants hold together with those of the sessions.
LEMMA SpecCounts == Spec => [](Served /\ RowCountInv /\ AzCountInv)
  <1>1. Served /\ RowCountInv /\ AzCountInv /\ [Next]_vars => RowCountInv' /\ AzCountInv'
    BY RowCountStep, AzCountStep DEF Served
  <1> QED BY <1>1, RowCountInit, AzCountInit, SpecServed, PTL DEF Spec

(***************************************************************************)
(* No letter counts more than was sent, the words a dead client's last     *)
(* request brings again apart, whoever dies; and between updates none is   *)
(* missing while nobody has died, where the loads and stores of two        *)
(* threads have not crossed: for any number of clients and files.          *)
(***************************************************************************)
THEOREM EveryWordCounted == Spec => []CountsExact
  <1>1. Served /\ AzCountInv /\ BoundInv => CountsExact
    <2> SUFFICES ASSUME Served, AzCountInv, BoundInv, NEW l \in Letter
                 PROVE  /\ azList[l] <= MayHold(l)
                        /\ Undisturbed /\ Quiet /\ l \notin crossedAz => azList[l] = AllSent(l)
      BY DEF CountsExact
    <2>1. azList[l] <= MayHold(l) BY DEF BoundInv
    <2>2. Typed /\ azList[l] \in Nat /\ (Undisturbed => AzCounted(l))
      BY DEF Served, AzCountInv, Typed, ThreadInv, ThreadTyped
    <2>3. Quiet => \A q \in Clients : ~AzToCome(q, l)
      BY DEF Quiet, AzToCome, HasMessage, Clients
    <2>4. (\A q \in Clients : ~AzToCome(q, l)) => AllAzAdded(l) = AllSent(l)
      BY <2>2, AllAddedOfSent
    <2> QED BY <2>1, <2>2, <2>3, <2>4 DEF AzCounted
  <1> QED BY <1>1, SpecCounts, SpecBound, PTL

(***************************************************************************)
(* What an answer covers.                                                  *)
(***************************************************************************)
LEMMA CoveredStays ==
  ASSUME Typed, NEW p \in Process, StepOf(p), NEW q \in Process,
         NEW data \in [Letter -> Nat], NEW n \in 0 .. NumLetters,
         LettersCovered(q, data, n), messageCount'[q] = messageCount[q]
  PROVE  LettersCovered(q, data, n)'
  <1> SUFFICES ASSUME NEW l \in 1 .. n
               PROVE  data[l] <= AllSent(l)' /\ (l \notin crossedAz' => Sent(q, l)' <= data[l])
    BY DEF LettersCovered
  <1>1. l \in Letter BY ProtocolAssumption DEF Letter
  <1>2. data[l] <= AllSent(l) /\ (l \notin crossedAz => Sent(q, l) <= data[l]) /\ data[l] \in Nat
    BY <1>1 DEF LettersCovered
  <1>3. AllSent(l) \in Nat /\ AllSent(l)' \in Nat /\ AllSent(l) <= AllSent(l)' BY <1>1, AllSentGrows
  <1>4. Sent(q, l)' = Sent(q, l) BY <1>1, SentGrows
  <1>5. crossedAz \subseteq crossedAz' BY CrossedGrow
  <1> QED BY <1>2, <1>3, <1>4, <1>5

\* A letter more in the answer to GET_AZLIST.
LEMMA CopyCovers ==
  ASSUME Typed, SessionInv, AzCountInv, NEW p \in Process, StepOf(p), Undisturbed', Copy(p),
         NEW n \in 0 .. NumLetters, n = i[p] + 1,
         LettersCovered(p, bufferResponse[p].data, i[p]), NEW data, data = bufferResponse'[p].data
  PROVE  /\ data \in [Letter -> Nat] /\ LettersCovered(p, data, n)'
         /\ tpc'[p] = IF n = NumLetters THEN "reply" ELSE "copy"
         /\ i'[p] = IF n = NumLetters THEN 0 ELSE n
  <1>1. p \in Clients /\ InHandler(p) /\ UNCHANGED clients BY StoresInSession DEF Handler
  <1>2. /\ i[p] \in Nat /\ NumLetters \in Nat /\ azList \in [Letter -> Nat] /\ n \in Letter
        /\ i \in [Process -> Nat] /\ tpc \in [Process -> TStates] /\ LastLetter = NumLetters
    BY <1>1, RowTyped DEF Letter
  <1>3. /\ tpc[p] = "copy"
        /\ tpc' = [tpc EXCEPT ![p] = IF n = NumLetters THEN "reply" ELSE "copy"]
        /\ i' = [i EXCEPT ![p] = IF n = NumLetters THEN 0 ELSE n]
        /\ Fill(p, RSP_OK, [bufferResponse[p].data EXCEPT ![n] = azList[n]])
    BY <1>2 DEF Copy, Handle, At, Goto
  <1>4. bufferResponse \in [Process -> Response] BY DEF Typed, ThreadInv, ThreadTyped
  <1>5. bufferResponse[p].data \in [Letter -> Nat] BY <1>4 DEF Response
  <1>6. bufferResponse'[p].data = [bufferResponse[p].data EXCEPT ![n] = azList[n]]
    BY <1>3, <1>4 DEF Fill, Answer
  <1>7. ~AzToCome(p, n)
    <2>1. buffer[p].command = GET_AZLIST BY <1>3 DEF Typed, ThreadInv, ThreadOk, HandlerOf
    <2>2. command[p] = GET_AZLIST BY <1>1, <2>1 DEF InHandler, Ask
    <2> QED BY <2>2 DEF AzToCome, Updating, GET_AZLIST, UPDATE_AZLIST
  <1>8. azList[n] <= AllSent(n) /\ (n \notin crossedAz => Sent(p, n) <= azList[n])
    <2>1. AzCounted(n) BY <1>2, StaysDisturbed DEF AzCountInv
    <2>2. /\ AllAzAdded(n) \in Nat /\ AllSent(n) \in Nat /\ AllAzAdded(n) <= AllSent(n)
          /\ Sent(p, n) <= AllAzAdded(n)
      BY <1>1, <1>2, <1>7, AllAddedOfSent
    <2> QED BY <1>2, <2>1, <2>2 DEF AzCounted
  <1>9. data \in [Letter -> Nat] BY <1>2, <1>5, <1>6
  <1>10. ASSUME NEW l \in 1 .. n
         PROVE  data[l] <= AllSent(l) /\ (l \notin crossedAz => Sent(p, l) <= data[l])
    <2>1. l \in Letter BY <1>2 DEF Letter
    <2>2. CASE l = n BY <1>5, <1>6, <1>8, <2>1, <2>2
    <2>3. CASE l # n
      <3>1. l \in 1 .. i[p] BY <1>2, <2>3
      <3>2. data[l] = bufferResponse[p].data[l] BY <1>5, <1>6, <2>1, <2>3
      <3> QED BY <3>1, <3>2 DEF LettersCovered
    <2> QED BY <2>2, <2>3
  <1>11. LettersCovered(p, data, n) BY <1>10 DEF LettersCovered
  <1>12. messageCount'[p] = messageCount[p] BY <1>1 DEF clients
  <1>13. LettersCovered(p, data, n)' BY <1>1, <1>9, <1>11, <1>12, CoveredStays DEF Clients
  <1> QED BY <1>1, <1>2, <1>3, <1>9, <1>13 DEF Clients

\* The last row in the answer to GET_ALL_UPDATES.
LEMMA SumCovers ==
  ASSUME Typed, SessionInv, RowCountInv, NEW p \in Process, StepOf(p), Undisturbed', Sum(p),
         tpc'[p] = "reply"
  PROVE  /\ bufferResponse'[p].data[1] \in Nat /\ bufferResponse'[p].data[1] <= AllMessages'
         /\ Id(p) \notin crossedRow' => messageCount'[p] <= bufferResponse'[p].data[1]
  <1>1. p \in Clients BY StoresInSession DEF Handler
  <1>2. /\ i[p] \in Nat /\ tpc \in [Process -> TStates] /\ LastRowSummed = Rows - 1 /\ Rows \in Nat
        /\ Id(p) \in Row /\ 1 \in Letter
    BY <1>1, RowTyped, ProtocolAssumption DEF Letter
  <1>3. /\ i[p] = Rows - 1
        /\ Fill(p, RSP_OK, Scalar(p, reg[p] + numUpdates[i[p]]))
    BY <1>2 DEF Sum, Handle, At, Goto
  <1>4. bufferResponse \in [Process -> Response] BY DEF Typed, ThreadInv, ThreadTyped
  <1>5. bufferResponse[p].data \in [Letter -> Nat] BY <1>4 DEF Response
  <1>6. bufferResponse'[p].data[1] = reg[p] + numUpdates[i[p]]
    BY <1>2, <1>3, <1>4, <1>5 DEF Fill, Answer, Scalar
  <1>7. Rows \in Int /\ Rows = i[p] + 1 BY <1>2, <1>3
  <1>8. /\ reg[p] + numUpdates[i[p]] \in Nat /\ messageCount'[p] = messageCount[p]
        /\ reg[p] + numUpdates[i[p]] <= RowsAdded(BelowRow(Rows))
        /\ Id(p) < Rows /\ Id(p) \notin crossedRow => messageCount[p] <= reg[p] + numUpdates[i[p]]
    BY <1>7, SumsNextRow
  <1>9. BelowRow(Rows) = Clients
    <2>1. \A q \in Clients : Id(q) < Rows BY <1>2, InService DEF Clients, Row
    <2> QED BY <2>1 DEF BelowRow
  <1>10. RowsAdded(Clients) \in Nat /\ AllMessages \in Nat /\ RowsAdded(Clients) <= AllMessages
    BY <1>2, AllAddedOfSent
  <1>11. AllMessages' \in Nat /\ AllMessages <= AllMessages' BY AllMessagesGrow
  <1>12. Id(p) < Rows BY <1>2 DEF Row
  <1>13. crossedRow \subseteq crossedRow' BY CrossedGrow
  <1>14. reg[p] + numUpdates[i[p]] <= AllMessages' BY <1>8, <1>9, <1>10, <1>11
  <1> QED BY <1>6, <1>8, <1>12, <1>13, <1>14

LEMMA CopyingStep ==
  ASSUME Typed, SessionInv, AzCountInv, CoverInv, NEW p \in Process, StepOf(p), Undisturbed',
         NEW t \in Clients', tpc'[t] = "copy"
  PROVE  LettersCovered(t, bufferResponse[t].data, i[t])'
  <1>1. /\ Undisturbed /\ t \in Process
        /\ \A u \in Clients : tpc[u] = "copy" => LettersCovered(u, bufferResponse[u].data, i[u])
    BY StaysDisturbed DEF CoverInv, Clients
  <1>2. PICK n : n = i'[t] OBVIOUS
  <1>3. PICK data : data = bufferResponse'[t].data OBVIOUS
  <1>4. SUFFICES LettersCovered(t, data, n)' BY <1>2, <1>3 DEF LettersCovered
  <1>5. NumLetters \in Nat /\ bufferResponse \in [Process -> Response]
    BY ProtocolAssumption DEF Typed, ThreadInv, ThreadTyped
  <1>6. ASSUME t \in Clients, tpc[t] = "copy", i'[t] = i[t], bufferResponse'[t] = bufferResponse[t],
               messageCount'[t] = messageCount[t]
        PROVE  LettersCovered(t, data, n)'
    <2>1. n \in 0 .. NumLetters
      BY <1>2, <1>5, <1>6, RowTyped DEF Typed, ThreadInv, ThreadOk
    <2>2. data \in [Letter -> Nat] BY <1>1, <1>3, <1>5, <1>6 DEF Response
    <2>3. LettersCovered(t, data, n) BY <1>1, <1>2, <1>3, <1>6
    <2> QED BY <1>1, <1>6, <2>1, <2>2, <2>3, CoveredStays
  <1>7. CASE t # p
    BY <1>6, <1>7, SessionsStay DEF Same, SameThread, SameClient
  <1>8. CASE t = p /\ Handler(p)
    <2>1. p \in Clients BY <1>8, StoresInSession
    <2>2. Copy(p)
      BY <1>8, <2>1, RowTyped DEF Handler, Checkin, Own, Sum, LoadRow, StoreRow, LoadAz, StoreAz, Checkout,
         Handle, At, Goto
    <2>3. tpc[p] = "copy" BY <2>2 DEF Copy, Handle, At
    <2>4. PICK m \in 0 .. NumLetters : m = i[p] + 1
      BY <1>5, <2>1, <2>3, RowTyped DEF Typed, ThreadInv, ThreadOk
    <2>5. /\ LettersCovered(p, data, m)' /\ tpc'[p] = IF m = NumLetters THEN "reply" ELSE "copy"
          /\ i'[p] = IF m = NumLetters THEN 0 ELSE m
      BY <1>1, <1>3, <1>8, <2>1, <2>2, <2>3, <2>4, CopyCovers
    <2> QED BY <1>2, <1>8, <2>5
  <1>9. CASE t = p /\ ~Handler(p)
    <2>1. t \in Clients /\ i' = i BY <1>9, NoHandler DEF Clients, Admitted
    <2>2. CASE tpc[p] = "copy"
      <3>1. ~ThreadStep(p)
        BY <1>9, <2>2 DEF ThreadStep, Thread, Handler, Read, Reply, Sigpipe, CloseSocket, At
      <3>2. bufferResponse' = bufferResponse
        BY <3>1 DEF StepOf, Admit, TurnAway, ClientStep, FaultStep, server
      <3>3. Session(p) BY <1>1, <1>9, <2>1 DEF SessionInv, Undisturbed, Live, Clients
      <3>4. InHandler(p) BY <1>1, <1>9, <2>2, <3>3, PhaseIs DEF Handling, TStates
      <3>5. messageCount'[p] = messageCount[p] BY <3>4, CountsGrow DEF InHandler, Send
      <3> QED BY <1>6, <1>9, <2>1, <2>2, <3>2, <3>5
    <2>3. CASE tpc[p] # "copy"
      <3>1. i'[t] = 0 BY <1>9, <2>1, <2>3, NoHandler
      <3> QED BY <1>2, <3>1 DEF LettersCovered
    <2> QED BY <2>2, <2>3
  <1> QED BY <1>7, <1>8, <1>9


LEMMA AnswerStep ==
  ASSUME Typed, SessionInv, RowCountInv, AzCountInv, CoverInv, NEW p \in Process, StepOf(p), Undisturbed',
         NEW q \in Clients', HasAnswer(q)'
  PROVE  AnswerCovers(q)'
  <1>1. /\ Undisturbed /\ q \in Process
        /\ \A u \in Clients : HasAnswer(u) => AnswerCovers(u)
        /\ \A u \in Clients : tpc[u] = "copy" => LettersCovered(u, bufferResponse[u].data, i[u])
    BY StaysDisturbed DEF CoverInv, Clients
  <1>2. NumLetters \in Nat /\ 1 \in Letter /\ NumLetters \in 0 .. NumLetters
    BY ProtocolAssumption DEF Letter
  <1>3. Id(q)' = Id(q) BY DEF Id
  <1>4. CASE q \in Clients /\ Advances(q)
    <2>1. /\ HasAnswer(q) /\ Given(q)' = Given(q) /\ command'[q] = command[q]
          /\ messageCount'[q] = messageCount[q]
      BY <1>4 DEF Advances
    <2>2. AnswerCovers(q) BY <1>1, <1>4, <2>1
    <2>3. Given(q) \in Response
      <3>1. /\ answer[q] \in Response /\ bufferResponse[q] \in Response
            /\ inbox[q]["client"] \in Seq(Response)
        BY <1>1 DEF Typed, MessageInv, ThreadInv, ThreadTyped
      <3> QED BY <3>1 DEF Given
    <2>4. PICK data \in [Letter -> Nat] : data = Given(q).data BY <2>3 DEF Response
    <2>5. Given(q)'.data = data BY <2>1, <2>4
    <2>6. ASSUME command'[q] = GET_AZLIST  PROVE LettersCovered(q, data, NumLetters)'
      <3>1. LettersCovered(q, data, NumLetters) BY <2>1, <2>2, <2>4, <2>6 DEF AnswerCovers
      <3> QED BY <1>1, <1>2, <2>1, <3>1, CoveredStays
    <2>7. ASSUME command'[q] = GET_ALL_UPDATES
          PROVE  data[1] <= AllMessages' /\ (Id(q) \notin crossedRow' => messageCount'[q] <= data[1])
      <3>1. data[1] <= AllMessages /\ (Id(q) \notin crossedRow => messageCount[q] <= data[1])
        BY <2>1, <2>2, <2>4, <2>7 DEF AnswerCovers
      <3>2. AllMessages \in Nat /\ AllMessages' \in Nat /\ AllMessages <= AllMessages' BY AllMessagesGrow
      <3>3. data[1] \in Nat BY <1>2
      <3>4. crossedRow \subseteq crossedRow' BY CrossedGrow
      <3> QED BY <2>1, <3>1, <3>2, <3>3, <3>4
    <2> QED BY <1>3, <2>5, <2>6, <2>7 DEF AnswerCovers, LettersCovered
  <1>5. CASE q = p /\ q \in Clients /\ UNCHANGED clients /\ (Read(p) \/ Handler(p))
    <2>1. Session(p) /\ listening /\ command' = command
      BY <1>5, SessionsStay DEF SessionInv, clients
    <2>2. CASE Read(p)
      <3>1. command'[p] = CHECKIN BY <1>5, <2>1, <2>2, ReadSession
      <3> QED BY <1>5, <3>1 DEF AnswerCovers, CHECKIN, GET_AZLIST, GET_ALL_UPDATES
    <2>3. CASE Handler(p)
      <3>1. tpc'[p] = "reply" /\ InHandler(p) /\ UNCHANGED <<cpc, inbox>>
        BY <1>5, <2>1, <2>3, HandlerSession, HandlerIs DEF clients, sockets
      <3>2. Given(p)' = bufferResponse'[p] BY <3>1 DEF Given, InHandler
      <3>3. buffer[p].command = command[p] /\ buffer[p].command \in HandlerOf(tpc[p])
        BY <3>1 DEF InHandler, Ask, Typed, ThreadInv, ThreadOk
      <3>4. tpc[p] \in TStates BY <1>5, RowTyped
      <3>5. ASSUME command'[p] = GET_AZLIST
            PROVE  \A data : data = bufferResponse'[p].data => LettersCovered(p, data, NumLetters)'
        <4>1. command[p] = GET_AZLIST BY <2>1, <3>5
        <4>2. ~(Checkin(p) \/ Own(p) \/ Sum(p) \/ LoadRow(p) \/ StoreRow(p) \/ LoadAz(p) \/ StoreAz(p) \/ Checkout(p))
          BY <3>3, <4>1 DEF Checkin, Own, Sum, LoadRow, StoreRow, LoadAz, StoreAz, Checkout,
             Handle, At, HandlerOf, CHECKIN, CHECKOUT, GET_AZLIST, UPDATE_AZLIST, GET_ALL_UPDATES,
             GET_MAPPER_UPDATES
        <4>3. Copy(p) /\ tpc[p] = "copy" BY <2>3, <4>2 DEF Handler, Copy, Handle, At
        <4>4. PICK n \in 0 .. NumLetters : n = i[p] + 1
          BY <1>2, <1>5, <4>3, RowTyped DEF Typed, ThreadInv, ThreadOk
        <4>5. LettersCovered(p, bufferResponse[p].data, i[p]) BY <1>1, <1>5, <4>3
        <4>6. SUFFICES ASSUME NEW data, data = bufferResponse'[p].data
                       PROVE  LettersCovered(p, data, NumLetters)'
          OBVIOUS
        <4>7. LettersCovered(p, data, n)' /\ tpc'[p] = IF n = NumLetters THEN "reply" ELSE "copy"
          BY <4>3, <4>4, <4>5, <4>6, CopyCovers
        <4>8. n = NumLetters BY <3>1, <4>7
        <4> QED BY <4>7, <4>8
      <3>6. ASSUME command'[p] = GET_ALL_UPDATES
            PROVE  /\ bufferResponse'[p].data[1] <= AllMessages'
                   /\ Id(p) \notin crossedRow' => messageCount'[p] <= bufferResponse'[p].data[1]
        <4>1. command[p] = GET_ALL_UPDATES BY <2>1, <3>6
        <4>2. ~(Checkin(p) \/ Own(p) \/ Copy(p) \/ LoadRow(p) \/ StoreRow(p) \/ LoadAz(p) \/ StoreAz(p) \/ Checkout(p))
          BY <3>3, <4>1 DEF Checkin, Own, Copy, LoadRow, StoreRow, LoadAz, StoreAz, Checkout,
             Handle, At, HandlerOf, CHECKIN, CHECKOUT, GET_AZLIST, UPDATE_AZLIST, GET_ALL_UPDATES,
             GET_MAPPER_UPDATES
        <4> QED BY <2>3, <3>1, <4>2, SumCovers DEF Handler
      <3>7. command'[p] = GET_AZLIST => LettersCovered(p, Given(p).data, NumLetters)'
        BY <3>2, <3>5 DEF LettersCovered
      <3> QED BY <1>3, <1>5, <3>2, <3>6, <3>7 DEF AnswerCovers
    <2> QED BY <1>5, <2>2, <2>3
  <1> QED BY <1>4, <1>5, ClientsGetOn

LEMMA CoverStep ==
  ASSUME Typed, SessionInv, RowCountInv, AzCountInv, CoverInv, [Next]_vars
  PROVE  CoverInv'
  <1>1. CASE UNCHANGED vars
    <2>1. UNCHANGED <<inbox, tpc, bufferResponse, i, crossedRow, crossedAz,
                      cpc, command, messageCount, answer, faults>>
      BY <1>1 DEF vars, sockets, server, crossed, clients
    <2>2. Clients' = Clients /\ Undisturbed' = Undisturbed
      BY <2>1 DEF Clients, Admitted, Undisturbed
    <2>3. \A q, l : Sent(q, l)' = Sent(q, l) BY <2>1 DEF Sent, FileWords, FileOf, Mappers, Id
    <2>4. \A l : AllSent(l)' = AllSent(l) BY <2>2, <2>3 DEF AllSent
    <2>5. AllMessages' = AllMessages BY <2>1, <2>2 DEF AllMessages
    <2>6. \A q : HasAnswer(q)' <=> HasAnswer(q) BY <2>1 DEF HasAnswer
    <2>7. \A q : Given(q)' = Given(q) BY <2>1 DEF Given
    <2>8. \A q, data, n : LettersCovered(q, data, n)' <=> LettersCovered(q, data, n)
      BY <2>1, <2>3, <2>4 DEF LettersCovered
    <2>9. ASSUME NEW q, AnswerCovers(q)  PROVE AnswerCovers(q)'
      <3>1. LettersCovered(q, Given(q).data, NumLetters)' <=> LettersCovered(q, Given(q).data, NumLetters)
        BY <2>1, <2>3, <2>4, <2>7 DEF LettersCovered
      <3>2. Id(q)' = Id(q) BY DEF Id
      <3> QED BY <2>1, <2>5, <2>7, <2>9, <3>1, <3>2 DEF AnswerCovers
    <2>10. ASSUME NEW t, LettersCovered(t, bufferResponse[t].data, i[t])
           PROVE  LettersCovered(t, bufferResponse[t].data, i[t])'
      BY <2>1, <2>3, <2>4, <2>10 DEF LettersCovered
    <2> QED BY <2>1, <2>2, <2>6, <2>9, <2>10 DEF CoverInv
  <1>2. CASE \E p \in Process : StepOf(p)
    BY <1>2, CopyingStep, AnswerStep DEF CoverInv
  <1> QED BY <1>1, <1>2, StepIsOfOne

(***************************************************************************)
(* An answer to GET_AZLIST or GET_ALL_UPDATES is no copy of any state the  *)
(* server was in; still it covers what the client itself has sent, where   *)
(* no loads and stores crossed, and never more than all have sent.         *)
(***************************************************************************)
THEOREM OwnWordsAnswered == Spec => []AnswersCoverOwn
  <1>1. Init => CoverInv
    <2>1. Init => Clients = {} BY DEF Init, ServerInit, Clients, Admitted
    <2> QED BY <2>1 DEF CoverInv
  <1>2. Served /\ RowCountInv /\ AzCountInv /\ CoverInv /\ [Next]_vars => CoverInv'
    BY CoverStep DEF Served
  <1>3. Served /\ CoverInv => AnswersCoverOwn
    <2> SUFFICES ASSUME Served, CoverInv, NEW p \in Process
                 PROVE  /\ Answered(p, GET_AZLIST) =>
                             LettersCovered(p, answer[p].data, NumLetters)
                        /\ Answered(p, GET_ALL_UPDATES) =>
                             /\ answer[p].data[1] <= AllMessages
                             /\ Id(p) \notin crossedRow => messageCount[p] <= answer[p].data[1]
      BY DEF AnswersCoverOwn, LettersCovered, Letter
    <2>1. GET_AZLIST \in Command \ {0} /\ GET_ALL_UPDATES \in Command \ {0}
      BY DEF Command, GET_AZLIST, GET_ALL_UPDATES, CHECKOUT
    <2>2. ASSUME NEW c \in Command \ {0}, Answered(p, c)
          PROVE  AnswerCovers(p) /\ command[p] = c /\ Given(p) = answer[p]
      <3>1. /\ Undisturbed /\ p \in Clients /\ command[p] = c
            /\ HasAnswer(p) /\ Given(p) = answer[p]
        BY <2>2, AnsweredHas
      <3> QED BY <3>1 DEF CoverInv
    <2> QED BY <2>1, <2>2 DEF AnswerCovers
  <1> QED BY <1>1, <1>2, <1>3, SpecCounts, PTL DEF Spec
=============================================================================
