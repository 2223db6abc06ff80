---------------------------- MODULE MapperClients ----------------------------
(***************************************************************************)
(* src/project/project4/PA4_Client: a master process partitions the files  *)
(* over NumMappers mappers and forks one child per mapper.  A child opens  *)
(* a connection, checks in, sends one update per file, asks the server for *)
(* the letters and the update counts, checks out and exits.  A child whose *)
(* connect fails falls through into the fork loop it was born in and       *)
(* forks the remaining mappers again.                                      *)
(*                                                                         *)
(* A process is named by its master and the set of loop indices at which   *)
(* it or an ancestor was forked; the largest is its mapper id.  The parts  *)
(* of a run before the fork loop (arguments, log file, traverseFS) have    *)
(* been done, with at least one file found, and only their result, the     *)
(* round-robin partition, is modelled.                                     *)
(***************************************************************************)
EXTENDS Sockets, Protocol, FiniteSets, FiniteSetsExt

CONSTANTS
  Master,        \* the client programs started
  NumMappers,    \* argv[2] of each; more than 32 are refused
  NumFiles,      \* files below the folder they all count
  Words,         \* Words[f][l]: words of file f that begin with letter l
  Faults,        \* the kinds of fault that may happen, see FaultKind
  MaxFaults      \* BOUND: faults in a run

(***************************************************************************)
(* "fork", "socket", "connect", "create": the call fails (pthread_create   *)
(* for the last); "die": a client is killed in its session, or passes NULL *)
(* to fclose when its list of files is missing; "garbled": the malloc'ed   *)
(* txtName is not empty, so the first path read is that of no file.        *)
(***************************************************************************)
FaultKind == {"fork", "socket", "connect", "create", "die", "garbled"}

ASSUME ClientAssumption ==
  /\ IsFiniteSet(Master) /\ NumMappers \in [Master -> 1 .. Rows - 1]
  /\ NumFiles \in Nat \ {0}
  /\ Words \in [1 .. NumFiles -> [Letter -> Nat]]
  /\ Faults \subseteq FaultKind /\ MaxFaults \in Nat

Processes == UNION {{m} \X SUBSET (1 .. NumMappers[m]) : m \in Master}
ASSUME ProcessAssumption == Process = Processes

Id(p) == Max(p[2])
Mappers(p) == NumMappers[p[1]]
MasterProcess(m) == <<m, {}>>
Child(p, k) == <<p[1], p[2] \cup {k}>>
Children(p) ==
  {q \in Process : q[1] = p[1] /\ q[2] # {} /\ q[2] \ {Id(q)} = p[2]}

VARIABLES
  cpc,             \* control
  k,               \* the fork loop's variable i, from 1
  command,         \* buffer[RQS_COMMAND_ID]
  messageCount,
  answer,          \* buffer_response
  faults           \* HISTORY: the faults that happened, <<kind, process>>

clients == <<cpc, k, command, messageCount, answer, faults>>

Terminated == {"exited", "killed"}
CPStates == {"unborn", "fork", "connect", "send", "receive", "close", "wait"}
              \cup Terminated

ClientsInit ==
  /\ cpc = [p \in Process |-> IF p[2] = {} THEN "fork" ELSE "unborn"]
  /\ k = [p \in Process |-> 1]
  /\ command = [p \in Process |-> 0]
  /\ messageCount = [p \in Process |-> 0]
  /\ answer = [p \in Process |-> NoResponse]
  /\ faults = {}

ClientsTypeOK ==
  /\ cpc \in [Process -> CPStates]
  /\ k \in [Process -> Nat \ {0}]
  /\ command \in [Process -> Command]
  /\ messageCount \in [Process -> 0 .. NumFiles]
  /\ answer \in [Process -> Response]
  /\ faults \subseteq Faults \X Process

Fault(kind, p) ==
  /\ kind \in Faults /\ Cardinality(faults) < MaxFaults
  /\ faults' = faults \cup {<<kind, p>>}

CGoto(p, s) == cpc' = [cpc EXCEPT ![p] = s]
-----------------------------------------------------------------------------
(***************************************************************************)
(* The fork loop and the wait loop after it.                               *)
(***************************************************************************)
LoopState(p, n) == IF n <= Mappers(p) THEN "fork" ELSE "wait"

Fork(p) ==
  LET child == Child(p, k[p]) IN
  /\ cpc[p] = "fork"
  /\ cpc' = [cpc EXCEPT ![p] = LoopState(p, k[p] + 1), ![child] = "connect"]
  /\ k' = [k EXCEPT ![p] = @ + 1, ![child] = k[p] + 1]
  /\ UNCHANGED <<sockets, command, messageCount, answer, faults>>

\* return 4, without waiting for the children there are.
ForkFails(p) ==
  /\ cpc[p] = "fork" /\ Fault("fork", p) /\ CGoto(p, "exited")
  /\ UNCHANGED <<sockets, k, command, messageCount, answer>>

\* wait(NULL), once per mapper, returns at once when there is no child left.
Wait(p) ==
  /\ cpc[p] = "wait" /\ \A q \in Children(p) : cpc[q] \in Terminated
  /\ CGoto(p, "exited")
  /\ UNCHANGED <<sockets, k, command, messageCount, answer, faults>>
-----------------------------------------------------------------------------
(***************************************************************************)
(* A mapper's session.                                                     *)
(***************************************************************************)
SocketFails(p) ==
  /\ cpc[p] = "connect" /\ Fault("socket", p) /\ CGoto(p, "exited")
  /\ UNCHANGED <<sockets, k, command, messageCount, answer>>

Connects(p) ==
  /\ cpc[p] = "connect" /\ Connect(p) /\ CGoto(p, "send")
  /\ UNCHANGED <<k, command, messageCount, answer, faults>>

\* The child goes on with the loop of the process that forked it.
AfterRefusalRetry(p) == "connect"
AfterRefusal(p) == LoopState(p, k[p])

ConnectFails(p) ==
  /\ cpc[p] = "connect" /\ CGoto(p, AfterRefusal(p))
  /\ \/ listening /\ Fault("connect", p)
     \/ ~listening /\ UNCHANGED faults
  /\ UNCHANGED <<sockets, k, command, messageCount, answer>>

\* Line n of MapperInput/Mapper_<id>.txt: traverseFS deals the files out in turn.
FileOf(p, n) == Id(p) + n * Mappers(p)
MoreFiles(p) == FileOf(p, messageCount[p]) <= NumFiles

NextCommand(p) ==
  IF command[p] \in {CHECKIN, UPDATE_AZLIST} /\ MoreFiles(p) THEN UPDATE_AZLIST
  ELSE IF command[p] = CHECKIN THEN GET_AZLIST
  ELSE command[p] + 1

\* The counts of the n-th file; an unreadable path leaves alphaCount zero.
FileWords(p, n) ==
  IF n = 0 /\ <<"garbled", p>> \in faults THEN Zeros ELSE Words[FileOf(p, n)]

Send(p) ==
  LET c == NextCommand(p)  update == c = UPDATE_AZLIST IN
  /\ cpc[p] = "send" /\ CGoto(p, "receive")
  /\ command' = [command EXCEPT ![p] = c]
  /\ messageCount' = [messageCount EXCEPT ![p] = IF update THEN @ + 1 ELSE @]
  /\ Write(p, "client",
       [command |-> c, pid |-> Id(p),
        data |-> IF update THEN FileWords(p, messageCount[p]) ELSE Zeros])
  /\ UNCHANGED <<k, answer, faults>>

Garble(p) ==
  /\ cpc[p] = "send" /\ command[p] = CHECKIN /\ <<"garbled", p>> \notin faults
  /\ Fault("garbled", p)
  /\ UNCHANGED <<sockets, cpc, k, command, messageCount, answer>>

SessionOverNever(p) == FALSE
SessionOver(p) == command[p] = CHECKOUT

\* read's result is ignored: at the end of the stream buffer_response stays.
EndOfAnswersUnblocked(p) == ~HasMessage(p, "client")
EndOfAnswers(p) == AtEOF(p, "client")

Receive(p) ==
  /\ cpc[p] = "receive" /\ CGoto(p, IF SessionOver(p) THEN "close" ELSE "send")
  /\ \/ /\ HasMessage(p, "client") /\ Take(p, "client")
        /\ answer' = [answer EXCEPT ![p] = Head(inbox[p]["client"])]
     \/ EndOfAnswers(p) /\ UNCHANGED <<sockets, answer>>
  /\ UNCHANGED <<k, command, messageCount, faults>>

Leave(p) ==
  /\ cpc[p] = "close" /\ CGoto(p, "exited") /\ Close({p}, "client")
  /\ UNCHANGED <<k, command, messageCount, answer, faults>>

\* SIGPIPE, which no client handles.
BrokenPipe(p) ==
  /\ cpc[p] = "send" /\ Reset(p, "client")
  /\ CGoto(p, "killed") /\ Close({p}, "client")
  /\ UNCHANGED <<k, command, messageCount, answer, faults>>

Die(p) ==
  /\ cpc[p] \in {"send", "receive"} /\ Fault("die", p)
  /\ CGoto(p, "killed") /\ Close({p}, "client")
  /\ UNCHANGED <<k, command, messageCount, answer>>

\* What the code does next, faults apart.
Client(p) ==
  \/ Fork(p) \/ Wait(p) \/ Connects(p) \/ ConnectFails(p) \/ Send(p)
  \/ Receive(p) \/ Leave(p) \/ BrokenPipe(p)

ClientFault(p) == ForkFails(p) \/ SocketFails(p) \/ Garble(p) \/ Die(p)
=============================================================================
