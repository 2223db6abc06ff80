--------------------------- MODULE MapReduceService ---------------------------
(***************************************************************************)
(* The reducer server and the client programs using it                     *)
(* (src/project/project4), connected by the sockets of module Sockets.     *)
(***************************************************************************)
EXTENDS ReducerServer, MapperClients

vars == <<sockets, server, clients>>

Init == SocketsInit /\ ServerInit /\ ClientsInit

TypeOK ==
  /\ SocketsTypeOK(Request \cup Response)
  /\ ServerTypeOK
  /\ ClientsTypeOK

\* One turn of the server's accept loop.
MainStep ==
  \E p \in Process :
    \/ (Admit(p, TRUE) \/ TurnAway(p)) /\ UNCHANGED clients
    \/ /\ Admit(p, FALSE) /\ Fault("create", p)
       /\ UNCHANGED <<cpc, k, command, messageCount, answer>>

ThreadStep(p) == Thread(p) /\ UNCHANGED clients
ClientStep(p) == Client(p) /\ UNCHANGED server
FaultStep(p) == ClientFault(p) /\ UNCHANGED server

Next ==
  \/ MainStep
  \/ \E p \in Process : ThreadStep(p) \/ ClientStep(p) \/ FaultStep(p)

Spec == Init /\ [][Next]_vars

(***************************************************************************)
(* The scheduler runs every thread and process that can go on; a fault     *)
(* never has to happen.                                                    *)
(***************************************************************************)
FairSpec ==
  /\ Spec
  /\ WF_vars(MainStep)
  /\ \A p \in Process : WF_vars(ThreadStep(p)) /\ WF_vars(ClientStep(p))
-----------------------------------------------------------------------------
Admitted(p) == tpc[p] # "none"

\* No session the server took on has been cut short.
Undisturbed == \A p \in Process : Admitted(p) => cpc[p] # "killed"

\* Client p is past the read of the answer to command c.
HasRead(p, c) ==
  /\ command[p] = c /\ cpc[p] = IF c = CHECKOUT THEN "close" ELSE "send"

\* The same, when no session was cut short.
Answered(p, c) == Undisturbed /\ Admitted(p) /\ HasRead(p, c)

\* The words with letter l that client p has sent; what all have, in words and
\* in updates.
Sent(p, l) ==
  SumFunctionOnSet([n \in Nat |-> FileWords(p, n)[l]], 0 .. messageCount[p] - 1)
Clients == {p \in Process : Admitted(p)}
AllSent(l) == SumFunctionOnSet([p \in Process |-> Sent(p, l)], Clients)
AllMessages == SumFunctionOnSet(messageCount, Clients)

\* No update is on its way to, or in, the handler of UPDATE_AZLIST.
Quiet ==
  \A p \in Process :
    /\ ~HasMessage(p, "server")
    /\ tpc[p] \in {"none", "read", "reply", "close", "exit"}
-----------------------------------------------------------------------------
\* What a dead client's last request may have added to letter l beyond what the
\* client sent: it is handled again once for each answer that was lost, and once
\* more before the answer that raises SIGPIPE.
Replayed(p, l) ==
  IF cpc[p] = "killed" /\ ~HasMessage(p, "server")
  THEN (lost[p]["server"] + 1) * buffer[p].data[l] ELSE 0
MayHold(l) == SumFunctionOnSet([p \in Process |-> Sent(p, l) + Replayed(p, l)], Clients)

\* A word is counted twice only through a client that died, whose last request
\* the server handles again (server.c:32), and only until the answers to it have
\* raised SIGPIPE.  While nobody has died, a letter's count between updates is
\* the sum of what the clients sent, unless two threads were between load and
\* store of that letter at once (server.c:92): no other interleaving of the
\* unlocked loops loses a word.
CountsExact ==
  \A l \in Letter :
    /\ azList[l] <= MayHold(l)
    /\ Undisturbed /\ Quiet /\ l \notin crossedAz => azList[l] = AllSent(l)

\* GET_AZLIST, read letter by letter while others add (server.c:56), includes
\* all the client's own words and nothing nobody sent; GET_ALL_UPDATES, the sum
\* of rows others are changing (server.c:76), covers the client's own updates,
\* though these are in row pid, not pid-1.
AnswersCoverOwn ==
  \A p \in Process :
    /\ Answered(p, GET_AZLIST) =>
         \A l \in Letter :
           /\ answer[p].data[l] <= AllSent(l)
           /\ l \notin crossedAz => Sent(p, l) <= answer[p].data[l]
    /\ Answered(p, GET_ALL_UPDATES) =>
         /\ answer[p].data[1] <= AllMessages
         /\ Id(p) \notin crossedRow => messageCount[p] <= answer[p].data[1]

\* The answer a client logs belongs to the request it just sent, although
\* neither side looks at what read and write return (client.c:136, server.c:32),
\* whoever dies meanwhile.  What it logs again is an earlier answer, never one to
\* come, and only when its connection was closed without having been served or
\* the server is gone.
AnswersMatch ==
  \A p \in Process, c \in Command \ {0} :
    HasRead(p, c) =>
      \/ answer[p].command = c
      \/ /\ answer[p].command < c /\ end[p]["server"] = "closed"
         /\ ~(listening /\ Admitted(p))

\* Only a CHECKIN is ever refused, and only when another mapper of the same id
\* has sent its CHECKIN, or the previous mapper its CHECKOUT, which marked this
\* mapper's row (server.c:105).
RefusalsExplained ==
  \A p \in Process, c \in Command \ {0} :
    Answered(p, c) /\ answer[p].code = RSP_NOK =>
      /\ c = CHECKIN
      /\ \E q \in Process \ {p} :
           \/ Admitted(q) /\ Id(q) = Id(p) /\ command[q] # 0
           \/ Admitted(q) /\ Id(q) = Id(p) - 1 /\ command[q] = CHECKOUT

\* The server outlives everything but the death of a client it serves, whose
\* next answer raises SIGPIPE.
ServerOutlivesSessions == Undisturbed => listening

\* At most one client is ever told that the server is too busy: afterwards main
\* holds the lock and every later client waits in vain (server.c:193-196).
TurnedAwayAtMostOnce ==
  /\ Cardinality(Clients) <= MaxConn
  /\ listening =>
       Cardinality({p \in Process : ~Admitted(p) /\ end[p]["server"] = "closed"})
         = IF locked THEN 1 ELSE 0

\* Every client the server took on finishes, unless the server dies.
ServedToTheEnd ==
  <>[](listening => \A p \in Process : Admitted(p) => cpc[p] \in Terminated)

\* A client the server can no longer serve: it waits behind the lock main kept,
\* or for the thread that could not be created.
Stranded(p) ==
  /\ cpc[p] \notin Terminated
  /\ \/ locked /\ \E n \in DOMAIN backlog : backlog[n] = p
     \/ <<"create", p>> \in faults

\* Every client program ends, whatever connects are refused and although a child
\* whose connect fails forks the rest of the loop again, unless one of its own
\* mappers is stranded: the deadlock costs nobody else.
MastersFinish ==
  <>[](\A m \in Master :
         \/ cpc[MasterProcess(m)] = "exited"
         \/ \E p \in Process : p[1] = m /\ Stranded(p))
-----------------------------------------------------------------------------
\* The only mapper of an id is checked in
\* (Testcases/ExpectedResult/TestCase3/FinalResult.txt:8).
CheckinAccepted ==
  \A p \in Process : Answered(p, CHECKIN) => answer[p].code = RSP_OK

\* When the clients are done, the list holds all their words
\* (Testcases/ExpectedResult/TestCase3/FinalResult.txt:38).
FinalTotals ==
  (\A m \in Master : cpc[MasterProcess(m)] = "exited") /\ faults = {} /\ ~locked =>
    \A l \in Letter : azList[l] = AllSent(l)
=============================================================================
