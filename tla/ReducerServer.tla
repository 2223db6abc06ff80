---------------------------- MODULE ReducerServer ----------------------------
(***************************************************************************)
(* src/project/project4/PA4_Server: the accept loop of main and the        *)
(* socketThread it creates for each connection.  Threads share azList and  *)
(* updateStatus without a lock (the lock calls are commented out), so each *)
(* load and each store of a shared cell is a step.                         *)
(*                                                                         *)
(* The thread serving client p is called p.  The table's rows are numbered *)
(* from 0 as in the code, letters from 1.  updateStatus[..][US_MAPPER_PID],*)
(* which nothing reads, is left out.                                       *)
(***************************************************************************)
EXTENDS Sockets, Protocol

CONSTANTS
  InitRows,     \* how many rows main initialises
  MaxConn       \* MAX_CONCURRENT_CLIENTS

ASSUME ServerAssumption == InitRows \in 0 .. Rows /\ MaxConn \in Nat

VARIABLES
  azList, numUpdates, isCheckedIn,   \* isCheckedIn, numUpdates: updateStatus
  currentConn, locked,               \* currentConn_lock, which only main takes
  tpc, buffer, bufferResponse, i,    \* socketThread; i is any of its loops' i
  reg,                               \* sum, or the register between load and store
  crossedRow, crossedAz              \* HISTORY: the cells of which updates crossed

shared == <<azList, numUpdates, isCheckedIn>>
accepting == <<currentConn, locked>>
crossed == <<crossedRow, crossedAz>>
server == <<shared, accepting, tpc, buffer, bufferResponse, i, reg, crossed>>

TStates == {"none", "read", "checkin", "copy", "own", "sum", "loadRow",
            "storeRow", "loadAz", "storeAz", "checkout", "reply", "close", "exit"}

\* socketThread zeroes buffer and bufferResponse before its loop.
ServerInit ==
  /\ azList = Zeros
  /\ numUpdates = [r \in Row |-> 0]
  /\ isCheckedIn = [r \in Row |-> IF r < InitRows THEN -1 ELSE 0]
  /\ currentConn = 0 /\ locked = FALSE
  /\ tpc = [t \in Process |-> "none"]
  /\ buffer = [t \in Process |-> NoRequest]
  /\ bufferResponse = [t \in Process |-> NoResponse]
  /\ i = [t \in Process |-> 0] /\ reg = [t \in Process |-> 0]
  /\ crossedRow = {} /\ crossedAz = {}

ServerTypeOK ==
  /\ azList \in [Letter -> Nat] /\ numUpdates \in [Row -> Nat]
  /\ isCheckedIn \in [Row -> {-1, 0, CHECKIN, CHECKOUT}]
  /\ currentConn \in 0 .. MaxConn /\ locked \in BOOLEAN
  /\ tpc \in [Process -> TStates]
  /\ buffer \in [Process -> Request]
  /\ bufferResponse \in [Process -> Response]
  /\ i \in [Process -> Nat] /\ reg \in [Process -> Nat]
  /\ crossedRow \subseteq Row /\ crossedAz \subseteq Letter
-----------------------------------------------------------------------------
(***************************************************************************)
(* A definition just before another whose name it extends (FullTooLate,    *)
(* Full) is a faulty variant of it, used by no action: the properties tell *)
(* the two apart.                                                          *)
(***************************************************************************)

(***************************************************************************)
(* main.  A step is one turn of the accept loop: nothing else takes the    *)
(* lock, and a connection accepted but not yet admitted is no different    *)
(* from a queued one.                                                      *)
(***************************************************************************)
Accepts(p) ==
  /\ listening /\ backlog # <<>> /\ ~locked
  /\ p = Head(backlog) /\ backlog' = Tail(backlog)

\* currentConn == MAX_CONCURRENT_CLIENTS
FullTooLate == currentConn = MaxConn + 1
Full == currentConn = MaxConn

\* A failed pthread_create is printed and otherwise ignored.
Admit(p, created) ==
  /\ Accepts(p) /\ ~Full
  /\ currentConn' = currentConn + 1
  /\ tpc' = IF created THEN [tpc EXCEPT ![p] = "read"] ELSE tpc
  /\ UNCHANGED <<end, inbox, lost, listening, shared, locked, buffer,
                 bufferResponse, i, reg, crossed>>

\* "Server is too busy": the continue skips the unlock.
TurnAway(p) ==
  /\ Accepts(p) /\ Full
  /\ locked' = TRUE
  /\ end' = EndsAfterClose({p}, "server") /\ lost' = LostAfterClose({p}, "server")
  /\ UNCHANGED <<inbox, listening, shared, currentConn, tpc, buffer,
                 bufferResponse, i, reg, crossed>>
-----------------------------------------------------------------------------
(***************************************************************************)
(* socketThread: the loop's read, the test of the mapper's row, a handler  *)
(* per command, the write of the answer.                                   *)
(***************************************************************************)
At(t, s) == listening /\ tpc[t] = s
Goto(t, s) == tpc' = [tpc EXCEPT ![t] = s]

\* A step of a handler, from state s to state next.
Handle(t, s, next) ==
  At(t, s) /\ Goto(t, next) /\ UNCHANGED <<sockets, accepting, buffer>>

Answer(request, code, data) ==
  [command |-> request.command, code |-> code, data |-> data]
Fill(t, code, data) ==
  bufferResponse' = [bufferResponse EXCEPT ![t] = Answer(buffer[t], code, data)]

\* bufferResponse[RSP_DATA] = n, the rest keeping what it held.
Scalar(t, n) == [bufferResponse[t].data EXCEPT ![1] = n]

\* Row pid-1 says the mapper has not checked in.  With no request read yet
\* (pid 0) the row is outside the table and holds anything.
NotCheckedIn(request) ==
  IF request.pid = 0 THEN BOOLEAN ELSE {isCheckedIn[request.pid - 1] \in {0, -1}}

Dispatch(request, unchecked) ==
  CASE unchecked /\ request.command = CHECKIN -> "checkin"
    [] ~unchecked /\ request.command = GET_AZLIST -> "copy"
    [] ~unchecked /\ request.command = GET_MAPPER_UPDATES -> "own"
    [] ~unchecked /\ request.command = GET_ALL_UPDATES -> "sum"
    [] ~unchecked /\ request.command = UPDATE_AZLIST -> "loadRow"
    [] ~unchecked /\ request.command = CHECKOUT -> "checkout"
    [] OTHER -> "refuse"

\* read's result is ignored: at the end of the stream, or after a reset, the
\* request handled last is still in buffer and is handled again.
EndOfInputUnblocked(t) == ~HasMessage(t, "server")
EndOfInput(t) == AtEOF(t, "server")

LastRequest(t) ==
  IF HasMessage(t, "server") THEN Head(inbox[t]["server"]) ELSE buffer[t]

Read(t) ==
  LET request == LastRequest(t) IN
  /\ At(t, "read")
  /\ \/ HasMessage(t, "server") /\ Take(t, "server")
     \/ EndOfInput(t) /\ UNCHANGED sockets
  /\ buffer' = [buffer EXCEPT ![t] = request]
  /\ \E unchecked \in NotCheckedIn(request) :
       LET next == Dispatch(request, unchecked) IN
       \/ /\ next = "refuse" /\ Goto(t, "reply")
          /\ bufferResponse' = [bufferResponse EXCEPT
               ![t] = Answer(request, RSP_NOK, Scalar(t, request.pid))]
       \/ next # "refuse" /\ Goto(t, next) /\ UNCHANGED bufferResponse
  /\ UNCHANGED <<shared, accepting, i, reg, crossed>>

Checkin(t) ==
  /\ Handle(t, "checkin", "reply")
  /\ isCheckedIn' = [isCheckedIn EXCEPT ![buffer[t].pid - 1] = CHECKIN]
  /\ Fill(t, RSP_OK, Scalar(t, buffer[t].pid))
  /\ UNCHANGED <<azList, numUpdates, i, reg, crossed>>

\* GET_AZLIST, one letter at a time.
LastLetter == NumLetters

Copy(t) ==
  LET l == i[t] + 1  last == l = LastLetter IN
  /\ Handle(t, "copy", IF last THEN "reply" ELSE "copy")
  /\ i' = [i EXCEPT ![t] = IF last THEN 0 ELSE l]
  /\ Fill(t, RSP_OK, [bufferResponse[t].data EXCEPT ![l] = azList[l]])
  /\ UNCHANGED <<shared, reg, crossed>>

\* The code indexes with buffer[RQS_MAPPER_PID-1], which is the command.
OwnRow(t) == buffer[t].command

Own(t) ==
  /\ Handle(t, "own", "reply")
  /\ Fill(t, RSP_OK, Scalar(t, numUpdates[OwnRow(t)]))
  /\ UNCHANGED <<shared, i, reg, crossed>>

\* GET_ALL_UPDATES, one row at a time.
LastRowSummedInit == InitRows - 1
LastRowSummed == Rows - 1

Sum(t) ==
  LET last == i[t] = LastRowSummed
      sum == reg[t] + numUpdates[i[t]]
  IN
  /\ Handle(t, "sum", IF last THEN "reply" ELSE "sum")
  /\ i' = [i EXCEPT ![t] = IF last THEN 0 ELSE @ + 1]
  /\ reg' = [reg EXCEPT ![t] = IF last THEN 0 ELSE sum]
  /\ IF last THEN Fill(t, RSP_OK, Scalar(t, sum)) ELSE UNCHANGED bufferResponse
  /\ UNCHANGED <<shared, crossed>>

(***************************************************************************)
(* UPDATE_AZLIST: the mapper's update count (row pid), then every letter,  *)
(* each a load and a store.  crossedRow and crossedAz collect the cells    *)
(* that two threads were between load and store of at the same time.       *)
(***************************************************************************)
LoadRow(t) ==
  LET pid == buffer[t].pid IN
  /\ Handle(t, "loadRow", "storeRow")
  /\ reg' = [reg EXCEPT ![t] = numUpdates[pid]]
  /\ crossedRow' = crossedRow \cup
       {r \in {pid} : \E u \in Process : tpc[u] = "storeRow" /\ buffer[u].pid = r}
  /\ UNCHANGED <<shared, bufferResponse, i, crossedAz>>

StoreRow(t) ==
  /\ Handle(t, "storeRow", "loadAz")
  /\ numUpdates' = [numUpdates EXCEPT ![buffer[t].pid] = reg[t] + 1]
  /\ reg' = [reg EXCEPT ![t] = 0]
  /\ UNCHANGED <<azList, isCheckedIn, bufferResponse, i, crossed>>

LoadAz(t) ==
  LET letter == i[t] + 1 IN
  /\ Handle(t, "loadAz", "storeAz")
  /\ reg' = [reg EXCEPT ![t] = azList[letter]]
  /\ crossedAz' = crossedAz \cup
       {l \in {letter} : \E u \in Process : tpc[u] = "storeAz" /\ i[u] + 1 = l}
  /\ UNCHANGED <<shared, bufferResponse, i, crossedRow>>

StoreAz(t) ==
  LET l == i[t] + 1  last == l = LastLetter IN
  /\ Handle(t, "storeAz", IF last THEN "reply" ELSE "loadAz")
  /\ azList' = [azList EXCEPT ![l] = reg[t] + buffer[t].data[l]]
  /\ reg' = [reg EXCEPT ![t] = 0]
  /\ i' = [i EXCEPT ![t] = IF last THEN 0 ELSE l]
  /\ IF last THEN Fill(t, RSP_OK, Scalar(t, buffer[t].pid)) ELSE UNCHANGED bufferResponse
  /\ UNCHANGED <<numUpdates, isCheckedIn, crossed>>

\* CHECKOUT marks row pid, where CHECKIN marked row pid-1.
CheckoutMarkCleared == 0
CheckoutMark == CHECKOUT

Checkout(t) ==
  /\ Handle(t, "checkout", "reply")
  /\ isCheckedIn' = [isCheckedIn EXCEPT ![buffer[t].pid] = CheckoutMark]
  /\ Fill(t, RSP_OK, Scalar(t, buffer[t].pid))
  /\ UNCHANGED <<azList, numUpdates, i, reg, crossed>>

CheckedOutNever(t) == FALSE
CheckedOut(t) ==
  bufferResponse[t].command = CHECKOUT /\ bufferResponse[t].code = RSP_OK

WriteAnswerIfOk(t) ==
  IF bufferResponse[t].code = RSP_OK THEN Write(t, "server", bufferResponse[t])
  ELSE UNCHANGED sockets
WriteAnswer(t) == Write(t, "server", bufferResponse[t])

Reply(t) ==
  /\ At(t, "reply") /\ Goto(t, IF CheckedOut(t) THEN "close" ELSE "read")
  /\ WriteAnswer(t)
  /\ UNCHANGED <<shared, accepting, buffer, bufferResponse, i, reg, crossed>>

\* Nobody handles SIGPIPE: the signal ends the whole server.
Sigpipe(t) ==
  /\ At(t, "reply") /\ Reset(t, "server")
  /\ ServerGone
  /\ UNCHANGED <<shared, accepting, tpc, buffer, bufferResponse, i, reg, crossed>>

CloseSocket(t) ==
  /\ At(t, "close") /\ Goto(t, "exit")
  /\ Close({t}, "server")
  /\ UNCHANGED <<shared, accepting, buffer, bufferResponse, i, reg, crossed>>

Thread(t) ==
  \/ Read(t) \/ Checkin(t) \/ Copy(t) \/ Own(t) \/ Sum(t)
  \/ LoadRow(t) \/ StoreRow(t) \/ LoadAz(t) \/ StoreAz(t) \/ Checkout(t)
  \/ Reply(t) \/ Sigpipe(t) \/ CloseSocket(t)
=============================================================================
