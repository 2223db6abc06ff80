---------------------------- MODULE ThreadedServer ----------------------------
(***************************************************************************)
(* The server of lab 12 (labs/lab12/server.c) with its clients (client.c): *)
(* a thread per connection, at most MAX_CONCURRENT at a time.              *)
(***************************************************************************)
EXTENDS Integers, Sequences, FiniteSets

CONSTANTS
  Clients,
  MaxConcurrent,   \* MAX_CONCURRENT: 5
  MaxFailed        \* pthread_creates that fail

ASSUME ServerAssumption == MaxConcurrent \in Nat \ {0} /\ IsFiniteSet(Clients)

VARIABLES
  scl,            \* where each client is
  backlog,        \* connections to accept
  spc, clientfd,  \* where main is, and the connection it accepted
  tpc,            \* where each connection's thread is
  answered,       \* connections "Acknowledge" was written to
  turnedAway,     \* connections closed because the server is too busy
  currentConn, connLocked,
  failed          \* HISTORY: threads that were not made

serving == <<spc, clientfd, tpc, answered, turnedAway, currentConn, connLocked, failed>>
server == <<scl, backlog, serving>>

ServerInit ==
  /\ scl = [c \in Clients |-> "new"] /\ backlog = <<>>
  /\ spc = "accept" /\ clientfd \in Clients
  /\ tpc = [c \in Clients |-> "none"]
  /\ answered = {} /\ turnedAway = {} /\ currentConn = 0 /\ connLocked = FALSE
  /\ failed = 0

Connect(c) ==
  /\ scl[c] = "new" /\ scl' = [scl EXCEPT ![c] = "connected"]
  /\ backlog' = Append(backlog, c) /\ UNCHANGED serving

Write(c) ==
  /\ scl[c] = "connected" /\ scl' = [scl EXCEPT ![c] = "waiting"]
  /\ UNCHANGED <<backlog, serving>>

\* read's result is not looked at: the end of the stream will do.
Read(c) ==
  /\ scl[c] = "waiting" /\ c \in answered \cup turnedAway
  /\ scl' = [scl EXCEPT ![c] = IF c \in answered THEN "answered" ELSE "done"]
  /\ UNCHANGED <<backlog, serving>>

Accept ==
  /\ spc = "accept" /\ backlog # <<>>
  /\ clientfd' = Head(backlog) /\ backlog' = Tail(backlog) /\ spc' = "lock"
  /\ UNCHANGED <<scl, tpc, answered, turnedAway, currentConn, connLocked, failed>>

MainLocks ==
  /\ spc = "lock" /\ ~connLocked /\ connLocked' = TRUE /\ spc' = "admit"
  /\ UNCHANGED <<scl, backlog, clientfd, tpc, answered, turnedAway, currentConn, failed>>

\* Too busy: continue leaves out the unlock.
TurnAway ==
  /\ spc = "admit" /\ currentConn = MaxConcurrent
  /\ turnedAway' = turnedAway \cup {clientfd} /\ spc' = "accept"
  /\ UNCHANGED <<scl, backlog, clientfd, tpc, answered, currentConn, connLocked, failed>>

\* The connection is counted whether or not its thread could be made.
Admit ==
  /\ spc = "admit" /\ currentConn # MaxConcurrent
  /\ \/ tpc' = [tpc EXCEPT ![clientfd] = "read"] /\ UNCHANGED failed
     \/ failed < MaxFailed /\ failed' = failed + 1 /\ UNCHANGED tpc
  /\ currentConn' = currentConn + 1 /\ connLocked' = FALSE /\ spc' = "accept"
  /\ UNCHANGED <<scl, backlog, clientfd, answered, turnedAway>>

AfterReadClose == "close"
AfterRead == "write"
ThreadReads(c) ==
  /\ tpc[c] = "read" /\ scl[c] = "waiting" /\ tpc' = [tpc EXCEPT ![c] = AfterRead]
  /\ UNCHANGED <<scl, backlog, spc, clientfd, answered, turnedAway, currentConn,
                 connLocked, failed>>

Acknowledge(c) ==
  /\ tpc[c] = "write" /\ tpc' = [tpc EXCEPT ![c] = "close"]
  /\ answered' = answered \cup {c}
  /\ UNCHANGED <<scl, backlog, spc, clientfd, turnedAway, currentConn, connLocked, failed>>

\* currentConn-- between lock and unlock.
ThreadEnds(c) ==
  /\ tpc[c] = "close" /\ ~connLocked /\ tpc' = [tpc EXCEPT ![c] = "exit"]
  /\ currentConn' = currentConn - 1
  /\ UNCHANGED <<scl, backlog, spc, clientfd, answered, turnedAway, connLocked, failed>>

ServerMain == Accept \/ MainLocks \/ TurnAway \/ Admit
ServerThread(c) == ThreadReads(c) \/ Acknowledge(c) \/ ThreadEnds(c)
ServerClient(c) == Connect(c) \/ Write(c) \/ Read(c)

ServerNext ==
  ServerMain \/ \E c \in Clients : ServerThread(c) \/ ServerClient(c)
ServerSpec == ServerInit /\ [][ServerNext]_server
-----------------------------------------------------------------------------
Sessions == {c \in Clients : tpc[c] \notin {"none", "exit"}}

\* currentConn counts the threads under way, and for good those that could not be
\* made; one client at most is turned away, after which main never gives the
\* lock back.
LimitKept ==
  /\ currentConn = Cardinality(Sessions) + failed
  /\ currentConn <= MaxConcurrent
  /\ Cardinality(turnedAway) <= 1
  /\ turnedAway # {} => connLocked /\ spc \in {"accept", "lock"}

\* The limit is kept; whom the server took on is answered even when it is stuck;
\* and every client is answered unless it is stuck or could not make a thread.
ServedWithinLimit ==
  /\ []LimitKept
  /\ \A c \in Clients :
       /\ tpc[c] = "read" ~> scl[c] = "answered"
       /\ scl[c] = "waiting" ~> scl[c] = "answered" \/ turnedAway # {} \/ failed > 0
=============================================================================
