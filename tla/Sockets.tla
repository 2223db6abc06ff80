------------------------------- MODULE Sockets -------------------------------
(***************************************************************************)
(* What the kernel does for src/project/project4: one TCP connection per   *)
(* client process, and the listening socket's queue.  External code: only  *)
(* what client.c and server.c see of it is modelled, which is              *)
(*   - a message is delivered whole and in order;                          *)
(*   - read blocks until there is a message or the peer has closed;        *)
(*   - a write to a peer that has closed is lost, and once the peer's      *)
(*     reset is back it raises SIGPIPE;                                    *)
(*   - closing an end with unread messages sends the reset at once.        *)
(***************************************************************************)
EXTENDS Naturals, Sequences

CONSTANTS
  Process,   \* the client processes
  MaxLost    \* BOUND: writes lost to a closed peer before SIGPIPE

ASSUME MaxLostAssumption == MaxLost \in Nat \ {0}

Side == {"client", "server"}
Peer(s) == IF s = "client" THEN "server" ELSE "client"

VARIABLES
  end,         \* end[p][s]: side s of p's connection
  inbox,       \* inbox[p][s]: the messages side s has not read
  lost,        \* lost[p][s]: the writes of side s that were lost
  backlog,     \* connections waiting for accept
  listening    \* the server process is there

sockets == <<end, inbox, lost, backlog, listening>>

SocketsInit ==
  /\ end = [p \in Process |-> [s \in Side |-> "none"]]
  /\ inbox = [p \in Process |-> [s \in Side |-> <<>>]]
  /\ lost = [p \in Process |-> [s \in Side |-> 0]]
  /\ backlog = <<>> /\ listening = TRUE

SocketsTypeOK(Message) ==
  /\ end \in [Process -> [Side -> {"none", "open", "closed"}]]
  /\ inbox \in [Process -> [Side -> Seq(Message)]]
  /\ lost \in [Process -> [Side -> 0 .. MaxLost]]
  /\ backlog \in Seq(Process)
  /\ listening \in BOOLEAN

\* The three-way handshake; it does not need the server to call accept.
Connect(p) ==
  /\ listening
  /\ end' = [end EXCEPT ![p] = [s \in Side |-> "open"]]
  /\ backlog' = Append(backlog, p)
  /\ UNCHANGED <<inbox, lost, listening>>

Write(p, s, message) ==
  /\ \/ /\ end[p][Peer(s)] = "open"
        /\ inbox' = [inbox EXCEPT ![p][Peer(s)] = Append(@, message)]
        /\ UNCHANGED lost
     \/ /\ end[p][Peer(s)] = "closed" /\ lost[p][s] < MaxLost
        /\ lost' = [lost EXCEPT ![p][s] = @ + 1]
        /\ UNCHANGED inbox
  /\ UNCHANGED <<end, backlog, listening>>

\* A write of side s would raise SIGPIPE.
Reset(p, s) == end[p][Peer(s)] = "closed" /\ lost[p][s] > 0

HasMessage(p, s) == inbox[p][s] # <<>>
AtEOF(p, s) == ~HasMessage(p, s) /\ end[p][Peer(s)] = "closed"

Take(p, s) ==
  /\ inbox' = [inbox EXCEPT ![p][s] = Tail(@)]
  /\ UNCHANGED <<end, lost, backlog, listening>>

\* Side s of the connections P is closed, by close or by the process's end.
EndsAfterClose(P, s) ==
  [p \in Process |-> IF p \in P THEN [end[p] EXCEPT ![s] = "closed"] ELSE end[p]]

LostAfterClose(P, s) ==
  [p \in Process |->
    IF p \in P /\ HasMessage(p, s) /\ lost[p][Peer(s)] = 0
    THEN [lost[p] EXCEPT ![Peer(s)] = 1] ELSE lost[p]]

Close(P, s) ==
  /\ end' = EndsAfterClose(P, s)
  /\ lost' = LostAfterClose(P, s)
  /\ UNCHANGED <<inbox, backlog, listening>>

\* The server process dies: the kernel closes what it had open.
ServerGone ==
  LET P == {p \in Process : end[p]["server"] = "open"} IN
  /\ end' = EndsAfterClose(P, "server")
  /\ lost' = LostAfterClose(P, "server")
  /\ backlog' = <<>> /\ listening' = FALSE
  /\ UNCHANGED inbox
=============================================================================
