-------------------------------- MODULE UdpChat -------------------------------
(***************************************************************************)
(* Lab 13 (labs/lab13): clients that send a line by UDP and wait for one   *)
(* back, and a server that answers one datagram after the other.  UDP may  *)
(* lose, repeat and reorder datagrams.  Both leave addrlen uninitialised:  *)
(* recvfrom may then fail, or leave the sender's address unset.            *)
(***************************************************************************)
EXTENDS Integers

CONSTANTS
  Talkers,     \* the client processes
  MaxAsked, MaxRepeated, MaxBadLength

ASSUME ChatAssumption == MaxAsked \in Nat /\ MaxRepeated \in Nat /\ MaxBadLength \in Nat

Line == [client : Talkers, number : 1 .. MaxAsked]
Nothing == [client |-> "nobody", number |-> 0]

VARIABLES
  asked,                 \* the lines each client has sent
  upc,                   \* whether it types ("ask") or waits
  answer,                \* the line its last answer was for
  toServer, toClients,   \* datagrams on their way; answers are [to, re]
  hearing,               \* the line the server answers, or Nothing
  cliaddr,
  repeated, badLength    \* HISTORY: what happened so far
chat == <<asked, upc, answer, toServer, toClients, hearing, cliaddr, repeated, badLength>>

ChatInit ==
  /\ asked = [c \in Talkers |-> 0] /\ upc = [c \in Talkers |-> "ask"]
  /\ answer = [c \in Talkers |-> Nothing]
  /\ toServer = {} /\ toClients = {} /\ hearing = Nothing /\ cliaddr = "nobody"
  /\ repeated = 0 /\ badLength = 0

\* A datagram is taken from where it was, unless UDP delivers it again.
Taken(m, net, net2) ==
  \/ net2 = net \ {m} /\ UNCHANGED repeated
  \/ repeated < MaxRepeated /\ repeated' = repeated + 1 /\ net2 = net

Ask(c) ==
  /\ upc[c] = "ask" /\ asked[c] < MaxAsked
  /\ asked' = [asked EXCEPT ![c] = @ + 1] /\ upc' = [upc EXCEPT ![c] = "wait"]
  /\ toServer' = toServer \cup {[client |-> c, number |-> asked'[c]]}
  /\ UNCHANGED <<answer, toClients, hearing, cliaddr, repeated, badLength>>

ServerHears(m) ==
  /\ hearing = Nothing /\ hearing' = m
  /\ Taken(m, toServer, toServer')
  /\ \/ cliaddr' = m.client /\ UNCHANGED badLength
     \/ badLength < MaxBadLength /\ badLength' = badLength + 1 /\ UNCHANGED cliaddr
  /\ UNCHANGED <<asked, upc, answer, toClients>>

AddresseeFirst == IF toClients = {} THEN cliaddr ELSE (CHOOSE m \in toClients : TRUE).to
Addressee == cliaddr
ServerAnswers ==
  /\ hearing # Nothing /\ hearing' = Nothing
  /\ toClients' = IF cliaddr = "nobody" THEN toClients
                  ELSE toClients \cup {[to |-> Addressee, re |-> hearing]}
  /\ UNCHANGED <<asked, upc, answer, toServer, cliaddr, repeated, badLength>>

Reads(c, m) ==
  /\ upc[c] = "wait" /\ m.to = c /\ upc' = [upc EXCEPT ![c] = "ask"]
  /\ Taken(m, toClients, toClients')
  /\ \/ answer' = [answer EXCEPT ![c] = m.re] /\ UNCHANGED badLength
     \/ /\ badLength < MaxBadLength /\ badLength' = badLength + 1
        /\ answer' = [answer EXCEPT ![c] = Nothing]
  /\ UNCHANGED <<asked, toServer, hearing, cliaddr>>

Lose ==
  /\ \/ \E m \in toServer : toServer' = toServer \ {m} /\ UNCHANGED toClients
     \/ \E m \in toClients : toClients' = toClients \ {m} /\ UNCHANGED toServer
  /\ UNCHANGED <<asked, upc, answer, hearing, cliaddr, repeated, badLength>>

ChatNext ==
  \/ \E c \in Talkers : Ask(c) \/ \E m \in toClients : Reads(c, m)
  \/ (\E m \in toServer : ServerHears(m)) \/ ServerAnswers \/ Lose
ChatSpec == ChatInit /\ [][ChatNext]_chat
-----------------------------------------------------------------------------
\* What a client reads answers its last line, whatever is lost or overtaken,
\* unless a datagram came twice; and answers a line of its own unless the
\* server's cliaddr was still that of another client (server-2.c:51).
AnswerBelongs ==
  \A c \in Talkers : upc[c] = "ask" /\ answer[c] # Nothing =>
    /\ answer[c].client # c => badLength > 0
    /\ answer[c].number # asked[c] => badLength + repeated > 0
=============================================================================
