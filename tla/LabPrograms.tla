----------------------------- MODULE LabPrograms ------------------------------
(***************************************************************************)
(* The concurrent programs of the labs, each a module of its own.  They    *)
(* have nothing to do with one another: a behaviour runs one of them.      *)
(***************************************************************************)
EXTENDS TaskBuffer, Philosophers, MatrixSum, ThreadedServer, UdpChat

VARIABLE program
vars == <<program, buffer, dinner, matrix, server, chat>>

Program == {"buffer", "dinner", "matrix", "server", "chat"}

Init ==
  /\ program \in Program
  /\ BufferInit /\ DinnerInit /\ MatrixInit /\ ServerInit /\ ChatInit
  \* What differs at the start differs for the program that runs.
  /\ program # "buffer" => sync = "cond"
  /\ program # "matrix" => size = CHOOSE n \in Sizes : TRUE
  /\ clientfd = CHOOSE c \in Clients : TRUE   \* nothing is accepted yet

Others(name) ==
  /\ program = name /\ UNCHANGED program
  /\ name # "buffer" => UNCHANGED buffer
  /\ name # "dinner" => UNCHANGED dinner
  /\ name # "matrix" => UNCHANGED matrix
  /\ name # "server" => UNCHANGED server
  /\ name # "chat" => UNCHANGED chat

Buffer == Others("buffer") /\ BufferNext
Dinner == Others("dinner") /\ DinnerNext
Matrix == Others("matrix") /\ MatrixNext
Server == Others("server") /\ ServerNext
Chat == Others("chat") /\ ChatNext

Next == Buffer \/ Dinner \/ Matrix \/ Server \/ Chat

Spec == Init /\ [][Next]_vars

\* The kernel runs every thread and process that can go on; UDP need not deliver.
FairSpec ==
  /\ Spec
  /\ WF_vars(Others("buffer") /\ BufferMain)
  /\ \A t \in Threads : WF_vars(Others("buffer") /\ BufferThread(t))
  /\ \A p \in Seat : WF_vars(Others("dinner") /\ Dine(p))
  /\ WF_vars(Others("server") /\ ServerMain)
  /\ \A c \in Clients :
       /\ WF_vars(Others("server") /\ ServerThread(c))
       /\ WF_vars(Others("server") /\ (Write(c) \/ Read(c)))
=============================================================================
