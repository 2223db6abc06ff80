------------------------------- MODULE TaskPool -------------------------------
(***************************************************************************)
(* What the buffers of labs 9 and 11 promise: numbers are put in order,    *)
(* each is taken once, and the total is printed when all have been taken.  *)
(***************************************************************************)
EXTENDS Integers

CONSTANT NumTasks
Task == 1 .. NumTasks

VARIABLES
  put,       \* the last number put
  took,      \* how often each number was added to the total
  printed

pool == <<put, took, printed>>

PoolInit == put = 0 /\ took = [n \in Task |-> 0] /\ printed = FALSE

Put ==
  /\ put < NumTasks /\ put' = put + 1
  /\ UNCHANGED <<took, printed>>

Take(n) ==
  /\ n <= put /\ took[n] = 0 /\ took' = [took EXCEPT ![n] = 1]
  /\ UNCHANGED <<put, printed>>

Report ==
  /\ \A n \in Task : took[n] = 1
  /\ printed' = TRUE /\ UNCHANGED <<put, took>>

PoolNext == Put \/ (\E n \in Task : Take(n)) \/ Report

PoolSpec == PoolInit /\ [][PoolNext]_pool
=============================================================================
