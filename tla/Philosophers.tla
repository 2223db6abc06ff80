----------------------------- MODULE Philosophers -----------------------------
(***************************************************************************)
(* The dining philosophers of lab 10 (labs/lab10/rec11.c), who take both   *)
(* utensils with trylock and put the left one back when the right is held. *)
(***************************************************************************)
EXTENDS Integers

CONSTANTS NumThreads, Food   \* NUM_THRD: 1000; 100

ASSUME DinnerAssumption == NumThreads \in Nat \ {0, 1} /\ Food \in Nat

Seat == 0 .. NumThreads - 1
Left(p) == p
Right(p) == (p + 1) % NumThreads

VARIABLES food, locks, dpc   \* what is left to eat, each utensil's holder, where
dinner == <<food, locks, dpc>>

Nobody == -1

DinnerInit ==
  /\ food = [p \in Seat |-> Food] /\ locks = [u \in Seat |-> Nobody]
  /\ dpc = [p \in Seat |-> "none"]

DGoto(p, l) == dpc' = [dpc EXCEPT ![p] = l]

\* main creates the threads one after the other.
Seated(p) ==
  /\ dpc[p] = "none" /\ \A q \in 0 .. p - 1 : dpc[q] # "none"
  /\ DGoto(p, "think") /\ UNCHANGED <<food, locks>>

\* A refused trylock of the left utensil changes nothing: dine tries again.
TryLeft(p) ==
  /\ dpc[p] = "think" /\ food[p] > 0 /\ locks[Left(p)] = Nobody
  /\ locks' = [locks EXCEPT ![Left(p)] = p] /\ DGoto(p, "left")
  /\ UNCHANGED food

TakeRight(p) ==
  /\ dpc[p] = "left" /\ locks[Right(p)] = Nobody
  /\ locks' = [locks EXCEPT ![Right(p)] = p] /\ DGoto(p, "eat")
  /\ UNCHANGED food

AfterRefusalStay == "left"
AfterRefusal == "putLeft"
Refused(p) ==
  /\ dpc[p] = "left" /\ locks[Right(p)] # Nobody
  /\ DGoto(p, AfterRefusal) /\ UNCHANGED <<food, locks>>

Eat(p) ==
  /\ dpc[p] = "eat" /\ food' = [food EXCEPT ![p] = @ - 1]
  /\ DGoto(p, "putRight") /\ UNCHANGED locks

PutRight(p) ==
  /\ dpc[p] = "putRight" /\ locks' = [locks EXCEPT ![Right(p)] = Nobody]
  /\ DGoto(p, "putLeft") /\ UNCHANGED food

PutLeft(p) ==
  /\ dpc[p] = "putLeft" /\ locks' = [locks EXCEPT ![Left(p)] = Nobody]
  /\ DGoto(p, "think") /\ UNCHANGED food

Leave(p) ==
  /\ dpc[p] = "think" /\ food[p] = 0
  /\ DGoto(p, "done") /\ UNCHANGED <<food, locks>>

Dine(p) ==
  \/ Seated(p) \/ TryLeft(p) \/ TakeRight(p) \/ Refused(p) \/ Eat(p)
  \/ PutRight(p) \/ PutLeft(p) \/ Leave(p)

DinnerNext == \E p \in Seat : Dine(p)
DinnerSpec == DinnerInit /\ [][DinnerNext]_dinner
-----------------------------------------------------------------------------
\* The dinner ends, or philosophers are refused their right utensil for ever
\* (rec11.c:49-54: no deadlock, but a livelock when they move in step); and who
\* is left alone at the table finishes.
DinnerEnds ==
  /\ \/ dpc[0] # "none" ~> \A p \in Seat : dpc[p] = "done"
     \/ []<><<\E p \in Seat : Refused(p)>>_dinner
  /\ \A p \in Seat :
       (\A q \in Seat \ {p} : dpc[q] = "done") ~> dpc[p] = "done"
=============================================================================
