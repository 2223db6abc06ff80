-------------------------- MODULE MCMapReduceService --------------------------
(***************************************************************************)
(* Small instances of MapReduceService: client program one with two        *)
(* mappers, and programs two and three with one mapper each.               *)
(***************************************************************************)
EXTENDS MapReduceService, TLC

CONSTANTS one, two, three   \* model values

MCMappers == (one :> 2) @@ (two :> 1) @@ (three :> 1)
MCNumMappers == [m \in Master |-> MCMappers[m]]
MCProcess == UNION {{m} \X SUBSET (1 .. MCMappers[m]) : m \in Master}

\* File f has f words with the first letter, and one with each other.
MCWords == [f \in 1 .. NumFiles |-> [l \in Letter |-> IF l = 1 THEN f ELSE 1]]
=============================================================================
