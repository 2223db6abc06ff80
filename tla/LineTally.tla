----------------------------- MODULE LineTally -----------------------------
(***************************************************************************)
(* What the word count statistics program wcs (src/project/project3)       *)
(* promises of every run, however its threads interleave: the lines of the *)
(* file enter the shared queue in file order, each line is added to the    *)
(* histogram at most once and in file order, and the histogram is reported *)
(* once, when no thread adds to it any more.                               *)
(*                                                                         *)
(* It promises no more than that: a report may miss lines at the end of    *)
(* the file, and may never come.  WordCountQueue says why.                 *)
(***************************************************************************)
EXTENDS Naturals

CONSTANT NumLines

Line == 0 .. NumLines - 1

VARIABLES published,  \* how many lines have entered the queue
          tally,      \* how often each line was added to the histogram
          reported,   \* the histogram has been written
          report      \* the histogram as written

tvars == <<published, tally, reported, report>>

TInit ==
  /\ published = 0
  /\ tally = [l \in Line |-> 0]
  /\ reported = FALSE
  /\ report = [l \in Line |-> 0]

Publish ==
  /\ ~reported /\ published < NumLines
  /\ published' = published + 1
  /\ UNCHANGED <<tally, reported, report>>

\* The next line in file order is added, never one that was added before.
Tally ==
  /\ ~reported
  /\ \E l \in Line :
       /\ l < published
       /\ tally[l] = 0 /\ \A k \in Line : k < l => tally[k] = 1
       /\ tally' = [tally EXCEPT ![l] = 1]
  /\ UNCHANGED <<published, reported, report>>

Report ==
  /\ ~reported
  /\ reported' = TRUE /\ report' = tally
  /\ UNCHANGED <<published, tally>>

TNext == Publish \/ Tally \/ Report

TSpec == TInit /\ [][TNext]_tvars
=============================================================================
