----------------------------- MODULE FolderCount ------------------------------
(***************************************************************************)
(* From a directory tree, or a file, to the counts: the walk lists the     *)
(* files, wordcount reads them one after the other.  One mapper takes all  *)
(* files (MapReducePipeline and MapReduceService have several); of wcs one *)
(* consumer's counting is here and the threads are in WordCountQueue.      *)
(***************************************************************************)
EXTENDS FolderWalk, FirstLetters

ASSUME ContentAssumption ==
  \A t \in Trees : \A d \in DOMAIN t.entries :
    \A f \in ToSet(t.entries[d]) \ DOMAIN t.entries : t.content[f] \in Texts

VARIABLE next   \* the place in listed of the next file to count

vars == <<walking, counting, next>>

WcsInit ==
  /\ program = "wcs" /\ tree \in Trees /\ status = "start" /\ stack = <<>>
  /\ opened = 0 /\ skipped = {}
  /\ \E f \in Files : listed = <<f>>

Init ==
  /\ \/ WalkInit /\ unit = "file"
     \/ WcsInit /\ unit = "line"
  /\ CountInit /\ next = 1

Walk == program # "wcs" /\ WalkNext /\ UNCHANGED <<counting, next>>

\* main of wcs opens its file to see whether it can, and keeps it open.
WcsMain ==
  /\ program = "wcs" /\ status = "start"
  /\ IF CanOpen(listed[1]) THEN status' = "listed" /\ opened' = opened + 1
     ELSE status' = "refused" /\ UNCHANGED opened
  /\ UNCHANGED <<program, tree, stack, listed, skipped, counting, next>>

Counting == status = "listed" /\ next <= Len(listed) /\ pc \in {"closed", "done"}

\* The next file's fopen.  phase2.c's wordcount never closes it, client.c's does
\* at the end, with nothing opened between.
LeavesOpen == program = "mapreduce"
OpenNext ==
  /\ Counting /\ CanOpen(listed[next]) /\ Open(tree.content[listed[next]])
  /\ opened' = IF LeavesOpen THEN opened + 1 ELSE opened
  /\ next' = next + 1
  /\ UNCHANGED <<program, tree, status, stack, listed, skipped>>

\* "fail to read file": the file counts for nothing.
OpenFails ==
  /\ Counting /\ ~CanOpen(listed[next]) /\ next' = next + 1
  /\ UNCHANGED <<walking, counting>>

Wordcount == status = "listed" /\ CountStep /\ UNCHANGED <<walking, next>>

Next == Walk \/ WcsMain \/ OpenNext \/ OpenFails \/ Wordcount

Spec == Init /\ [][Next]_vars
-----------------------------------------------------------------------------
\* The counts are complete.
Finished ==
  status = "listed" /\ next > Len(listed) /\ pc \in {"closed", "done"}

Readable == {f \in ToSet(listed) : f \notin tree.closed}

\* The files whose descriptors a process can have: mapreduce's mapper keeps each
\* file open beside main's directory; the client keeps every directory it entered.
CountedFiles ==
  CASE program = "mapreduce" ->
         {f \in Readable :
            Cardinality({g \in Readable : \E i, j \in DOMAIN listed :
               listed[i] = g /\ listed[j] = f /\ i < j}) < MaxOpen - 1}
    [] program = "client" -> IF opened < MaxOpen THEN Readable ELSE {}
    [] program = "wcs" -> IF opened < MaxOpen THEN Readable ELSE {}

\* From the tree to the counts: every file of the tree that the program looks for
\* is listed, each once, and its words are counted once, except where a
\* directory is unreadable, path was uninitialised (PA4 phase1.c:19) or the
\* descriptors had run out (phase2.c:15, PA4 phase1.c:5).
FolderCounted ==
  Finished =>
    /\ IsInjective(listed)
    /\ program = "mapreduce" => ToSet(listed) = FoundByMapreduce
    /\ program = "client" => ToSet(listed) = FoundByClient
    /\ \A l \in Letter :
         alphaCount[l] =
           SumFunction([f \in CountedFiles |-> WordsCounted(tree.content[f], l)])
=============================================================================
