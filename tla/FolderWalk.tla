------------------------------ MODULE FolderWalk ------------------------------
(***************************************************************************)
(* The walk of a directory tree that lists the files to count:             *)
(* readFiles of mapreduce (project2/src/phase1.c:12) and                   *)
(* recursiveTraverseFS of the client (PA4_Client/src/phase1.c:3).  The     *)
(* entries . and .., which neither follows, are left out, and links lead   *)
(* to files.                                                               *)
(***************************************************************************)
EXTENDS Integers, Sequences, SequencesExt, FiniteSets

CONSTANTS
  Trees,      \* records: root, entries (a sequence per directory, in readdir's
              \* order), content (a text per file or link), and the sets links,
              \* dotted ("." in the name), txt ("txt" in it), closed (unreadable)
  MaxOpen,    \* the descriptors a process has for directories and texts
  MaxLines    \* the size of mapreduce's lines[]

(***************************************************************************)
(* A directory or file has one name, in one directory, the root in none;   *)
(* and every directory lies some steps below the root.                     *)
(***************************************************************************)
IsTree(t) ==
  LET dirs == DOMAIN t.entries
      all == {t.root} \cup UNION {ToSet(t.entries[d]) : d \in dirs}
  IN  /\ IsFiniteSet(dirs) /\ t.root \in dirs /\ dirs \subseteq all
      /\ \A d \in dirs : t.entries[d] \in Seq(all \ {t.root})
      /\ \A d, e \in dirs : \A i \in DOMAIN t.entries[d], j \in DOMAIN t.entries[e] :
           t.entries[d][i] = t.entries[e][j] => d = e /\ i = j
      /\ \E depth \in [dirs -> 0 .. Cardinality(dirs)] :
           \A d \in dirs : \A e \in dirs \cap ToSet(t.entries[d]) : depth[e] = depth[d] + 1

ASSUME WalkAssumption ==
  /\ \A t \in Trees : IsTree(t)
  /\ MaxOpen \in Nat /\ MaxLines \in Nat

VARIABLES
  program,    \* "mapreduce", "client", or "wcs", which walks nothing
  tree,
  status,     \* "start", "call", "walk", "listed", or how the program ended
  stack,      \* the calls under way, innermost first: directory, next entry and
              \* whether path holds a subdirectory's name
  opened,     \* open directories and texts
  listed,     \* the files found: lines[], or the mappers' lists
  skipped     \* HISTORY: entries passed over for what path held

walking == <<program, tree, status, stack, opened, listed, skipped>>

WalkInit ==
  /\ program \in {"mapreduce", "client"} /\ tree \in Trees
  /\ status = "start" /\ stack = <<>> /\ opened = 0
  /\ listed = <<>> /\ skipped = {}

IsDir(e) == e \in DOMAIN tree.entries
CanOpen(e) == e \notin tree.closed /\ opened < MaxOpen

\* main of mapreduce opens the directory to see whether it can, and keeps it open.
CheckArgument ==
  /\ status = "start"
  /\ IF program = "client" THEN status' = "call" /\ UNCHANGED opened
     ELSE IF CanOpen(tree.root) THEN status' = "call" /\ opened' = opened + 1
     ELSE status' = "refused" /\ UNCHANGED opened
  /\ UNCHANGED <<program, tree, stack, listed, skipped>>

\* The walk is called for directory d by the calls in callers.  readFiles returns
\* -1 when it cannot open d, and its caller goes on; the client exits.
Call(d, callers) ==
  IF CanOpen(d)
  THEN /\ stack' = <<[dir |-> d, at |-> 1, pathSet |-> FALSE]>> \o callers
       /\ opened' = opened + 1 /\ status' = "walk"
  ELSE /\ stack' = callers /\ UNCHANGED opened
       /\ status' = IF program = "client" THEN "exited" ELSE "walk"

CallRoot ==
  /\ status = "call" /\ Call(tree.root, <<>>)
  /\ UNCHANGED <<program, tree, listed, skipped>>

Top == Head(stack)
Entry == tree.entries[Top.dir][Top.at]
MoreEntries == status = "walk" /\ stack # <<>> /\ Top.at <= Len(tree.entries[Top.dir])
Passed == <<[Top EXCEPT !.at = @ + 1]>> \o Tail(stack)

\* readFiles: directories without a "." in their name, other entries with "txt"
\* in it.
Enters(e) == IsDir(e) /\ e \notin tree.dotted
Lists(e) == ~IsDir(e) /\ e \in tree.txt

ReadEntry ==
  /\ program = "mapreduce" /\ MoreEntries
  /\ \/ Enters(Entry) /\ Call(Entry, Passed) /\ UNCHANGED listed
     \/ /\ Lists(Entry) /\ stack' = Passed
        /\ IF Len(listed) < MaxLines
           THEN listed' = Append(listed, Entry) /\ UNCHANGED status
           ELSE status' = "undefined" /\ UNCHANGED listed
        /\ UNCHANGED opened
     \/ /\ ~Enters(Entry) /\ ~Lists(Entry) /\ stack' = Passed
        /\ UNCHANGED <<status, opened, listed>>
  /\ UNCHANGED <<program, tree, skipped>>

\* lstat(path, &buf) before path names anything: buf is not filled, and the mode
\* in it may be that of a link.
TakenForLink ==
  /\ program = "client" /\ MoreEntries /\ ~Top.pathSet
  /\ stack' = Passed /\ skipped' = skipped \cup {Entry}
  /\ UNCHANGED <<program, tree, status, opened, listed>>

Traversed(e) == <<[Top EXCEPT !.at = @ + 1, !.pathSet = TRUE]>> \o Tail(stack)
TraverseEntry ==
  /\ program = "client" /\ MoreEntries
  /\ \/ /\ IsDir(Entry) /\ Call(Entry, Traversed(Entry)) /\ UNCHANGED listed
     \/ /\ ~IsDir(Entry) /\ stack' = Passed
        /\ listed' = IF Entry \in tree.links THEN listed ELSE Append(listed, Entry)
        /\ UNCHANGED <<status, opened>>
  /\ UNCHANGED <<program, tree, skipped>>

\* readFiles closes its directory, recursiveTraverseFS does not.
StillOpenAfterNever == opened
StillOpenAfter == IF program = "mapreduce" THEN opened - 1 ELSE opened
LeaveDirectory ==
  /\ status = "walk" /\ stack # <<>> /\ ~MoreEntries
  /\ stack' = Tail(stack) /\ opened' = StillOpenAfter
  /\ UNCHANGED <<program, tree, status, listed, skipped>>

WalkEnds ==
  /\ status = "walk" /\ stack = <<>>
  /\ status' = IF listed = <<>> THEN "empty" ELSE "listed"
  /\ UNCHANGED <<program, tree, stack, opened, listed, skipped>>

WalkNext ==
  \/ CheckArgument \/ CallRoot \/ ReadEntry \/ TakenForLink \/ TraverseEntry
  \/ LeaveDirectory \/ WalkEnds
-----------------------------------------------------------------------------
(***************************************************************************)
(* What a walk should find, by parents instead of by recursion.            *)
(***************************************************************************)
Directories == DOMAIN tree.entries
Entries(d) == ToSet(tree.entries[d])
Files == (UNION {Entries(d) : d \in Directories}) \ Directories
Parent(e) == CHOOSE d \in Directories : e \in Entries(d)

\* The directories above e, e included if it is one.
PathTo[e \in Directories \cup Files] ==
  IF e = tree.root THEN {e}
  ELSE PathTo[Parent(e)] \cup ({e} \cap Directories)

\* mapreduce finds the txt entries whose directories it may enter, has
\* descriptors for (the innermost needs one for each above it, and main's) and
\* can read.
OpenedForFile(e) == Cardinality(PathTo[e]) + 1
FoundByMapreduce ==
  {e \in Files \cap tree.txt :
     /\ PathTo[e] \cap tree.closed = {} /\ (PathTo[e] \ {tree.root}) \cap tree.dotted = {}
     /\ OpenedForFile(e) <= MaxOpen}

\* The client finds every file that is no link, but for the entries passed over.
FoundByClient ==
  {e \in Files \ tree.links : ({e} \cup PathTo[e]) \cap skipped = {}}
=============================================================================
