------------------------------- MODULE Makefile -------------------------------
(***************************************************************************)
(* What mymake (src/project/project1) reads out of a makefile: the lines   *)
(* it finds for a name, the chain of rules it follows from a dependency,   *)
(* and the commands it runs or prints, in their order.                     *)
(*                                                                         *)
(* A file is a sequence of lines: a rule with its dependencies, a recipe   *)
(* line with the commands its commas separate, or a blank line.  It starts *)
(* with a rule, its names start with a letter and its recipes have no      *)
(* colon: strcmp with ":" tells rules from recipes (main.c:135, 270), and  *)
(* would take a rule named by digits or a dot for a recipe.  Lines are     *)
(* counted from 1, so FirstLine is the 0 of findLine and Missing its -1.   *)
(***************************************************************************)
EXTENDS Integers, Sequences, SequencesExt

CONSTANTS
  Within,   \* <<a, b>>: name a is a part of the longer name b
  NULL,     \* a token that is not there
  MaxDep    \* MAX_DEP

ASSUME MakefileAssumption == MaxDep \in Nat

FirstLine == 1
Missing == 0

Rule(name, deps) == [kind |-> "rule", name |-> name, deps |-> deps]
Recipe(cmds) == [kind |-> "recipe", cmds |-> cmds]
Blank == [kind |-> "blank"]

Rules(lines) == {i \in DOMAIN lines : lines[i].kind = "rule"}
RecipeAt(lines, i) == i \in DOMAIN lines /\ lines[i].kind = "recipe"

\* The shape of a file: what each kind of line has, a recipe at least one command;
\* what names something is there.
IsMakefile(lines) ==
  /\ lines \in Seq(Range(lines)) /\ FirstLine \in Rules(lines)
  /\ \A i \in DOMAIN lines :
       \/ /\ i \in Rules(lines) /\ lines[i].deps \in Seq(Range(lines[i].deps))
          /\ NULL \notin {lines[i].name} \cup Range(lines[i].deps)
       \/ RecipeAt(lines, i) /\ lines[i].cmds \in Seq(Range(lines[i].cmds)) \ {<<>>}
       \/ lines[i] = Blank
-----------------------------------------------------------------------------
(***************************************************************************)
(* A definition just before another whose name it extends is a faulty      *)
(* variant of it, used by no action.                                       *)
(***************************************************************************)

\* strstr.
Occurs(dep, name) == dep = name \/ <<dep, name>> \in Within

\* The last rule line with dep anywhere in its target; no dep is the first line.
findLineNullMissing(lines, dep) ==
  Max({Missing} \cup {i \in Rules(lines) : Occurs(dep, lines[i].name)})
findLine(lines, dep) ==
  IF dep = NULL THEN FirstLine
  ELSE Max({Missing} \cup {i \in Rules(lines) : Occurs(dep, lines[i].name)})

\* The one dependency that is followed: the last that is not the first target.
\* One that does not exist is not the first target either.
FollowedFirst(lines, deps) == IF deps = <<>> THEN NULL ELSE deps[1]
Followed(lines, deps) ==
  LET valid == {z \in DOMAIN deps : findLine(lines, deps[z]) # FirstLine}
  IN  IF deps = <<>> THEN NULL ELSE deps[Max({1} \cup valid)]

\* The dependencies in a recorded line; line Missing is lines[-1], the memory
\* before the array.  No dependency is NULL to Followed: tokensR[0][1] is the end
\* of the tokens, or, if not even a name is there, the word behind their array,
\* which may be NULL or a name as well.
DepsAt(lines, stray, line) == IF line = Missing THEN stray ELSE lines[line].deps

\* The lines the while loop records from token tok; MaxDep + 1 stands for every
\* number of them that does not fit.
Chain(lines, stray, tok) ==
  LET next == [i \in {Missing} \cup Rules(lines) |->
                 findLine(lines, Followed(lines, DepsAt(lines, stray, i)))]
      line[k \in 1 .. MaxDep + 1] ==
        IF k = 1 THEN findLine(lines, tok) ELSE next[line[k - 1]]
      ends == {k \in 1 .. MaxDep + 1 : line[k] = FirstLine}
  IN  [k \in 1 .. Min(ends \cup {MaxDep + 2}) - 1 |-> line[k]]

\* depNo for the tokens of the first line, the last of them first.
DepNo(lines, stray, tokens) ==
  FlattenSeq([z \in DOMAIN tokens |-> Chain(lines, stray, Reverse(tokens)[z])])

FirstTokens(lines) == <<lines[FirstLine].name>> \o lines[FirstLine].deps
-----------------------------------------------------------------------------
(***************************************************************************)
(* Commands: the line they are on and their arguments.                     *)
(***************************************************************************)
Split(lines, i) ==
  [c \in DOMAIN lines[i].cmds |-> [line |-> i, argv |-> <<lines[i].cmds[c]>>]]
Whole(lines, i) == <<[line |-> i, argv |-> lines[i].cmds]>>

\* The recipe lines right under line i.
RecipeLines(lines, i) ==
  LET under == {n \in 0 .. Len(lines) : \A k \in i + 1 .. i + n : RecipeAt(lines, k)}
  IN  [k \in 1 .. Max(under) |-> i + k]

RecipesUnder(lines, i) ==
  FlattenSeq([k \in DOMAIN RecipeLines(lines, i) |-> Split(lines, RecipeLines(lines, i)[k])])

\* depNo is gone through backwards.
RecipesForwards(lines, depNo) ==
  FlattenSeq([j \in DOMAIN depNo |-> RecipesUnder(lines, depNo[j])])
RecipesOf(lines, depNo) ==
  FlattenSeq([j \in DOMAIN depNo |-> RecipesUnder(lines, Reverse(depNo)[j])])

\* A first target without dependencies: from the line under the last rule that
\* has its name to the last line of the file that is no recipe.  A rule is run
\* as a command; a blank line has no program to run.
recipeCount(lines, start) ==
  Max({start} \cup {i \in start .. Len(lines) : ~RecipeAt(lines, i)})

Command(lines, i) ==
  IF RecipeAt(lines, i) THEN Split(lines, i)
  ELSE <<[line |-> i,
          argv |-> IF i \in Rules(lines) THEN <<lines[i].name>> \o lines[i].deps ELSE <<>>]>>

LoneTarget(lines) ==
  LET start == findLine(lines, lines[FirstLine].name) + 1
  IN  FlattenSeq([k \in 1 .. recipeCount(lines, start) - start + 1
                    |-> Command(lines, start + k - 1)])
-----------------------------------------------------------------------------
(***************************************************************************)
(* mymake -p FILE: what is said of each rule.                              *)
(***************************************************************************)
BlankAt(lines, i) == i \in DOMAIN lines /\ lines[i].kind = "blank"

\* Whether the count of the recipes of rule r stops with the i-th line under it.
\* The blank line is looked for in lines[i], from the start of the file.
StopsAt(lines, r, i) == r + i \in Rules(lines) \/ BlankAt(lines, i + 1)

\* The lines counted, and those copied to recipeLine: the line of the stop too.
CountedLines(lines, r) ==
  CHOOSE n \in 0 .. Len(lines) :
    /\ r + n = Len(lines) \/ StopsAt(lines, r, n + 1)
    /\ r + n <= Len(lines) /\ \A i \in 1 .. n : ~StopsAt(lines, r, i)
CopiedLines(lines, r) ==
  [k \in 1 .. Min({CountedLines(lines, r) + 1, Len(lines) - r}) |-> r + k]

\* The tokens of recipeLine.
CopiedTokens(lines, r) ==
  LET copied == CopiedLines(lines, r)
  IN  FlattenSeq([k \in DOMAIN copied |->
        IF BlankAt(lines, copied[k]) THEN <<>> ELSE Command(lines, copied[k])])

\* As many of them are said to be recipes as lines were counted; behind the last
\* is NULL.
Described(lines, r) ==
  LET tokens == Append(CopiedTokens(lines, r), NULL)
  IN  [line |-> r, argv |-> <<lines[r].name>> \o lines[r].deps,
       recipes |-> [j \in 1 .. Min({CountedLines(lines, r), Len(tokens)}) |-> tokens[j]]]

Description(lines) == [r \in Rules(lines) |-> Described(lines, r)]

\* Behind the NULL there is no token.
TokensMissing(lines) ==
  \E r \in Rules(lines) : CountedLines(lines, r) > Len(CopiedTokens(lines, r)) + 1

\* recipeLine has place for the lines under the first rule; those copied for a
\* later one may be longer.
MayNotFit(lines) == \E r \in Rules(lines) \ {FirstLine} : CopiedLines(lines, r) # <<>>
-----------------------------------------------------------------------------
(***************************************************************************)
(* mymake FILE, mymake FILE TARGET and mymake -r FILE.                     *)
(***************************************************************************)
RunFirst(lines, stray) ==
  IF lines[FirstLine].deps = <<>> THEN LoneTarget(lines)
  ELSE RecipesOf(lines, DepNo(lines, stray, FirstTokens(lines)))
         \o RecipesUnder(lines, FirstLine)

\* The first target asked for by name: its own lines are not split at commas.
RunTarget(lines, stray, target) ==
  IF findLine(lines, target) # FirstLine THEN RecipesOf(lines, Chain(lines, stray, target))
  ELSE RecipesOf(lines, DepNo(lines, stray, FirstTokens(lines)))
         \o FlattenSeq([k \in DOMAIN RecipeLines(lines, FirstLine)
                          |-> Whole(lines, FirstLine + k)])

\* Lines that are greater than ":" are the rules.
depCount(lines) == Cardinality(Rules(lines))

AllRecipes(lines) ==
  FlattenSeq([i \in DOMAIN lines |-> IF RecipeAt(lines, i) THEN Split(lines, i) ELSE <<>>])

PrintedTargetFirst(lines, stray) ==
  LET deps == lines[FirstLine].deps
  IN  RecipesUnder(lines, FirstLine)
        \o FlattenSeq([z \in DOMAIN deps |-> RecipesOf(lines, Chain(lines, stray, deps[z]))])
Printed(lines, stray) ==
  LET deps == lines[FirstLine].deps
  IN  IF depCount(lines) = 1 THEN AllRecipes(lines)
      ELSE FlattenSeq([z \in DOMAIN deps |-> RecipesOf(lines, Chain(lines, stray, deps[z]))])
             \o RecipesUnder(lines, FirstLine)

\* depNo has MaxDep places; with -r there is one depNo per dependency.
RunOverflows(lines, stray) ==
  lines[FirstLine].deps # <<>> /\ Len(DepNo(lines, stray, FirstTokens(lines))) > MaxDep
TargetOverflows(lines, stray, target) ==
  Len(IF findLine(lines, target) = FirstLine THEN DepNo(lines, stray, FirstTokens(lines))
      ELSE Chain(lines, stray, target)) > MaxDep
\* Without a recipe line -r reads an array of length zero.
PrintOverflows(lines, stray) ==
  IF depCount(lines) = 1 THEN AllRecipes(lines) = <<>>
  ELSE \E z \in DOMAIN lines[FirstLine].deps :
         Len(Chain(lines, stray, lines[FirstLine].deps[z])) > MaxDep
=============================================================================
