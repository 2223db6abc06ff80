-------------------------------- MODULE Mymake --------------------------------
(***************************************************************************)
(* mymake (src/project/project1/pa1/src/main.c): main works out the        *)
(* commands and their order (module Makefile), then forks a process for    *)
(* each and waits for it.  A child whose execvp fails does not exit: it    *)
(* goes on as another mymake, right after the command it was born for.     *)
(***************************************************************************)
EXTENDS Makefile

CONSTANTS
  Files,      \* the makefiles
  Strays,     \* the dependencies that the memory before lines[] may spell
  RunAll,     \* the goal of mymake FILE
  PrintAll,   \* the goal of mymake -r FILE
  DescribeAll,   \* the goal of mymake -p FILE
  Targets,    \* the goals of mymake FILE TARGET
  MaxFaults   \* BOUND: forks and execs that fail in a run

ASSUME MymakeAssumption ==
  /\ RunAll # PrintAll /\ DescribeAll \notin {RunAll, PrintAll}
  /\ {RunAll, PrintAll, DescribeAll, NULL} \cap Targets = {}
  /\ \A file \in Files : IsMakefile(file)
  /\ \A before \in Strays : before \in Seq(Range(before))
  /\ MaxFaults \in Nat

VARIABLES
  lines, stray, goal,   \* the file, what lies before it, the arguments
  status,               \* "start", "run", "printed", "described", "refused" or
                        \* "undefined"
  plan,                 \* the commands to run, or what was printed, or said of each
                        \* rule
  procs,                \* the mymake processes and the programs they became
  ran,                  \* HISTORY: the places in plan of the commands run
  failed, unforked      \* HISTORY: the processes whose execvp, or fork, failed

input == <<lines, stray, goal>>
history == <<ran, failed, unforked>>
vars == <<input, status, plan, procs, history>>

(***************************************************************************)
(* A process is the sequence of the places in plan where it and its        *)
(* ancestors were forked; the first mymake is the empty sequence.          *)
(***************************************************************************)
Master == <<>>
State == {"loop", "wait", "born", "program"}

Init ==
  /\ lines \in Files /\ stray \in Strays
  /\ goal \in Targets \cup {RunAll, PrintAll, DescribeAll}
  /\ status = "start" /\ plan = <<>>
  /\ procs = <<>> /\ ran = <<>> /\ failed = {} /\ unforked = {}

TypeOK ==
  /\ status \in {"start", "run", "printed", "described", "refused", "undefined"}
  /\ \A p \in DOMAIN procs :
       /\ procs[p].at \in 1 .. Len(plan) + 1 /\ procs[p].st \in State
       /\ procs[p].st # "loop" => procs[p].at <= Len(plan)
  /\ \A n \in DOMAIN ran : ran[n] \in DOMAIN plan
  /\ Cardinality(failed) + Cardinality(unforked) <= MaxFaults
-----------------------------------------------------------------------------
Decide(overflows, commands, next) ==
  IF overflows THEN status' = "undefined" /\ UNCHANGED <<plan, procs>>
  ELSE /\ status' = next /\ plan' = commands
       /\ procs' = IF next = "run" THEN [p \in {Master} |-> [at |-> 1, st |-> "loop"]] ELSE procs

MakeAll ==
  /\ status = "start" /\ goal = RunAll
  /\ Decide(RunOverflows(lines, stray), RunFirst(lines, stray), "run")
  /\ UNCHANGED <<input, history>>

PrintRecipes ==
  /\ status = "start" /\ goal = PrintAll
  /\ Decide(PrintOverflows(lines, stray), Printed(lines, stray), "printed")
  /\ UNCHANGED <<input, history>>

MakeTarget ==
  /\ status = "start" /\ goal \in Targets /\ findLine(lines, goal) # Missing
  /\ Decide(TargetOverflows(lines, stray, goal), RunTarget(lines, stray, goal), "run")
  /\ UNCHANGED <<input, history>>

DescribeRules ==
  /\ status = "start" /\ goal = DescribeAll
  /\ \/ ~TokensMissing(lines) /\ status' = "described" /\ plan' = Description(lines)
     \/ (TokensMissing(lines) \/ MayNotFit(lines)) /\ status' = "undefined" /\ UNCHANGED plan
  /\ UNCHANGED <<input, procs, history>>

\* The checks of the arguments: the file cannot be opened.
CannotOpen ==
  /\ status = "start" /\ status' = "refused"
  /\ UNCHANGED <<input, plan, procs, history>>

\* "doesn't exist"
Refuse ==
  /\ status = "start" /\ goal \in Targets /\ findLine(lines, goal) = Missing
  /\ status' = "refused"
  /\ UNCHANGED <<input, plan, procs, history>>
-----------------------------------------------------------------------------
At(p) == procs[p].at
Is(p, state) == p \in DOMAIN procs /\ procs[p].st = state
Child(p) == Append(p, At(p))
Gone(p) == [q \in DOMAIN procs \ {p} |-> procs[q]]
Goto(p, at, state) == [procs EXCEPT ![p] = [at |-> at, st |-> state]]

MayFail == Cardinality(failed) + Cardinality(unforked) < MaxFaults
Argv(p) == plan[At(p)].argv

\* The loop's test.
MoreOrEnd(p) == At(p) <= Len(plan) + 1
More(p) == At(p) <= Len(plan)

\* The parent of a fork waits.
AfterForkLoop(p) == Goto(p, At(p) + 1, "loop")
AfterFork(p) == Goto(p, At(p), "wait")

Fork(p) ==
  /\ Is(p, "loop") /\ More(p)
  /\ procs' = [q \in DOMAIN procs \cup {Child(p)} |->
                 IF q = Child(p) THEN [at |-> At(p), st |-> "born"] ELSE AfterFork(p)[q]]
  /\ UNCHANGED <<input, status, plan, history>>

\* pid = -1 is taken for a parent's, and wait(NULL) has no child to wait for.
ForkFails(p) ==
  /\ Is(p, "loop") /\ More(p) /\ MayFail
  /\ unforked' = unforked \cup {Child(p)}
  /\ procs' = Goto(p, At(p) + 1, "loop")
  /\ UNCHANGED <<input, status, plan, ran, failed>>

Exec(p) ==
  /\ Is(p, "born") /\ Argv(p) # <<>>
  /\ procs' = Goto(p, At(p), "program")
  /\ ran' = Append(ran, At(p))
  /\ UNCHANGED <<input, status, plan, failed, unforked>>

\* The child leaves the if and takes the next turn of the loop.
AfterFailureSame(p) == At(p)
AfterFailure(p) == At(p) + 1

ExecFails(p) ==
  /\ Is(p, "born") /\ Argv(p) # <<>> /\ MayFail
  /\ failed' = failed \cup {p}
  /\ procs' = Goto(p, AfterFailure(p), "loop")
  /\ UNCHANGED <<input, status, plan, ran, unforked>>

\* execvp of NULL crashes the child.
ExecNull(p) ==
  /\ Is(p, "born") /\ Argv(p) = <<>>
  /\ procs' = Gone(p)
  /\ UNCHANGED <<input, status, plan, history>>

ProgramEnds(p) ==
  /\ Is(p, "program") /\ procs' = Gone(p)
  /\ UNCHANGED <<input, status, plan, history>>

\* wait returns when the child has ended, however it ended.
WaitOverSucceeded(p) == Child(p) \notin DOMAIN procs /\ At(p) \in Range(ran)
WaitOver(p) == Child(p) \notin DOMAIN procs

Wait(p) ==
  /\ Is(p, "wait") /\ WaitOver(p)
  /\ procs' = Goto(p, At(p) + 1, "loop")
  /\ UNCHANGED <<input, status, plan, history>>

Leave(p) ==
  /\ Is(p, "loop") /\ ~More(p)
  /\ procs' = Gone(p)
  /\ UNCHANGED <<input, status, plan, history>>

Work(p) == Fork(p) \/ Exec(p) \/ ExecNull(p) \/ ProgramEnds(p) \/ Wait(p) \/ Leave(p)

Next ==
  \/ MakeAll \/ PrintRecipes \/ DescribeRules \/ MakeTarget \/ CannotOpen \/ Refuse
  \/ \E p \in DOMAIN procs : Work(p) \/ ForkFails(p) \/ ExecFails(p)

Spec == Init /\ [][Next]_vars

\* The kernel runs the processes that can go on, and the programs end.
FairSpec == Spec /\ WF_vars(\E p \in DOMAIN procs : Work(p))
-----------------------------------------------------------------------------
Ended == status # "start" /\ procs = <<>>
Faultless == failed = {} /\ unforked = {}

Times(place) == Cardinality({n \in DOMAIN ran : ran[n] = place})
FailedAt(place) == {p \in failed : Last(p) = place}
FailedBefore(place) == {p \in failed : Last(p) < place}

\* wait(NULL) after every fork (main.c:215 and the others): whatever fails, one
\* process works while all others wait, so that no two commands run at once.
OneAtATime == \A p, q \in DOMAIN procs : p # q => Is(p, "wait") \/ Is(q, "wait")

\* A command is run once, and once more for every earlier execvp that failed and
\* left a second mymake behind (main.c:213, 233); in the end exactly that often,
\* unless a fork failed.
RepeatsExplained ==
  \A place \in DOMAIN plan : plan[place].argv # <<>> =>
    /\ Times(place) + Cardinality(FailedAt(place)) <= 1 + Cardinality(FailedBefore(place))
    /\ Ended /\ status = "run" /\ unforked = {} =>
         Times(place) + Cardinality(FailedAt(place)) = 1 + Cardinality(FailedBefore(place))

(***************************************************************************)
(* The reference: what a makefile asks for.                                *)
(***************************************************************************)
RuleOf(i) == Max({r \in Rules(lines) : r <= i})
Refers(r) == {q \in Rules(lines) : lines[q].name \in Range(lines[r].deps)}

\* The rules reached from rule r, r included.
Needed(r) ==
  {q \in Rules(lines) :
    \A S \in SUBSET Rules(lines) :
      r \in S /\ (\A s \in S : Refers(s) \subseteq S) => q \in S}

Commands(rules) ==
  {c \in [line : DOMAIN lines, cmd : UNION {Range(lines[i].cmds) :
                                   i \in {k \in DOMAIN lines : RecipeAt(lines, k)}}] :
    RecipeAt(lines, c.line) /\ RuleOf(c.line) \in rules /\ c.cmd \in Range(lines[c.line].cmds)}
Did(n) == [line |-> plan[ran[n]].line, cmd |-> plan[ran[n]].argv[1]]

\* The names of the rules are different texts, and no other text is part of one.
Distinct ==
  \A i, j \in Rules(lines) :
    /\ lines[i].name = lines[j].name => i = j
    /\ \A pair \in Within : pair[2] # lines[i].name

\* "Only one dependencies in each target except the first one can be referred to
\* other targets", no cycles, and the one referred to stands last.
OneReference ==
  /\ \A r \in Rules(lines) : FirstLine \notin Refers(r)
  /\ \A r \in Rules(lines) \ {FirstLine} :
       /\ Cardinality(Refers(r)) <= 1
       /\ \A q \in Refers(r) : r \notin Needed(q) /\ Last(lines[r].deps) = lines[q].name

\* The memory before lines[] spells the name of no rule that could be followed.
StrayNamesNone ==
  \A r \in Rules(lines) \ {FirstLine} : lines[r].name \notin Range(stray)

\* No blank line stands between a rule and one of its recipes (main.c:278 and the
\* other loops end at one).
UnderRules ==
  \A i \in DOMAIN lines :
    RecipeAt(lines, i) => i \in Range(RecipeLines(lines, RuleOf(i)))

\* What the code takes without mistake: a first target with dependencies, or a
\* later target.
Handled ==
  /\ Distinct /\ OneReference /\ UnderRules /\ StrayNamesNone
  /\ goal = RunAll => lines[FirstLine].deps # <<>>
  /\ goal = lines[FirstLine].name =>
       \A i \in Range(RecipeLines(lines, FirstLine)) : Len(lines[i].cmds) = 1

GoalLine == IF goal = RunAll THEN FirstLine ELSE findLine(lines, goal)

\* A command is run only after all commands of the rules its rule refers to
\* (main.c:243-273: the chain is recorded forwards and run backwards).
DependenciesFirst ==
  status = "run" /\ Handled /\ Faultless =>
    \A n \in DOMAIN ran :
      Commands(Refers(RuleOf(plan[ran[n]].line))) \subseteq {Did(m) : m \in 1 .. n - 1}

\* The rules that a name in rule r can lead to, were it as a part of theirs or by
\* the memory before lines[].
LeadsTo(r) ==
  LET names == Range(lines[r].deps) \cup (IF r = FirstLine THEN {lines[r].name} ELSE {})
      all == names \cup UNION {Range(stray) : dep \in {n \in names : findLine(lines, n) = Missing}}
  IN  {q \in Rules(lines) : \E dep \in all : Occurs(dep, lines[q].name)}

LedTo(r) ==
  {q \in Rules(lines) :
    \A S \in SUBSET Rules(lines) :
      r \in S /\ (\A s \in S : LeadsTo(s) \subseteq S) => q \in S}

\* mymake runs the commands of the goal and of all rules it needs.  In any file,
\* with names in names and dependencies without a rule (main.c:109, 257), and
\* whatever fails, it runs no command of a rule to which no name leads.
GoalMade ==
  Ended /\ status = "run" =>
    /\ Handled /\ Faultless => {Did(n) : n \in DOMAIN ran} = Commands(Needed(GoalLine))
    /\ (goal = RunAll => lines[FirstLine].deps # <<>>)
       => {RuleOf(plan[ran[n]].line) : n \in DOMAIN ran} \subseteq LedTo(GoalLine)

\* The count of the recipes of rule r goes as far as the rule does: no blank line
\* stands as high in the file as one of its n recipes, and the next rule, the
\* file's end or such a blank line stops it behind them.
CountFits(r) ==
  LET n == Len(RecipeLines(lines, r)) IN
  /\ \A k \in 1 .. n : ~BlankAt(lines, k + 1)
  /\ r + n + 1 \in Rules(lines) \/ r + n = Len(lines) \/ BlankAt(lines, n + 2)

\* What -r prints is what mymake without it runs, in the same order, when the
\* first target has dependencies (main.c:370-453 and 238-360); but of the only rule
\* of a file it also prints the recipes behind a blank line.  What -p says of a
\* rule without commas are its recipes if the blank lines at the head of the file
\* happen to fit it, and only then (main.c:602); the first rule's always do.
ListingsRight ==
  /\ status = "printed" /\ Distinct /\ lines[FirstLine].deps # <<>> =>
       (plan = RunFirst(lines, stray) <=> depCount(lines) = 1 => UnderRules)
  /\ status = "described" =>
       \A r \in Rules(lines) :
         (\A i \in Range(RecipeLines(lines, r)) : Len(lines[i].cmds) = 1) =>
           /\ plan[r].recipes = RecipesUnder(lines, r) <=> CountFits(r)
           /\ r = FirstLine => CountFits(r)

\* The search for dependencies ends within depNo if every dependency has a rule,
\* no rule needs itself and the rules are few enough: a chain may take a place for
\* every rule but the first, and the first target has a chain per dependency.
SearchEnds ==
  /\ Distinct /\ goal \notin {PrintAll, DescribeAll}
  /\ \A r \in Rules(lines) :
       /\ \A dep \in Range(lines[r].deps) : findLine(lines, dep) # Missing
       /\ \A q \in Refers(r) : r \notin Needed(q)
  /\ Max({1, Len(lines[FirstLine].deps)}) * (Cardinality(Rules(lines)) - 1) <= MaxDep
  => status # "undefined"

\* Once it runs commands mymake ends, whichever forks and execs fail.
MymakeEnds == status = "run" ~> Ended
=============================================================================
