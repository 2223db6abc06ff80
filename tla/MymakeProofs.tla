----------------------------- MODULE MymakeProofs -----------------------------
(***************************************************************************)
(* Proofs about Mymake, for every makefile, every goal and any number of   *)
(* failing forks and execs: main works out the commands of the goal and of *)
(* all it needs, in order, prints the same, and its search ends; the       *)
(* processes stand in one line of descent, and the books they keep tell    *)
(* how often a command is run.                                             *)
(***************************************************************************)
EXTENDS Mymake, FiniteSetTheorems, WellFoundedInduction, TLAPS

(***************************************************************************)
(* Natural numbers.  What would be an induction is an argument about the   *)
(* least number at which a statement fails.                                *)
(***************************************************************************)
LEMMA Least ==
  ASSUME NEW S, S \subseteq Nat, S # {}
  PROVE  \E m \in S : \A k \in S : m <= k
  <1> DEFINE R == OpToRel(<, Nat)
  <1>1. IsWellFoundedOn(R, Nat) BY NatLessThanWellFounded, Zenon
  <1>2. \A x, y \in Nat : <<x, y>> \in R <=> x < y BY Zenon DEF OpToRel
  <1> HIDE DEF R
  <1>3. PICK m \in S : \A k \in S : <<k, m>> \notin R BY <1>1, WFMin
  <1>4. \A k \in S : k \in Nat /\ m \in Nat /\ ~(k < m) BY <1>2, <1>3
  <1> QED BY <1>4

\* A bounded set of natural numbers has a greatest, any set of them a least.
LEMMA MaxOf ==
  ASSUME NEW N \in Nat, NEW S, S \subseteq 0 .. N, S # {}
  PROVE  Max(S) \in S /\ \A k \in S : k <= Max(S)
  <1> DEFINE T == {n \in 0 .. N : \A k \in S : k <= n}
  <1>1. PICK m \in T : \A n \in T : m <= n
    <2>1. N \in T /\ T \subseteq Nat OBVIOUS
    <2> HIDE DEF T
    <2> QED BY <2>1, Least
  <1>2. m \in S
    <2>1. SUFFICES ASSUME m \notin S PROVE FALSE OBVIOUS
    <2>2. PICK k \in S : TRUE OBVIOUS
    <2>3. \A j \in S : j \in Nat /\ j <= m /\ j # m BY <2>1
    <2>4. m - 1 \in T BY <2>2, <2>3
    <2> QED BY <1>1, <2>4
  <1>3. \A k \in S : m >= k BY <1>1
  <1>4. PICK x : x = Max(S) OBVIOUS
  <1>5. x \in S /\ \A y \in S : x >= y BY <1>2, <1>3, <1>4 DEF Max
  <1> QED BY <1>4, <1>5

LEMMA MinOf ==
  ASSUME NEW S, S \subseteq Nat, S # {}
  PROVE  Min(S) \in S /\ \A k \in S : Min(S) <= k
  <1>1. PICK m \in S : \A k \in S : m <= k BY Least
  <1>2. PICK x : x = Min(S) OBVIOUS
  <1>3. x \in S /\ \A y \in S : x =< y BY <1>1, <1>2 DEF Min
  <1> QED BY <1>2, <1>3
-----------------------------------------------------------------------------
(***************************************************************************)
(* FlattenSeq, the concatenation of a sequence of sequences, is defined by *)
(* a recursive function: there is one, and only one, for every sequence.   *)
(***************************************************************************)
Joins(f, ss, n) == f = [i \in 1 .. n |-> IF i = 1 THEN ss[i] ELSE f[i - 1] \o ss[i]]

LEMMA JoinsExist == ASSUME NEW ss, NEW n \in Nat PROVE \E f : Joins(f, ss, n)
  <1> DEFINE Bad == {k \in Nat : ~\E f : Joins(f, ss, k)}
  <1>1. SUFFICES ASSUME Bad # {} PROVE FALSE OBVIOUS
  <1>2. PICK m \in Bad : \A k \in Bad : m <= k
    <2>1. Bad \subseteq Nat OBVIOUS
    <2> HIDE DEF Bad
    <2> QED BY <1>1, <2>1, Least
  <1>3. m # 0
    <2>1. SUFFICES \E f : Joins(f, ss, 0) OBVIOUS
    <2> DEFINE f == [i \in {} |-> i]
    <2>2. 1 .. 0 = {} OBVIOUS
    <2>3. Joins(f, ss, 0) BY <2>2 DEF Joins
    <2> QED BY <2>3
  <1>4. PICK g : Joins(g, ss, m - 1)
    <2>1. m - 1 \in Nat /\ ~(m <= m - 1) BY <1>3
    <2> QED BY <1>2, <2>1
  <1> DEFINE f == [i \in 1 .. m |-> IF i = 1 THEN ss[i] ELSE g[i - 1] \o ss[i]]
  <1>5. \A i \in 1 .. m - 1 : g[i] = IF i = 1 THEN ss[i] ELSE g[i - 1] \o ss[i]
    BY <1>4, Zenon DEF Joins
  <1>6. \A i \in 1 .. m : i # 1 => f[i - 1] = g[i - 1]
    <2>1. \A i \in 1 .. m : i # 1 => i - 1 \in 1 .. m /\ i - 1 \in 1 .. m - 1 BY <1>3
    <2>2. \A i \in 1 .. m - 1 : i \in 1 .. m OBVIOUS
    <2>3. \A i \in 1 .. m - 1 : f[i] = g[i] BY <1>5, <2>2
    <2> QED BY <2>1, <2>3
  <1>7. f = [i \in 1 .. m |-> IF i = 1 THEN ss[i] ELSE f[i - 1] \o ss[i]] BY <1>6
  <1>8. Joins(f, ss, m)
    <2> HIDE DEF f
    <2> QED BY <1>7 DEF Joins
  <1> QED BY <1>8

LEMMA JoinsAgree ==
  ASSUME NEW n \in Nat, NEW m \in Nat, n <= m,
         NEW f, NEW g, NEW ss, NEW tt, Joins(f, ss, n), Joins(g, tt, m),
         \A i \in 1 .. n : ss[i] = tt[i]
  PROVE  \A i \in 1 .. n : f[i] = g[i]
  <1> DEFINE Bad == {i \in 1 .. n : f[i] # g[i]}
  <1>1. SUFFICES ASSUME Bad # {} PROVE FALSE OBVIOUS
  <1>2. PICK b \in Bad : \A i \in Bad : b <= i
    <2>1. Bad \subseteq Nat OBVIOUS
    <2> HIDE DEF Bad
    <2> QED BY <1>1, <2>1, Least
  <1>3. \A i \in 1 .. n : i \in 1 .. n /\ i \in 1 .. m OBVIOUS
  <1>4. /\ \A i \in 1 .. n : f[i] = IF i = 1 THEN ss[i] ELSE f[i - 1] \o ss[i]
        /\ \A i \in 1 .. m : g[i] = IF i = 1 THEN tt[i] ELSE g[i - 1] \o tt[i]
    BY Zenon DEF Joins
  <1>5. b # 1 => b - 1 \in 1 .. n /\ ~(b <= b - 1) OBVIOUS
  <1>6. b # 1 => f[b - 1] = g[b - 1] BY <1>2, <1>5
  <1> QED BY <1>3, <1>4, <1>6

LEMMA FlattenIs ==
  ASSUME NEW ss, Len(ss) \in Nat, Len(ss) # 0
  PROVE  \E f : Joins(f, ss, Len(ss)) /\ FlattenSeq(ss) = f[Len(ss)]
  <1> DEFINE f == CHOOSE g : Joins(g, ss, Len(ss))
  <1>1. Joins(f, ss, Len(ss)) BY JoinsExist, Zenon
  <1>2. FlattenSeq(ss) = f[Len(ss)] BY DEF FlattenSeq, Joins
  <1> QED BY <1>1, <1>2

LEMMA FlattenType ==
  ASSUME NEW X, NEW ss \in Seq(Seq(X))
  PROVE  FlattenSeq(ss) \in Seq(X)
  <1>1. CASE Len(ss) = 0
    <2>1. ss = <<>> BY <1>1
    <2>2. FlattenSeq(ss) = ss BY <1>1 DEF FlattenSeq
    <2>3. <<>> \in Seq(X) OBVIOUS
    <2> QED BY <2>1, <2>2, <2>3, Zenon
  <1>2. CASE Len(ss) # 0
    <2>1. PICK f : Joins(f, ss, Len(ss)) /\ FlattenSeq(ss) = f[Len(ss)]
      BY <1>2, FlattenIs
    <2> DEFINE Bad == {i \in 1 .. Len(ss) : f[i] \notin Seq(X)}
    <2>2. Len(ss) \in 1 .. Len(ss) BY <1>2
    <2>3. SUFFICES ASSUME Bad # {} PROVE FALSE BY <2>1, <2>2
    <2>4. PICK b \in Bad : \A i \in Bad : b <= i
      <3>1. Bad \subseteq Nat OBVIOUS
      <3> HIDE DEF Bad
      <3> QED BY <2>3, <3>1, Least
    <2>5. f[b] = IF b = 1 THEN ss[b] ELSE f[b - 1] \o ss[b]
      BY <2>1, Zenon DEF Joins
    <2>6. b # 1 => b - 1 \in 1 .. Len(ss) /\ ~(b <= b - 1) OBVIOUS
    <2>7. b # 1 => f[b - 1] \in Seq(X) BY <2>4, <2>6
    <2>8. ss[b] \in Seq(X) OBVIOUS
    <2>9. b # 1 => f[b - 1] \o ss[b] \in Seq(X) BY <2>7, <2>8
    <2> QED BY <2>5, <2>8, <2>9
  <1> QED BY <1>1, <1>2

LEMMA FlattenEmpty == FlattenSeq(<<>>) = <<>>
  <1>1. Len(<<>>) = 0 OBVIOUS
  <1> QED BY <1>1 DEF FlattenSeq

LEMMA FlattenAppend ==
  ASSUME NEW X, NEW ss \in Seq(Seq(X)), NEW s \in Seq(X)
  PROVE  FlattenSeq(Append(ss, s)) = FlattenSeq(ss) \o s
  <1> DEFINE tt == Append(ss, s)
  <1>0. PICK n \in Nat : n = Len(ss) OBVIOUS
  <1>1. /\ tt \in Seq(Seq(X)) /\ Len(tt) = n + 1
        /\ tt[n + 1] = s /\ \A i \in 1 .. n : ss[i] = tt[i]
    BY <1>0
  <1>2. FlattenSeq(<<>>) = <<>> BY FlattenEmpty
  <1> HIDE DEF tt
  <1>3. PICK g : Joins(g, tt, n + 1) /\ FlattenSeq(tt) = g[n + 1]
    <2>1. Len(tt) \in Nat /\ Len(tt) # 0 BY <1>1
    <2>2. \E g : Joins(g, tt, Len(tt)) /\ FlattenSeq(tt) = g[Len(tt)] BY <2>1, FlattenIs
    <2> QED BY <1>1, <2>2, Zenon
  <1>4. g[n + 1] = IF n + 1 = 1 THEN tt[n + 1] ELSE g[n + 1 - 1] \o tt[n + 1]
    <2>1. n + 1 \in 1 .. n + 1 BY <1>1
    <2>2. \A i \in 1 .. n + 1 : g[i] = IF i = 1 THEN tt[i] ELSE g[i - 1] \o tt[i]
      BY <1>3, Zenon DEF Joins
    <2> QED BY <2>1, <2>2
  <1>5. CASE n = 0
    <2>0. Len(ss) = 0 BY <1>0, <1>5
    <2>1. ss = <<>> BY <2>0
    <2>2. <<>> \o s = s OBVIOUS
    <2> QED BY <1>1, <1>2, <1>3, <1>4, <1>5, <2>1, <2>2 DEF tt
  <1>6. CASE n # 0
    <2>1. PICK f : Joins(f, ss, n) /\ FlattenSeq(ss) = f[n] BY <1>0, <1>6, FlattenIs
    <2>2. \A i \in 1 .. n : f[i] = g[i]
      <3>1. n <= n /\ n <= n + 1 /\ n + 1 \in Nat BY <1>1
      <3>2. Joins(f, ss, n) /\ Joins(g, tt, n + 1) /\ \A i \in 1 .. n : ss[i] = tt[i]
        BY <1>1, <1>3, <2>1
      <3> QED BY <3>1, <3>2, JoinsAgree
    <2>3. n \in 1 .. n /\ n + 1 - 1 = n /\ n + 1 # 1 BY <1>1, <1>6
    <2> QED BY <1>1, <1>2, <1>3, <1>4, <2>1, <2>2, <2>3 DEF tt
  <1> QED BY <1>5, <1>6

LEMMA ConcatIs ==
  ASSUME NEW X, NEW v \in Seq(X), NEW w \in Seq(X)
  PROVE  v \o w = [j \in 1 .. Len(v) + Len(w) |->
                     IF j <= Len(v) THEN v[j] ELSE w[j - Len(v)]]
  <1>0. v \o w \in Seq(X) OBVIOUS
  <1>1. PICK u \in Seq(X) : u = v \o w BY <1>0, Zenon
  <1>2. u = [j \in 1 .. Len(u) |-> u[j]] OBVIOUS
  <1>3. Len(u) = Len(v) + Len(w) BY <1>1
  <1>4. \A j \in 1 .. Len(v) + Len(w) :
          u[j] = IF j <= Len(v) THEN v[j] ELSE w[j - Len(v)]
    BY <1>1
  <1> QED BY <1>1, <1>2, <1>3, <1>4

LEMMA AppendIs ==
  ASSUME NEW X, NEW a \in Seq(X), NEW x \in X
  PROVE  Append(a, x) = [z \in 1 .. Len(a) + 1 |-> IF z = Len(a) + 1 THEN x ELSE a[z]]
  <1>1. Append(a, x) \in Seq(X) OBVIOUS
  <1>2. PICK u \in Seq(X) : u = Append(a, x) BY <1>1, Zenon
  <1>3. Len(Append(a, x)) = Len(a) + 1 OBVIOUS
  <1>5. u = [z \in 1 .. Len(u) |-> u[z]] OBVIOUS
  <1>4. \A z \in 1 .. Len(a) + 1 : u[z] = IF z = Len(a) + 1 THEN x ELSE a[z] BY <1>2
  <1> QED BY <1>2, <1>3, <1>4, <1>5

LEMMA FlattenSingle ==
  ASSUME NEW X, NEW s \in Seq(X)
  PROVE  FlattenSeq(<<s>>) = s
  <1>1. <<>> \in Seq(Seq(X)) /\ Append(<<>>, s) = <<s>> OBVIOUS
  <1>2. FlattenSeq(<<s>>) = FlattenSeq(<<>>) \o s BY <1>1, FlattenAppend
  <1>3. <<>> \o s = s OBVIOUS
  <1> QED BY <1>2, <1>3, FlattenEmpty

LEMMA FlattenConcat ==
  ASSUME NEW X, NEW ss \in Seq(Seq(X)), NEW tt \in Seq(Seq(X))
  PROVE  FlattenSeq(ss \o tt) = FlattenSeq(ss) \o FlattenSeq(tt)
  <1> DEFINE first(k) == [i \in 1 .. k |-> tt[i]]
             Bad == {k \in 0 .. Len(tt) :
                       FlattenSeq(ss \o first(k)) # FlattenSeq(ss) \o FlattenSeq(first(k))}
  <1>0. Len(tt) \in Nat /\ FlattenSeq(ss) \in Seq(X) BY FlattenType
  <1>1. tt = first(Len(tt)) OBVIOUS
  <1>2. SUFFICES ASSUME Bad # {} PROVE FALSE
    <2>1. Len(tt) \notin Bad =>
            FlattenSeq(ss \o first(Len(tt))) = FlattenSeq(ss) \o FlattenSeq(first(Len(tt)))
      BY <1>0
    <2> QED BY <1>1, <2>1, Zenon
  <1>3. PICK m \in Bad : \A k \in Bad : m <= k
    <2>1. Bad \subseteq Nat OBVIOUS
    <2> HIDE DEF Bad
    <2> QED BY <1>2, <2>1, Least
  <1>4. m \in 0 .. Len(tt)
        /\ FlattenSeq(ss \o first(m)) # FlattenSeq(ss) \o FlattenSeq(first(m))
    OBVIOUS
  <1>5. m # 0
    <2>1. SUFFICES FlattenSeq(ss \o first(0)) = FlattenSeq(ss) \o FlattenSeq(first(0))
      BY <1>4
    <2>2. first(0) = <<>> OBVIOUS
    <2>3. ss \o <<>> = ss /\ FlattenSeq(ss) \o <<>> = FlattenSeq(ss) BY <1>0
    <2> QED BY <2>2, <2>3, FlattenEmpty
  <1>6. FlattenSeq(ss \o first(m - 1)) = FlattenSeq(ss) \o FlattenSeq(first(m - 1))
    <2>1. m - 1 \in 0 .. Len(tt) /\ ~(m <= m - 1) BY <1>0, <1>4, <1>5
    <2>2. m - 1 \notin Bad BY <1>3, <2>1
    <2> QED BY <2>1, <2>2
  <1>7. /\ first(m - 1) \in Seq(Seq(X)) /\ tt[m] \in Seq(X)
        /\ first(m) = Append(first(m - 1), tt[m])
    <2>1. m \in 1 .. Len(tt) BY <1>0, <1>4, <1>5
    <2>2. \A i \in 1 .. m - 1 : tt[i] \in Seq(X) BY <1>0, <2>1
    <2>3. first(m - 1) \in Seq(Seq(X)) /\ Len(first(m - 1)) = m - 1 BY <2>1, <2>2
    <2> QED BY <2>1, <2>3
  <1> HIDE DEF first, Bad
  <1>8. PICK u \in Seq(Seq(X)), x \in Seq(X) : u = first(m - 1) /\ x = tt[m] BY <1>7
  <1>9. ss \o Append(u, x) = Append(ss \o u, x) /\ ss \o u \in Seq(Seq(X)) OBVIOUS
  <1>10. /\ FlattenSeq(Append(ss \o u, x)) = FlattenSeq(ss \o u) \o x
         /\ FlattenSeq(Append(u, x)) = FlattenSeq(u) \o x
    BY <1>9, FlattenAppend
  <1>11. FlattenSeq(u) \in Seq(X) BY FlattenType
  <1>12. (FlattenSeq(ss) \o FlattenSeq(u)) \o x = FlattenSeq(ss) \o (FlattenSeq(u) \o x)
    <2>1. \A a, b, d \in Seq(X) : (a \o b) \o d = a \o (b \o d) OBVIOUS
    <2> QED BY <1>0, <1>8, <1>11, <2>1, Zenon
  <1> QED BY <1>4, <1>6, <1>7, <1>8, <1>9, <1>10, <1>12

\* Nothing gets lost.
LEMMA FlattenHas ==
  ASSUME NEW X, NEW ss \in Seq(Seq(X)), NEW k \in 1 .. Len(ss), NEW x \in Range(ss[k])
  PROVE  x \in Range(FlattenSeq(ss))
  <1>1. Len(ss) \in Nat /\ Len(ss) # 0 OBVIOUS
  <1>2. PICK f : Joins(f, ss, Len(ss)) /\ FlattenSeq(ss) = f[Len(ss)] BY <1>1, FlattenIs
  <1> DEFINE Bad == {j \in 1 .. Len(ss) : f[j] \notin Seq(X) \/ (k <= j /\ x \notin Range(f[j]))}
  <1>3. SUFFICES ASSUME Bad # {} PROVE FALSE
    <2>1. Len(ss) \in 1 .. Len(ss) /\ k <= Len(ss) BY <1>1
    <2> QED BY <1>2, <2>1
  <1>4. PICK b \in Bad : \A j \in Bad : b <= j
    <2>1. Bad \subseteq Nat OBVIOUS
    <2> HIDE DEF Bad
    <2> QED BY <1>3, <2>1, Least
  <1>5. f[b] = IF b = 1 THEN ss[b] ELSE f[b - 1] \o ss[b] BY <1>2, Zenon DEF Joins
  <1>6. b # 1 => b - 1 \in 1 .. Len(ss) /\ ~(b <= b - 1) BY <1>1
  <1>7. b # 1 => f[b - 1] \in Seq(X) /\ (k <= b - 1 => x \in Range(f[b - 1]))
    BY <1>4, <1>6
  <1>8. ss[b] \in Seq(X) OBVIOUS
  <1>9. \A s, t \in Seq(X) : \A y : y \in Range(s) \/ y \in Range(t) => y \in Range(s \o t)
    <2> SUFFICES ASSUME NEW s \in Seq(X), NEW t \in Seq(X), NEW y,
                        y \in Range(s) \/ y \in Range(t)
                 PROVE  y \in Range(s \o t)
      OBVIOUS
    <2>1. CASE y \in Range(s)
      <3>1. PICK j \in DOMAIN s : y = s[j] BY <2>1 DEF Range
      <3>2. j \in DOMAIN (s \o t) /\ (s \o t)[j] = y BY <3>1
      <3> QED BY <3>2 DEF Range
    <2>2. CASE y \in Range(t)
      <3>1. PICK j \in DOMAIN t : y = t[j] BY <2>2 DEF Range
      <3>2. j \in 1 .. Len(t) /\ Len(s) \in Nat BY <3>1
      <3>3. Len(s) + j \in DOMAIN (s \o t) /\ (s \o t)[Len(s) + j] = y BY <3>1, <3>2
      <3> QED BY <3>3 DEF Range
    <2> QED BY <2>1, <2>2
  <1>10. f[b] \in Seq(X) BY <1>5, <1>7, <1>8
  <1>11. k <= b => x \in Range(f[b])
    <2>1. CASE k = b /\ b = 1 BY <1>5, <2>1
    <2>2. CASE k = b /\ b # 1 BY <1>5, <1>7, <1>8, <1>9, <2>2
    <2>3. CASE k < b
      <3>1. b # 1 /\ k <= b - 1 BY <2>3
      <3> QED BY <1>5, <1>7, <1>8, <1>9, <3>1
    <2> QED BY <2>1, <2>2, <2>3
  <1> QED BY <1>10, <1>11
-----------------------------------------------------------------------------
(***************************************************************************)
(* What main works out is a sequence of commands: the words of each stand  *)
(* in the file, and its line is a line number.                             *)
(***************************************************************************)
Recipes(file) == {k \in DOMAIN file : RecipeAt(file, k)}
Word(file) ==
  {file[j].name : j \in Rules(file)}
    \cup (UNION {Range(file[j].deps) : j \in Rules(file)})
    \cup (UNION {Range(file[j].cmds) : j \in Recipes(file)})
CommandOf(file) == [line : Nat, argv : Seq(Word(file))]

\* The lines that findLine can answer.
Found(file) == {Missing} \cup Rules(file)

LEMMA FileType ==
  ASSUME NEW file, IsMakefile(file)
  PROVE  /\ DOMAIN file = 1 .. Len(file) /\ Len(file) \in Nat /\ 1 \in Rules(file)
         /\ Rules(file) \subseteq 1 .. Len(file)
         /\ \A r \in Rules(file) :
              file[r].deps \in Seq(Word(file)) /\ file[r].name \in Word(file)
         /\ \A k : RecipeAt(file, k) =>
              /\ k \in 1 .. Len(file) /\ k \notin Rules(file)
              /\ file[k].cmds \in Seq(Word(file)) /\ file[k].cmds # <<>>
  <1>1. file \in Seq(Range(file)) /\ 1 \in Rules(file) BY DEF IsMakefile, FirstLine
  <1>2. DOMAIN file = 1 .. Len(file) /\ Len(file) \in Nat BY <1>1
  <1>3. Rules(file) \subseteq 1 .. Len(file) BY <1>2 DEF Rules
  <1>4. \A k : RecipeAt(file, k) => k \in 1 .. Len(file) /\ k \notin Rules(file)
    BY <1>2 DEF RecipeAt, Rules
  <1>5. ASSUME NEW r \in Rules(file)
        PROVE  file[r].deps \in Seq(Word(file)) /\ file[r].name \in Word(file)
    <2>1. file[r].kind = "rule" /\ r \in DOMAIN file BY DEF Rules
    <2>2. ~RecipeAt(file, r) /\ file[r] # Blank BY <2>1 DEF RecipeAt, Blank
    <2>3. file[r].deps \in Seq(Range(file[r].deps)) BY <2>1, <2>2 DEF IsMakefile
    <2>4. Range(file[r].deps) \subseteq Word(file)
      <3>1. Range(file[r].deps) \in {Range(file[j].deps) : j \in Rules(file)} OBVIOUS
      <3>2. Range(file[r].deps) \subseteq UNION {Range(file[j].deps) : j \in Rules(file)}
        BY <3>1
      <3> QED BY <3>2 DEF Word
    <2>5. file[r].name \in Word(file) BY DEF Word
    <2>6. file[r].deps \in Seq(Word(file)) BY <2>3, <2>4
    <2> QED BY <2>5, <2>6
  <1>6. ASSUME NEW k, RecipeAt(file, k)
        PROVE  file[k].cmds \in Seq(Word(file)) /\ file[k].cmds # <<>>
    <2>1. k \in DOMAIN file /\ k \notin Rules(file) /\ file[k] # Blank
      BY <1>2, <1>4, <1>6 DEF RecipeAt, Blank
    <2>2. file[k].cmds \in Seq(Range(file[k].cmds)) /\ file[k].cmds # <<>>
      BY <2>1 DEF IsMakefile
    <2>3. Range(file[k].cmds) \subseteq Word(file)
      <3>1. Range(file[k].cmds) \in {Range(file[j].cmds) : j \in Recipes(file)}
        BY <1>6, <2>1 DEF Recipes
      <3>2. Range(file[k].cmds) \subseteq UNION {Range(file[j].cmds) : j \in Recipes(file)}
        BY <3>1
      <3> QED BY <3>2 DEF Word
    <2> QED BY <2>2, <2>3
  <1> QED BY <1>1, <1>2, <1>3, <1>4, <1>5, <1>6

LEMMA findLineType ==
  ASSUME NEW file, IsMakefile(file), NEW dep
  PROVE  findLine(file, dep) \in Found(file) /\ findLine(file, dep) \in 0 .. Len(file)
  <1>1. Rules(file) \subseteq 1 .. Len(file) /\ 1 \in Rules(file) /\ Len(file) \in Nat
    BY FileType
  <1>2. CASE dep = NULL BY <1>1, <1>2 DEF findLine, FirstLine, Found
  <1>3. CASE dep # NULL
    <2> DEFINE S == {Missing} \cup {i \in Rules(file) : Occurs(dep, file[i].name)}
    <2>1. S \subseteq 0 .. Len(file) /\ S # {} /\ S \subseteq Found(file)
      BY <1>1 DEF Missing, Found
    <2>2. findLine(file, dep) = Max(S) BY <1>3 DEF findLine
    <2> HIDE DEF S
    <2>3. Max(S) \in S BY <1>1, <2>1, MaxOf
    <2> QED BY <2>1, <2>2, <2>3
  <1> QED BY <1>2, <1>3

LEMMA RecipeLinesType ==
  ASSUME NEW file, IsMakefile(file), NEW r \in Nat
  PROVE  \E n \in Nat :
           /\ RecipeLines(file, r) = [k \in 1 .. n |-> r + k]
           /\ \A k \in 1 .. n : RecipeAt(file, r + k)
           /\ ~RecipeAt(file, r + n + 1)
  <1> DEFINE under == {n \in 0 .. Len(file) : \A k \in r + 1 .. r + n : RecipeAt(file, k)}
  <1>1. Len(file) \in Nat BY FileType
  <1>2. 0 \in under BY <1>1
  <1>3. PICK m : m = Max(under) OBVIOUS
  <1>4. m \in under /\ \A n \in under : n <= m
    <2>1. under \subseteq 0 .. Len(file) /\ under # {} BY <1>2
    <2> HIDE DEF under
    <2> QED BY <1>1, <1>3, <2>1, MaxOf
  <1>5. RecipeLines(file, r) = [k \in 1 .. m |-> r + k] BY <1>3 DEF RecipeLines
  <1>6. \A k \in 1 .. m : r + k \in r + 1 .. r + m BY <1>4
  <1>7. ~RecipeAt(file, r + m + 1)
    <2>1. SUFFICES ASSUME RecipeAt(file, r + m + 1) PROVE FALSE OBVIOUS
    <2>2. r + m + 1 \in 1 .. Len(file) BY <2>1, FileType
    <2>3. \A k \in r + 1 .. r + (m + 1) : k \in r + 1 .. r + m \/ k = r + m + 1 BY <1>4
    <2>4. m + 1 \in under BY <1>1, <1>4, <2>1, <2>2, <2>3
    <2> QED BY <1>4, <2>4
  <1> QED BY <1>4, <1>5, <1>6, <1>7

LEMMA SplitType ==
  ASSUME NEW file, IsMakefile(file), NEW k, RecipeAt(file, k)
  PROVE  Split(file, k) \in Seq(CommandOf(file)) /\ Whole(file, k) \in Seq(CommandOf(file))
  <1>1. k \in Nat /\ file[k].cmds \in Seq(Word(file)) BY FileType
  <1>2. PICK cmds \in Seq(Word(file)) : cmds = file[k].cmds BY <1>1
  <1>3. [line |-> k, argv |-> cmds] \in CommandOf(file) BY <1>1 DEF CommandOf
  <1>4. Whole(file, k) \in Seq(CommandOf(file)) BY <1>2, <1>3 DEF Whole
  <1>5. \A c \in 1 .. Len(cmds) : [line |-> k, argv |-> <<cmds[c]>>] \in CommandOf(file)
    <2>1. \A c \in 1 .. Len(cmds) : cmds[c] \in Word(file) /\ <<cmds[c]>> \in Seq(Word(file))
      OBVIOUS
    <2> QED BY <1>1, <2>1 DEF CommandOf
  <1>6. Split(file, k) = [c \in 1 .. Len(cmds) |-> [line |-> k, argv |-> <<cmds[c]>>]]
    BY <1>2 DEF Split
  <1>7. Len(cmds) \in Nat OBVIOUS
  <1>8. Split(file, k) \in Seq(CommandOf(file)) BY <1>5, <1>6, <1>7
  <1> QED BY <1>4, <1>8

LEMMA RecipesUnderType ==
  ASSUME NEW file, IsMakefile(file), NEW r \in Nat
  PROVE  RecipesUnder(file, r) \in Seq(CommandOf(file))
  <1>1. PICK n \in Nat : /\ RecipeLines(file, r) = [k \in 1 .. n |-> r + k]
                         /\ \A k \in 1 .. n : RecipeAt(file, r + k)
    BY RecipeLinesType
  <1> DEFINE ss == [k \in 1 .. n |-> Split(file, r + k)]
  <1>2. ss \in Seq(Seq(CommandOf(file)))
    <2>1. \A k \in 1 .. n : Split(file, r + k) \in Seq(CommandOf(file)) BY <1>1, SplitType
    <2> QED BY <2>1
  <1>3. RecipesUnder(file, r) = FlattenSeq(ss)
    <2>1. DOMAIN RecipeLines(file, r) = 1 .. n BY <1>1
    <2>2. \A k \in 1 .. n : RecipeLines(file, r)[k] = r + k BY <1>1
    <2>3. ss = [k \in DOMAIN RecipeLines(file, r) |-> Split(file, RecipeLines(file, r)[k])]
      BY <2>1, <2>2
    <2> QED BY <2>3 DEF RecipesUnder
  <1> HIDE DEF ss
  <1> QED BY <1>2, <1>3, FlattenType

LEMMA RecipesOfType ==
  ASSUME NEW file, IsMakefile(file), NEW depNo \in Seq(Nat)
  PROVE  RecipesOf(file, depNo) \in Seq(CommandOf(file))
  <1> DEFINE n == Len(depNo)
             ss == [j \in 1 .. n |-> RecipesUnder(file, Reverse(depNo)[j])]
  <1>1. n \in Nat /\ DOMAIN depNo = 1 .. n OBVIOUS
  <1>2. \A j \in 1 .. n : Reverse(depNo)[j] \in Nat
    <2>1. \A j \in 1 .. n : (n - j) + 1 \in 1 .. n BY <1>1
    <2> QED BY <1>1, <2>1 DEF Reverse
  <1>3. ss \in Seq(Seq(CommandOf(file)))
    <2>1. \A j \in 1 .. n : RecipesUnder(file, Reverse(depNo)[j]) \in Seq(CommandOf(file))
      BY <1>2, RecipesUnderType
    <2> QED BY <1>1, <2>1
  <1>4. RecipesOf(file, depNo) = FlattenSeq(ss) BY <1>1 DEF RecipesOf
  <1> HIDE DEF ss
  <1> QED BY <1>3, <1>4, FlattenType

(***************************************************************************)
(* The chain from a token, place by place.                                 *)
(***************************************************************************)
Follow(file, before, j) == findLine(file, Followed(file, DepsAt(file, before, j)))
Walks(f, file, before, tok, n) ==
  f = [k \in 1 .. n |->
         IF k = 1 THEN findLine(file, tok)
         ELSE [j \in {Missing} \cup Rules(file) |-> Follow(file, before, j)][f[k - 1]]]

LEMMA WalksExist ==
  ASSUME NEW file, NEW before, NEW tok, NEW n \in Nat
  PROVE  \E f : Walks(f, file, before, tok, n)
  <1> DEFINE next == [j \in {Missing} \cup Rules(file) |-> Follow(file, before, j)]
             Bad == {k \in Nat : ~\E f : Walks(f, file, before, tok, k)}
  <1>1. SUFFICES ASSUME Bad # {} PROVE FALSE OBVIOUS
  <1>2. PICK m \in Bad : \A k \in Bad : m <= k
    <2>1. Bad \subseteq Nat OBVIOUS
    <2> HIDE DEF Bad
    <2> QED BY <1>1, <2>1, Least
  <1>3. m # 0
    <2>1. SUFFICES \E f : Walks(f, file, before, tok, 0) OBVIOUS
    <2> DEFINE f == [k \in {} |-> k]
    <2>2. 1 .. 0 = {} OBVIOUS
    <2>3. Walks(f, file, before, tok, 0) BY <2>2 DEF Walks
    <2> QED BY <2>3
  <1>4. PICK g : Walks(g, file, before, tok, m - 1)
    <2>1. m - 1 \in Nat /\ ~(m <= m - 1) BY <1>3
    <2> QED BY <1>2, <2>1
  <1> HIDE DEF next
  <1> DEFINE f == [k \in 1 .. m |-> IF k = 1 THEN findLine(file, tok) ELSE next[g[k - 1]]]
  <1>5. \A k \in 1 .. m - 1 : g[k] = IF k = 1 THEN findLine(file, tok) ELSE next[g[k - 1]]
    BY <1>4, Zenon DEF Walks, next
  <1>6. \A k \in 1 .. m : k # 1 => f[k - 1] = g[k - 1]
    <2>1. \A k \in 1 .. m : k # 1 => k - 1 \in 1 .. m /\ k - 1 \in 1 .. m - 1 BY <1>3
    <2>2. \A k \in 1 .. m - 1 : k \in 1 .. m OBVIOUS
    <2>3. \A k \in 1 .. m - 1 : f[k] = g[k] BY <1>5, <2>2
    <2> QED BY <2>1, <2>3
  <1>7. f = [k \in 1 .. m |-> IF k = 1 THEN findLine(file, tok) ELSE next[f[k - 1]]] BY <1>6
  <1>8. Walks(f, file, before, tok, m)
    <2> HIDE DEF f
    <2> QED BY <1>7, Zenon DEF Walks, next
  <1> QED BY <1>8

\* The chain is the first n places of the walk f, up to the first line.
IsChain(f, n, file, before, tok) ==
  /\ f[1] = findLine(file, tok)
  /\ \A k \in 1 .. MaxDep + 1 : f[k] \in Found(file)
  /\ \A k \in 1 .. MaxDep : f[k + 1] = Follow(file, before, f[k])
  /\ n \in 0 .. MaxDep + 1
  /\ \A k \in 1 .. n : f[k] # FirstLine
  /\ n <= MaxDep => f[n + 1] = FirstLine
  /\ Chain(file, before, tok) = [k \in 1 .. n |-> f[k]]

LEMMA ChainIs ==
  ASSUME NEW file, IsMakefile(file), NEW before, NEW tok
  PROVE  \E f, n : IsChain(f, n, file, before, tok)
  <1> DEFINE next == [j \in {Missing} \cup Rules(file) |-> Follow(file, before, j)]
             f == CHOOSE g : Walks(g, file, before, tok, MaxDep + 1)
             ends == {k \in 1 .. MaxDep + 1 : f[k] = FirstLine}
             n == Min(ends \cup {MaxDep + 2}) - 1
  <1>1. MaxDep \in Nat /\ MaxDep + 1 \in Nat BY MakefileAssumption
  <1>2. Walks(f, file, before, tok, MaxDep + 1) BY <1>1, WalksExist, Zenon
  <1>3. Chain(file, before, tok) = [k \in 1 .. n |-> f[k]]
    BY Zenon DEF Chain, Walks, Follow
  <1> HIDE DEF f
  <1>4. \A k \in 1 .. MaxDep + 1 :
          f[k] = IF k = 1 THEN findLine(file, tok) ELSE next[f[k - 1]]
    BY <1>2, Zenon DEF Walks
  <1>5. \A j \in Found(file) : next[j] = Follow(file, before, j) /\ next[j] \in Found(file)
    BY findLineType DEF Found, Follow
  <1> HIDE DEF next
  <1>6. \A k \in 1 .. MaxDep + 1 : f[k] \in Found(file)
    <2> DEFINE Bad == {k \in 1 .. MaxDep + 1 : f[k] \notin Found(file)}
    <2>1. SUFFICES ASSUME Bad # {} PROVE FALSE OBVIOUS
    <2>2. PICK b \in Bad : \A k \in Bad : b <= k
      <3>1. Bad \subseteq Nat OBVIOUS
      <3> HIDE DEF Bad
      <3> QED BY <2>1, <3>1, Least
    <2>3. b # 1 => b - 1 \in 1 .. MaxDep + 1 /\ ~(b <= b - 1) BY <1>1
    <2>4. b # 1 => f[b - 1] \in Found(file) BY <2>2, <2>3
    <2>5. findLine(file, tok) \in Found(file) BY findLineType
    <2> QED BY <1>4, <1>5, <2>4, <2>5
  <1>7. f[1] = findLine(file, tok)
    <2>1. 1 \in 1 .. MaxDep + 1 BY <1>1
    <2> QED BY <1>4, <2>1
  <1>8. ASSUME NEW k \in 1 .. MaxDep PROVE f[k + 1] = Follow(file, before, f[k])
    <2>1. k + 1 \in 1 .. MaxDep + 1 /\ k + 1 # 1 /\ k + 1 - 1 = k /\ k \in 1 .. MaxDep + 1
      BY <1>1
    <2>2. f[k + 1] = next[f[k]] BY <1>4, <2>1
    <2> QED BY <1>5, <1>6, <2>1, <2>2
  <1>9. PICK e : e = Min(ends \cup {MaxDep + 2}) OBVIOUS
  <1>10. e \in ends \cup {MaxDep + 2} /\ \A k \in ends \cup {MaxDep + 2} : e <= k
    <2>1. ends \cup {MaxDep + 2} \subseteq Nat /\ ends \cup {MaxDep + 2} # {} BY <1>1
    <2> HIDE DEF ends
    <2> QED BY <1>9, <2>1, MinOf
  <1>11. e \in 1 .. MaxDep + 2 BY <1>1, <1>10
  <1>12. \A k \in 1 .. e - 1 : f[k] # FirstLine
    <2>1. \A k \in 1 .. e - 1 : k \in 1 .. MaxDep + 1 /\ ~(e <= k) BY <1>1, <1>11
    <2> QED BY <1>10, <2>1
  <1>13. e - 1 <= MaxDep => f[(e - 1) + 1] = FirstLine
    <2>1. e - 1 <= MaxDep => e # MaxDep + 2 /\ (e - 1) + 1 = e BY <1>1, <1>11
    <2> QED BY <1>10, <2>1
  <1>14. Chain(file, before, tok) = [k \in 1 .. e - 1 |-> f[k]] BY <1>3, <1>9
  <1>15. e - 1 \in 0 .. MaxDep + 1 BY <1>1, <1>11
  <1>16. IsChain(f, e - 1, file, before, tok)
    BY <1>6, <1>7, <1>8, <1>12, <1>13, <1>14, <1>15 DEF IsChain
  <1> QED BY <1>16

LEMMA ChainType ==
  ASSUME NEW file, IsMakefile(file), NEW before, NEW tok
  PROVE  Chain(file, before, tok) \in Seq(Nat)
  <1>1. PICK f, n : /\ \A k \in 1 .. MaxDep + 1 : f[k] \in Found(file)
                    /\ n \in 0 .. MaxDep + 1
                    /\ Chain(file, before, tok) = [k \in 1 .. n |-> f[k]]
    <2>1. PICK f, n : IsChain(f, n, file, before, tok) BY ChainIs
    <2> QED BY <2>1 DEF IsChain
  <1>2. Found(file) \subseteq Nat BY FileType DEF Found, Missing
  <1>3. n \in Nat /\ \A k \in 1 .. n : f[k] \in Nat
    <2>1. MaxDep \in Nat BY MakefileAssumption
    <2>2. \A k \in 1 .. n : k \in 1 .. MaxDep + 1 BY <1>1, <2>1
    <2> QED BY <1>1, <1>2, <2>1, <2>2
  <1> QED BY <1>1, <1>3

LEMMA DepNoType ==
  ASSUME NEW file, IsMakefile(file), NEW before
  PROVE  DepNo(file, before, FirstTokens(file)) \in Seq(Nat)
  <1> DEFINE tokens == FirstTokens(file)
             n == Len(tokens)
             ss == [z \in 1 .. n |-> Chain(file, before, Reverse(tokens)[z])]
  <1>1. tokens \in Seq(Word(file))
    <2>1. file[FirstLine].deps \in Seq(Word(file)) /\ file[FirstLine].name \in Word(file)
      BY FileType DEF FirstLine
    <2>2. <<file[FirstLine].name>> \in Seq(Word(file)) BY <2>1
    <2> QED BY <2>1, <2>2 DEF FirstTokens
  <1> HIDE DEF tokens
  <1>2. n \in Nat /\ DOMAIN tokens = 1 .. n BY <1>1
  <1>3. ss \in Seq(Seq(Nat))
    <2>1. \A z \in 1 .. n : Chain(file, before, Reverse(tokens)[z]) \in Seq(Nat)
      BY ChainType
    <2> QED BY <1>2, <2>1
  <1>4. DepNo(file, before, tokens) = FlattenSeq(ss) BY <1>2 DEF DepNo
  <1> HIDE DEF ss
  <1>5. FlattenSeq(ss) \in Seq(Nat) BY <1>3, FlattenType
  <1> QED BY <1>4, <1>5 DEF tokens

LEMMA CommandType ==
  ASSUME NEW file, IsMakefile(file), NEW j \in Nat
  PROVE  Command(file, j) \in Seq(CommandOf(file))
  <1>1. CASE RecipeAt(file, j) BY <1>1, SplitType DEF Command
  <1>2. CASE ~RecipeAt(file, j) /\ j \in Rules(file)
    <2>1. file[j].deps \in Seq(Word(file)) /\ file[j].name \in Word(file)
      BY <1>2, FileType
    <2>2. <<file[j].name>> \in Seq(Word(file)) BY <2>1
    <2>3. <<file[j].name>> \o file[j].deps \in Seq(Word(file)) BY <2>1, <2>2
    <2>4. PICK words \in Seq(Word(file)) : words = <<file[j].name>> \o file[j].deps
      BY <2>3
    <2>5. [line |-> j, argv |-> words] \in CommandOf(file) BY DEF CommandOf
    <2>6. Command(file, j) = <<[line |-> j, argv |-> words]>> BY <1>2, <2>4 DEF Command
    <2> QED BY <2>5, <2>6
  <1>3. CASE ~RecipeAt(file, j) /\ j \notin Rules(file)
    <2>1. <<>> \in Seq(Word(file)) OBVIOUS
    <2>2. [line |-> j, argv |-> <<>>] \in CommandOf(file) BY <2>1 DEF CommandOf
    <2>3. Command(file, j) = <<[line |-> j, argv |-> <<>>]>> BY <1>3 DEF Command
    <2> QED BY <2>2, <2>3
  <1> QED BY <1>1, <1>2, <1>3

LEMMA LoneTargetType ==
  ASSUME NEW file, IsMakefile(file)
  PROVE  LoneTarget(file) \in Seq(CommandOf(file))
  <1> DEFINE start == findLine(file, file[FirstLine].name) + 1
             last == recipeCount(file, start)
             ss == [k \in 1 .. last - start + 1 |-> Command(file, start + k - 1)]
  <1>1. start \in Nat /\ Len(file) \in Nat
    <2>1. findLine(file, file[FirstLine].name) \in 0 .. Len(file) BY findLineType
    <2> QED BY <2>1, FileType
  <1>2. last \in Nat /\ last >= start
    <2> DEFINE S == {start} \cup {j \in start .. Len(file) : ~RecipeAt(file, j)}
    <2>1. S \subseteq 0 .. start + Len(file) /\ S # {} /\ start \in S BY <1>1
    <2>2. last = Max(S) BY DEF recipeCount
    <2>3. start + Len(file) \in Nat BY <1>1
    <2> HIDE DEF S, start, last
    <2>4. Max(S) \in S /\ \A j \in S : j <= Max(S) BY <2>1, <2>3, MaxOf
    <2>5. PICK m : m = Max(S) OBVIOUS
    <2>6. m \in S /\ start <= m BY <2>1, <2>4, <2>5
    <2>7. m \in Nat BY <2>1, <2>3, <2>6
    <2> QED BY <1>1, <2>2, <2>5, <2>6, <2>7
  <1> HIDE DEF start, last
  <1>3. PICK n \in Nat : n = last - start + 1 BY <1>1, <1>2
  <1>4. \A k \in 1 .. n : start + k - 1 \in Nat BY <1>1
  <1>5. \A j \in Nat : Command(file, j) \in Seq(CommandOf(file)) BY CommandType
  <1>6. ss \in Seq(Seq(CommandOf(file)))
    <2>1. \A k \in 1 .. n : Command(file, start + k - 1) \in Seq(CommandOf(file))
      BY <1>4, <1>5
    <2> QED BY <1>3, <2>1
  <1>7. LoneTarget(file) = FlattenSeq(ss) BY DEF LoneTarget, start, last
  <1> HIDE DEF ss
  <1> QED BY <1>6, <1>7, FlattenType

LEMMA PlansAreCommands ==
  ASSUME NEW file, IsMakefile(file), NEW before, NEW target
  PROVE  /\ RunFirst(file, before) \in Seq(CommandOf(file))
         /\ RunTarget(file, before, target) \in Seq(CommandOf(file))
  <1>1. RecipesUnder(file, FirstLine) \in Seq(CommandOf(file))
    BY RecipesUnderType DEF FirstLine
  <1>2. RecipesOf(file, DepNo(file, before, FirstTokens(file))) \in Seq(CommandOf(file))
    BY DepNoType, RecipesOfType
  <1>3. RunFirst(file, before) \in Seq(CommandOf(file))
    BY <1>1, <1>2, LoneTargetType DEF RunFirst
  <1>4. RecipesOf(file, Chain(file, before, target)) \in Seq(CommandOf(file))
    BY ChainType, RecipesOfType
  <1>5. FlattenSeq([k \in DOMAIN RecipeLines(file, FirstLine) |-> Whole(file, FirstLine + k)])
          \in Seq(CommandOf(file))
    <2>1. PICK n \in Nat : /\ RecipeLines(file, FirstLine) = [k \in 1 .. n |-> FirstLine + k]
                           /\ \A k \in 1 .. n : RecipeAt(file, FirstLine + k)
      <3>1. FirstLine \in Nat BY DEF FirstLine
      <3> QED BY <3>1, RecipeLinesType
    <2> DEFINE ss == [k \in 1 .. n |-> Whole(file, FirstLine + k)]
    <2>2. ss \in Seq(Seq(CommandOf(file)))
      <3>1. \A k \in 1 .. n : Whole(file, FirstLine + k) \in Seq(CommandOf(file))
        BY <2>1, SplitType
      <3> QED BY <3>1
    <2>3. DOMAIN RecipeLines(file, FirstLine) = 1 .. n BY <2>1
    <2> HIDE DEF ss
    <2>4. FlattenSeq(ss) \in Seq(CommandOf(file)) BY <2>2, FlattenType
    <2> QED BY <2>3, <2>4 DEF ss
  <1>6. RunTarget(file, before, target) \in Seq(CommandOf(file))
    BY <1>2, <1>4, <1>5 DEF RunTarget
  <1> QED BY <1>3, <1>6

(***************************************************************************)
(* What -r prints.  depNo is recorded forwards, the chain of the last      *)
(* dependency first, and gone through backwards: in the end it is the      *)
(* recipes of the chains, the first dependency's first.                    *)
(***************************************************************************)
LEMMA RecipesOfConcat ==
  ASSUME NEW file, IsMakefile(file), NEW a \in Seq(Nat), NEW b \in Seq(Nat)
  PROVE  RecipesOf(file, a \o b) = RecipesOf(file, b) \o RecipesOf(file, a)
  <1> DEFINE under(d) == [j \in 1 .. Len(d) |-> RecipesUnder(file, d[Len(d) - j + 1])]
  <1>1. ASSUME NEW d \in Seq(Nat)
        PROVE  RecipesOf(file, d) = FlattenSeq(under(d)) /\ under(d) \in Seq(Seq(CommandOf(file)))
    <2>1. /\ Len(d) \in Nat /\ DOMAIN d = 1 .. Len(d)
          /\ \A j \in 1 .. Len(d) : (Len(d) - j) + 1 \in 1 .. Len(d)
      OBVIOUS
    <2>2. \A j \in 1 .. Len(d) : Reverse(d)[j] = d[Len(d) - j + 1]
      BY <2>1 DEF Reverse
    <2>3. RecipesOf(file, d) = FlattenSeq(under(d)) BY <2>1, <2>2 DEF RecipesOf
    <2>4. \A j \in 1 .. Len(d) : RecipesUnder(file, d[Len(d) - j + 1]) \in Seq(CommandOf(file))
      BY <2>1, RecipesUnderType
    <2>5. under(d) \in Seq(Seq(CommandOf(file))) BY <2>1, <2>4
    <2> QED BY <2>3, <2>5
  <1>2. a \o b \in Seq(Nat) OBVIOUS
  <1>3. under(a \o b) = under(b) \o under(a)
    <2>1. PICK k \in Nat, n \in Nat : k = Len(a) /\ n = Len(b) OBVIOUS
    <2>2. Len(a \o b) = n + k BY <2>1
    <2>3. /\ \A j \in 1 .. n : (a \o b)[n + k - j + 1] = b[n - j + 1]
          /\ \A j \in n + 1 .. n + k : (a \o b)[n + k - j + 1] = a[k - (j - n) + 1]
      <3>1. \A j \in 1 .. n : n + k - j + 1 \in k + 1 .. k + n
                              /\ (n + k - j + 1) - k = n - j + 1
        BY <2>1
      <3>2. \A j \in n + 1 .. n + k : n + k - j + 1 \in 1 .. k
                                      /\ n + k - j + 1 = k - (j - n) + 1
        BY <2>1
      <3>3. /\ \A j \in k + 1 .. k + n : (a \o b)[j] = b[j - k]
            /\ \A j \in 1 .. k : (a \o b)[j] = a[j]
        BY <2>1
      <3>4. ASSUME NEW j \in 1 .. n PROVE (a \o b)[n + k - j + 1] = b[n - j + 1]
        <4>1. PICK x \in k + 1 .. k + n : x = n + k - j + 1 BY <3>1
        <4>2. (a \o b)[x] = b[x - k] /\ x - k = n - j + 1 BY <3>1, <3>3, <4>1
        <4> QED BY <4>1, <4>2
      <3>5. ASSUME NEW j \in n + 1 .. n + k
            PROVE  (a \o b)[n + k - j + 1] = a[k - (j - n) + 1]
        <4>1. PICK x \in 1 .. k : x = n + k - j + 1 BY <3>2
        <4>2. (a \o b)[x] = a[x] /\ x = k - (j - n) + 1 BY <3>2, <3>3, <4>1
        <4> QED BY <4>1, <4>2
      <3> QED BY <3>4, <3>5
    <2>4. under(a \o b) = [j \in 1 .. n + k |-> RecipesUnder(file, (a \o b)[n + k - j + 1])]
      BY <2>2
    <2>5. under(b) = [j \in 1 .. n |-> RecipesUnder(file, b[n - j + 1])]
          /\ under(a) = [j \in 1 .. k |-> RecipesUnder(file, a[k - j + 1])]
      BY <2>1
    <2> HIDE DEF under
    <2>6. PICK u, v, w : u = under(a \o b) /\ v = under(b) /\ w = under(a) OBVIOUS
    <2>7. /\ u \in Seq(Seq(CommandOf(file))) /\ v \in Seq(Seq(CommandOf(file)))
          /\ w \in Seq(Seq(CommandOf(file)))
      BY <1>1, <1>2, <2>6
    <2>8. Len(u) = n + k /\ Len(v) = n /\ Len(w) = k BY <2>1, <2>4, <2>5, <2>6
    <2>9. \A j \in 1 .. n : u[j] = v[j]
      <3>1. \A j \in 1 .. n : j \in 1 .. n + k BY <2>1
      <3>2. \A j \in 1 .. n : u[j] = RecipesUnder(file, b[n - j + 1])
        BY <2>3, <2>4, <2>6, <3>1
      <3> QED BY <2>5, <2>6, <3>2
    <2>10. \A j \in n + 1 .. n + k : u[j] = w[j - n]
      <3>1. \A j \in n + 1 .. n + k : j \in 1 .. n + k /\ j - n \in 1 .. k BY <2>1
      <3>2. \A j \in n + 1 .. n + k : u[j] = RecipesUnder(file, a[k - (j - n) + 1])
        BY <2>3, <2>4, <2>6, <3>1
      <3> QED BY <2>5, <2>6, <3>1, <3>2
    <2>11. /\ v \o w = [j \in 1 .. n + k |-> (v \o w)[j]]
           /\ \A j \in 1 .. n : (v \o w)[j] = v[j]
           /\ \A j \in n + 1 .. n + k : (v \o w)[j] = w[j - n]
      <3>1. v \o w = [j \in 1 .. n + k |-> IF j <= n THEN v[j] ELSE w[j - n]]
        <4>1. v \o w = [j \in 1 .. Len(v) + Len(w) |->
                         IF j <= Len(v) THEN v[j] ELSE w[j - Len(v)]]
          BY <2>7, ConcatIs
        <4> QED BY <2>8, <4>1
      <3> QED BY <2>1, <3>1
    <2>12. \A j \in 1 .. n + k : u[j] = (v \o w)[j]
      <3>1. \A j \in 1 .. n + k : j \in 1 .. n \/ j \in n + 1 .. n + k BY <2>1
      <3> QED BY <2>9, <2>10, <2>11, <3>1
    <2>13. u = [j \in 1 .. n + k |-> u[j]] BY <2>7, <2>8
    <2> QED BY <2>6, <2>11, <2>12, <2>13
  <1> HIDE DEF under
  <1>4. FlattenSeq(under(b) \o under(a)) = FlattenSeq(under(b)) \o FlattenSeq(under(a))
    BY <1>1, FlattenConcat
  <1> QED BY <1>1, <1>2, <1>3, <1>4, Zenon

LEMMA NoRecipes ==
  ASSUME NEW file, IsMakefile(file)
  PROVE  RecipesOf(file, <<>>) = <<>>
  <1>1. DOMAIN <<>> = {} /\ [j \in DOMAIN <<>> |-> RecipesUnder(file, Reverse(<<>>)[j])] = <<>>
    OBVIOUS
  <1> QED BY <1>1, FlattenEmpty DEF RecipesOf

LEMMA RecipesOfChains ==
  ASSUME NEW file, IsMakefile(file), NEW n \in Nat, NEW c \in [1 .. n -> Seq(Nat)]
  PROVE  RecipesOf(file, FlattenSeq([z \in 1 .. n |-> c[n - z + 1]]))
           = FlattenSeq([j \in 1 .. n |-> RecipesOf(file, c[j])])
  <1> DEFINE back(k) == [z \in 1 .. k |-> c[n - z + 1]]
             forth(k) == [j \in 1 .. k |-> RecipesOf(file, c[n - k + j])]
             Bad == {k \in 0 .. n :
                       RecipesOf(file, FlattenSeq(back(k))) # FlattenSeq(forth(k))}
  <1>1. SUFFICES ASSUME Bad # {} PROVE FALSE
    <2>1. n \notin Bad => RecipesOf(file, FlattenSeq(back(n))) = FlattenSeq(forth(n))
      OBVIOUS
    <2>2. forth(n) = [j \in 1 .. n |-> RecipesOf(file, c[j])]
      <3>1. \A j \in 1 .. n : n - n + j = j OBVIOUS
      <3> QED BY <3>1
    <2> QED BY <2>1, <2>2, Zenon
  <1>2. PICK m \in Bad : \A k \in Bad : m <= k
    <2>1. Bad \subseteq Nat OBVIOUS
    <2> HIDE DEF Bad
    <2> QED BY <1>1, <2>1, Least
  <1>3. m \in 0 .. n /\ RecipesOf(file, FlattenSeq(back(m))) # FlattenSeq(forth(m))
    OBVIOUS
  <1>4. m # 0
    <2>1. SUFFICES RecipesOf(file, FlattenSeq(back(0))) = FlattenSeq(forth(0))
      BY <1>3
    <2>2. back(0) = <<>> /\ forth(0) = <<>> OBVIOUS
    <2> QED BY <2>2, FlattenEmpty, NoRecipes
  <1>5. RecipesOf(file, FlattenSeq(back(m - 1))) = FlattenSeq(forth(m - 1))
    <2>1. m - 1 \in 0 .. n /\ ~(m <= m - 1) BY <1>3, <1>4
    <2>2. m - 1 \notin Bad BY <1>2, <2>1
    <2> QED BY <2>1, <2>2
  <1>6. n - m + 1 \in 1 .. n /\ m \in 1 .. n BY <1>3, <1>4
  <1>7. PICK x \in Seq(Nat) : x = c[n - m + 1] BY <1>6
  <1>8. PICK p \in Seq(CommandOf(file)) : p = RecipesOf(file, x) BY RecipesOfType
  <1>9. back(m - 1) \in Seq(Seq(Nat)) /\ back(m) = Append(back(m - 1), x)
    <2>1. \A z \in 1 .. m : n - z + 1 \in 1 .. n BY <1>3
    <2>2. \A z \in 1 .. m - 1 : c[n - z + 1] \in Seq(Nat) BY <2>1
    <2>3. back(m - 1) \in Seq(Seq(Nat)) /\ Len(back(m - 1)) = m - 1 BY <1>6, <2>2
    <2>4. /\ \A z \in 1 .. m - 1 : back(m)[z] = back(m - 1)[z] BY <1>6
    <2>5. back(m)[m] = x BY <1>6, <1>7
    <2>6. back(m) = [z \in 1 .. m |-> back(m)[z]] OBVIOUS
    <2> HIDE DEF back
    <2>7. Append(back(m - 1), x)
            = [z \in 1 .. m |-> IF z = m THEN x ELSE back(m - 1)[z]]
      BY <1>6, <2>3
    <2>8. \A z \in 1 .. m : z = m \/ z \in 1 .. m - 1 BY <1>6
    <2>9. \A z \in 1 .. m : back(m)[z] = IF z = m THEN x ELSE back(m - 1)[z]
      BY <2>4, <2>5, <2>8
    <2> QED BY <2>3, <2>6, <2>7, <2>9
  <1>10. forth(m - 1) \in Seq(Seq(CommandOf(file))) /\ forth(m) = <<p>> \o forth(m - 1)
    <2>1. \A j \in 1 .. m - 1 : (n - (m - 1)) + j \in 1 .. n BY <1>6
    <2>2. \A j \in 1 .. m - 1 : RecipesOf(file, c[(n - (m - 1)) + j]) \in Seq(CommandOf(file))
      BY <2>1, RecipesOfType
    <2>3. forth(m - 1) \in Seq(Seq(CommandOf(file))) /\ Len(forth(m - 1)) = m - 1
      BY <1>6, <2>2
    <2>4. \A j \in 2 .. m : (n - m) + j = (n - (m - 1)) + (j - 1) /\ j - 1 \in 1 .. m - 1
      BY <1>6
    <2>5. /\ forth(m)[1] = p /\ \A j \in 2 .. m : forth(m)[j] = forth(m - 1)[j - 1]
      BY <1>6, <1>7, <1>8, <2>4
    <2>6. forth(m) = [j \in 1 .. m |-> forth(m)[j]] OBVIOUS
    <2> HIDE DEF forth
    <2>7. PICK u \in Seq(Seq(CommandOf(file))) : u = forth(m - 1) BY <2>3
    <2>8. Len(u) = m - 1 BY <2>3, <2>7
    <2>9. Len(<<p>> \o u) = m /\ (<<p>> \o u)[1] = p
          /\ \A j \in 2 .. m : (<<p>> \o u)[j] = u[j - 1]
      BY <1>6, <2>8
    <2>10. <<p>> \o u = [j \in 1 .. m |-> (<<p>> \o u)[j]] BY <2>9
    <2>11. \A j \in 1 .. m : (<<p>> \o u)[j] = forth(m)[j]
      <3>1. \A j \in 1 .. m : j = 1 \/ j \in 2 .. m BY <1>6
      <3> QED BY <2>5, <2>7, <2>9, <3>1
    <2> QED BY <2>3, <2>6, <2>7, <2>10, <2>11
  <1> HIDE DEF back, forth, Bad
  <1>11. FlattenSeq(back(m - 1)) \in Seq(Nat) BY <1>9, FlattenType
  <1>12. FlattenSeq(back(m)) = FlattenSeq(back(m - 1)) \o x BY <1>9, FlattenAppend
  <1>13. RecipesOf(file, FlattenSeq(back(m))) = p \o FlattenSeq(forth(m - 1))
    BY <1>5, <1>8, <1>11, <1>12, RecipesOfConcat
  <1>14. FlattenSeq(forth(m)) = FlattenSeq(<<p>>) \o FlattenSeq(forth(m - 1))
    <2>1. <<p>> \in Seq(Seq(CommandOf(file))) OBVIOUS
    <2> QED BY <1>10, <2>1, FlattenConcat
  <1>15. FlattenSeq(<<p>>) = p BY FlattenSingle
  <1> QED BY <1>3, <1>13, <1>14, <1>15

\* When no name is part of another, findLine finds the rule of that name.
LEMMA NameFound ==
  ASSUME IsMakefile(lines), Distinct, NEW dep, dep # NULL
  PROVE  \A q \in Rules(lines) : findLine(lines, dep) = q <=> lines[q].name = dep
  <1> DEFINE T == {Missing} \cup {i \in Rules(lines) : Occurs(dep, lines[i].name)}
  <1>1. Rules(lines) \subseteq 1 .. Len(lines) /\ Len(lines) \in Nat BY FileType
  <1>2. \A i \in Rules(lines) : Occurs(dep, lines[i].name) <=> lines[i].name = dep
    <2> SUFFICES ASSUME NEW i \in Rules(lines), <<dep, lines[i].name>> \in Within PROVE FALSE
      BY DEF Occurs
    <2>1. <<dep, lines[i].name>>[2] = lines[i].name OBVIOUS
    <2> QED BY <2>1 DEF Distinct
  <1>3. T \subseteq 0 .. Len(lines) /\ T # {} BY <1>1 DEF Missing
  <1>4. Max(T) \in T /\ \A k \in T : k <= Max(T)
    <2> HIDE DEF T
    <2> QED BY <1>1, <1>3, MaxOf
  <1>5. findLine(lines, dep) = Max(T) BY DEF findLine
  <1>6. PICK m : m = findLine(lines, dep) OBVIOUS
  <1>7. m \in T /\ \A k \in T : k <= m BY <1>4, <1>5, <1>6
  <1>8. Missing \notin Rules(lines) BY <1>1 DEF Missing
  <1>9. ASSUME NEW q \in Rules(lines), m = q PROVE lines[q].name = dep
    BY <1>2, <1>7, <1>8, <1>9
  <1>10. ASSUME NEW q \in Rules(lines), lines[q].name = dep PROVE m = q
    <2>1. q \in T /\ q \in 1 .. Len(lines) BY <1>1, <1>2, <1>10
    <2>2. q <= m /\ m \in 0 .. Len(lines) BY <1>3, <1>7, <2>1
    <2>3. m # Missing BY <1>1, <2>1, <2>2 DEF Missing
    <2>4. m \in Rules(lines) /\ lines[m].name = dep BY <1>2, <1>7, <2>3
    <2> QED BY <1>10, <2>4 DEF Distinct
  <1> QED BY <1>6, <1>9, <1>10

LEMMA FirstByName ==
  ASSUME IsMakefile(lines), Distinct
  PROVE  findLine(lines, lines[FirstLine].name) = FirstLine
  <1>1. FirstLine \in Rules(lines) BY FileType DEF FirstLine
  <1>2. CASE lines[FirstLine].name = NULL BY <1>2 DEF findLine
  <1>3. CASE lines[FirstLine].name # NULL BY <1>1, <1>3, NameFound
  <1> QED BY <1>2, <1>3

LEMMA NoChain ==
  ASSUME NEW file, IsMakefile(file), NEW before, NEW tok, findLine(file, tok) = FirstLine
  PROVE  Chain(file, before, tok) = <<>>
  <1>1. PICK f, n : /\ f[1] = findLine(file, tok) /\ n \in 0 .. MaxDep + 1
                    /\ \A k \in 1 .. n : f[k] # FirstLine
                    /\ Chain(file, before, tok) = [k \in 1 .. n |-> f[k]]
    <2>1. PICK f, n : IsChain(f, n, file, before, tok) BY ChainIs
    <2> QED BY <2>1 DEF IsChain
  <1>2. n = 0
    <2>1. n # 0 => 1 \in 1 .. n BY <1>1, MakefileAssumption
    <2> QED BY <1>1, <2>1
  <1>3. [k \in 1 .. 0 |-> f[k]] = <<>> OBVIOUS
  <1> QED BY <1>1, <1>2, <1>3

\* The name of the first target, and behind it its dependencies.
LEMMA FirstTokensAre ==
  ASSUME IsMakefile(lines), NEW deps \in Seq(Word(lines)), deps = lines[FirstLine].deps,
         NEW n \in Nat, n = Len(deps)
  PROVE  \E tokens \in Seq(Word(lines)) :
           /\ tokens = FirstTokens(lines) /\ Len(tokens) = n + 1
           /\ tokens[1] = lines[FirstLine].name
           /\ \A j \in 2 .. n + 1 : tokens[j] = deps[j - 1]
  <1>1. deps = lines[FirstLine].deps OBVIOUS
  <1>2. lines[FirstLine].name \in Word(lines) BY FileType DEF FirstLine
  <1>3. PICK tokens \in Seq(Word(lines)) : tokens = FirstTokens(lines)
    <2>1. <<lines[FirstLine].name>> \in Seq(Word(lines)) BY <1>2
    <2>2. FirstTokens(lines) \in Seq(Word(lines)) BY <1>1, <2>1 DEF FirstTokens
    <2> QED BY <2>2, Zenon
  <1>4. n = Len(deps) OBVIOUS
  <1>5. /\ Len(tokens) = n + 1 /\ tokens[1] = lines[FirstLine].name
        /\ \A j \in 2 .. n + 1 : tokens[j] = deps[j - 1]
    <2>0. <<lines[FirstLine].name>> \in Seq(Word(lines)) BY <1>2
    <2>1. PICK head \in Seq(Word(lines)) : head = <<lines[FirstLine].name>> BY <2>0, Zenon
    <2>2. Len(head) = 1 /\ head[1] = lines[FirstLine].name BY <2>1
    <2>3. tokens = head \o deps BY <1>1, <1>3, <2>1, Zenon DEF FirstTokens
    <2>4. head \o deps = [j \in 1 .. Len(head) + Len(deps) |->
                          IF j <= Len(head) THEN head[j] ELSE deps[j - Len(head)]]
      BY ConcatIs
    <2>5. Len(tokens) = 1 + n
      <3>1. Len(head \o deps) = Len(head) + Len(deps) OBVIOUS
      <3> QED BY <1>4, <2>2, <2>3, <3>1
    <2>6. \A j \in 1 .. 1 + n : tokens[j] = IF j <= 1 THEN head[j] ELSE deps[j - 1]
      BY <1>4, <2>2, <2>3, <2>4
    <2> QED BY <2>2, <2>5, <2>6
  <1> QED BY <1>3, <1>5

\* What is run before the first target's own recipes.
LEMMA DepNoRecipes ==
  ASSUME IsMakefile(lines), Distinct
  PROVE  LET deps == lines[FirstLine].deps IN
         RecipesOf(lines, DepNo(lines, stray, FirstTokens(lines)))
           = FlattenSeq([z \in DOMAIN deps |-> RecipesOf(lines, Chain(lines, stray, deps[z]))])
  <1>1. PICK deps \in Seq(Word(lines)) : deps = lines[FirstLine].deps
    BY FileType DEF FirstLine
  <1>4. PICK n \in Nat : n = Len(deps) OBVIOUS
  <1>3. PICK tokens \in Seq(Word(lines)) :
          /\ tokens = FirstTokens(lines) /\ Len(tokens) = n + 1
          /\ tokens[1] = lines[FirstLine].name
          /\ \A j \in 2 .. n + 1 : tokens[j] = deps[j - 1]
    BY <1>1, <1>4, FirstTokensAre
  <1>5. /\ Len(tokens) = n + 1 /\ tokens[1] = lines[FirstLine].name
        /\ \A j \in 2 .. n + 1 : tokens[j] = deps[j - 1]
    BY <1>3
  <1> DEFINE c == [j \in 1 .. n + 1 |-> Chain(lines, stray, tokens[j])]
             w == [z \in 1 .. n |-> RecipesOf(lines, Chain(lines, stray, deps[z]))]
  <1>6. c \in [1 .. n + 1 -> Seq(Nat)] BY ChainType
  <1>7. DepNo(lines, stray, tokens) = FlattenSeq([z \in 1 .. n + 1 |-> c[(n + 1) - z + 1]])
    <2>1. DOMAIN tokens = 1 .. n + 1 BY <1>5
    <2>2. \A z \in 1 .. n + 1 : (n + 1) - z + 1 \in 1 .. n + 1 OBVIOUS
    <2>3. \A z \in 1 .. n + 1 : Reverse(tokens)[z] = tokens[(n + 1) - z + 1]
      BY <1>5, <2>1 DEF Reverse
    <2>4. \A z \in 1 .. n + 1 : Chain(lines, stray, Reverse(tokens)[z]) = c[(n + 1) - z + 1]
      BY <2>2, <2>3
    <2> HIDE DEF c
    <2>5. [z \in DOMAIN tokens |-> Chain(lines, stray, Reverse(tokens)[z])]
            = [z \in 1 .. n + 1 |-> c[(n + 1) - z + 1]]
      BY <2>1, <2>4
    <2> QED BY <2>5 DEF DepNo
  <1>8. RecipesOf(lines, DepNo(lines, stray, tokens))
          = FlattenSeq([j \in 1 .. n + 1 |-> RecipesOf(lines, c[j])])
    <2> HIDE DEF c
    <2>1. n + 1 \in Nat OBVIOUS
    <2> QED BY <1>6, <1>7, <2>1, RecipesOfChains
  <1>9. w \in Seq(Seq(CommandOf(lines)))
    <2>1. \A z \in 1 .. n : RecipesOf(lines, Chain(lines, stray, deps[z])) \in Seq(CommandOf(lines))
      BY ChainType, RecipesOfType
    <2>2. n \in Nat OBVIOUS
    <2> HIDE DEF w
    <2>3. \A z \in 1 .. n : w[z] \in Seq(CommandOf(lines)) BY <2>1 DEF w
    <2>4. w = [z \in 1 .. n |-> w[z]] BY DEF w
    <2>5. PICK X : X = Seq(CommandOf(lines)) OBVIOUS
    <2>6. \A z \in 1 .. n : w[z] \in X BY <2>3, <2>5, Zenon
    <2>7. w \in Seq(X) BY <2>2, <2>4, <2>6
    <2> QED BY <2>5, <2>7, Zenon
  <1>10. PICK e \in Seq(Seq(CommandOf(lines))) : e = <<<<>>>>
    <2>1. <<>> \in Seq(CommandOf(lines)) OBVIOUS
    <2>2. \A X : \A s \in X : <<s>> \in Seq(X) OBVIOUS
    <2>3. <<<<>>>> \in Seq(Seq(CommandOf(lines))) BY <2>1, <2>2
    <2> QED BY <2>3, Zenon
  <1>11. [j \in 1 .. n + 1 |-> RecipesOf(lines, c[j])] = e \o w
    <2>1. c[1] = <<>>
      <3>1. findLine(lines, tokens[1]) = FirstLine BY <1>5, FirstByName
      <3>2. Chain(lines, stray, tokens[1]) = <<>> BY <3>1, NoChain
      <3>3. 1 \in 1 .. n + 1 OBVIOUS
      <3> QED BY <3>2, <3>3
    <2>2. RecipesOf(lines, c[1]) = <<>> BY <2>1, NoRecipes
    <2>3. \A j \in 2 .. n + 1 : RecipesOf(lines, c[j]) = w[j - 1]
      <3>1. \A j \in 2 .. n + 1 : j \in 1 .. n + 1 /\ j - 1 \in 1 .. n OBVIOUS
      <3>2. \A j \in 2 .. n + 1 : c[j] = Chain(lines, stray, deps[j - 1]) BY <1>5, <3>1
      <3> QED BY <3>1, <3>2
    <2>4. Len(w) = n /\ Len(e) = 1 /\ e[1] = <<>> BY <1>9, <1>10
    <2> HIDE DEF c, w
    <2>5. e \o w = [j \in 1 .. Len(e) + Len(w) |->
                     IF j <= Len(e) THEN e[j] ELSE w[j - Len(e)]]
      BY <1>9, ConcatIs
    <2>6. \A j \in 1 .. n + 1 :
            RecipesOf(lines, c[j]) = IF j <= 1 THEN e[j] ELSE w[j - 1]
      <3>1. \A j \in 1 .. n + 1 : j = 1 \/ j \in 2 .. n + 1 OBVIOUS
      <3> QED BY <2>2, <2>3, <2>4, <3>1
    <2>7. 1 + n = n + 1 OBVIOUS
    <2> QED BY <2>4, <2>5, <2>6, <2>7
  <1> HIDE DEF c, w
  <1>12. FlattenSeq(e \o w) = FlattenSeq(w)
    <2>1. FlattenSeq(e \o w) = FlattenSeq(e) \o FlattenSeq(w) BY <1>9, FlattenConcat
    <2>2. <<>> \in Seq(CommandOf(lines)) OBVIOUS
    <2>3. FlattenSeq(e) = <<>> BY <1>10, <2>2, FlattenSingle
    <2>4. FlattenSeq(w) \in Seq(CommandOf(lines)) BY <1>9, FlattenType
    <2>5. <<>> \o FlattenSeq(w) = FlattenSeq(w) BY <2>4
    <2> QED BY <2>1, <2>3, <2>5
  <1>13. w = [z \in DOMAIN lines[FirstLine].deps |->
                RecipesOf(lines, Chain(lines, stray, lines[FirstLine].deps[z]))]
    BY <1>1, <1>4 DEF w
  <1> QED BY <1>3, <1>8, <1>11, <1>12, <1>13

\* What -r prints of several rules is what would be run.
LEMMA PrintedOfRules ==
  ASSUME IsMakefile(lines), Distinct, lines[FirstLine].deps # <<>>, depCount(lines) # 1
  PROVE  Printed(lines, stray) = RunFirst(lines, stray)
  BY DepNoRecipes DEF Printed, RunFirst

\* Something that only puts nothing together.
LEMMA FlattenNothing ==
  ASSUME NEW n \in Nat, NEW ss \in [1 .. n -> {<<>>}]
  PROVE  FlattenSeq(ss) = <<>>
  <1>1. \A i \in 1 .. n : ss[i] \in Seq({})
    <2>1. <<>> \in Seq({}) OBVIOUS
    <2> QED BY <2>1
  <1>2. ss = [i \in 1 .. n |-> ss[i]] OBVIOUS
  <1>3. ss \in Seq(Seq({})) BY <1>1, <1>2
  <1>4. FlattenSeq(ss) \in Seq({}) BY <1>3, FlattenType
  <1>5. \A s \in Seq({}) : s = <<>>
    <2> SUFFICES ASSUME NEW s \in Seq({}) PROVE s = <<>> OBVIOUS
    <2>1. Len(s) = 0 \/ 1 \in 1 .. Len(s) OBVIOUS
    <2>2. Len(s) = 0 BY <2>1
    <2> QED BY <2>2
  <1> QED BY <1>4, <1>5

LEMMA OnlyRuleIs ==
  ASSUME IsMakefile(lines), depCount(lines) = 1
  PROVE  Rules(lines) = {1}
  <1>1. Rules(lines) \subseteq 1 .. Len(lines) /\ 1 \in Rules(lines) /\ Len(lines) \in Nat
    BY FileType
  <1>2. IsFiniteSet(1 .. Len(lines)) BY <1>1, FS_Interval
  <1>3. IsFiniteSet(Rules(lines)) BY <1>1, <1>2, FS_Subset
  <1>4. \E x : Rules(lines) = {x} BY <1>3, FS_Singleton DEF depCount
  <1> QED BY <1>1, <1>4

\* There is nothing under no rule.
LEMMA NoneUnderMissing ==
  ASSUME IsMakefile(lines)
  PROVE  RecipesUnder(lines, 0) = <<>>
  <1>1. PICK n \in Nat : /\ RecipeLines(lines, 0) = [k \in 1 .. n |-> 0 + k]
                         /\ \A k \in 1 .. n : RecipeAt(lines, 0 + k)
    BY RecipeLinesType
  <1>2. ~RecipeAt(lines, 1) BY FileType
  <1>3. n = 0
    <2>1. n # 0 => 1 \in 1 .. n /\ 0 + 1 = 1 OBVIOUS
    <2> QED BY <1>1, <1>2, <2>1
  <1>4. RecipeLines(lines, 0) = <<>> BY <1>1, <1>3
  <1>5. [k \in DOMAIN RecipeLines(lines, 0) |-> Split(lines, RecipeLines(lines, 0)[k])] = <<>>
    BY <1>4
  <1> QED BY <1>5, FlattenEmpty DEF RecipesUnder

\* With one rule nothing but its own lines is run.
LEMMA RunOnlyRule ==
  ASSUME IsMakefile(lines), lines[FirstLine].deps # <<>>, depCount(lines) = 1
  PROVE  RunFirst(lines, stray) = RecipesUnder(lines, FirstLine)
  <1>1. Rules(lines) = {1} BY OnlyRuleIs
  <1>2. RecipesUnder(lines, 0) = <<>> BY NoneUnderMissing
  <1>3. ASSUME NEW tok PROVE Chain(lines, stray, tok) \in Seq({0})
    <2>1. PICK f, n : /\ \A k \in 1 .. MaxDep + 1 : f[k] \in Found(lines)
                      /\ n \in 0 .. MaxDep + 1
                      /\ \A k \in 1 .. n : f[k] # FirstLine
                      /\ Chain(lines, stray, tok) = [k \in 1 .. n |-> f[k]]
      <3>1. PICK f, n : IsChain(f, n, lines, stray, tok) BY ChainIs
      <3> QED BY <3>1 DEF IsChain
    <2>2. \A k \in 1 .. n : f[k] \in {0}
      <3>1. \A k \in 1 .. n : k \in 1 .. MaxDep + 1 BY <2>1, MakefileAssumption
      <3>2. \A k \in 1 .. n : f[k] \in {0, 1} BY <1>1, <2>1, <3>1 DEF Found, Missing
      <3> QED BY <2>1, <3>2 DEF FirstLine
    <2>3. n \in Nat BY <2>1, MakefileAssumption
    <2> QED BY <2>1, <2>2, <2>3
  <1> DEFINE tokens == FirstTokens(lines)
             n == Len(tokens)
             ss == [z \in 1 .. n |-> Chain(lines, stray, Reverse(tokens)[z])]
  <1>4. tokens \in Seq(Word(lines))
    <2>1. lines[FirstLine].deps \in Seq(Word(lines)) /\ lines[FirstLine].name \in Word(lines)
      BY FileType DEF FirstLine
    <2>2. <<lines[FirstLine].name>> \in Seq(Word(lines)) BY <2>1
    <2> QED BY <2>1, <2>2 DEF FirstTokens
  <1> HIDE DEF tokens
  <1>5. n \in Nat /\ DOMAIN tokens = 1 .. n BY <1>4
  <1>6. DepNo(lines, stray, tokens) \in Seq({0})
    <2>1. ss \in Seq(Seq({0})) BY <1>3, <1>5
    <2>2. DepNo(lines, stray, tokens) = FlattenSeq(ss) BY <1>5 DEF DepNo
    <2> HIDE DEF ss
    <2> QED BY <2>1, <2>2, FlattenType
  <1>7. PICK d \in Seq({0}) : d = DepNo(lines, stray, tokens) BY <1>6, Zenon
  <1>8. RecipesOf(lines, d) = <<>>
    <2>1. PICK k \in Nat : k = Len(d) /\ DOMAIN d = 1 .. k OBVIOUS
    <2>2. \A j \in 1 .. k : Reverse(d)[j] = 0
      <3>1. \A j \in 1 .. k : (k - j) + 1 \in 1 .. k OBVIOUS
      <3>2. \A j \in 1 .. k : d[(k - j) + 1] = 0 BY <2>1, <3>1
      <3> QED BY <2>1, <3>2 DEF Reverse
    <2> DEFINE u == [j \in 1 .. k |-> RecipesUnder(lines, Reverse(d)[j])]
    <2>3. u \in [1 .. k -> {<<>>}] BY <1>2, <2>2
    <2>4. RecipesOf(lines, d) = FlattenSeq(u) BY <2>1 DEF RecipesOf
    <2> HIDE DEF u
    <2> QED BY <2>3, <2>4, FlattenNothing
  <1>9. RecipesUnder(lines, FirstLine) \in Seq(CommandOf(lines))
    BY RecipesUnderType DEF FirstLine
  <1>10. <<>> \o RecipesUnder(lines, FirstLine) = RecipesUnder(lines, FirstLine) BY <1>9
  <1> QED BY <1>7, <1>8, <1>10 DEF RunFirst, tokens

\* -r prints those, and any that stand further down.
LEMMA PrintedOfOneRule ==
  ASSUME IsMakefile(lines), depCount(lines) = 1
  PROVE  AllRecipes(lines) = RecipesUnder(lines, FirstLine) <=> UnderRules
  <1>1. Rules(lines) = {1} BY OnlyRuleIs
  <1>2. PICK N \in Nat : N = Len(lines) /\ DOMAIN lines = 1 .. N BY FileType
  <1>3. PICK m \in Nat : /\ RecipeLines(lines, 1) = [k \in 1 .. m |-> 1 + k]
                         /\ \A k \in 1 .. m : RecipeAt(lines, 1 + k)
    BY RecipeLinesType
  <1>4. \A i : RecipeAt(lines, i) => i \in 2 .. N
    <2>1. \A i : RecipeAt(lines, i) => i \in 1 .. N /\ i # 1 BY <1>1, <1>2, FileType
    <2> QED BY <2>1
  <1>5. m + 1 <= N
    <2>1. 1 \in 1 .. N BY <1>1, <1>2, FileType
    <2>2. m # 0 => m \in 1 .. m OBVIOUS
    <2> QED BY <1>3, <1>4, <2>1, <2>2
  <1>6. UnderRules <=> \A i \in 1 .. N : RecipeAt(lines, i) => i \in 2 .. m + 1
    <2>1. ASSUME NEW i \in 1 .. N PROVE RuleOf(i) = 1
      <3>1. {r \in Rules(lines) : r <= i} = {1} BY <1>1
      <3>2. Max({1}) = 1
        <4>1. 1 \in Nat /\ {1} \subseteq 0 .. 1 OBVIOUS
        <4>2. Max({1}) \in {1} BY <4>1, MaxOf
        <4> QED BY <4>2
      <3> QED BY <3>1, <3>2 DEF RuleOf
    <2>2. Range(RecipeLines(lines, 1)) = 2 .. m + 1
      <3>1. PICK a : a = RecipeLines(lines, 1) OBVIOUS
      <3>2. DOMAIN a = 1 .. m /\ \A k \in 1 .. m : a[k] = 1 + k BY <1>3, <3>1
      <3>3. \A i \in 2 .. m + 1 : i - 1 \in 1 .. m /\ a[i - 1] = i BY <1>3, <3>2
      <3>4. \A i \in 2 .. m + 1 : i \in Range(a) BY <3>2, <3>3 DEF Range
      <3>5. \A i \in Range(a) : i \in 2 .. m + 1 BY <3>2 DEF Range
      <3> QED BY <3>1, <3>4, <3>5
    <2> QED BY <1>2, <2>1, <2>2 DEF UnderRules
  <1> DEFINE all == [i \in 1 .. N |-> IF RecipeAt(lines, i) THEN Split(lines, i) ELSE <<>>]
             mid == [k \in 1 .. m |-> Split(lines, 1 + k)]
             rest == [k \in 1 .. N - (m + 1) |-> all[k + (m + 1)]]
  <1>7. \A i : RecipeAt(lines, i) =>
          /\ Split(lines, i) \in Seq([line : {i}, argv : Seq(Word(lines))])
          /\ Split(lines, i) \in Seq(CommandOf(lines)) /\ Split(lines, i) # <<>>
    <2> SUFFICES ASSUME NEW i, RecipeAt(lines, i)
                 PROVE  /\ Split(lines, i) \in Seq([line : {i}, argv : Seq(Word(lines))])
                        /\ Split(lines, i) \in Seq(CommandOf(lines)) /\ Split(lines, i) # <<>>
      OBVIOUS
    <2>1. Split(lines, i) \in Seq(CommandOf(lines)) BY SplitType
    <2>2. PICK s \in Seq(CommandOf(lines)) : s = Split(lines, i) BY <2>1, Zenon
    <2>3. lines[i].cmds \in Seq(Word(lines)) /\ lines[i].cmds # <<>> BY FileType
    <2>4. DOMAIN s = DOMAIN lines[i].cmds /\ \A c \in DOMAIN s : s[c].line = i
      BY <2>2 DEF Split
    <2>5. s # <<>>
      <3>1. 1 \in DOMAIN lines[i].cmds BY <2>3
      <3>2. 1 \in DOMAIN s BY <2>4, <3>1
      <3> QED BY <3>2
    <2> DEFINE Here == [line : {i}, argv : Seq(Word(lines))]
    <2>6. \A c \in 1 .. Len(s) : s[c] \in Here
      <3>1. \A c \in 1 .. Len(s) : s[c] \in CommandOf(lines) /\ s[c].line = i BY <2>4
      <3> QED BY <3>1 DEF CommandOf
    <2>7. s \in Seq(Here)
      <3> HIDE DEF Here
      <3> QED BY <2>6
    <2> QED BY <2>1, <2>2, <2>5, <2>7
  <1>8. AllRecipes(lines) = FlattenSeq(all) BY <1>2 DEF AllRecipes
  <1>9. RecipesUnder(lines, FirstLine) = FlattenSeq(mid)
    <2>1. DOMAIN RecipeLines(lines, 1) = 1 .. m /\ \A k \in 1 .. m : RecipeLines(lines, 1)[k] = 1 + k
      BY <1>3
    <2>2. mid = [k \in DOMAIN RecipeLines(lines, 1) |-> Split(lines, RecipeLines(lines, 1)[k])]
      BY <2>1
    <2> QED BY <2>2 DEF RecipesUnder, FirstLine
  <1>10. <<>> \in Seq(CommandOf(lines)) OBVIOUS
  <1>11. \A i \in 1 .. N : all[i] \in Seq(CommandOf(lines)) BY <1>7, <1>10
  <1>12. all \in Seq(Seq(CommandOf(lines))) BY <1>11
  <1>13. ASSUME \A i \in 1 .. N : RecipeAt(lines, i) => i \in 2 .. m + 1
         PROVE  FlattenSeq(all) = FlattenSeq(mid)
    <2>1. mid \in Seq(Seq(CommandOf(lines)))
      <3>1. \A k \in 1 .. m : Split(lines, 1 + k) \in Seq(CommandOf(lines)) BY <1>3, <1>7
      <3> QED BY <3>1
    <2>2. rest \in Seq(Seq(CommandOf(lines))) /\ rest \in [1 .. N - (m + 1) -> {<<>>}]
      <3>1. N - (m + 1) \in Nat BY <1>5
      <3>2. \A k \in 1 .. N - (m + 1) : k + (m + 1) \in 1 .. N /\ k + (m + 1) \notin 2 .. m + 1
        BY <3>1
      <3>3. \A k \in 1 .. N - (m + 1) : all[k + (m + 1)] = <<>> BY <1>13, <3>2
      <3> HIDE DEF all
      <3>4. rest \in [1 .. N - (m + 1) -> {<<>>}] BY <3>3
      <3>5. rest \in Seq(Seq(CommandOf(lines)))
        <4>1. \A k \in 1 .. N - (m + 1) : all[k + (m + 1)] \in Seq(CommandOf(lines))
          BY <1>10, <3>3
        <4> QED BY <3>1, <4>1
      <3> QED BY <3>4, <3>5
    <2>3. PICK e \in Seq(Seq(CommandOf(lines))) : e = <<<<>>>>
      <3>1. \A X : \A s \in X : <<s>> \in Seq(X) OBVIOUS
      <3>2. <<<<>>>> \in Seq(Seq(CommandOf(lines))) BY <1>10, <3>1
      <3> QED BY <3>2, Zenon
    <2>4. all[1] = <<>>
      <3>1. 1 \in 1 .. N /\ 1 \notin 2 .. m + 1 BY <1>5
      <3> QED BY <1>13, <3>1
    <2>5. \A i \in 2 .. m + 1 : all[i] = mid[i - 1]
      <3>1. \A i \in 2 .. m + 1 : i - 1 \in 1 .. m /\ 1 + (i - 1) = i /\ i \in 1 .. N
        BY <1>5
      <3>2. \A i \in 2 .. m + 1 : RecipeAt(lines, i) BY <1>3, <3>1
      <3> QED BY <3>1, <3>2
    <2>6. \A i \in m + 2 .. N : all[i] = rest[i - (m + 1)]
      <3>1. \A i \in m + 2 .. N : i - (m + 1) \in 1 .. N - (m + 1)
                                  /\ (i - (m + 1)) + (m + 1) = i
        BY <1>5
      <3> HIDE DEF all
      <3> QED BY <3>1
    <2>7. Len(mid) = m /\ Len(rest) = N - (m + 1) /\ Len(e) = 1 /\ e[1] = <<>> /\ Len(all) = N
      BY <1>5, <2>3
    <2> HIDE DEF all, mid, rest
    <2>8. PICK u, x, y \in Seq(Seq(CommandOf(lines))) : u = all /\ x = mid /\ y = rest
      BY <1>12, <2>1, <2>2, Zenon
    <2>9. e \o x \in Seq(Seq(CommandOf(lines))) OBVIOUS
    <2>10. PICK z \in Seq(Seq(CommandOf(lines))) : z = e \o x BY <2>9, Zenon
    <2>11. z \o y \in Seq(Seq(CommandOf(lines))) OBVIOUS
    <2>12. PICK v \in Seq(Seq(CommandOf(lines))) : v = z \o y BY <2>11, Zenon
    <2>21. Len(z) = m + 1 /\ z[1] = <<>> /\ \A i \in 2 .. m + 1 : z[i] = x[i - 1]
      <3>1. Len(e) = 1 /\ Len(x) = m /\ e[1] = <<>> BY <2>7, <2>8
      <3>2. Len(e \o x) = Len(e) + Len(x) OBVIOUS
      <3>3. e \o x = [j \in 1 .. Len(e) + Len(x) |->
                      IF j <= Len(e) THEN e[j] ELSE x[j - Len(e)]]
        BY ConcatIs
      <3> QED BY <2>10, <3>1, <3>2, <3>3
    <2>22. /\ Len(v) = N /\ \A i \in 1 .. m + 1 : v[i] = z[i]
           /\ \A i \in m + 2 .. N : v[i] = y[i - (m + 1)]
      <3>1. Len(y) = N - (m + 1) BY <2>7, <2>8
      <3>2. Len(z \o y) = Len(z) + Len(y) OBVIOUS
      <3>3. z \o y = [j \in 1 .. Len(z) + Len(y) |->
                      IF j <= Len(z) THEN z[j] ELSE y[j - Len(z)]]
        BY ConcatIs
      <3>4. (m + 1) + (N - (m + 1)) = N OBVIOUS
      <3>5. v = [j \in 1 .. N |-> IF j <= m + 1 THEN z[j] ELSE y[j - (m + 1)]]
        BY <2>12, <2>21, <3>1, <3>3, <3>4
      <3>6. \A i \in 1 .. m + 1 : i \in 1 .. N /\ i <= m + 1 BY <1>5
      <3>7. \A i \in m + 2 .. N : i \in 1 .. N /\ ~(i <= m + 1) BY <1>5
      <3> QED BY <2>12, <2>21, <3>1, <3>2, <3>4, <3>5, <3>6, <3>7
    <2>13. \A i \in 1 .. N : u[i] = v[i]
      <3>1. \A i \in 1 .. N : i = 1 \/ i \in 2 .. m + 1 \/ i \in m + 2 .. N BY <1>5
      <3>2. 1 \in 1 .. m + 1 /\ \A i \in 2 .. m + 1 : i \in 1 .. m + 1 OBVIOUS
      <3> QED BY <2>4, <2>5, <2>6, <2>8, <2>21, <2>22, <3>1, <3>2
    <2>14. u = v
      <3>1. u = [i \in 1 .. N |-> u[i]] /\ v = [i \in 1 .. N |-> v[i]]
        BY <2>7, <2>8, <2>22
      <3> QED BY <2>13, <3>1
    <2>15. FlattenSeq(v) = FlattenSeq(z) \o FlattenSeq(y) BY <2>12, FlattenConcat
    <2>16. FlattenSeq(z) = FlattenSeq(e) \o FlattenSeq(x) BY <2>10, FlattenConcat
    <2>17. FlattenSeq(e) = <<>> BY <1>10, <2>3, FlattenSingle
    <2>18. FlattenSeq(y) = <<>>
      <3>1. N - (m + 1) \in Nat BY <1>5
      <3> QED BY <2>2, <2>8, <3>1, FlattenNothing
    <2>19. FlattenSeq(x) \in Seq(CommandOf(lines)) BY FlattenType
    <2>20. (<<>> \o FlattenSeq(x)) \o <<>> = FlattenSeq(x) BY <2>19
    <2> QED BY <2>8, <2>14, <2>15, <2>16, <2>17, <2>18, <2>20
  <1>14. ASSUME FlattenSeq(all) = FlattenSeq(mid), NEW i \in 1 .. N, RecipeAt(lines, i)
         PROVE  i \in 2 .. m + 1
    <2> DEFINE Own == [line : 2 .. m + 1, argv : Seq(Word(lines))]
    <2>1. mid \in Seq(Seq(Own))
      <3>1. ASSUME NEW k \in 1 .. m PROVE Split(lines, 1 + k) \in Seq(Own)
        <4>1. RecipeAt(lines, 1 + k) /\ 1 + k \in 2 .. m + 1 BY <1>3
        <4>2. Split(lines, 1 + k) \in Seq([line : {1 + k}, argv : Seq(Word(lines))])
          BY <1>7, <4>1
        <4>3. [line : {1 + k}, argv : Seq(Word(lines))] \subseteq Own BY <4>1
        <4> HIDE DEF Own
        <4>4. PICK A, t : /\ A = [line : {1 + k}, argv : Seq(Word(lines))]
                          /\ t = Split(lines, 1 + k)
          OBVIOUS
        <4>5. t \in Seq(A) /\ A \subseteq Own BY <4>2, <4>3, <4>4
        <4>6. t \in Seq(Own) BY <4>5
        <4> QED BY <4>4, <4>6
      <3> HIDE DEF Own
      <3> QED BY <3>1
    <2>2. FlattenSeq(mid) \in Seq(Own)
      <3> HIDE DEF mid, Own
      <3> QED BY <2>1, FlattenType
    <2>3. all[i] = Split(lines, i) BY <1>14
    <2>4. PICK s \in Seq([line : {i}, argv : Seq(Word(lines))]) : s = Split(lines, i)
      BY <1>7, <1>14, Zenon
    <2>5. s # <<>> BY <1>7, <1>14, <2>4
    <2>6. 1 \in DOMAIN s /\ s[1].line = i
      <3>1. 1 \in DOMAIN s BY <2>5
      <3>2. s[1] \in [line : {i}, argv : Seq(Word(lines))]
        <4>1. \A X : \A t \in Seq(X) : \A k \in DOMAIN t : t[k] \in X OBVIOUS
        <4> QED BY <3>1, <4>1
      <3> QED BY <3>1, <3>2
    <2>7. s[1] \in Range(all[i]) BY <2>3, <2>4, <2>6 DEF Range
    <2>8. i \in 1 .. Len(all) OBVIOUS
    <2> HIDE DEF all, mid, Own
    <2>9. s[1] \in Range(FlattenSeq(all)) BY <1>12, <2>7, <2>8, FlattenHas
    <2>10. PICK t \in Seq(Own) : t = FlattenSeq(all) BY <1>14, <2>2
    <2>11. s[1] \in Range(t) BY <2>9, <2>10
    <2>12. s[1] \in Own BY <2>11 DEF Range
    <2> QED BY <2>6, <2>12 DEF Own
  <1> HIDE DEF all, mid, rest
  <1> QED BY <1>6, <1>8, <1>9, <1>13, <1>14

LEMMA PrintedIsRun ==
  ASSUME IsMakefile(lines), Distinct, lines[FirstLine].deps # <<>>
  PROVE  Printed(lines, stray) = RunFirst(lines, stray)
           <=> (depCount(lines) = 1 => UnderRules)
  <1>1. CASE depCount(lines) = 1
    <2>1. Printed(lines, stray) = AllRecipes(lines) BY <1>1 DEF Printed
    <2> QED BY <1>1, <2>1, RunOnlyRule, PrintedOfOneRule
  <1>2. CASE depCount(lines) # 1 BY <1>2, PrintedOfRules
  <1> QED BY <1>1, <1>2

(***************************************************************************)
(* What -p says.  The count of a rule's recipes is the only number of      *)
(* lines at whose end the loop of main.c stops, and no sooner.             *)
(***************************************************************************)
StopsBehind(r, n) ==
  /\ r + n = Len(lines) \/ StopsAt(lines, r, n + 1)
  /\ r + n <= Len(lines) /\ \A i \in 1 .. n : ~StopsAt(lines, r, i)

LEMMA CountedIs ==
  ASSUME IsMakefile(lines), NEW r \in Rules(lines)
  PROVE  CountedLines(lines, r) \in Nat /\ StopsBehind(r, CountedLines(lines, r))
  <1>1. PICK N \in Nat : N = Len(lines) /\ r \in 1 .. N BY FileType
  <1> DEFINE S == {n \in 0 .. N : r + n >= N \/ StopsAt(lines, r, n + 1)}
  <1>2. N - r \in S BY <1>1
  <1>3. PICK n \in S : \A k \in S : n <= k
    <2>1. S \subseteq Nat OBVIOUS
    <2> HIDE DEF S
    <2> QED BY <1>2, <2>1, Least
  <1>4. n \in 0 .. N /\ n <= N - r /\ (r + n >= N \/ StopsAt(lines, r, n + 1)) BY <1>2, <1>3
  <1>5. r + n <= N /\ (r + n = N \/ StopsAt(lines, r, n + 1)) BY <1>1, <1>4
  <1>6. ASSUME NEW i \in 1 .. n PROVE ~StopsAt(lines, r, i)
    <2>1. i - 1 \in 0 .. N /\ ~(n <= i - 1) /\ (i - 1) + 1 = i BY <1>4
    <2>2. i - 1 \notin S BY <1>3, <2>1
    <2> QED BY <2>1, <2>2
  <1>7. \E k \in 0 .. Len(lines) :
          /\ r + k = Len(lines) \/ StopsAt(lines, r, k + 1)
          /\ r + k <= Len(lines) /\ \A i \in 1 .. k : ~StopsAt(lines, r, i)
    BY <1>1, <1>4, <1>5, <1>6
  <1>8. CountedLines(lines, r) \in 0 .. Len(lines) /\ StopsBehind(r, CountedLines(lines, r))
    BY <1>7, Zenon DEF CountedLines, StopsBehind
  <1> QED BY <1>1, <1>8

LEMMA StopsOnce ==
  ASSUME IsMakefile(lines), NEW r \in Rules(lines), NEW n \in Nat, NEW k \in Nat,
         StopsBehind(r, n), StopsBehind(r, k)
  PROVE  n = k
  <1>1. PICK N \in Nat : N = Len(lines) /\ r \in 1 .. N BY FileType
  <1>2. ASSUME NEW a \in Nat, NEW b \in Nat, StopsBehind(r, a), StopsBehind(r, b), a < b
        PROVE  FALSE
    <2>1. a + 1 \in 1 .. b /\ r + a # N BY <1>1, <1>2 DEF StopsBehind
    <2>2. StopsAt(lines, r, a + 1) BY <1>1, <1>2, <2>1 DEF StopsBehind
    <2> QED BY <1>2, <2>1, <2>2 DEF StopsBehind
  <1>3. ~(n < k) /\ ~(k < n) BY <1>2
  <1> QED BY <1>3

LEMMA CountFitsIs ==
  ASSUME IsMakefile(lines), NEW r \in Rules(lines)
  PROVE  /\ Len(RecipeLines(lines, r)) \in Nat
         /\ CountFits(r) <=> CountedLines(lines, r) = Len(RecipeLines(lines, r))
         /\ r = FirstLine => CountFits(r)
  <1>1. PICK N \in Nat : /\ N = Len(lines) /\ r \in 1 .. N /\ DOMAIN lines = 1 .. N
                         /\ Rules(lines) \subseteq 1 .. N
    BY FileType
  <1>2. PICK m \in Nat : /\ RecipeLines(lines, r) = [k \in 1 .. m |-> r + k]
                         /\ \A k \in 1 .. m : RecipeAt(lines, r + k)
                         /\ ~RecipeAt(lines, r + m + 1)
    <2>1. r \in Nat BY <1>1
    <2> QED BY <2>1, RecipeLinesType
  <1>3. Len(RecipeLines(lines, r)) = m BY <1>2
  <1>4. \A k \in 1 .. m : r + k \notin Rules(lines) /\ r + k \in 1 .. N
    BY <1>1, <1>2, FileType
  <1>5. r + m <= N
    <2>1. m # 0 => m \in 1 .. m OBVIOUS
    <2> QED BY <1>1, <1>4, <2>1
  <1>6. CountFits(r) <=> StopsBehind(r, m)
    <2>1. \A k \in 1 .. m : StopsAt(lines, r, k) <=> BlankAt(lines, k + 1)
      BY <1>4 DEF StopsAt
    <2>2. StopsAt(lines, r, m + 1) <=> r + m + 1 \in Rules(lines) \/ BlankAt(lines, m + 2)
      <3>1. r + (m + 1) = r + m + 1 /\ (m + 1) + 1 = m + 2 BY <1>1
      <3> QED BY <3>1 DEF StopsAt
    <2> QED BY <1>1, <1>3, <1>5, <2>1, <2>2 DEF CountFits, StopsBehind
  <1>7. CountFits(r) <=> CountedLines(lines, r) = m
    <2>1. PICK n \in Nat : n = CountedLines(lines, r) BY CountedIs
    <2>2. StopsBehind(r, n) BY <2>1, CountedIs
    <2>3. StopsBehind(r, m) => n = m BY <2>2, StopsOnce
    <2> QED BY <1>6, <2>1, <2>2, <2>3
  <1>8. ASSUME r = 1 PROVE CountFits(r)
    <2>1. \A k \in 1 .. m : ~BlankAt(lines, k + 1)
      <3>1. \A k \in 1 .. m : RecipeAt(lines, k + 1) BY <1>2, <1>8
      <3> QED BY <3>1 DEF RecipeAt, BlankAt
    <2>2. r + m + 1 \in Rules(lines) \/ r + m = N \/ BlankAt(lines, m + 2)
      <3>1. SUFFICES ASSUME r + m # N PROVE r + m + 1 \in Rules(lines) \/ BlankAt(lines, m + 2)
        OBVIOUS
      <3>2. PICK i \in 1 .. N : i = r + m + 1 /\ i = m + 2 BY <1>1, <1>5, <1>8, <3>1
      <3>3. ~RecipeAt(lines, i) BY <1>2, <3>2
      <3>4. i \in Rules(lines) \/ lines[i] = Blank BY <1>1, <3>3 DEF IsMakefile
      <3>5. lines[i] = Blank => BlankAt(lines, i) BY <1>1 DEF Blank, BlankAt
      <3> QED BY <3>2, <3>4, <3>5
    <2> QED BY <1>1, <1>3, <2>1, <2>2 DEF CountFits
  <1> QED BY <1>3, <1>7, <1>8 DEF FirstLine

LEMMA FlattenSingles ==
  ASSUME NEW X, NEW ss \in Seq(Seq(X)), \A k \in 1 .. Len(ss) : Len(ss[k]) = 1
  PROVE  Len(FlattenSeq(ss)) = Len(ss)
  <1>0. Len(ss) \in Nat OBVIOUS
  <1>1. CASE Len(ss) = 0
    <2>1. ss = <<>> BY <1>1
    <2> QED BY <2>1, FlattenEmpty
  <1>2. CASE Len(ss) # 0
    <2>1. PICK f : Joins(f, ss, Len(ss)) /\ FlattenSeq(ss) = f[Len(ss)]
      BY <1>0, <1>2, FlattenIs
    <2> DEFINE Bad == {j \in 1 .. Len(ss) : f[j] \notin Seq(X) \/ Len(f[j]) # j}
    <2>2. Len(ss) \in 1 .. Len(ss) BY <1>0, <1>2
    <2>3. SUFFICES ASSUME Bad # {} PROVE FALSE BY <2>1, <2>2
    <2>4. PICK b \in Bad : \A j \in Bad : b <= j
      <3>1. Bad \subseteq Nat OBVIOUS
      <3> HIDE DEF Bad
      <3> QED BY <2>3, <3>1, Least
    <2>5. f[b] = IF b = 1 THEN ss[b] ELSE f[b - 1] \o ss[b] BY <2>1, Zenon DEF Joins
    <2>6. b # 1 => b - 1 \in 1 .. Len(ss) /\ ~(b <= b - 1) BY <1>0
    <2>7. b # 1 => f[b - 1] \in Seq(X) /\ Len(f[b - 1]) = b - 1 BY <2>4, <2>6
    <2>8. ss[b] \in Seq(X) /\ Len(ss[b]) = 1 OBVIOUS
    <2>9. \A s, t \in Seq(X) : s \o t \in Seq(X) /\ Len(s \o t) = Len(s) + Len(t) OBVIOUS
    <2>10. b # 1 => (b - 1) + 1 = b OBVIOUS
    <2>11. CASE b = 1 BY <2>5, <2>8, <2>11
    <2>12. CASE b # 1 BY <2>5, <2>7, <2>8, <2>9, <2>10, <2>12
    <2> QED BY <2>11, <2>12
  <1> QED BY <1>1, <1>2

\* The recipes of a rule without commas are as many as its lines.
LEMMA RecipesWithoutCommas ==
  ASSUME IsMakefile(lines), NEW r \in Rules(lines), NEW m \in Nat,
         RecipeLines(lines, r) = [k \in 1 .. m |-> r + k],
         \A i \in Range(RecipeLines(lines, r)) : Len(lines[i].cmds) = 1
  PROVE  /\ [k \in 1 .. m |-> Split(lines, r + k)] \in Seq(Seq(CommandOf(lines)))
         /\ RecipesUnder(lines, r) = FlattenSeq([k \in 1 .. m |-> Split(lines, r + k)])
         /\ Len(RecipesUnder(lines, r)) = m
  <1> DEFINE ss == [k \in 1 .. m |-> Split(lines, r + k)]
  <1>0. r \in Nat BY FileType
  <1>1. PICK n \in Nat : /\ RecipeLines(lines, r) = [k \in 1 .. n |-> r + k]
                         /\ \A k \in 1 .. n : RecipeAt(lines, r + k)
    BY <1>0, RecipeLinesType
  <1>2. n = m
    <2>1. Len([k \in 1 .. n |-> r + k]) = n /\ Len([k \in 1 .. m |-> r + k]) = m OBVIOUS
    <2> QED BY <1>1, <2>1
  <1>3. \A k \in 1 .. m : RecipeAt(lines, r + k) BY <1>1, <1>2
  <1>4. \A k \in 1 .. m : Split(lines, r + k) \in Seq(CommandOf(lines)) BY <1>3, SplitType
  <1>5. ss \in Seq(Seq(CommandOf(lines))) BY <1>4
  <1>6. PICK a : a = RecipeLines(lines, r) OBVIOUS
  <1>7. DOMAIN a = 1 .. m /\ \A k \in 1 .. m : a[k] = r + k BY <1>6
  <1>8. RecipesUnder(lines, r) = FlattenSeq(ss)
    <2>1. ss = [k \in DOMAIN a |-> Split(lines, a[k])] BY <1>7
    <2> QED BY <1>6, <2>1 DEF RecipesUnder
  <1>9. ASSUME NEW k \in 1 .. m PROVE Len(Split(lines, r + k)) = 1
    <2>1. r + k \in Range(a) BY <1>7 DEF Range
    <2>2. Len(lines[r + k].cmds) = 1 BY <1>6, <2>1
    <2>3. lines[r + k].cmds \in Seq(Word(lines)) BY <1>3, FileType
    <2>4. DOMAIN lines[r + k].cmds = 1 .. 1 BY <2>2, <2>3
    <2>5. PICK s \in Seq(CommandOf(lines)) : s = Split(lines, r + k) BY <1>4, Zenon
    <2>6. DOMAIN s = 1 .. 1 BY <2>4, <2>5 DEF Split
    <2>7. Len(s) = 1 BY <2>6
    <2> QED BY <2>5, <2>7
  <1>10. Len(FlattenSeq(ss)) = m
    <2>1. Len(ss) = m /\ \A k \in 1 .. m : Len(ss[k]) = 1 BY <1>9
    <2> HIDE DEF ss
    <2> QED BY <1>5, <2>1, FlattenSingles
  <1> QED BY <1>5, <1>8, <1>10

LEMMA DescriptionIsRight ==
  ASSUME IsMakefile(lines), ~TokensMissing(lines), NEW r \in Rules(lines),
         \A i \in Range(RecipeLines(lines, r)) : Len(lines[i].cmds) = 1
  PROVE  Described(lines, r).recipes = RecipesUnder(lines, r) <=> CountFits(r)
  <1>1. PICK N \in Nat : N = Len(lines) /\ r \in 1 .. N /\ DOMAIN lines = 1 .. N
    BY FileType
  <1>2. PICK m \in Nat : /\ RecipeLines(lines, r) = [k \in 1 .. m |-> r + k]
                         /\ \A k \in 1 .. m : RecipeAt(lines, r + k)
    <2>1. r \in Nat BY <1>1
    <2> QED BY <2>1, RecipeLinesType
  <1>3. Len(RecipeLines(lines, r)) = m BY <1>2
  <1>4. PICK n \in Nat : n = CountedLines(lines, r) BY CountedIs
  <1>5. r + n <= N BY <1>1, <1>4, CountedIs DEF StopsBehind
  <1>6. CountFits(r) <=> n = m BY <1>3, <1>4, CountFitsIs
  <1> DEFINE last == Min({n + 1, N - r})
  <1>7. PICK c \in Nat : c = last /\ n <= c /\ c <= N - r
    <2>1. N - r \in Nat /\ n <= N - r BY <1>1, <1>5
    <2> DEFINE S == {n + 1, N - r}
    <2>2. S \subseteq Nat /\ S # {} BY <2>1
    <2>3. last = Min(S) OBVIOUS
    <2> HIDE DEF S, last
    <2>4. Min(S) \in S /\ \A k \in S : Min(S) <= k BY <2>2, MinOf
    <2>5. PICK x : x = Min(S) OBVIOUS
    <2>6. x \in S /\ \A k \in S : x <= k BY <2>4, <2>5
    <2>7. x \in Nat /\ n <= x /\ x <= N - r BY <2>1, <2>6 DEF S
    <2> QED BY <2>3, <2>5, <2>7
  <1> HIDE DEF last
  <1>8. CopiedLines(lines, r) = [k \in 1 .. c |-> r + k]
    BY <1>1, <1>4, <1>7 DEF CopiedLines, last
  <1> DEFINE Piece(k) == IF BlankAt(lines, r + k) THEN <<>> ELSE Command(lines, r + k)
             ss == [k \in 1 .. c |-> Piece(k)]
             flat == FlattenSeq(ss)
             X == CommandOf(lines) \cup {NULL}
  <1>9. ss \in Seq(Seq(CommandOf(lines)))
    <2>1. \A k \in 1 .. c : r + k \in Nat BY <1>1
    <2>2. <<>> \in Seq(CommandOf(lines)) OBVIOUS
    <2>3. \A k \in 1 .. c : Piece(k) \in Seq(CommandOf(lines)) BY <2>1, <2>2, CommandType
    <2> HIDE DEF Piece
    <2> QED BY <2>3
  <1>10. CopiedTokens(lines, r) = flat
    <2>1. PICK a : a = CopiedLines(lines, r) OBVIOUS
    <2>2. DOMAIN a = 1 .. c /\ \A k \in 1 .. c : a[k] = r + k BY <1>8, <2>1
    <2>3. ss = [k \in DOMAIN a |-> IF BlankAt(lines, a[k]) THEN <<>> ELSE Command(lines, a[k])]
      BY <2>2
    <2> QED BY <2>1, <2>3 DEF CopiedTokens
  <1>11. flat \in Seq(CommandOf(lines))
    <2> HIDE DEF ss
    <2> QED BY <1>9, FlattenType
  <1> HIDE DEF ss
  <1>12. n <= Len(flat) + 1
    <2>1. ~(CountedLines(lines, r) > Len(CopiedTokens(lines, r)) + 1) BY DEF TokensMissing
    <2>2. Len(flat) \in Nat BY <1>11
    <2> QED BY <1>4, <1>10, <2>1, <2>2
  <1>13. PICK t : t = Append(flat, NULL) OBVIOUS
  <1>14. Len(t) = Len(flat) + 1 /\ \A j \in 1 .. Len(flat) : t[j] = flat[j]
    <2>1. PICK u \in Seq(CommandOf(lines)) : u = flat BY <1>11, Zenon
    <2>2. Len(Append(u, NULL)) = Len(u) + 1
          /\ \A j \in 1 .. Len(u) : Append(u, NULL)[j] = u[j]
      OBVIOUS
    <2> QED BY <1>13, <2>1, <2>2
  <1>15. Described(lines, r).recipes = [j \in 1 .. n |-> t[j]]
    <2>1. Min({n, Len(t)}) = n
      <3>1. PICK k \in Nat : k = Len(t) /\ n <= k BY <1>11, <1>12, <1>14
      <3>2. {n, k} \subseteq Nat /\ {n, k} # {} OBVIOUS
      <3>3. Min({n, k}) \in {n, k} /\ \A j \in {n, k} : Min({n, k}) <= j BY <3>2, MinOf
      <3>4. PICK x : x = Min({n, k}) OBVIOUS
      <3>5. x \in {n, k} /\ x <= n /\ x <= k BY <3>3, <3>4
      <3>6. x = n BY <3>1, <3>5
      <3> QED BY <3>1, <3>4, <3>6
    <2>2. Described(lines, r).recipes
            = [j \in 1 .. Min({CountedLines(lines, r), Len(Append(CopiedTokens(lines, r), NULL))})
                |-> Append(CopiedTokens(lines, r), NULL)[j]]
      BY DEF Described
    <2> QED BY <1>4, <1>10, <1>13, <2>1, <2>2
  <1> DEFINE own == [k \in 1 .. m |-> Split(lines, r + k)]
  <1>16. /\ own \in Seq(Seq(CommandOf(lines))) /\ RecipesUnder(lines, r) = FlattenSeq(own)
         /\ Len(RecipesUnder(lines, r)) = m
    BY <1>2, RecipesWithoutCommas
  <1>17. ASSUME Described(lines, r).recipes = RecipesUnder(lines, r) PROVE n = m
    <2>1. Len([j \in 1 .. n |-> t[j]]) = n OBVIOUS
    <2> QED BY <1>15, <1>16, <1>17, <2>1
  <1>18. ASSUME n = m PROVE Described(lines, r).recipes = RecipesUnder(lines, r)
    <2> DEFINE rest == [k \in 1 .. c - m |-> ss[k + m]]
    <2>1. \A k \in 1 .. m : k \in 1 .. c /\ ss[k] = own[k]
      <3>1. \A k \in 1 .. m : RecipeAt(lines, r + k) /\ k \in 1 .. c BY <1>2, <1>7, <1>18
      <3>2. \A k \in 1 .. m : ~BlankAt(lines, r + k) BY <3>1 DEF RecipeAt, BlankAt
      <3>3. \A k \in 1 .. m : ss[k] = Split(lines, r + k) BY <3>1, <3>2 DEF ss, Command
      <3> QED BY <3>1, <3>3
    <2>2. Len(ss) = c BY DEF ss
    <2>3. rest \in Seq(Seq(CommandOf(lines))) /\ Len(rest) = c - m
      <3>1. \A k \in 1 .. c - m : k + m \in 1 .. c BY <1>7, <1>18
      <3>2. \A k \in 1 .. c - m : ss[k + m] \in Seq(CommandOf(lines)) BY <1>9, <2>2, <3>1
      <3>3. c - m \in Nat BY <1>7, <1>18
      <3> QED BY <3>2, <3>3
    <2>4. Len(own) = m OBVIOUS
    <2>5. \A k \in m + 1 .. c : ss[k] = rest[k - m]
      <3>1. \A k \in m + 1 .. c : k - m \in 1 .. c - m /\ (k - m) + m = k BY <1>7, <1>18
      <3> QED BY <3>1
    <2> HIDE DEF own, rest
    <2>6. ss = own \o rest
      <3>1. own \o rest = [j \in 1 .. Len(own) + Len(rest) |->
                            IF j <= Len(own) THEN own[j] ELSE rest[j - Len(own)]]
        BY <1>16, <2>3, ConcatIs
      <3>2. m + (c - m) = c OBVIOUS
      <3>3. \A j \in 1 .. c : ss[j] = IF j <= m THEN own[j] ELSE rest[j - m]
        <4>1. \A j \in 1 .. c : (j <= m /\ j \in 1 .. m) \/ (~(j <= m) /\ j \in m + 1 .. c)
          OBVIOUS
        <4> QED BY <2>1, <2>5, <4>1
      <3>4. ss = [j \in 1 .. c |-> ss[j]] BY DEF ss
      <3> QED BY <2>3, <2>4, <3>1, <3>2, <3>3, <3>4
    <2>7. flat = FlattenSeq(own) \o FlattenSeq(rest) BY <1>16, <2>3, <2>6, FlattenConcat
    <2>8. FlattenSeq(own) \in Seq(CommandOf(lines)) /\ FlattenSeq(rest) \in Seq(CommandOf(lines))
      BY <1>16, <2>3, FlattenType
    <2>9. PICK u \in Seq(CommandOf(lines)), v \in Seq(CommandOf(lines)) :
            u = FlattenSeq(own) /\ v = FlattenSeq(rest)
      BY <2>8, Zenon
    <2>10. Len(u) = m BY <1>16, <2>9
    <2>11. \A j \in 1 .. m : j \in 1 .. Len(u \o v) /\ (u \o v)[j] = u[j] BY <2>10
    <2>12. \A j \in 1 .. m : t[j] = u[j] BY <1>14, <2>7, <2>9, <2>11
    <2>13. u = [j \in 1 .. m |-> u[j]] BY <2>10
    <2>14. u = [j \in 1 .. n |-> t[j]] BY <1>18, <2>12, <2>13
    <2> QED BY <1>15, <1>16, <2>9, <2>14
  <1> QED BY <1>6, <1>17, <1>18

(***************************************************************************)
(* Where the search for dependencies ends.  With a rule for every          *)
(* dependency the chain steps from a rule to one it refers to; no rule     *)
(* comes twice, for it would need itself.                                  *)
(***************************************************************************)
Searchable ==
  /\ Distinct
  /\ \A r \in Rules(lines) :
       /\ \A dep \in Range(lines[r].deps) : findLine(lines, dep) # Missing
       /\ \A q \in Refers(r) : r \notin Needed(q)

LEMMA FollowRefers ==
  ASSUME IsMakefile(lines), Searchable, NEW r \in Rules(lines)
  PROVE  /\ Follow(lines, stray, r) \in Rules(lines)
         /\ Follow(lines, stray, r) # FirstLine => Follow(lines, stray, r) \in Refers(r)
  <1> DEFINE tok == Followed(lines, lines[r].deps)
             q == findLine(lines, tok)
  <1>0. /\ 1 \in Rules(lines) /\ Rules(lines) \subseteq 1 .. Len(lines) /\ Len(lines) \in Nat
        /\ lines[r].deps \in Seq(Word(lines)) /\ r # Missing
    BY FileType DEF Missing
  <1>1. Follow(lines, stray, r) = q BY <1>0 DEF Follow, DepsAt
  <1>2. CASE lines[r].deps = <<>>
    <2>1. q = FirstLine BY <1>2 DEF Followed, findLine
    <2> QED BY <1>0, <1>1, <2>1 DEF FirstLine
  <1>3. CASE lines[r].deps # <<>>
    <2>1. PICK deps \in Seq(Word(lines)) : deps = lines[r].deps BY <1>0, Zenon
    <2> DEFINE valid == {z \in DOMAIN deps : findLine(lines, deps[z]) # FirstLine}
               S == {1} \cup valid
    <2>2. Len(deps) \in Nat /\ DOMAIN deps = 1 .. Len(deps) /\ 1 \in DOMAIN deps
      BY <1>3, <2>1
    <2>3. S \subseteq 0 .. Len(deps) /\ S # {} /\ S \subseteq DOMAIN deps BY <2>2
    <2>4. tok = deps[Max(S)] BY <1>3, <2>1 DEF Followed
    <2> HIDE DEF S
    <2>5. Max(S) \in DOMAIN deps BY <2>2, <2>3, MaxOf
    <2> HIDE DEF tok
    <2>6. tok \in Range(deps) BY <2>4, <2>5 DEF Range
    <2>7. q \in Rules(lines)
      <3>1. q # Missing BY <2>1, <2>6 DEF Searchable
      <3>2. q \in Found(lines) BY findLineType
      <3> QED BY <3>1, <3>2 DEF Found
    <2>8. ASSUME q # FirstLine PROVE q \in Refers(r)
      <3>1. tok # NULL BY <2>8 DEF findLine
      <3>2. lines[q].name = tok BY <2>7, <3>1, NameFound DEF Searchable
      <3> QED BY <2>1, <2>6, <2>7, <3>2 DEF Refers
    <2> QED BY <1>1, <2>7, <2>8
  <1> QED BY <1>2, <1>3

LEMMA ChainIsShort ==
  ASSUME IsMakefile(lines), Searchable, NEW tok, findLine(lines, tok) # Missing
  PROVE  /\ Cardinality(Rules(lines)) - 1 \in Nat
         /\ Chain(lines, stray, tok) \in Seq(Nat)
         /\ Len(Chain(lines, stray, tok)) <= Cardinality(Rules(lines)) - 1
  <1>0. PICK f, n : IsChain(f, n, lines, stray, tok) BY ChainIs, Zenon
  <1>1. /\ f[1] = findLine(lines, tok)
        /\ \A k \in 1 .. MaxDep + 1 : f[k] \in Found(lines)
        /\ \A k \in 1 .. MaxDep : f[k + 1] = Follow(lines, stray, f[k])
        /\ n \in 0 .. MaxDep + 1
        /\ \A k \in 1 .. n : f[k] # FirstLine
        /\ n <= MaxDep => f[n + 1] = FirstLine
        /\ Chain(lines, stray, tok) = [k \in 1 .. n |-> f[k]]
    BY <1>0 DEF IsChain
  <1>2. MaxDep \in Nat /\ n \in Nat BY <1>1, MakefileAssumption
  <1>3. \A k \in 1 .. MaxDep + 1 : f[k] \in Rules(lines)
    <2> DEFINE Bad == {k \in 1 .. MaxDep + 1 : f[k] \notin Rules(lines)}
    <2>1. SUFFICES ASSUME Bad # {} PROVE FALSE OBVIOUS
    <2>2. PICK b \in Bad : \A k \in Bad : b <= k
      <3>1. Bad \subseteq Nat OBVIOUS
      <3> HIDE DEF Bad
      <3> QED BY <2>1, <3>1, Least
    <2>3. b # 1
      <3>1. f[1] \in Rules(lines)
        <4>1. f[1] \in Found(lines) /\ f[1] # Missing BY <1>1, findLineType
        <4> QED BY <4>1 DEF Found
      <3> QED BY <3>1
    <2>4. PICK k \in 1 .. MaxDep : k = b - 1 BY <1>2, <2>3
    <2>5. k + 1 = b /\ k \in 1 .. MaxDep + 1 /\ ~(b <= k) BY <1>2, <2>4
    <2>6. f[k] \in Rules(lines) BY <2>2, <2>5
    <2>7. f[k + 1] \in Rules(lines) BY <1>1, <2>6, FollowRefers
    <2> QED BY <2>5, <2>7
  <1>4. \A k \in 1 .. n : f[k] \in Rules(lines) BY <1>1, <1>2, <1>3
  <1>5. ASSUME NEW k \in 1 .. n - 1 PROVE f[k + 1] \in Refers(f[k])
    <2>1. k \in 1 .. MaxDep /\ k + 1 \in 1 .. n /\ k \in 1 .. n BY <1>1, <1>2
    <2>2. f[k + 1] = Follow(lines, stray, f[k]) /\ f[k + 1] # FirstLine BY <1>1, <2>1
    <2> QED BY <1>4, <2>1, <2>2, FollowRefers
  <1>6. ASSUME NEW i \in 1 .. n, NEW j \in 1 .. n, i <= j PROVE f[j] \in Needed(f[i])
    <2>1. SUFFICES ASSUME NEW S \in SUBSET Rules(lines), f[i] \in S,
                          \A s \in S : Refers(s) \subseteq S
                   PROVE  f[j] \in S
      BY <1>4 DEF Needed
    <2> DEFINE Bad == {k \in i .. n : f[k] \notin S}
    <2>2. SUFFICES ASSUME Bad # {} PROVE FALSE BY <1>6
    <2>3. PICK b \in Bad : \A k \in Bad : b <= k
      <3>1. Bad \subseteq Nat OBVIOUS
      <3> HIDE DEF Bad
      <3> QED BY <2>2, <3>1, Least
    <2>4. b # i BY <2>1
    <2>5. PICK k \in 1 .. n - 1 : k = b - 1 BY <1>2, <2>4
    <2>6. k + 1 = b /\ k \in i .. n /\ ~(b <= k) BY <1>2, <2>4, <2>5
    <2>7. f[k] \in S BY <2>3, <2>6
    <2>8. f[k + 1] \in S BY <1>5, <2>1, <2>7
    <2> QED BY <2>6, <2>8
  <1>7. ASSUME NEW i \in 1 .. n, NEW j \in 1 .. n, i < j PROVE f[i] # f[j]
    <2>1. i \in 1 .. n - 1 /\ i + 1 \in 1 .. n /\ i + 1 <= j BY <1>2, <1>7
    <2>2. f[i + 1] \in Refers(f[i]) BY <1>5, <2>1
    <2>3. f[i] \notin Needed(f[i + 1]) BY <1>4, <2>2 DEF Searchable
    <2>4. f[j] \in Needed(f[i + 1]) BY <1>6, <2>1
    <2> QED BY <2>3, <2>4
  <1>8. /\ Rules(lines) \subseteq 1 .. Len(lines) /\ 1 \in Rules(lines) /\ Len(lines) \in Nat
    BY FileType
  <1>9. IsFiniteSet(Rules(lines))
    <2>1. IsFiniteSet(1 .. Len(lines)) BY <1>8, FS_Interval
    <2> QED BY <1>8, <2>1, FS_Subset
  <1> DEFINE Later == Rules(lines) \ {1}
  <1>10. /\ IsFiniteSet(Later) /\ Cardinality(Later) \in Nat
         /\ Cardinality(Later) = Cardinality(Rules(lines)) - 1
    BY <1>8, <1>9, FS_RemoveElement, FS_CardinalityType
  <1>11. n <= Cardinality(Later)
    <2>1. SUFFICES ASSUME Cardinality(Later) < n PROVE FALSE BY <1>2, <1>10
    <2>2. IsFiniteSet(1 .. n) /\ Cardinality(1 .. n) = n BY <1>2, FS_Interval
    <2> DEFINE g == [k \in 1 .. n |-> f[k]]
    <2>3. g \in [1 .. n -> Later] BY <1>1, <1>4 DEF FirstLine
    <2> HIDE DEF g, Later
    <2>4. PICK x \in 1 .. n, y \in 1 .. n : x # y /\ g[x] = g[y]
      BY <1>10, <2>1, <2>2, <2>3, FS_PigeonHole
    <2>5. f[x] = f[y] BY <2>4 DEF g
    <2>6. x < y \/ y < x BY <2>4
    <2> QED BY <1>7, <2>5, <2>6
  <1>12. Len([k \in 1 .. n |-> f[k]]) = n BY <1>2
  <1>13. Chain(lines, stray, tok) \in Seq(Nat) BY ChainType
  <1> QED BY <1>1, <1>10, <1>11, <1>12, <1>13

LEMMA FlattenBound ==
  ASSUME NEW X, NEW ss \in Seq(Seq(X)), NEW B \in Nat,
         \A k \in 1 .. Len(ss) : Len(ss[k]) <= B
  PROVE  Len(FlattenSeq(ss)) <= Len(ss) * B
  <1>0. Len(ss) \in Nat OBVIOUS
  <1>1. CASE Len(ss) = 0
    <2>1. ss = <<>> BY <1>1
    <2>2. FlattenSeq(ss) = <<>> /\ Len(<<>>) = 0 BY <2>1, FlattenEmpty
    <2>3. 0 <= 0 * B OBVIOUS
    <2> QED BY <1>1, <2>2, <2>3
  <1>2. CASE Len(ss) # 0
    <2>1. PICK f : Joins(f, ss, Len(ss)) /\ FlattenSeq(ss) = f[Len(ss)]
      BY <1>0, <1>2, FlattenIs
    <2> DEFINE Bad == {j \in 1 .. Len(ss) : f[j] \notin Seq(X) \/ ~(Len(f[j]) <= j * B)}
    <2>2. Len(ss) \in 1 .. Len(ss) BY <1>0, <1>2
    <2>3. SUFFICES ASSUME Bad # {} PROVE FALSE BY <2>1, <2>2
    <2>4. PICK b \in Bad : \A j \in Bad : b <= j
      <3>1. Bad \subseteq Nat OBVIOUS
      <3> HIDE DEF Bad
      <3> QED BY <2>3, <3>1, Least
    <2>5. f[b] = IF b = 1 THEN ss[b] ELSE f[b - 1] \o ss[b] BY <2>1, Zenon DEF Joins
    <2>6. b # 1 => b - 1 \in 1 .. Len(ss) /\ ~(b <= b - 1) BY <1>0
    <2>7. b # 1 => f[b - 1] \in Seq(X) /\ Len(f[b - 1]) <= (b - 1) * B BY <2>4, <2>6
    <2>8. ss[b] \in Seq(X) /\ Len(ss[b]) <= B /\ Len(ss[b]) \in Nat OBVIOUS
    <2>9. \A s, t \in Seq(X) : s \o t \in Seq(X) /\ Len(s \o t) = Len(s) + Len(t)
                               /\ Len(s) \in Nat
      OBVIOUS
    <2>10. PICK x \in Nat, y \in Int : x = b * B /\ y = (b - 1) * B OBVIOUS
    <2>11. x = y + B BY <2>10
    <2>12. CASE b = 1
      <3>1. x = B BY <2>10, <2>12
      <3> QED BY <2>5, <2>8, <2>10, <2>12, <3>1
    <2>13. CASE b # 1
      <3>1. f[b - 1] \in Seq(X) /\ Len(f[b - 1]) <= y BY <2>7, <2>10, <2>13
      <3>2. f[b] \in Seq(X) /\ Len(f[b]) = Len(f[b - 1]) + Len(ss[b])
            /\ Len(f[b - 1]) \in Nat
        BY <2>5, <2>8, <2>9, <2>13, <3>1
      <3>3. Len(f[b]) <= x
        <4>1. PICK p \in Nat, q \in Nat : p = Len(f[b - 1]) /\ q = Len(ss[b])
          BY <2>8, <3>2, Zenon
        <4>2. p <= y /\ q <= B /\ Len(f[b]) = p + q BY <2>8, <3>1, <3>2, <4>1, Zenon
        <4>3. p + q <= x BY <2>11, <4>2
        <4> QED BY <4>2, <4>3
      <3> QED BY <2>10, <3>2, <3>3
    <2> QED BY <2>12, <2>13
  <1> QED BY <1>1, <1>2

LEMMA DepNoIsShort ==
  ASSUME IsMakefile(lines), Searchable
  PROVE  Len(DepNo(lines, stray, FirstTokens(lines)))
           <= Len(lines[FirstLine].deps) * (Cardinality(Rules(lines)) - 1)
  <1>1. 1 \in Rules(lines) BY FileType
  <1>2. PICK deps \in Seq(Word(lines)) : deps = lines[FirstLine].deps
    BY FileType DEF FirstLine
  <1>3. PICK n \in Nat : n = Len(deps) /\ DOMAIN deps = 1 .. n OBVIOUS
  <1>4. findLine(lines, lines[FirstLine].name) = FirstLine BY FirstByName DEF Searchable
  <1>5. PICK B \in Nat : B = Cardinality(Rules(lines)) - 1
    <2>1. FirstLine # Missing BY DEF FirstLine, Missing
    <2> QED BY <1>4, <2>1, ChainIsShort
  <1>6. ASSUME NEW z \in 1 .. n
        PROVE  Chain(lines, stray, deps[z]) \in Seq(Nat)
               /\ Len(Chain(lines, stray, deps[z])) <= B
    <2>1. deps[z] \in Range(deps) BY <1>3 DEF Range
    <2>2. findLine(lines, deps[z]) # Missing
      BY <1>1, <1>2, <2>1 DEF Searchable, FirstLine
    <2> QED BY <1>5, <2>2, ChainIsShort
  <1>7. PICK tokens \in Seq(Word(lines)) :
          /\ tokens = FirstTokens(lines) /\ Len(tokens) = n + 1
          /\ tokens[1] = lines[FirstLine].name
          /\ \A j \in 2 .. n + 1 : tokens[j] = deps[j - 1]
    BY <1>2, <1>3, FirstTokensAre
  <1> DEFINE c == [z \in 1 .. n |-> Chain(lines, stray, deps[n - z + 1])]
  <1>8. c \in Seq(Seq(Nat)) /\ Len(c) = n /\ \A z \in 1 .. n : Len(c[z]) <= B
    <2>1. \A z \in 1 .. n : n - z + 1 \in 1 .. n OBVIOUS
    <2>2. \A z \in 1 .. n : /\ Chain(lines, stray, deps[n - z + 1]) \in Seq(Nat)
                            /\ Len(Chain(lines, stray, deps[n - z + 1])) <= B
      BY <1>6, <2>1
    <2> QED BY <2>2
  <1>9. DepNo(lines, stray, tokens) = FlattenSeq(Append(c, <<>>))
    <2>1. DOMAIN tokens = 1 .. n + 1 BY <1>7
    <2>2. \A z \in 1 .. n : Reverse(tokens)[z] = deps[n - z + 1]
      <3>1. \A z \in 1 .. n : (n + 1) - z + 1 \in 2 .. n + 1 /\ z \in 1 .. n + 1
                              /\ ((n + 1) - z + 1) - 1 = n - z + 1
        OBVIOUS
      <3>2. \A z \in 1 .. n : tokens[(n + 1) - z + 1] = deps[n - z + 1] BY <1>7, <3>1
      <3> QED BY <1>7, <2>1, <3>1, <3>2 DEF Reverse
    <2>3. Reverse(tokens)[n + 1] = lines[FirstLine].name
      <3>1. (n + 1) - (n + 1) + 1 = 1 /\ n + 1 \in 1 .. n + 1 OBVIOUS
      <3> QED BY <1>7, <2>1, <3>1 DEF Reverse
    <2>4. Chain(lines, stray, Reverse(tokens)[n + 1]) = <<>> BY <1>4, <2>3, NoChain
    <2> DEFINE u == [z \in DOMAIN tokens |-> Chain(lines, stray, Reverse(tokens)[z])]
    <2>5. /\ u = [z \in 1 .. n + 1 |-> u[z]] /\ u[n + 1] = <<>>
          /\ \A z \in 1 .. n : u[z] = c[z]
      BY <2>1, <2>2, <2>4
    <2> HIDE DEF u, c
    <2>6. Append(c, <<>>) = [z \in 1 .. n + 1 |-> IF z = n + 1 THEN <<>> ELSE c[z]]
      <3>1. PICK a \in Seq(Seq(Nat)) : a = c BY <1>8, Zenon
      <3>2. Len(a) = n BY <1>8, <3>1
      <3>3. PICK e \in Seq(Nat) : e = <<>>
        <4>1. <<>> \in Seq(Nat) OBVIOUS
        <4> QED BY <4>1, Zenon
      <3>4. Append(a, e) = [z \in 1 .. Len(a) + 1 |-> IF z = Len(a) + 1 THEN e ELSE a[z]]
        BY AppendIs
      <3> QED BY <3>1, <3>2, <3>3, <3>4
    <2>7. \A z \in 1 .. n + 1 : u[z] = IF z = n + 1 THEN <<>> ELSE c[z]
      <3>1. \A z \in 1 .. n + 1 : z = n + 1 \/ z \in 1 .. n OBVIOUS
      <3> QED BY <2>5, <3>1
    <2>8. u = Append(c, <<>>) BY <2>5, <2>6, <2>7
    <2> QED BY <2>8 DEF DepNo, u
  <1> HIDE DEF c
  <1>10. FlattenSeq(Append(c, <<>>)) = FlattenSeq(c) \o <<>>
    <2>1. <<>> \in Seq(Nat) OBVIOUS
    <2> QED BY <1>8, <2>1, FlattenAppend
  <1>11. FlattenSeq(c) \in Seq(Nat) BY <1>8, FlattenType
  <1>12. Len(FlattenSeq(c)) <= n * B BY <1>8, FlattenBound
  <1>13. FlattenSeq(c) \o <<>> = FlattenSeq(c) BY <1>11
  <1> QED BY <1>2, <1>3, <1>5, <1>7, <1>9, <1>10, <1>12, <1>13

\* depNo has place for all that is recorded.
LEMMA SearchFits ==
  ASSUME IsMakefile(lines), Searchable,
         Max({1, Len(lines[FirstLine].deps)}) * (Cardinality(Rules(lines)) - 1) <= MaxDep
  PROVE  /\ ~RunOverflows(lines, stray)
         /\ \A target : findLine(lines, target) # Missing => ~TargetOverflows(lines, stray, target)
  <1>1. PICK n \in Nat : n = Len(lines[FirstLine].deps)
    <2>1. lines[FirstLine].deps \in Seq(Word(lines)) BY FileType DEF FirstLine
    <2> QED BY <2>1
  <1>2. PICK B \in Nat : B = Cardinality(Rules(lines)) - 1
    <2>1. findLine(lines, lines[FirstLine].name) = FirstLine BY FirstByName DEF Searchable
    <2>2. FirstLine # Missing BY DEF FirstLine, Missing
    <2> QED BY <2>1, <2>2, ChainIsShort
  <1>3. PICK m \in Nat : m = Max({1, n}) /\ 1 <= m /\ n <= m
    <2>1. {1, n} \subseteq 0 .. n + 1 /\ {1, n} # {} /\ n + 1 \in Nat OBVIOUS
    <2>2. Max({1, n}) \in {1, n} /\ \A k \in {1, n} : k <= Max({1, n}) BY <2>1, MaxOf
    <2>3. PICK x : x = Max({1, n}) OBVIOUS
    <2>4. x \in {1, n} /\ 1 <= x /\ n <= x BY <2>2, <2>3
    <2> QED BY <2>3, <2>4
  <1>4. m * B <= MaxDep BY <1>1, <1>2, <1>3
  <1>5. n * B <= m * B /\ B <= m * B /\ n * B \in Nat /\ m * B \in Nat
    <2>1. PICK d \in Nat, e \in Nat : m = n + d /\ m = 1 + e
      <3>1. m - n \in Nat /\ m - 1 \in Nat BY <1>3
      <3> QED BY <3>1
    <2>2. d * B \in Nat /\ e * B \in Nat /\ n * B \in Nat OBVIOUS
    <2>3. m * B = n * B + d * B /\ m * B = B + e * B BY <2>1
    <2> QED BY <2>2, <2>3
  <1>6. MaxDep \in Nat BY MakefileAssumption
  <1>7. DepNo(lines, stray, FirstTokens(lines)) \in Seq(Nat) BY DepNoType
  <1>8. ~(Len(DepNo(lines, stray, FirstTokens(lines))) > MaxDep)
    <2>1. PICK k \in Nat : k = Len(DepNo(lines, stray, FirstTokens(lines))) BY <1>7
    <2>2. k <= n * B BY <1>1, <1>2, <2>1, DepNoIsShort
    <2>3. k <= MaxDep BY <1>4, <1>5, <1>6, <2>2
    <2> QED BY <1>6, <2>1, <2>3
  <1>9. ASSUME NEW target, findLine(lines, target) # Missing
        PROVE  ~(Len(Chain(lines, stray, target)) > MaxDep)
    <2>1. PICK k \in Nat : k = Len(Chain(lines, stray, target)) /\ k <= B
      BY <1>2, <1>9, ChainIsShort
    <2>2. k <= MaxDep BY <1>4, <1>5, <1>6, <2>1
    <2> QED BY <1>6, <2>1, <2>2
  <1> QED BY <1>8, <1>9 DEF RunOverflows, TargetOverflows
-----------------------------------------------------------------------------

(***************************************************************************)
(* Why two commands never run at once.  The processes form one line of     *)
(* descent, in which every process but the youngest waits for its child.   *)
(* A process is as long as the line before it, so that the line is told by *)
(* the lengths alone: no two are equal, and whoever has a longer one in    *)
(* the set waits and has its own child in it.                              *)
(***************************************************************************)
Processes == DOMAIN procs \subseteq Seq(Nat)

Positions ==
  \A p \in DOMAIN procs : procs[p].at \in Nat /\ procs[p].st \in State

OfOneLength == \A p, q \in DOMAIN procs : Len(p) = Len(q) => p = q

OlderWait ==
  \A p, q \in DOMAIN procs :
    Len(p) < Len(q) => procs[p].st = "wait" /\ Child(p) \in DOMAIN procs

BeforeRun == status = "start" => procs = <<>>

Line == Processes /\ Positions /\ OfOneLength /\ OlderWait /\ BeforeRun

(***************************************************************************)
(* A child's name is one longer than its parent's.                         *)
(***************************************************************************)
LEMMA ChildLonger ==
  ASSUME NEW p \in Seq(Nat), NEW n \in Nat
  PROVE  /\ Append(p, n) \in Seq(Nat)
         /\ Len(Append(p, n)) = Len(p) + 1
         /\ Len(p) \in Nat
  OBVIOUS

(***************************************************************************)
(* Nobody is younger than a process that does not wait, or whose child is  *)
(* gone.                                                                   *)
(***************************************************************************)
LEMMA Youngest ==
  ASSUME Line, NEW p \in DOMAIN procs,
         procs[p].st # "wait" \/ Child(p) \notin DOMAIN procs,
         NEW q \in DOMAIN procs, q # p
  PROVE  Len(q) < Len(p)
  <1>1. p \in Seq(Nat) /\ q \in Seq(Nat) BY DEF Line, Processes
  <1>2. Len(p) \in Nat /\ Len(q) \in Nat BY <1>1
  <1>3. ~(Len(p) < Len(q)) BY DEF Line, OlderWait
  <1>4. Len(p) # Len(q) BY DEF Line, OfOneLength
  <1> QED BY <1>2, <1>3, <1>4

LEMMA LineInit == Init => Line
  <1>1. DOMAIN <<>> = {} OBVIOUS
  <1> QED BY <1>1 DEF Init, Line, Processes, Positions, OfOneLength, OlderWait, BeforeRun

\* main's decision makes the first process, or none.
LEMMA DecideKeepsLine ==
  ASSUME Line, status = "start", NEW overflows, NEW commands,
         NEW next \in {"run", "printed"}, Decide(overflows, commands, next)
  PROVE  Line'
  <1>1. procs = <<>> BY DEF Line, BeforeRun
  <1>2. DOMAIN <<>> = {} OBVIOUS
  <1>3. status' # "start" BY DEF Decide
  <1>4. CASE procs' = procs
    BY <1>1, <1>2, <1>3, <1>4
       DEF Line, Processes, Positions, OfOneLength, OlderWait, BeforeRun
  <1>5. CASE procs' = [p \in {Master} |-> [at |-> 1, st |-> "loop"]]
    <2>1. procs' = [p \in {<<>>} |-> [at |-> 1, st |-> "loop"]] BY <1>5 DEF Master
    <2>2. <<>> \in Seq(Nat) OBVIOUS
    <2>3. DOMAIN procs' = {<<>>} BY <2>1
    <2>4. Processes' BY <2>2, <2>3 DEF Processes
    <2>5. Positions' BY <2>1, <2>3 DEF Positions, State
    <2>6. OfOneLength' /\ OlderWait' BY <2>3 DEF OfOneLength, OlderWait
    <2> QED BY <2>4, <2>5, <2>6, <1>3 DEF Line, BeforeRun
  <1> QED BY <1>4, <1>5 DEF Decide

(***************************************************************************)
(* What a step leaves of the processes.                                    *)
(***************************************************************************)
LEMMA GotoIs ==
  ASSUME NEW p \in DOMAIN procs, NEW at, NEW st, procs' = Goto(p, at, st)
  PROVE  /\ DOMAIN procs' = DOMAIN procs /\ procs'[p] = [at |-> at, st |-> st]
         /\ \A q \in DOMAIN procs : q # p => procs'[q] = procs[q]
  BY DEF Goto

LEMMA GoneIs ==
  ASSUME NEW p \in DOMAIN procs, procs' = Gone(p)
  PROVE  /\ DOMAIN procs' = DOMAIN procs \ {p}
         /\ \A q \in DOMAIN procs \ {p} : procs'[q] = procs[q]
  BY DEF Gone

LEMMA ForkIs ==
  ASSUME Line, NEW p \in DOMAIN procs, Fork(p)
  PROVE  /\ Child(p) \notin DOMAIN procs /\ Child(p) \in Seq(Nat)
         /\ Len(Child(p)) = Len(p) + 1
         /\ DOMAIN procs' = DOMAIN procs \cup {Child(p)}
         /\ procs'[Child(p)] = [at |-> procs[p].at, st |-> "born"]
         /\ procs'[p] = [at |-> procs[p].at, st |-> "wait"]
         /\ \A q \in DOMAIN procs : q # p => procs'[q] = procs[q]
  <1> DEFINE c == Child(p)
  <1>1. p \in Seq(Nat) /\ procs[p].at \in Nat /\ procs[p].st = "loop"
    BY DEF Line, Processes, Positions, Fork, Is
  <1>2. c \in Seq(Nat) /\ Len(c) = Len(p) + 1 /\ Len(p) \in Nat
    BY <1>1, ChildLonger DEF Child, At
  <1>3. \A q \in DOMAIN procs : q = p \/ Len(q) < Len(p) BY <1>1, Youngest
  <1>4. \A q \in DOMAIN procs : Len(q) \in Nat BY DEF Line, Processes
  <1>5. c \notin DOMAIN procs BY <1>2, <1>3, <1>4
  <1> HIDE DEF c
  <1>6. procs' = [q \in DOMAIN procs \cup {c} |->
                   IF q = c THEN [at |-> At(p), st |-> "born"] ELSE AfterFork(p)[q]]
    BY DEF Fork, c
  <1>7. DOMAIN procs' = DOMAIN procs \cup {c} BY <1>6
  <1>8. procs'[c] = [at |-> procs[p].at, st |-> "born"] BY <1>6 DEF At
  <1>9. procs'[p] = [at |-> procs[p].at, st |-> "wait"]
    BY <1>5, <1>6 DEF AfterFork, Goto, At
  <1>10. \A q \in DOMAIN procs : q # p => procs'[q] = procs[q]
    BY <1>5, <1>6 DEF AfterFork, Goto
  <1> QED BY <1>2, <1>5, <1>7, <1>8, <1>9, <1>10 DEF c

\* A process that goes on in its loop, or becomes a program, is the youngest
\* before and after.
LEMMA GotoKeepsLine ==
  ASSUME Line, UNCHANGED status, NEW p \in DOMAIN procs,
         procs[p].st # "wait" \/ Child(p) \notin DOMAIN procs,
         NEW at \in Nat, NEW st \in State, procs' = Goto(p, at, st)
  PROVE  Line'
  <1>1. DOMAIN procs' = DOMAIN procs BY GotoIs
  <1>2. procs'[p] = [at |-> at, st |-> st] BY GotoIs
  <1>3. \A q \in DOMAIN procs : q # p => procs'[q] = procs[q] BY GotoIs
  <1>4. Processes' /\ OfOneLength' BY <1>1 DEF Line, Processes, OfOneLength
  <1>5. Positions' BY <1>1, <1>2, <1>3 DEF Line, Positions
  <1>6. OlderWait'
    <2> SUFFICES ASSUME NEW q \in DOMAIN procs, NEW r \in DOMAIN procs, Len(q) < Len(r)
                 PROVE  procs'[q].st = "wait" /\ Child(q)' \in DOMAIN procs
      BY <1>1 DEF OlderWait
    <2>1. q # p
      <3>1. SUFFICES ASSUME q = p PROVE FALSE OBVIOUS
      <3>2. r # p /\ Len(p) \in Nat /\ Len(r) \in Nat BY <3>1 DEF Line, Processes
      <3>3. Len(r) < Len(p) BY <3>2, Youngest
      <3> QED BY <3>1, <3>2, <3>3
    <2>2. procs'[q] = procs[q] BY <2>1, <1>3
    <2>3. Child(q)' = Child(q) BY <2>2 DEF Child, At
    <2> QED BY <2>2, <2>3 DEF Line, OlderWait
  <1>7. BeforeRun' BY DEF Line, BeforeRun
  <1> QED BY <1>4, <1>5, <1>6, <1>7 DEF Line

\* The youngest process ends.
LEMMA GoneKeepsLine ==
  ASSUME Line, UNCHANGED status, NEW p \in DOMAIN procs, procs[p].st # "wait",
         procs' = Gone(p)
  PROVE  Line'
  <1>1. DOMAIN procs' = DOMAIN procs \ {p} BY GoneIs
  <1>2. \A q \in DOMAIN procs' : procs'[q] = procs[q] BY <1>1, GoneIs
  <1>3. Processes' /\ OfOneLength' BY <1>1 DEF Line, Processes, OfOneLength
  <1>4. Positions' BY <1>1, <1>2 DEF Line, Positions
  <1>5. OlderWait'
    <2> SUFFICES ASSUME NEW q \in DOMAIN procs', NEW r \in DOMAIN procs', Len(q) < Len(r)
                 PROVE  procs'[q].st = "wait" /\ Child(q)' \in DOMAIN procs'
      BY DEF OlderWait
    <2>1. procs[q].st = "wait" /\ Child(q) \in DOMAIN procs BY <1>1 DEF Line, OlderWait
    <2>2. Child(q)' = Child(q) BY <1>2 DEF Child, At
    <2>3. Child(q) # p
      <3>1. SUFFICES ASSUME Child(q) = p PROVE FALSE OBVIOUS
      <3>2. q \in Seq(Nat) /\ r \in Seq(Nat) /\ procs[q].at \in Nat
        BY <1>1 DEF Line, Processes, Positions
      <3>3. Len(p) = Len(q) + 1 /\ Len(q) \in Nat /\ Len(r) \in Nat
        BY <3>1, <3>2, ChildLonger DEF Child, At
      <3>4. Len(r) < Len(p) BY <1>1, Youngest
      <3> QED BY <3>3, <3>4
    <2> QED BY <1>1, <1>2, <2>1, <2>2, <2>3
  <1>6. BeforeRun' BY DEF Line, BeforeRun
  <1> QED BY <1>3, <1>4, <1>5, <1>6 DEF Line

\* fork: the child is the youngest, and its parent waits from now on.
LEMMA ForkKeepsLine ==
  ASSUME Line, NEW p \in DOMAIN procs, Fork(p)
  PROVE  Line'
  <1> DEFINE c == Child(p)
  <1>1. p \in Seq(Nat) /\ procs[p].at \in Nat /\ procs[p].st = "loop" /\ Len(p) \in Nat
    BY DEF Line, Processes, Positions, Fork, Is
  <1>2. \A q \in DOMAIN procs : q = p \/ Len(q) < Len(p) BY <1>1, Youngest
  <1>3. \A q \in DOMAIN procs : Len(q) \in Nat BY DEF Line, Processes
  <1>4. /\ c \notin DOMAIN procs /\ c \in Seq(Nat) /\ Len(c) = Len(p) + 1
        /\ DOMAIN procs' = DOMAIN procs \cup {c}
        /\ procs'[c] = [at |-> procs[p].at, st |-> "born"]
        /\ procs'[p] = [at |-> procs[p].at, st |-> "wait"]
        /\ \A q \in DOMAIN procs : q # p => procs'[q] = procs[q]
    BY ForkIs
  <1> HIDE DEF c
  <1>5. \A q \in DOMAIN procs : procs'[q].at = procs[q].at BY <1>4
  <1>6. Processes' BY <1>4 DEF Line, Processes
  <1>7. Positions'
    <2>1. procs'[c].at \in Nat /\ procs'[c].st \in State BY <1>1, <1>4 DEF State
    <2>2. procs'[p].at \in Nat /\ procs'[p].st \in State BY <1>1, <1>4 DEF State
    <2>3. \A q \in DOMAIN procs : q # p => procs'[q].at \in Nat /\ procs'[q].st \in State
      BY <1>4 DEF Line, Positions
    <2> QED BY <1>4, <2>1, <2>2, <2>3 DEF Positions
  <1>8. OfOneLength' BY <1>1, <1>2, <1>3, <1>4 DEF Line, OfOneLength
  <1>9. OlderWait'
    <2> SUFFICES ASSUME NEW q \in DOMAIN procs', NEW r \in DOMAIN procs', Len(q) < Len(r)
                 PROVE  procs'[q].st = "wait" /\ Child(q)' \in DOMAIN procs'
      BY DEF OlderWait
    <2>1. q \in DOMAIN procs BY <1>1, <1>2, <1>3, <1>4
    <2>2. Child(q)' = Child(q) BY <1>5, <2>1 DEF Child, At
    <2>3. CASE q = p BY <2>2, <2>3, <1>4 DEF c
    <2>4. CASE q # p
      <3>1. Len(q) < Len(p) BY <2>1, <2>4, <1>2
      <3>2. procs[q].st = "wait" /\ Child(q) \in DOMAIN procs
        BY <3>1, <2>1 DEF Line, OlderWait
      <3> QED BY <3>2, <2>1, <2>2, <2>4, <1>4
    <2> QED BY <2>3, <2>4
  <1>10. BeforeRun'
    <2>1. procs # <<>>
      <3>1. DOMAIN <<>> = {} OBVIOUS
      <3> QED BY <3>1
    <2>2. status' = status BY DEF Fork
    <2> QED BY <2>1, <2>2 DEF Line, BeforeRun
  <1> QED BY <1>6, <1>7, <1>8, <1>9, <1>10 DEF Line

LEMMA LineStep == Line /\ [Next]_vars => Line'
  <1> SUFFICES ASSUME Line, [Next]_vars PROVE Line' OBVIOUS
  <1>1. CASE MakeAll BY <1>1, DecideKeepsLine DEF MakeAll
  <1>2. CASE PrintRecipes BY <1>2, DecideKeepsLine DEF PrintRecipes
  <1>3. CASE MakeTarget BY <1>3, DecideKeepsLine DEF MakeTarget
  <1>4. CASE Refuse \/ CannotOpen
    BY <1>4 DEF Refuse, CannotOpen, Line, Processes, Positions, OfOneLength, OlderWait,
                BeforeRun, Child, At
  <1>7. CASE DescribeRules
    BY <1>7 DEF DescribeRules, Line, Processes, Positions, OfOneLength, OlderWait,
                BeforeRun, Child, At
  <1>5. ASSUME NEW p \in DOMAIN procs, Work(p) \/ ForkFails(p) \/ ExecFails(p)
        PROVE  Line'
    <2>1. procs[p].at \in Nat BY DEF Line, Positions
    <2>2. CASE Fork(p) BY <2>2, ForkKeepsLine
    <2>3. CASE ForkFails(p)
      BY <2>1, <2>3, GotoKeepsLine DEF ForkFails, Is, State, At
    <2>4. CASE Exec(p) BY <2>1, <2>4, GotoKeepsLine DEF Exec, Is, State, At
    <2>5. CASE ExecFails(p)
      BY <2>1, <2>5, GotoKeepsLine DEF ExecFails, AfterFailure, Is, State, At
    <2>6. CASE ExecNull(p) BY <2>6, GoneKeepsLine DEF ExecNull, Is
    <2>7. CASE ProgramEnds(p) BY <2>7, GoneKeepsLine DEF ProgramEnds, Is
    <2>8. CASE Wait(p) BY <2>1, <2>8, GotoKeepsLine DEF Wait, WaitOver, State, At
    <2>9. CASE Leave(p) BY <2>9, GoneKeepsLine DEF Leave, Is
    <2> QED BY <1>5, <2>2, <2>3, <2>4, <2>5, <2>6, <2>7, <2>8, <2>9 DEF Work
  <1>6. CASE UNCHANGED vars
    BY <1>6 DEF vars, Line, Processes, Positions, OfOneLength, OlderWait, BeforeRun, Child, At
  <1> QED BY <1>1, <1>2, <1>3, <1>4, <1>5, <1>6, <1>7 DEF Next

(***************************************************************************)
(* The processes of mymake stand in one line of descent in every run.      *)
(***************************************************************************)
THEOREM LineOfDescent == Spec => []Line
  BY LineInit, LineStep, PTL DEF Spec

(***************************************************************************)
(* No two commands of a makefile run at once, whatever its rules are and   *)
(* however many forks and execs fail (wait(NULL), main.c:215).             *)
(***************************************************************************)
THEOREM OneCommandAtATime == Spec => []OneAtATime
  <1>1. Line => OneAtATime
    <2> SUFFICES ASSUME Line, NEW p \in DOMAIN procs, NEW q \in DOMAIN procs, p # q
                 PROVE  Is(p, "wait") \/ Is(q, "wait")
      BY DEF OneAtATime
    <2>1. Len(p) \in Nat /\ Len(q) \in Nat BY DEF Line, Processes
    <2>2. Len(p) # Len(q) BY DEF Line, OfOneLength
    <2>3. Len(p) < Len(q) \/ Len(q) < Len(p) BY <2>1, <2>2
    <2> QED BY <2>3 DEF Line, OlderWait, Is
  <1> QED BY <1>1, LineOfDescent, PTL
-----------------------------------------------------------------------------
(***************************************************************************)
(* The books that the processes keep between them.  Every process that is  *)
(* in the loop owes the commands from its place on, one that waits those   *)
(* behind its place, one that was just forked the one it was forked for.   *)
(* A command that was not run yet is owed; an execvp that fails turns the  *)
(* child into a second mymake, which owes all later commands once more.    *)
(***************************************************************************)
Planned ==
  /\ lines \in Files
  /\ status \in {"start", "run", "printed", "described", "refused", "undefined"}
  /\ status = "run" => plan \in Seq(CommandOf(lines))
  /\ status # "run" => procs = <<>> /\ ran = <<>> /\ failed = {} /\ unforked = {}

Places ==
  \A p \in DOMAIN procs :
    procs[p].at \in 1 .. Len(plan) + 1 /\ (procs[p].st # "loop" => procs[p].at <= Len(plan))

Recorded ==
  /\ ran \in Seq(Nat) /\ \A n \in DOMAIN ran : ran[n] \in DOMAIN plan
  /\ failed \subseteq Seq(Nat)
  /\ IsFiniteSet(failed) /\ IsFiniteSet(unforked) /\ IsFiniteSet(DOMAIN procs)
  /\ Cardinality(failed) + Cardinality(unforked) <= MaxFaults

\* A process that was just forked is called after the place it was forked for.
BornFor ==
  \A p \in DOMAIN procs : procs[p].st = "born" => p # <<>> /\ Last(p) = procs[p].at

\* A younger process descends from an older one, which waits where it forked.
Descends(q, p) == Len(p) < Len(q) /\ \A k \in 1 .. Len(p) : q[k] = p[k]
Descent ==
  \A p, q \in DOMAIN procs :
    Len(p) < Len(q) => Descends(q, p) /\ q[Len(p) + 1] = procs[p].at

\* No name of a process is used twice: the failed descendants of a process were
\* forked before the place it is at, or at it while it waits.
Fresh ==
  \A p \in DOMAIN procs :
    /\ procs[p].st = "born" => p \notin failed
    /\ \A q \in failed :
         Descends(q, p) =>
           /\ procs[p].st # "born"
           /\ procs[p].st = "wait" => q[Len(p) + 1] <= procs[p].at
           /\ procs[p].st = "loop" => q[Len(p) + 1] < procs[p].at

Owes(process, place) ==
  \/ process.st = "loop" /\ process.at <= place
  \/ process.st = "wait" /\ process.at < place
  \/ process.st = "born" /\ process.at = place
Owing(place) == {p \in DOMAIN procs : Owes(procs[p], place)}

Account(place) ==
  LET paid == Times(place) + Cardinality(FailedAt(place)) + Cardinality(Owing(place))
      due == 1 + Cardinality(FailedBefore(place))
  IN  paid <= due /\ (unforked = {} => paid = due)

Accounts ==
  status = "run" =>
    \A place \in DOMAIN plan : plan[place].argv # <<>> => Account(place)

Books == Planned /\ Places /\ Recorded /\ BornFor /\ Descent /\ Fresh /\ Accounts

\* Every step of a process is one of the three.
LEMMA StepIs ==
  ASSUME Line, Planned, NEW p \in DOMAIN procs, Work(p) \/ ForkFails(p) \/ ExecFails(p)
  PROVE  /\ status = "run" /\ status' = "run" /\ UNCHANGED <<lines, plan>>
         /\ plan \in Seq(CommandOf(lines)) /\ Len(plan) \in Nat
         /\ DOMAIN plan = 1 .. Len(plan)
         /\ p \in Seq(Nat) /\ procs[p].at \in Nat /\ procs[p].st \in State
  <1>1. status = "run"
    <2>1. DOMAIN <<>> = {} OBVIOUS
    <2> QED BY <2>1 DEF Planned
  <1>2. UNCHANGED <<lines, status, plan>>
    BY DEF Work, Fork, ForkFails, Exec, ExecFails, ExecNull, ProgramEnds, Wait, Leave, input
  <1>3. plan \in Seq(CommandOf(lines)) BY <1>1 DEF Planned
  <1> QED BY <1>1, <1>2, <1>3 DEF Line, Processes, Positions

LEMMA PlannedStep == Line /\ Planned /\ [Next]_vars => Planned'
  <1> SUFFICES ASSUME Line, Planned, [Next]_vars PROVE Planned' OBVIOUS
  <1>1. IsMakefile(lines) BY MymakeAssumption DEF Planned
  <1>2. CASE MakeAll \/ MakeTarget \/ PrintRecipes
    <2>1. UNCHANGED <<lines, history>> /\ status = "start"
      BY <1>2 DEF MakeAll, MakeTarget, PrintRecipes, input
    <2>2. procs = <<>> /\ ran = <<>> /\ failed = {} /\ unforked = {}
      BY <2>1 DEF Planned
    <2>3. ASSUME NEW overflows, NEW commands, NEW next \in {"run", "printed"},
                 Decide(overflows, commands, next),
                 next = "run" => commands \in Seq(CommandOf(lines))
          PROVE  Planned'
      BY <2>1, <2>2, <2>3 DEF Decide, Planned, history
    <2>4. RunFirst(lines, stray) \in Seq(CommandOf(lines))
          /\ RunTarget(lines, stray, goal) \in Seq(CommandOf(lines))
      BY <1>1, PlansAreCommands
    <2>5. CASE MakeAll BY <2>3, <2>4, <2>5 DEF MakeAll
    <2>6. CASE MakeTarget BY <2>3, <2>4, <2>6 DEF MakeTarget
    <2>7. CASE PrintRecipes BY <2>3, <2>7 DEF PrintRecipes
    <2> QED BY <1>2, <2>5, <2>6, <2>7
  <1>3. CASE DescribeRules \/ CannotOpen \/ Refuse
    BY <1>3 DEF DescribeRules, CannotOpen, Refuse, Planned, input, history
  <1>4. ASSUME NEW p \in DOMAIN procs, Work(p) \/ ForkFails(p) \/ ExecFails(p)
        PROVE  Planned'
    BY <1>4, StepIs DEF Planned
  <1>5. CASE UNCHANGED vars BY <1>5 DEF vars, input, history, Planned
  <1> QED BY <1>2, <1>3, <1>4, <1>5 DEF Next

\* The steps before the run make no process, or the first.
LEMMA StartIs ==
  ASSUME Planned,
         MakeAll \/ PrintRecipes \/ DescribeRules \/ MakeTarget \/ CannotOpen \/ Refuse
  PROVE  /\ procs = <<>> /\ ran = <<>> /\ failed = {} /\ unforked = {}
         /\ UNCHANGED history
         /\ \/ procs' = <<>> /\ status' # "run"
            \/ /\ procs' = [p \in {<<>>} |-> [at |-> 1, st |-> "loop"]]
               /\ status' = "run"
  <1>1. status = "start" /\ UNCHANGED history
    BY DEF MakeAll, PrintRecipes, DescribeRules, MakeTarget, CannotOpen, Refuse
  <1>2. procs = <<>> /\ ran = <<>> /\ failed = {} /\ unforked = {}
    BY <1>1 DEF Planned
  <1>3. ASSUME NEW overflows, NEW commands, NEW next \in {"run", "printed"},
               Decide(overflows, commands, next)
        PROVE  \/ procs' = <<>> /\ status' # "run"
               \/ /\ procs' = [p \in {<<>>} |-> [at |-> 1, st |-> "loop"]]
                  /\ status' = "run"
    BY <1>2, <1>3 DEF Decide, Master
  <1>4. CASE MakeAll \/ PrintRecipes \/ MakeTarget
    BY <1>1, <1>2, <1>3, <1>4 DEF MakeAll, PrintRecipes, MakeTarget
  <1>5. CASE DescribeRules \/ CannotOpen \/ Refuse
    BY <1>1, <1>2, <1>5 DEF DescribeRules, CannotOpen, Refuse
  <1> QED BY <1>1, <1>2, <1>4, <1>5

LEMMA PlacesStep == Line /\ Planned /\ Places /\ [Next]_vars => Places'
  <1> SUFFICES ASSUME Line, Planned, Places, [Next]_vars PROVE Places' OBVIOUS
  <1>1. CASE MakeAll \/ PrintRecipes \/ DescribeRules \/ MakeTarget \/ CannotOpen \/ Refuse
    <2>1. CASE procs' = <<>>
      <3>1. DOMAIN procs' = {} BY <2>1
      <3> QED BY <3>1 DEF Places
    <2>2. CASE /\ procs' = [p \in {<<>>} |-> [at |-> 1, st |-> "loop"]]
               /\ status' = "run"
      <3>1. Planned' BY PlannedStep
      <3>2. Len(plan') \in Nat BY <2>2, <3>1 DEF Planned
      <3>3. 1 \in 1 .. Len(plan') + 1 BY <3>2
      <3>4. DOMAIN procs' = {<<>>} /\ procs'[<<>>] = [at |-> 1, st |-> "loop"] BY <2>2
      <3> QED BY <3>3, <3>4 DEF Places
    <2> QED BY <1>1, <2>1, <2>2, StartIs
  <1>2. ASSUME NEW p \in DOMAIN procs, Work(p) \/ ForkFails(p) \/ ExecFails(p)
        PROVE  Places'
    <2>1. /\ Len(plan) \in Nat /\ UNCHANGED plan
          /\ procs[p].at \in 1 .. Len(plan) + 1
          /\ procs[p].st # "loop" => procs[p].at <= Len(plan)
      BY <1>2, StepIs DEF Places
    <2>2. PICK a \in Nat : a = procs[p].at BY <2>1
    <2>3. ASSUME NEW at \in 1 .. Len(plan) + 1, NEW st, st # "loop" => at <= Len(plan),
                 procs' = Goto(p, at, st)
          PROVE  Places'
      <3>1. /\ DOMAIN procs' = DOMAIN procs /\ procs'[p] = [at |-> at, st |-> st]
            /\ \A q \in DOMAIN procs : q # p => procs'[q] = procs[q]
        BY <2>3, GotoIs
      <3> QED BY <2>1, <2>3, <3>1 DEF Places
    <2>4. CASE procs' = Gone(p)
      <3>1. /\ DOMAIN procs' = DOMAIN procs \ {p}
            /\ \A q \in DOMAIN procs \ {p} : procs'[q] = procs[q]
        BY <2>4, GoneIs
      <3> QED BY <2>1, <3>1 DEF Places
    <2>5. CASE Fork(p)
      <3>1. a <= Len(plan) BY <2>2, <2>5 DEF Fork, More, At
      <3>2. /\ DOMAIN procs' = DOMAIN procs \cup {Child(p)}
            /\ procs'[Child(p)] = [at |-> a, st |-> "born"]
            /\ procs'[p] = [at |-> a, st |-> "wait"]
            /\ \A q \in DOMAIN procs : q # p => procs'[q] = procs[q]
        BY <2>2, <2>5, ForkIs
      <3>3. a \in 1 .. Len(plan) + 1 BY <2>1, <2>2
      <3>4. \A q \in DOMAIN procs' : q = Child(p) \/ q = p \/ q \in DOMAIN procs \ {p}
        BY <3>2
      <3>5. \A q \in DOMAIN procs' :
              procs'[q].at \in 1 .. Len(plan) + 1
              /\ (procs'[q].st # "loop" => procs'[q].at <= Len(plan))
        BY <3>1, <3>2, <3>3, <3>4 DEF Places
      <3> QED BY <2>1, <3>5 DEF Places
    <2>6. CASE ForkFails(p)
      <3>1. a + 1 \in 1 .. Len(plan) + 1
        BY <2>1, <2>2, <2>6 DEF ForkFails, More, At
      <3>2. procs' = Goto(p, a + 1, "loop") BY <2>2, <2>6 DEF ForkFails, At
      <3> QED BY <2>3, <3>1, <3>2
    <2>7. CASE Exec(p)
      <3>1. procs[p].st # "loop" /\ procs' = Goto(p, a, "program")
        BY <2>2, <2>7 DEF Exec, Is, At
      <3> QED BY <2>1, <2>2, <2>3, <3>1
    <2>8. CASE ExecFails(p) \/ Wait(p)
      <3>1. procs[p].st # "loop" /\ procs' = Goto(p, a + 1, "loop")
        BY <2>2, <2>8 DEF ExecFails, AfterFailure, Wait, Is, At
      <3>2. a + 1 \in 1 .. Len(plan) + 1 BY <2>1, <2>2, <3>1
      <3> QED BY <2>3, <3>1, <3>2
    <2> QED BY <1>2, <2>4, <2>5, <2>6, <2>7, <2>8 DEF Work, ExecNull, ProgramEnds, Leave
  <1>3. CASE UNCHANGED vars BY <1>3 DEF vars, Places
  <1> QED BY <1>1, <1>2, <1>3 DEF Next

LEMMA RecordedStep ==
  Line /\ Planned /\ Places /\ Recorded /\ [Next]_vars => Recorded'
  <1> SUFFICES ASSUME Line, Planned, Places, Recorded, [Next]_vars PROVE Recorded' OBVIOUS
  <1>1. CASE MakeAll \/ PrintRecipes \/ DescribeRules \/ MakeTarget \/ CannotOpen \/ Refuse
    <2>1. ran' = <<>> /\ failed' = failed /\ unforked' = unforked
      BY <1>1, StartIs DEF history
    <2>2. DOMAIN procs' = {} \/ DOMAIN procs' = {<<>>}
      <3>1. DOMAIN <<>> = {} OBVIOUS
      <3> QED BY <1>1, <3>1, StartIs
    <2>3. IsFiniteSet(DOMAIN procs')
      <3>1. IsFiniteSet({}) /\ IsFiniteSet({<<>>}) BY FS_EmptySet, FS_Singleton, Zenon
      <3> QED BY <2>2, <3>1
    <2>4. ran' \in Seq(Nat) /\ DOMAIN ran' = {} BY <2>1
    <2> QED BY <2>1, <2>3, <2>4 DEF Recorded
  <1>2. ASSUME NEW p \in DOMAIN procs, Work(p) \/ ForkFails(p) \/ ExecFails(p)
        PROVE  Recorded'
    <2>1. /\ UNCHANGED plan /\ DOMAIN plan = 1 .. Len(plan) /\ Len(plan) \in Nat
          /\ p \in Seq(Nat)
      BY <1>2, StepIs
    <2>2. IsFiniteSet(DOMAIN procs')
      <3>1. CASE Fork(p)
        <4>1. DOMAIN procs' = DOMAIN procs \cup {Child(p)} BY <3>1, ForkIs
        <4> QED BY <4>1, FS_AddElement DEF Recorded
      <3>2. CASE procs' = Gone(p)
        <4>1. DOMAIN procs' = DOMAIN procs \ {p} BY <3>2, GoneIs
        <4> QED BY <4>1, FS_RemoveElement DEF Recorded
      <3>3. ASSUME NEW at, NEW st, procs' = Goto(p, at, st) PROVE IsFiniteSet(DOMAIN procs')
        BY <3>3, GotoIs DEF Recorded
      <3> QED BY <1>2, <3>1, <3>2, <3>3
              DEF Work, ForkFails, Exec, ExecFails, ExecNull, ProgramEnds, Wait, Leave
    <2>3. CASE Exec(p)
      <3>1. PICK a \in 1 .. Len(plan) : a = procs[p].at
        BY <2>3 DEF Exec, Is, Places
      <3>2. ran' = Append(ran, a) /\ UNCHANGED <<failed, unforked>>
        BY <2>3, <3>1 DEF Exec, At
      <3>3. a \in Nat /\ a \in DOMAIN plan BY <2>1
      <3>4. ran' \in Seq(Nat) BY <3>2, <3>3 DEF Recorded
      <3>5. \A n \in DOMAIN ran' : ran'[n] \in DOMAIN plan BY <3>2, <3>3 DEF Recorded
      <3> QED BY <2>1, <2>2, <3>2, <3>4, <3>5 DEF Recorded
    <2>4. CASE ForkFails(p)
      <3>1. /\ UNCHANGED <<ran, failed>> /\ unforked' = unforked \cup {Child(p)}
            /\ Cardinality(failed) + Cardinality(unforked) < MaxFaults
        BY <2>4 DEF ForkFails, MayFail
      <3>2. IsFiniteSet(unforked') /\ Cardinality(unforked') <= Cardinality(unforked) + 1
        <4>1. IsFiniteSet(unforked) BY DEF Recorded
        <4>2. Cardinality(unforked) \in Nat BY <4>1, FS_CardinalityType
        <4>3. /\ IsFiniteSet(unforked \cup {Child(p)})
              /\ \/ Cardinality(unforked \cup {Child(p)}) = Cardinality(unforked)
                 \/ Cardinality(unforked \cup {Child(p)}) = Cardinality(unforked) + 1
          BY <4>1, FS_AddElement
        <4> QED BY <3>1, <4>2, <4>3
      <3>3. /\ Cardinality(failed) \in Nat /\ Cardinality(unforked) \in Nat
            /\ Cardinality(unforked') \in Nat
        BY <3>2, FS_CardinalityType DEF Recorded
      <3>4. Cardinality(failed) + Cardinality(unforked') <= MaxFaults
        BY <3>1, <3>2, <3>3, MymakeAssumption
      <3> QED BY <2>1, <2>2, <3>1, <3>2, <3>4 DEF Recorded
    <2>5. CASE ExecFails(p)
      <3>1. /\ UNCHANGED <<ran, unforked>> /\ failed' = failed \cup {p}
            /\ Cardinality(failed) + Cardinality(unforked) < MaxFaults
        BY <2>5 DEF ExecFails, MayFail
      <3>2. IsFiniteSet(failed') /\ Cardinality(failed') <= Cardinality(failed) + 1
        <4>1. IsFiniteSet(failed) BY DEF Recorded
        <4>2. Cardinality(failed) \in Nat BY <4>1, FS_CardinalityType
        <4>3. /\ IsFiniteSet(failed \cup {p})
              /\ \/ Cardinality(failed \cup {p}) = Cardinality(failed)
                 \/ Cardinality(failed \cup {p}) = Cardinality(failed) + 1
          BY <4>1, FS_AddElement
        <4> QED BY <3>1, <4>2, <4>3
      <3>3. /\ Cardinality(failed) \in Nat /\ Cardinality(unforked) \in Nat
            /\ Cardinality(failed') \in Nat
        BY <3>2, FS_CardinalityType DEF Recorded
      <3>4. Cardinality(failed') + Cardinality(unforked) <= MaxFaults
        BY <3>1, <3>2, <3>3, MymakeAssumption
      <3> QED BY <2>1, <2>2, <3>1, <3>2, <3>4 DEF Recorded
    <2>6. CASE Fork(p) \/ ExecNull(p) \/ ProgramEnds(p) \/ Wait(p) \/ Leave(p)
      BY <2>1, <2>2, <2>6
         DEF Fork, ExecNull, ProgramEnds, Wait, Leave, history, Recorded
    <2> QED BY <1>2, <2>3, <2>4, <2>5, <2>6 DEF Work
  <1>3. CASE UNCHANGED vars BY <1>3 DEF vars, history, Recorded
  <1> QED BY <1>1, <1>2, <1>3 DEF Next

\* The step's process is the only one that does not wait, or whose child is gone:
\* all others are older, and it descends from them.
LEMMA OthersOlder ==
  ASSUME Line, Descent, NEW p \in DOMAIN procs,
         procs[p].st # "wait" \/ Child(p) \notin DOMAIN procs,
         NEW q \in DOMAIN procs, q # p
  PROVE  /\ Len(q) < Len(p) /\ Descends(p, q) /\ p[Len(q) + 1] = procs[q].at
         /\ procs[q].st = "wait" /\ Len(q) \in Nat /\ Len(p) \in Nat
         /\ procs[q].at \in Nat
  <1>1. Len(q) < Len(p) BY Youngest
  <1>2. Len(q) \in Nat /\ Len(p) \in Nat BY DEF Line, Processes
  <1>3. procs[q].st = "wait" BY <1>1 DEF Line, OlderWait
  <1>4. Descends(p, q) /\ p[Len(q) + 1] = procs[q].at BY <1>1 DEF Descent
  <1> QED BY <1>1, <1>2, <1>3, <1>4 DEF Line, Positions

LEMMA OneProcess ==
  ASSUME procs' = <<>> \/ procs' = [p \in {<<>>} |-> [at |-> 1, st |-> "loop"]]
  PROVE  /\ \A p \in DOMAIN procs' : p = <<>> /\ procs'[p].st = "loop" /\ procs'[p].at = 1
         /\ Descent' /\ BornFor'
  <1>1. DOMAIN <<>> = {} OBVIOUS
  <1>2. \A p \in DOMAIN procs' : p = <<>> /\ procs'[p].st = "loop" /\ procs'[p].at = 1
    BY <1>1
  <1>3. Descent'
    <2> SUFFICES ASSUME NEW p \in DOMAIN procs', NEW q \in DOMAIN procs', Len(p) < Len(q)
                 PROVE  Descends(q, p) /\ q[Len(p) + 1] = procs'[p].at
      BY DEF Descent
    <2>1. p = <<>> /\ q = <<>> BY <1>2
    <2> QED BY <2>1
  <1>4. BornFor' BY <1>2 DEF BornFor
  <1> QED BY <1>2, <1>3, <1>4

LEMMA DescentStep == Line /\ Planned /\ Descent /\ [Next]_vars => Descent'
  <1> SUFFICES ASSUME Line, Planned, Descent, [Next]_vars PROVE Descent' OBVIOUS
  <1>1. CASE MakeAll \/ PrintRecipes \/ DescribeRules \/ MakeTarget \/ CannotOpen \/ Refuse
    BY <1>1, StartIs, OneProcess
  <1>2. ASSUME NEW p \in DOMAIN procs, Work(p) \/ ForkFails(p) \/ ExecFails(p)
        PROVE  Descent'
    <2>1. ASSUME NEW at, NEW st, procs' = Goto(p, at, st),
                 procs[p].st # "wait" \/ Child(p) \notin DOMAIN procs
          PROVE  Descent'
      <3>1. /\ DOMAIN procs' = DOMAIN procs
            /\ \A q \in DOMAIN procs : q # p => procs'[q] = procs[q]
        BY <2>1, GotoIs
      <3>2. \A q \in DOMAIN procs : ~(Len(p) < Len(q))
        <4> SUFFICES ASSUME NEW q \in DOMAIN procs, Len(p) < Len(q) PROVE FALSE OBVIOUS
        <4>1. q # p BY DEF Line, Processes
        <4>2. Len(q) < Len(p) /\ Len(q) \in Nat /\ Len(p) \in Nat
          BY <2>1, <4>1, OthersOlder
        <4> QED BY <4>2
      <3> QED BY <3>1, <3>2 DEF Descent
    <2>2. CASE procs' = Gone(p)
      <3>1. /\ DOMAIN procs' = DOMAIN procs \ {p}
            /\ \A q \in DOMAIN procs \ {p} : procs'[q] = procs[q]
        BY <2>2, GoneIs
      <3> QED BY <3>1 DEF Descent
    <2>3. CASE Fork(p)
      <3> DEFINE c == Child(p)
      <3>1. /\ DOMAIN procs' = DOMAIN procs \cup {c}
            /\ procs'[p] = [at |-> procs[p].at, st |-> "wait"]
            /\ \A q \in DOMAIN procs : q # p => procs'[q] = procs[q]
            /\ c \in Seq(Nat) /\ Len(c) = Len(p) + 1
        BY <2>3, ForkIs
      <3>2. p \in Seq(Nat) /\ procs[p].at \in Nat BY <1>2, StepIs
      <3>3. c[Len(p) + 1] = procs[p].at /\ \A k \in 1 .. Len(p) : c[k] = p[k]
        BY <3>2 DEF Child, At
      <3>4. \A q \in DOMAIN procs : procs'[q].at = procs[q].at BY <3>1
      <3>5. procs[p].st # "wait" BY <2>3 DEF Fork, Is
      <3> HIDE DEF c
      <3> SUFFICES ASSUME NEW q \in DOMAIN procs', NEW r \in DOMAIN procs', Len(q) < Len(r)
                   PROVE  Descends(r, q) /\ r[Len(q) + 1] = procs'[q].at
        BY DEF Descent
      <3>6. \A x \in DOMAIN procs : x # p => Len(x) < Len(p) /\ Len(x) \in Nat
        BY <3>5, OthersOlder
      <3>7. q # c
        <4>1. Len(p) \in Nat BY <3>2
        <4> QED BY <3>1, <3>6, <4>1
      <3>8. CASE r \in DOMAIN procs
        <4>1. q \in DOMAIN procs BY <3>1, <3>7
        <4> QED BY <3>4, <3>8, <4>1 DEF Descent
      <3>9. CASE r = c /\ q = p BY <3>1, <3>3, <3>9 DEF Descends
      <3>10. CASE r = c /\ q # p
        <4>1. q \in DOMAIN procs BY <3>1, <3>7
        <4>2. /\ Len(q) < Len(p) /\ Descends(p, q) /\ p[Len(q) + 1] = procs[q].at
              /\ Len(q) \in Nat /\ Len(p) \in Nat
          BY <3>5, <3>10, <4>1, OthersOlder
        <4>3. Len(q) + 1 \in 1 .. Len(p) /\ \A k \in 1 .. Len(q) : k \in 1 .. Len(p)
          BY <4>2
        <4>4. \A k \in 1 .. Len(q) : r[k] = q[k]
          BY <3>3, <3>10, <4>2, <4>3 DEF Descends
        <4>5. r[Len(q) + 1] = procs[q].at BY <3>3, <3>10, <4>2, <4>3
        <4> QED BY <3>4, <4>1, <4>4, <4>5 DEF Descends
      <3> QED BY <3>1, <3>8, <3>9, <3>10
    <2> QED BY <1>2, <2>1, <2>2, <2>3
            DEF Work, ForkFails, Exec, ExecFails, ExecNull, ProgramEnds, Wait, WaitOver,
                Leave, Is
  <1>3. CASE UNCHANGED vars BY <1>3 DEF vars, Descent
  <1> QED BY <1>1, <1>2, <1>3 DEF Next

LEMMA BornForStep == Line /\ Planned /\ BornFor /\ [Next]_vars => BornFor'
  <1> SUFFICES ASSUME Line, Planned, BornFor, [Next]_vars PROVE BornFor' OBVIOUS
  <1>1. CASE MakeAll \/ PrintRecipes \/ DescribeRules \/ MakeTarget \/ CannotOpen \/ Refuse
    BY <1>1, StartIs, OneProcess
  <1>2. ASSUME NEW p \in DOMAIN procs, Work(p) \/ ForkFails(p) \/ ExecFails(p)
        PROVE  BornFor'
    <2>1. ASSUME NEW at, NEW st, st # "born", procs' = Goto(p, at, st)
          PROVE  BornFor'
      <3>1. /\ DOMAIN procs' = DOMAIN procs /\ procs'[p] = [at |-> at, st |-> st]
            /\ \A q \in DOMAIN procs : q # p => procs'[q] = procs[q]
        BY <2>1, GotoIs
      <3>2. procs'[p].st # "born" BY <2>1, <3>1
      <3> QED BY <3>1, <3>2 DEF BornFor
    <2>2. CASE procs' = Gone(p)
      <3>1. /\ DOMAIN procs' = DOMAIN procs \ {p}
            /\ \A q \in DOMAIN procs \ {p} : procs'[q] = procs[q]
        BY <2>2, GoneIs
      <3> QED BY <3>1 DEF BornFor
    <2>3. CASE Fork(p)
      <3>1. /\ DOMAIN procs' = DOMAIN procs \cup {Child(p)}
            /\ procs'[Child(p)] = [at |-> procs[p].at, st |-> "born"]
            /\ procs'[p] = [at |-> procs[p].at, st |-> "wait"]
            /\ \A q \in DOMAIN procs : q # p => procs'[q] = procs[q]
        BY <2>3, ForkIs
      <3>2. Child(p) # <<>> /\ Last(Child(p)) = procs[p].at
        <4>1. p \in Seq(Nat) /\ procs[p].at \in Nat BY <1>2, StepIs
        <4> QED BY <4>1 DEF Child, At, Last
      <3>3. procs'[p].st # "born" BY <3>1
      <3> QED BY <3>1, <3>2, <3>3 DEF BornFor
    <2> QED BY <1>2, <2>1, <2>2, <2>3
            DEF Work, ForkFails, Exec, ExecFails, ExecNull, ProgramEnds, Wait, Leave
  <1>3. CASE UNCHANGED vars BY <1>3 DEF vars, BornFor
  <1> QED BY <1>1, <1>2, <1>3 DEF Next

LEMMA FreshStep ==
  Line /\ Planned /\ Recorded /\ Descent /\ Fresh /\ [Next]_vars => Fresh'
  <1> SUFFICES ASSUME Line, Planned, Recorded, Descent, Fresh, [Next]_vars PROVE Fresh'
    OBVIOUS
  <1>1. CASE MakeAll \/ PrintRecipes \/ DescribeRules \/ MakeTarget \/ CannotOpen \/ Refuse
    <2>1. failed' = {} BY <1>1, StartIs DEF history
    <2> QED BY <2>1 DEF Fresh
  <1>2. ASSUME NEW p \in DOMAIN procs, Work(p) \/ ForkFails(p) \/ ExecFails(p)
        PROVE  Fresh'
    <2>0. p \in Seq(Nat) /\ procs[p].at \in Nat /\ Len(p) \in Nat
      <3>1. p \in Seq(Nat) /\ procs[p].at \in Nat BY <1>2, StepIs
      <3> QED BY <3>1
    <2>1. \A q \in failed : q \in Seq(Nat) BY DEF Recorded
    \* p goes on in the loop, at the next place.
    <2>2. ASSUME procs' = Goto(p, procs[p].at + 1, "loop"), failed' = failed,
                 procs[p].st \in {"loop", "wait"}
          PROVE  Fresh'
      <3>1. /\ DOMAIN procs' = DOMAIN procs
            /\ procs'[p] = [at |-> procs[p].at + 1, st |-> "loop"]
            /\ \A q \in DOMAIN procs : q # p => procs'[q] = procs[q]
        BY <2>2, GotoIs
      <3>2. ASSUME NEW q \in failed, Descends(q, p)
            PROVE  q[Len(p) + 1] < procs[p].at + 1
        <4>1. q \in Seq(Nat) /\ Len(p) < Len(q) BY <2>1, <3>2 DEF Descends
        <4>2. q[Len(p) + 1] \in Nat
          <5>1. Len(p) + 1 \in 1 .. Len(q) BY <2>0, <4>1
          <5> QED BY <4>1, <5>1
        <4>3. q[Len(p) + 1] <= procs[p].at BY <2>0, <2>2, <3>2, <4>2 DEF Fresh
        <4> QED BY <2>0, <4>2, <4>3
      <3>3. \A q \in DOMAIN procs : q # p =>
              /\ procs'[q].st = "born" => q \notin failed'
              /\ \A r \in failed' : Descends(r, q) =>
                   /\ procs'[q].st # "born"
                   /\ procs'[q].st = "wait" => r[Len(q) + 1] <= procs'[q].at
                   /\ procs'[q].st = "loop" => r[Len(q) + 1] < procs'[q].at
        BY <2>2, <3>1 DEF Fresh
      <3>4. /\ procs'[p].st = "loop" /\ procs'[p].at = procs[p].at + 1
            /\ procs'[p].st # "born" /\ procs'[p].st # "wait"
        BY <3>1
      <3> QED BY <2>2, <3>1, <3>2, <3>3, <3>4 DEF Fresh
    <2>3. CASE Exec(p)
      <3>1. procs' = Goto(p, procs[p].at, "program") /\ failed' = failed
        BY <2>3 DEF Exec, At
      <3>2. /\ DOMAIN procs' = DOMAIN procs
            /\ procs'[p] = [at |-> procs[p].at, st |-> "program"]
            /\ \A q \in DOMAIN procs : q # p => procs'[q] = procs[q]
        BY <3>1, GotoIs
      <3>3. procs'[p].st = "program" BY <3>2
      <3> QED BY <3>1, <3>2, <3>3 DEF Fresh
    <2>4. CASE procs' = Gone(p) /\ failed' = failed
      <3>1. /\ DOMAIN procs' = DOMAIN procs \ {p}
            /\ \A q \in DOMAIN procs \ {p} : procs'[q] = procs[q]
        BY <2>4, GoneIs
      <3> QED BY <2>4, <3>1 DEF Fresh
    <2>5. CASE ExecFails(p)
      <3>1. /\ procs' = Goto(p, procs[p].at + 1, "loop") /\ failed' = failed \cup {p}
            /\ procs[p].st = "born"
        BY <2>5 DEF ExecFails, AfterFailure, At, Is
      <3>2. /\ DOMAIN procs' = DOMAIN procs
            /\ procs'[p] = [at |-> procs[p].at + 1, st |-> "loop"]
            /\ \A q \in DOMAIN procs : q # p => procs'[q] = procs[q]
        BY <3>1, GotoIs
      <3>3. \A q \in failed' : ~Descends(q, p)
        <4>1. \A q \in failed : ~Descends(q, p) BY <3>1 DEF Fresh
        <4>2. ~Descends(p, p) BY <2>0 DEF Descends
        <4> QED BY <3>1, <4>1, <4>2
      <3>4. procs'[p].st = "loop" BY <3>2
      <3>5. ASSUME NEW q \in DOMAIN procs, q # p
            PROVE  /\ procs'[q].st = "wait"
                   /\ \A r \in failed' : Descends(r, q) => r[Len(q) + 1] <= procs'[q].at
        <4>1. /\ procs[q].st = "wait" /\ p[Len(q) + 1] = procs[q].at
              /\ procs[q].at \in Nat
          <5>1. procs[p].st # "wait" BY <3>1
          <5> QED BY <3>5, <5>1, OthersOlder
        <4>2. procs'[q] = procs[q] BY <3>2, <3>5
        <4>3. \A r \in failed : Descends(r, q) => r[Len(q) + 1] <= procs[q].at
          BY <4>1 DEF Fresh
        <4>4. p[Len(q) + 1] <= procs[q].at BY <4>1
        <4> QED BY <3>1, <4>1, <4>2, <4>3, <4>4
      <3>6. \A q \in DOMAIN procs : q # p => procs'[q].st # "born" /\ procs'[q].st # "loop"
        BY <3>5
      <3> QED BY <3>2, <3>3, <3>4, <3>5, <3>6 DEF Fresh
    <2>6. CASE Fork(p)
      <3> DEFINE c == Child(p)
      <3>1. /\ DOMAIN procs' = DOMAIN procs \cup {c}
            /\ procs'[c] = [at |-> procs[p].at, st |-> "born"]
            /\ procs'[p] = [at |-> procs[p].at, st |-> "wait"]
            /\ \A q \in DOMAIN procs : q # p => procs'[q] = procs[q]
            /\ c \in Seq(Nat) /\ Len(c) = Len(p) + 1
        BY <2>6, ForkIs
      <3>2. procs[p].st = "loop" /\ failed' = failed BY <2>6 DEF Fork, Is, history
      <3>3. c[Len(p) + 1] = procs[p].at /\ \A k \in 1 .. Len(p) : c[k] = p[k]
        BY <2>0 DEF Child, At
      <3> HIDE DEF c
      <3>4. \A q \in failed : Descends(q, p) =>
              q[Len(p) + 1] < procs[p].at /\ q[Len(p) + 1] \in Nat
        <4> SUFFICES ASSUME NEW q \in failed, Descends(q, p)
                     PROVE  q[Len(p) + 1] < procs[p].at /\ q[Len(p) + 1] \in Nat
          OBVIOUS
        <4>1. q \in Seq(Nat) /\ Len(p) < Len(q) BY <2>1 DEF Descends
        <4>2. Len(p) + 1 \in 1 .. Len(q) BY <2>0, <4>1
        <4> QED BY <3>2, <4>1, <4>2 DEF Fresh
      <3>5. ASSUME NEW q \in failed, q = c \/ Descends(q, c) PROVE FALSE
        <4>1. Len(p) < Len(q) /\ q[Len(p) + 1] = procs[p].at
              /\ \A k \in 1 .. Len(p) : q[k] = p[k]
          <5>1. CASE q = c BY <2>0, <3>1, <3>3, <5>1
          <5>2. CASE Descends(q, c)
            <6>1. q \in Seq(Nat) /\ Len(q) \in Nat BY <2>1
            <6>2. Len(p) + 1 \in 1 .. Len(c) /\ \A k \in 1 .. Len(p) : k \in 1 .. Len(c)
              BY <2>0, <3>1
            <6>3. Len(c) < Len(q) /\ \A k \in 1 .. Len(c) : q[k] = c[k]
              BY <5>2 DEF Descends
            <6> QED BY <2>0, <3>1, <3>3, <6>1, <6>2, <6>3
          <5> QED BY <3>5, <5>1, <5>2
        <4>2. Descends(q, p) BY <4>1 DEF Descends
        <4>3. q[Len(p) + 1] < procs[p].at BY <3>4, <4>2
        <4> QED BY <2>0, <4>1, <4>3
      <3>6. /\ procs'[c].st = "born" /\ procs'[p].st = "wait" /\ procs'[p].at = procs[p].at
            /\ procs'[p].st # "born" /\ procs'[p].st # "loop"
        BY <3>1
      <3>7. \A q \in failed : Descends(q, p) => q[Len(p) + 1] <= procs[p].at
        BY <2>0, <3>4
      <3>8. \A q \in DOMAIN procs : q # p =>
              /\ procs'[q].st = "born" => q \notin failed'
              /\ \A r \in failed' : Descends(r, q) =>
                   /\ procs'[q].st # "born"
                   /\ procs'[q].st = "wait" => r[Len(q) + 1] <= procs'[q].at
                   /\ procs'[q].st = "loop" => r[Len(q) + 1] < procs'[q].at
        BY <3>1, <3>2 DEF Fresh
      <3> QED BY <3>1, <3>2, <3>5, <3>6, <3>7, <3>8 DEF Fresh
    <2> QED BY <1>2, <2>2, <2>3, <2>4, <2>5, <2>6
            DEF Work, ForkFails, ExecNull, ProgramEnds, Wait, Leave, Is, At, history
  <1>3. CASE UNCHANGED vars BY <1>3 DEF vars, history, Fresh
  <1> QED BY <1>1, <1>2, <1>3 DEF Next

(***************************************************************************)
(* Counting.                                                               *)
(***************************************************************************)
LEMMA Counts ==
  ASSUME Recorded, NEW place
  PROVE  /\ IsFiniteSet({n \in DOMAIN ran : ran[n] = place}) /\ Times(place) \in Nat
         /\ IsFiniteSet(FailedAt(place)) /\ Cardinality(FailedAt(place)) \in Nat
         /\ IsFiniteSet(FailedBefore(place)) /\ Cardinality(FailedBefore(place)) \in Nat
         /\ IsFiniteSet(Owing(place)) /\ Cardinality(Owing(place)) \in Nat
  <1>1. IsFiniteSet(failed) /\ IsFiniteSet(DOMAIN procs) /\ ran \in Seq(Nat) BY DEF Recorded
  <1>2. IsFiniteSet(DOMAIN ran)
    <2>1. DOMAIN ran = 1 .. Len(ran) /\ 1 \in Int /\ Len(ran) \in Int BY <1>1
    <2> QED BY <2>1, FS_Interval
  <1>3. /\ {n \in DOMAIN ran : ran[n] = place} \in SUBSET DOMAIN ran
        /\ FailedAt(place) \in SUBSET failed /\ FailedBefore(place) \in SUBSET failed
        /\ Owing(place) \in SUBSET DOMAIN procs
    BY DEF FailedAt, FailedBefore, Owing
  <1>4. /\ IsFiniteSet({n \in DOMAIN ran : ran[n] = place})
        /\ IsFiniteSet(FailedAt(place)) /\ IsFiniteSet(FailedBefore(place))
        /\ IsFiniteSet(Owing(place))
    BY <1>1, <1>2, <1>3, FS_Subset
  <1> QED BY <1>4, FS_CardinalityType DEF Times

LEMMA AddOne ==
  ASSUME NEW S, IsFiniteSet(S), NEW x, x \notin S
  PROVE  Cardinality(S \cup {x}) = Cardinality(S) + 1
  BY FS_AddElement

LEMMA DropOne ==
  ASSUME NEW S, IsFiniteSet(S), NEW x \in S
  PROVE  Cardinality(S) = Cardinality(S \ {x}) + 1
  <1>1. Cardinality(S \ {x}) = Cardinality(S) - 1 BY FS_RemoveElement
  <1>2. Cardinality(S) \in Nat BY FS_CardinalityType
  <1> QED BY <1>1, <1>2

\* A process that goes on, or goes, changes what it owes itself.
LEMMA OwingAfterGoto ==
  ASSUME NEW p \in DOMAIN procs, NEW at, NEW st, procs' = Goto(p, at, st), NEW place
  PROVE  /\ p \in Owing(place)' <=> Owes([at |-> at, st |-> st], place)
         /\ \A q : q # p => (q \in Owing(place)' <=> q \in Owing(place))
  <1>1. /\ DOMAIN procs' = DOMAIN procs /\ procs'[p] = [at |-> at, st |-> st]
        /\ \A q \in DOMAIN procs : q # p => procs'[q] = procs[q]
    BY GotoIs
  <1> QED BY <1>1 DEF Owing

LEMMA OwingAfterGone ==
  ASSUME NEW p \in DOMAIN procs, procs' = Gone(p), NEW place
  PROVE  /\ p \notin Owing(place)'
         /\ \A q : q # p => (q \in Owing(place)' <=> q \in Owing(place))
  <1>1. /\ DOMAIN procs' = DOMAIN procs \ {p}
        /\ \A q \in DOMAIN procs \ {p} : procs'[q] = procs[q]
    BY GoneIs
  <1> QED BY <1>1 DEF Owing

\* The account of a place goes on to hold when its sides change alike.
LEMMA Balance ==
  ASSUME Recorded, Recorded', NEW place, Account(place),
         NEW dt \in Int, NEW da \in Int, NEW do \in Int, NEW db \in Int,
         Times(place)' = Times(place) + dt,
         Cardinality(FailedAt(place))' = Cardinality(FailedAt(place)) + da,
         Cardinality(Owing(place))' = Cardinality(Owing(place)) + do,
         Cardinality(FailedBefore(place))' = Cardinality(FailedBefore(place)) + db,
         dt + da + do <= db,
         unforked' = {} => unforked = {} /\ dt + da + do = db
  PROVE  Account(place)'
  <1>1. PICK t \in Nat, a \in Nat, o \in Nat, b \in Nat :
          /\ t = Times(place) /\ a = Cardinality(FailedAt(place))
          /\ o = Cardinality(Owing(place)) /\ b = Cardinality(FailedBefore(place))
    BY Counts
  <1>2. t + a + o <= 1 + b /\ (unforked = {} => t + a + o = 1 + b)
    BY <1>1 DEF Account
  <1>3. (t + dt) + (a + da) + (o + do) <= 1 + (b + db) BY <1>2
  <1>4. unforked' = {} => (t + dt) + (a + da) + (o + do) = 1 + (b + db) BY <1>2
  <1> QED BY <1>1, <1>3, <1>4 DEF Account

LEMMA FailedUnchanged ==
  ASSUME failed' = failed, NEW place
  PROVE  /\ Cardinality(FailedAt(place))' = Cardinality(FailedAt(place))
         /\ Cardinality(FailedBefore(place))' = Cardinality(FailedBefore(place))
  BY DEF FailedAt, FailedBefore

\* What a step of process p does to the account of a place with a program.
LEMMA AccountsStep == Line /\ Books /\ [Next]_vars => Accounts'
  <1> SUFFICES ASSUME Line, Books, [Next]_vars PROVE Accounts' OBVIOUS
  <1>0. Planned /\ Places /\ Recorded /\ BornFor /\ Descent /\ Fresh /\ Accounts
    BY DEF Books
  <1>1. Recorded' /\ Planned' BY <1>0, PlannedStep, RecordedStep
  <1>2. CASE MakeAll \/ PrintRecipes \/ DescribeRules \/ MakeTarget \/ CannotOpen \/ Refuse
    <2> SUFFICES ASSUME status' = "run", NEW place \in DOMAIN plan' PROVE Account(place)'
      BY DEF Accounts
    <2>1. /\ procs' = [p \in {<<>>} |-> [at |-> 1, st |-> "loop"]]
          /\ ran' = <<>> /\ failed' = {}
      BY <1>0, <1>2, StartIs DEF history
    <2>2. place \in Nat /\ 1 <= place
      <3>1. plan' \in Seq(CommandOf(lines)') BY <1>1 DEF Planned
      <3> QED BY <3>1
    <2>3. Owes([at |-> 1, st |-> "loop"], place) BY <2>2 DEF Owes
    <2>4. Owing(place)' = {<<>>}
      <3>1. DOMAIN procs' = {<<>>} /\ procs'[<<>>] = [at |-> 1, st |-> "loop"] BY <2>1
      <3> QED BY <2>3, <3>1 DEF Owing
    <2>5. FailedAt(place)' = {} /\ FailedBefore(place)' = {}
      BY <2>1 DEF FailedAt, FailedBefore
    <2>6. Times(place)' = 0
      <3>1. {n \in DOMAIN ran' : ran'[n] = place} = {} BY <2>1
      <3> QED BY <3>1, FS_EmptySet DEF Times
    <2>7. /\ Cardinality(Owing(place))' = 1 /\ Cardinality(FailedAt(place))' = 0
          /\ Cardinality(FailedBefore(place))' = 0
      BY <2>4, <2>5, FS_EmptySet, FS_Singleton
    <2> QED BY <2>6, <2>7 DEF Account
  <1>3. ASSUME NEW p \in DOMAIN procs, Work(p) \/ ForkFails(p) \/ ExecFails(p)
        PROVE  Accounts'
    <2>1. /\ status = "run" /\ UNCHANGED plan
          /\ DOMAIN plan = 1 .. Len(plan) /\ Len(plan) \in Nat
          /\ p \in Seq(Nat) /\ procs[p].at \in Nat /\ procs[p].at <= Len(plan) + 1
      BY <1>0, <1>3, StepIs DEF Places
    <2> SUFFICES ASSUME NEW place \in 1 .. Len(plan), plan[place].argv # <<>>
                 PROVE  Account(place)'
      BY <2>1 DEF Accounts
    <2>2. Account(place) /\ place \in Nat BY <1>0, <2>1 DEF Accounts
    <2>3. PICK a \in Nat : a = procs[p].at BY <2>1
    <2>4. IsFiniteSet(Owing(place)) /\ IsFiniteSet(FailedAt(place))
          /\ IsFiniteSet(FailedBefore(place))
          /\ IsFiniteSet({n \in DOMAIN ran : ran[n] = place})
          /\ Times(place) \in Nat /\ Cardinality(FailedAt(place)) \in Nat
          /\ Cardinality(FailedBefore(place)) \in Nat /\ Cardinality(Owing(place)) \in Nat
          /\ Cardinality(Owing(place) \ {p}) \in Nat
      <3>1. /\ IsFiniteSet(Owing(place)) /\ IsFiniteSet(FailedAt(place))
            /\ IsFiniteSet(FailedBefore(place))
            /\ IsFiniteSet({n \in DOMAIN ran : ran[n] = place}) /\ Times(place) \in Nat
        BY <1>0, Counts
      <3>2. IsFiniteSet(Owing(place) \ {p}) BY <3>1, FS_RemoveElement
      <3> QED BY <3>1, <3>2, FS_CardinalityType
    <2>5. p \in Owing(place) <=> Owes(procs[p], place) BY DEF Owing
    \* A process that owes the same before and after.
    <2>6. ASSUME UNCHANGED history, Owing(place)' = Owing(place) PROVE Account(place)'
      BY <2>2, <2>6 DEF Account, Times, FailedAt, FailedBefore, history
    <2>7. CASE Fork(p)
      <3> DEFINE c == Child(p)
      <3>1. /\ DOMAIN procs' = DOMAIN procs \cup {c} /\ c \notin DOMAIN procs
            /\ procs'[c] = [at |-> a, st |-> "born"]
            /\ procs'[p] = [at |-> a, st |-> "wait"]
            /\ \A q \in DOMAIN procs : q # p => procs'[q] = procs[q]
        BY <2>3, <2>7, ForkIs
      <3>2. procs[p].st = "loop" /\ UNCHANGED history BY <2>7 DEF Fork, Is
      <3> HIDE DEF c
      <3>3. p # c /\ c \notin Owing(place) BY <3>1 DEF Owing
      <3>4. \A q : q # p /\ q # c => (q \in Owing(place)' <=> q \in Owing(place))
        BY <3>1 DEF Owing
      <3>5. /\ p \in Owing(place)' <=> a < place
            /\ c \in Owing(place)' <=> a = place
            /\ p \in Owing(place) <=> a <= place
        <4>1. p \in Owing(place)' <=> Owes([at |-> a, st |-> "wait"], place)
          BY <3>1 DEF Owing
        <4>2. c \in Owing(place)' <=> Owes([at |-> a, st |-> "born"], place)
          BY <3>1 DEF Owing
        <4> QED BY <2>3, <2>5, <3>2, <4>1, <4>2 DEF Owes
      <3>6. CASE a # place
        <4>0. \A q : q \in Owing(place)' <=> q \in Owing(place)
          BY <2>2, <3>3, <3>4, <3>5, <3>6
        <4>1. Owing(place)' = Owing(place) BY <4>0, Zenon
        <4> QED BY <2>6, <3>2, <4>1
      <3>7. CASE a = place
        <4>1. p \in Owing(place) /\ p \notin Owing(place)' /\ c \in Owing(place)'
          BY <2>2, <3>5, <3>7
        <4>2. Owing(place)' = (Owing(place) \ {p}) \cup {c} BY <3>3, <3>4, <4>1
        <4>3. IsFiniteSet(Owing(place) \ {p}) BY <2>4, FS_RemoveElement
        <4>4. c \notin Owing(place) \ {p} BY <3>3
        <4>5. Cardinality(Owing(place)') = Cardinality(Owing(place) \ {p}) + 1
          BY <4>2, <4>3, <4>4, AddOne
        <4>6. Cardinality(Owing(place)') = Cardinality(Owing(place))
          BY <2>4, <4>1, <4>5, DropOne
        <4> QED BY <2>2, <3>2, <4>6 DEF Account, Times, FailedAt, FailedBefore, history
      <3> QED BY <3>6, <3>7
    <2>8. CASE ForkFails(p)
      <3>1. /\ procs' = Goto(p, a + 1, "loop") /\ procs[p].st = "loop"
            /\ ran' = ran /\ failed' = failed /\ unforked' # {}
        BY <2>3, <2>8 DEF ForkFails, Is, At
      <3>2. /\ p \in Owing(place)' <=> Owes([at |-> a + 1, st |-> "loop"], place)
            /\ \A q : q # p => (q \in Owing(place)' <=> q \in Owing(place))
        BY <3>1, OwingAfterGoto
      <3>3. /\ p \in Owing(place)' <=> a + 1 <= place
            /\ p \in Owing(place) <=> a <= place
        BY <2>3, <2>5, <3>1, <3>2 DEF Owes
      <3>4. Times(place)' = Times(place) /\ Times(place) \in Nat
        BY <2>4, <3>1 DEF Times
      <3>5. Cardinality(FailedAt(place))' = Cardinality(FailedAt(place)) + 0
            /\ Cardinality(FailedBefore(place))' = Cardinality(FailedBefore(place)) + 0
        BY <2>4, <3>1, FailedUnchanged
      <3>6. CASE a # place
        <4>0. \A q : q \in Owing(place)' <=> q \in Owing(place) BY <2>2, <3>2, <3>3, <3>6
        <4>1. Owing(place)' = Owing(place) BY <4>0, Zenon
        <4>2. Cardinality(Owing(place))' = Cardinality(Owing(place)) + 0
          BY <2>4, <4>1
        <4>3. Times(place)' = Times(place) + 0 BY <3>4
        <4> QED BY <1>0, <1>1, <2>2, <3>1, <3>5, <4>2, <4>3, Balance
      <3>7. CASE a = place
        <4>1. p \in Owing(place) /\ p \notin Owing(place)' BY <2>2, <3>3, <3>7
        <4>2. Owing(place)' = Owing(place) \ {p} BY <3>2, <4>1
        <4>3. Cardinality(Owing(place)) = Cardinality(Owing(place)') + 1
          BY <2>4, <4>1, <4>2, DropOne
        <4>4. Cardinality(Owing(place)') \in Nat BY <2>4, <4>2
        <4>5. Cardinality(Owing(place))' = Cardinality(Owing(place)) + (-1)
          BY <4>3, <4>4
        <4>6. Times(place)' = Times(place) + 0 BY <3>4
        <4> QED BY <1>0, <1>1, <2>2, <3>1, <3>5, <4>5, <4>6, Balance
      <3> QED BY <3>6, <3>7
    <2>9. CASE Exec(p)
      <3>1. /\ procs' = Goto(p, a, "program") /\ procs[p].st = "born"
            /\ ran' = Append(ran, a) /\ failed' = failed /\ unforked' = unforked
        BY <2>3, <2>9 DEF Exec, Is, At
      <3>2. /\ p \in Owing(place)' <=> Owes([at |-> a, st |-> "program"], place)
            /\ \A q : q # p => (q \in Owing(place)' <=> q \in Owing(place))
        BY <3>1, OwingAfterGoto
      <3>3. p \notin Owing(place)' /\ (p \in Owing(place) <=> a = place)
        BY <2>3, <2>5, <3>1, <3>2 DEF Owes
      <3>4. Owing(place)' = Owing(place) \ {p} BY <3>2, <3>3
      <3>5. Cardinality(FailedAt(place))' = Cardinality(FailedAt(place)) + 0
            /\ Cardinality(FailedBefore(place))' = Cardinality(FailedBefore(place)) + 0
        BY <2>4, <3>1, FailedUnchanged
      <3> DEFINE R == {n \in DOMAIN ran : ran[n] = place}
                 S == {n \in DOMAIN ran' : ran'[n] = place}
      <3>6. ran \in Seq(Nat) /\ Len(ran) \in Nat BY <1>0 DEF Recorded
      <3>7. /\ DOMAIN ran = 1 .. Len(ran) /\ DOMAIN ran' = 1 .. Len(ran) + 1
            /\ \A n \in 1 .. Len(ran) : ran'[n] = ran[n]
            /\ ran'[Len(ran) + 1] = a
        BY <3>1, <3>6
      <3>8. IsFiniteSet(R) /\ Times(place) = Cardinality(R) /\ Times(place)' = Cardinality(S)
        BY <2>4 DEF Times
      <3>9. CASE a # place
        <4>1. S = R BY <3>6, <3>7, <3>9
        <4>2. Owing(place)' = Owing(place) BY <3>3, <3>4, <3>9
        <4> HIDE DEF R, S
        <4>3. Cardinality(Owing(place))' = Cardinality(Owing(place)) + 0
          BY <2>4, <4>2
        <4>4. Times(place)' = Times(place) + 0 BY <2>4, <3>8, <4>1
        <4> QED BY <1>0, <1>1, <2>2, <3>1, <3>5, <4>3, <4>4, Balance
      <3>10. CASE a = place
        <4>1. S = R \cup {Len(ran) + 1} /\ Len(ran) + 1 \notin R
          BY <3>6, <3>7, <3>10
        <4> HIDE DEF R, S
        <4>2. Times(place)' = Times(place) + 1 BY <3>8, <4>1, AddOne
        <4>3. Cardinality(Owing(place)) = Cardinality(Owing(place)') + 1
          BY <2>4, <3>3, <3>4, <3>10, DropOne
        <4>4. Cardinality(Owing(place)') \in Nat BY <2>4, <3>4
        <4>5. Cardinality(Owing(place))' = Cardinality(Owing(place)) + (-1)
          BY <4>3, <4>4
        <4> QED BY <1>0, <1>1, <2>2, <3>1, <3>5, <4>2, <4>5, Balance
      <3> QED BY <3>9, <3>10
    <2>10. CASE ExecFails(p)
      <3>1. /\ procs' = Goto(p, a + 1, "loop") /\ procs[p].st = "born"
            /\ ran' = ran /\ failed' = failed \cup {p} /\ unforked' = unforked
        BY <2>3, <2>10 DEF ExecFails, AfterFailure, Is, At
      <3>2. /\ p \in Owing(place)' <=> Owes([at |-> a + 1, st |-> "loop"], place)
            /\ \A q : q # p => (q \in Owing(place)' <=> q \in Owing(place))
        BY <3>1, OwingAfterGoto
      <3>3. /\ p \in Owing(place)' <=> a + 1 <= place
            /\ p \in Owing(place) <=> a = place
        BY <2>3, <2>5, <3>1, <3>2 DEF Owes
      <3>4. p \notin failed /\ Last(p) = a BY <1>0, <2>3, <3>1 DEF Fresh, BornFor
      <3>5. /\ FailedAt(place)' = IF a = place THEN FailedAt(place) \cup {p}
                                  ELSE FailedAt(place)
            /\ FailedBefore(place)' = IF a < place THEN FailedBefore(place) \cup {p}
                                      ELSE FailedBefore(place)
            /\ p \notin FailedAt(place) /\ p \notin FailedBefore(place)
        BY <3>1, <3>4 DEF FailedAt, FailedBefore
      <3>6. Times(place)' = Times(place) + 0 BY <2>4, <3>1 DEF Times
      <3>7. CASE a = place
        <4>1. p \in Owing(place) /\ p \notin Owing(place)' BY <2>2, <3>3, <3>7
        <4>2. Owing(place)' = Owing(place) \ {p} BY <3>2, <4>1
        <4>3. Cardinality(Owing(place)) = Cardinality(Owing(place)') + 1
          BY <2>4, <4>1, <4>2, DropOne
        <4>4. Cardinality(Owing(place)') \in Nat BY <2>4, <4>2
        <4>5. Cardinality(Owing(place))' = Cardinality(Owing(place)) + (-1)
          BY <4>3, <4>4
        <4>6. Cardinality(FailedAt(place))' = Cardinality(FailedAt(place)) + 1
          BY <2>4, <3>5, <3>7, AddOne
        <4>7. ~(a < place) BY <2>2, <3>7
        <4>8. Cardinality(FailedBefore(place))' = Cardinality(FailedBefore(place)) + 0
          BY <2>4, <3>5, <4>7
        <4> QED BY <1>0, <1>1, <2>2, <3>1, <3>6, <4>5, <4>6, <4>8, Balance
      <3>8. CASE a < place
        <4>1. p \notin Owing(place) /\ p \in Owing(place)' /\ a # place
          BY <2>2, <3>3, <3>8
        <4>2. Owing(place)' = Owing(place) \cup {p} BY <3>2, <4>1
        <4>3. Cardinality(Owing(place))' = Cardinality(Owing(place)) + 1
          BY <2>4, <4>1, <4>2, AddOne
        <4>4. Cardinality(FailedAt(place))' = Cardinality(FailedAt(place)) + 0
          BY <2>4, <3>5, <4>1
        <4>5. Cardinality(FailedBefore(place))' = Cardinality(FailedBefore(place)) + 1
          BY <2>4, <3>5, <3>8, AddOne
        <4> QED BY <1>0, <1>1, <2>2, <3>1, <3>6, <4>3, <4>4, <4>5, Balance
      <3>9. CASE a # place /\ ~(a < place)
        <4>1. p \notin Owing(place) /\ p \notin Owing(place)' BY <2>2, <3>3, <3>9
        <4>0. \A q : q \in Owing(place)' <=> q \in Owing(place) BY <3>2, <4>1
        <4>2. Owing(place)' = Owing(place) BY <4>0, Zenon
        <4>3. FailedAt(place)' = FailedAt(place) /\ FailedBefore(place)' = FailedBefore(place)
          BY <3>5, <3>9
        <4> QED BY <2>2, <3>1, <4>2, <4>3 DEF Account, Times
      <3> QED BY <3>7, <3>8, <3>9
    <2>11. CASE Wait(p)
      <3>1. /\ procs' = Goto(p, a + 1, "loop") /\ procs[p].st = "wait" /\ UNCHANGED history
        BY <2>3, <2>11 DEF Wait, Is, At
      <3>2. /\ p \in Owing(place)' <=> Owes([at |-> a + 1, st |-> "loop"], place)
            /\ \A q : q # p => (q \in Owing(place)' <=> q \in Owing(place))
        BY <3>1, OwingAfterGoto
      <3>3. p \in Owing(place)' <=> p \in Owing(place)
        <4>1. p \in Owing(place)' <=> a + 1 <= place BY <3>2 DEF Owes
        <4>2. p \in Owing(place) <=> a < place BY <2>3, <2>5, <3>1 DEF Owes
        <4> QED BY <2>2, <4>1, <4>2
      <3>4. Owing(place)' = Owing(place)
        <4>1. \A q : q \in Owing(place)' <=> q \in Owing(place) BY <3>2, <3>3
        <4> QED BY <4>1, Zenon
      <3> QED BY <2>6, <3>1, <3>4
    <2>12. CASE ExecNull(p) \/ ProgramEnds(p) \/ Leave(p)
      <3>1. procs' = Gone(p) /\ UNCHANGED history
        BY <2>12 DEF ExecNull, ProgramEnds, Leave
      <3>2. p \notin Owing(place)
        <4>1. CASE ExecNull(p)
          <5>1. procs[p].st = "born" /\ a # place
            BY <2>3, <4>1 DEF ExecNull, Is, Argv, At
          <5> QED BY <2>3, <2>5, <5>1 DEF Owes
        <4>2. CASE ProgramEnds(p)
          <5>1. procs[p].st = "program" BY <4>2 DEF ProgramEnds, Is
          <5> QED BY <2>5, <5>1 DEF Owes
        <4>3. CASE Leave(p)
          <5>1. procs[p].st = "loop" /\ ~(a <= Len(plan))
            BY <2>3, <4>3 DEF Leave, Is, More, At
          <5>2. ~(a <= place) BY <2>1, <5>1
          <5> QED BY <2>3, <2>5, <5>1, <5>2 DEF Owes
        <4> QED BY <2>12, <4>1, <4>2, <4>3
      <3>3. p \notin Owing(place)' /\ \A q : q # p => (q \in Owing(place)' <=> q \in Owing(place))
        BY <3>1, OwingAfterGone
      <3>4. Owing(place)' = Owing(place)
        <4>1. \A q : q \in Owing(place)' <=> q \in Owing(place) BY <3>2, <3>3
        <4> QED BY <4>1, Zenon
      <3> QED BY <2>6, <3>1, <3>4
    <2> QED BY <1>3, <2>7, <2>8, <2>9, <2>10, <2>11, <2>12 DEF Work
  <1>4. CASE UNCHANGED vars
    BY <1>0, <1>4 DEF vars, history, Accounts, Account, Times, FailedAt, FailedBefore, Owing
  <1> QED BY <1>2, <1>3, <1>4 DEF Next

LEMMA BooksInit == Init => Books
  <1> SUFFICES ASSUME Init PROVE Books OBVIOUS
  <1>1. /\ lines \in Files /\ status = "start" /\ procs = <<>> /\ ran = <<>>
        /\ failed = {} /\ unforked = {}
    BY DEF Init
  <1>2. DOMAIN procs = {} /\ DOMAIN ran = {} BY <1>1
  <1>3. Planned BY <1>1 DEF Planned
  <1>4. Places /\ BornFor /\ Descent /\ Fresh BY <1>2 DEF Places, BornFor, Descent, Fresh
  <1>5. Accounts BY <1>1 DEF Accounts
  <1>6. Recorded
    <2>1. IsFiniteSet(DOMAIN procs) BY <1>2, FS_EmptySet
    <2>2. IsFiniteSet(failed) /\ IsFiniteSet(unforked) /\ Cardinality(failed) = 0
          /\ Cardinality(unforked) = 0
      BY <1>1, FS_EmptySet
    <2>3. Cardinality(failed) + Cardinality(unforked) <= MaxFaults
      BY <2>2, MymakeAssumption
    <2>4. ran \in Seq(Nat) /\ failed \subseteq Seq(Nat) BY <1>1
    <2> QED BY <1>2, <2>1, <2>2, <2>3, <2>4 DEF Recorded
  <1> QED BY <1>3, <1>4, <1>5, <1>6 DEF Books

LEMMA BooksStep == Line /\ Books /\ [Next]_vars => Books'
  <1> SUFFICES ASSUME Line, Books, [Next]_vars PROVE Books' OBVIOUS
  <1>1. Planned' /\ Places' /\ Recorded' /\ BornFor' /\ Descent' /\ Fresh'
    BY PlannedStep, PlacesStep, RecordedStep, BornForStep, DescentStep, FreshStep DEF Books
  <1> QED BY <1>1, AccountsStep DEF Books

(***************************************************************************)
(* The books are right in every run: the invariant behind the two          *)
(* theorems that follow.                                                   *)
(***************************************************************************)
THEOREM BooksAreRight == Spec => []Books
  BY LineOfDescent, BooksInit, BooksStep, PTL DEF Spec

(***************************************************************************)
(* Whatever the makefile and the goal, and however many forks and execs    *)
(* fail, every process is at a place of the plan or just behind it (the    *)
(* loops of main.c:206-236 and the others), and only commands of the plan  *)
(* are run.                                                                *)
(***************************************************************************)
THEOREM PlacesInPlan == Spec => []TypeOK
  <1>1. Line /\ Books => TypeOK
    BY DEF Line, Positions, Books, Planned, Places, Recorded, TypeOK
  <1> QED BY <1>1, LineOfDescent, BooksAreRight, PTL

(***************************************************************************)
(* A command is run once and once more for every earlier execvp that       *)
(* failed, because the child of a failed execvp is not ended (main.c:213,  *)
(* 233): never more often, and in the end exactly that often unless a fork *)
(* failed.                                                                 *)
(***************************************************************************)
THEOREM RepeatsCounted == Spec => []RepeatsExplained
  <1>1. Books => RepeatsExplained
    <2> SUFFICES ASSUME Books, NEW place \in DOMAIN plan, plan[place].argv # <<>>
                 PROVE  /\ Times(place) + Cardinality(FailedAt(place))
                             <= 1 + Cardinality(FailedBefore(place))
                        /\ Ended /\ status = "run" /\ unforked = {} =>
                             Times(place) + Cardinality(FailedAt(place))
                               = 1 + Cardinality(FailedBefore(place))
      BY DEF RepeatsExplained
    <2>0. Planned /\ Recorded /\ Accounts BY DEF Books
    <2>1. PICK t \in Nat, a \in Nat, o \in Nat, b \in Nat :
            /\ t = Times(place) /\ a = Cardinality(FailedAt(place))
            /\ o = Cardinality(Owing(place)) /\ b = Cardinality(FailedBefore(place))
      BY <2>0, Counts
    <2>2. CASE status = "run"
      <3>1. t + a + o <= 1 + b /\ (unforked = {} => t + a + o = 1 + b)
        BY <2>0, <2>1, <2>2 DEF Accounts, Account
      <3>2. Ended => o = 0
        <4>1. DOMAIN <<>> = {} OBVIOUS
        <4>2. Ended => Owing(place) = {} BY <4>1 DEF Ended, Owing
        <4> QED BY <2>1, <4>2, FS_EmptySet
      <3>3. t + a <= 1 + b BY <3>1
      <3>4. Ended /\ unforked = {} => t + a = 1 + b BY <3>1, <3>2
      <3> QED BY <2>1, <3>3, <3>4
    <2>3. CASE status # "run"
      <3>1. ran = <<>> /\ failed = {} BY <2>0, <2>3 DEF Planned
      <3>2. {n \in DOMAIN ran : ran[n] = place} = {} /\ FailedAt(place) = {}
        BY <3>1 DEF FailedAt
      <3>3. Times(place) = 0 /\ Cardinality(FailedAt(place)) = 0
        BY <3>2, FS_EmptySet DEF Times
      <3>4. t = 0 /\ a = 0 BY <2>1, <3>3
      <3>5. t + a <= 1 + b BY <3>4
      <3> QED BY <2>1, <2>3, <3>5
    <2> QED BY <2>2, <2>3
  <1> QED BY <1>1, BooksAreRight, PTL
-----------------------------------------------------------------------------
(***************************************************************************)
(* Where the parts of a joined sequence stand.  Place j of u is place m of *)
(* the z-th part: what is next to it in that part is next to it in u, and  *)
(* what earlier parts have stands before it.                               *)
(***************************************************************************)
PlaceOf(u, ss, j, z, m) ==
  /\ z \in 1 .. Len(ss) /\ m \in 1 .. Len(ss[z]) /\ u[j] = ss[z][m]
  /\ m < Len(ss[z]) => j < Len(u) /\ u[j + 1] = ss[z][m + 1]
  /\ \A i \in 1 .. z - 1 : Range(ss[i]) \subseteq {u[k] : k \in 1 .. j - 1}

AllPlaced(u, ss, b) ==
  /\ \A j \in 1 .. Len(u) : \E z, m : PlaceOf(u, ss, j, z, m)
  /\ \A i \in 1 .. b : Range(ss[i]) \subseteq Range(u) /\ Len(ss[i]) <= Len(u)

LEMMA OnePartMore ==
  ASSUME NEW X, NEW ss \in Seq(Seq(X)), NEW b \in 1 .. Len(ss), NEW u \in Seq(X),
         AllPlaced(u, ss, b - 1)
  PROVE  AllPlaced(u \o ss[b], ss, b)
  <1>1. PICK s \in Seq(X) : s = ss[b] OBVIOUS
  <1>2. PICK v \in Seq(X) : v = u \o s
    <2>1. \A a, c \in Seq(X) : a \o c \in Seq(X) OBVIOUS
    <2>2. u \o s \in Seq(X) BY <2>1, Zenon
    <2> QED BY <2>2, Zenon
  <1>3. /\ Len(u) \in Nat /\ Len(s) \in Nat /\ Len(v) = Len(u) + Len(s)
        /\ \A k \in 1 .. Len(u) : v[k] = u[k]
        /\ \A k \in 1 .. Len(s) : v[Len(u) + k] = s[k]
    BY <1>2
  <1>4. Len(ss) \in Nat /\ b \in Nat OBVIOUS
  <1>5. Range(u) = {u[k] : k \in 1 .. Len(u)} /\ Range(s) = {s[k] : k \in 1 .. Len(s)}
        /\ Range(v) = {v[k] : k \in 1 .. Len(v)}
    BY DEF Range
  <1>6. Range(u) \subseteq Range(v) /\ Range(s) \subseteq Range(v)
    <2>1. \A k \in 1 .. Len(u) : k \in 1 .. Len(v) BY <1>3
    <2>2. \A k \in 1 .. Len(s) : Len(u) + k \in 1 .. Len(v) BY <1>3
    <2> QED BY <1>3, <1>5, <2>1, <2>2
  <1>7. ASSUME NEW j \in 1 .. Len(v) PROVE \E z, m : PlaceOf(v, ss, j, z, m)
    <2>1. CASE j <= Len(u)
      <3>1. j \in 1 .. Len(u) BY <1>3, <2>1
      <3>2. PICK z, m : PlaceOf(u, ss, j, z, m) BY <3>1 DEF AllPlaced
      <3>3. \A k \in 1 .. j - 1 : v[k] = u[k] BY <1>3, <3>1
      <3>4. {v[k] : k \in 1 .. j - 1} = {u[k] : k \in 1 .. j - 1} BY <3>3
      <3>5. m < Len(ss[z]) => j < Len(v) /\ v[j + 1] = ss[z][m + 1]
        <4>1. m < Len(ss[z]) => j < Len(u) /\ u[j + 1] = ss[z][m + 1] BY <3>2 DEF PlaceOf
        <4>2. j < Len(u) => j + 1 \in 1 .. Len(u) /\ j < Len(v) BY <1>3, <3>1
        <4> QED BY <1>3, <4>1, <4>2
      <3> QED BY <1>3, <3>1, <3>2, <3>4, <3>5 DEF PlaceOf
    <2>2. CASE j > Len(u)
      <3>1. PICK m \in 1 .. Len(s) : m = j - Len(u)
        <4>1. PICK a \in Nat, c \in Nat : a = Len(u) /\ c = Len(s) /\ j \in 1 .. a + c
          BY <1>3
        <4>2. j - a \in 1 .. c BY <2>2, <4>1
        <4> QED BY <4>1, <4>2
      <3>2. v[j] = s[m] /\ (m < Len(s) => j < Len(v) /\ v[j + 1] = s[m + 1])
        <4>1. j = Len(u) + m BY <1>3, <3>1
        <4>2. m < Len(s) => m + 1 \in 1 .. Len(s) /\ j < Len(v) /\ j + 1 = Len(u) + (m + 1)
          BY <1>3, <4>1
        <4> QED BY <1>3, <4>1, <4>2
      <3>3. ASSUME NEW i \in 1 .. b - 1
            PROVE  Range(ss[i]) \subseteq {v[k] : k \in 1 .. j - 1}
        <4>1. Range(ss[i]) \subseteq Range(u) BY DEF AllPlaced
        <4>2. \A k \in 1 .. Len(u) : k \in 1 .. j - 1 BY <1>3, <2>2
        <4>3. {u[k] : k \in 1 .. Len(u)} \subseteq {v[k] : k \in 1 .. j - 1} BY <1>3, <4>2
        <4> QED BY <1>5, <4>1, <4>3
      <3> QED BY <1>1, <3>1, <3>2, <3>3 DEF PlaceOf
    <2> QED BY <1>3, <2>1, <2>2
  <1>8. ASSUME NEW i \in 1 .. b
        PROVE  Range(ss[i]) \subseteq Range(v) /\ Len(ss[i]) <= Len(v)
    <2>1. CASE i = b BY <1>1, <1>3, <1>6, <2>1
    <2>2. CASE i # b
      <3>1. i \in 1 .. b - 1 BY <1>4, <2>2
      <3>2. Range(ss[i]) \subseteq Range(u) /\ Len(ss[i]) <= Len(u) BY <3>1 DEF AllPlaced
      <3>3. Len(ss[i]) \in Nat
        <4>1. i \in 1 .. Len(ss) BY <1>4, <3>1
        <4>2. ss[i] \in Seq(X) BY <4>1
        <4> QED BY <4>2
      <3> QED BY <1>3, <1>6, <3>2, <3>3
    <2> QED BY <2>1, <2>2
  <1> QED BY <1>1, <1>2, <1>7, <1>8 DEF AllPlaced

LEMMA FlattenPlaces ==
  ASSUME NEW X, NEW ss \in Seq(Seq(X))
  PROVE  AllPlaced(FlattenSeq(ss), ss, Len(ss))
  <1>0. Len(ss) \in Nat OBVIOUS
  <1>1. CASE Len(ss) = 0
    <2>1. ss = <<>> BY <1>1
    <2>2. FlattenSeq(ss) = <<>> /\ Len(<<>>) = 0 BY <2>1, FlattenEmpty
    <2> QED BY <1>1, <2>2 DEF AllPlaced
  <1>2. CASE Len(ss) # 0
    <2>1. PICK f : Joins(f, ss, Len(ss)) /\ FlattenSeq(ss) = f[Len(ss)]
      BY <1>0, <1>2, FlattenIs
    <2> DEFINE Bad == {j \in 1 .. Len(ss) : f[j] \notin Seq(X) \/ ~AllPlaced(f[j], ss, j)}
    <2>2. Len(ss) \in 1 .. Len(ss) BY <1>0, <1>2
    <2>3. SUFFICES ASSUME Bad # {} PROVE FALSE BY <2>1, <2>2
    <2>4. PICK b \in Bad : \A j \in Bad : b <= j
      <3>1. Bad \subseteq Nat OBVIOUS
      <3> HIDE DEF Bad
      <3> QED BY <2>3, <3>1, Least
    <2>5. f[b] = IF b = 1 THEN ss[b] ELSE f[b - 1] \o ss[b] BY <2>1, Zenon DEF Joins
    <2>6. b # 1 => b - 1 \in 1 .. Len(ss) /\ ~(b <= b - 1) BY <1>0
    <2>7. b # 1 => f[b - 1] \in Seq(X) /\ AllPlaced(f[b - 1], ss, b - 1) BY <2>4, <2>6
    <2>8. ss[b] \in Seq(X) OBVIOUS
    <2>9. PICK u \in Seq(X) : f[b] = u \o ss[b] /\ AllPlaced(u, ss, b - 1)
      <3>1. CASE b = 1
        <4>1. <<>> \in Seq(X) /\ ss[b] = <<>> \o ss[b] BY <2>8
        <4>2. 1 .. b - 1 = {} /\ 1 .. Len(<<>>) = {} BY <3>1
        <4>3. AllPlaced(<<>>, ss, b - 1) BY <4>2 DEF AllPlaced
        <4> QED BY <2>5, <3>1, <4>1, <4>3
      <3>2. CASE b # 1 BY <2>5, <2>7, <3>2
      <3> QED BY <3>1, <3>2
    <2>10. f[b] \in Seq(X) BY <2>8, <2>9
    <2>11. AllPlaced(f[b], ss, b) BY <2>9, OnePartMore
    <2> QED BY <2>4, <2>10, <2>11
  <1> QED BY <1>1, <1>2
-----------------------------------------------------------------------------
(***************************************************************************)
(* The recipes under a rule are that rule's commands.                      *)
(***************************************************************************)
DidOf(x) == [line |-> x.line, cmd |-> x.argv[1]]

LEMMA RuleOfUnder ==
  ASSUME IsMakefile(lines), NEW r \in Rules(lines), NEW i \in Range(RecipeLines(lines, r))
  PROVE  RuleOf(i) = r /\ RecipeAt(lines, i)
  <1>1. /\ Rules(lines) \subseteq 1 .. Len(lines) /\ Len(lines) \in Nat
        /\ \A k : RecipeAt(lines, k) => k \notin Rules(lines)
    BY FileType
  <1>2. r \in Nat BY <1>1
  <1>3. PICK n \in Nat : /\ RecipeLines(lines, r) = [k \in 1 .. n |-> r + k]
                         /\ \A k \in 1 .. n : RecipeAt(lines, r + k)
    BY <1>2, RecipeLinesType
  <1>4. PICK k \in 1 .. n : i = r + k BY <1>3 DEF Range
  <1> DEFINE T == {q \in Rules(lines) : q <= i}
  <1>5. T \subseteq 0 .. Len(lines) /\ r \in T BY <1>1, <1>2, <1>4
  <1>6. Max(T) \in T /\ \A q \in T : q <= Max(T)
    <2> HIDE DEF T
    <2> QED BY <1>1, <1>5, MaxOf
  <1>7. \A q \in T : q <= r
    <2> SUFFICES ASSUME NEW q \in Rules(lines), q <= i, ~(q <= r) PROVE FALSE OBVIOUS
    <2>1. q \in Nat BY <1>1
    <2>2. q - r \in 1 .. n /\ r + (q - r) = q BY <1>2, <1>4, <2>1
    <2> QED BY <1>1, <1>3, <2>2
  <1>8. PICK m : m = Max(T) OBVIOUS
  <1>9. m \in T /\ r <= m /\ m <= r BY <1>5, <1>6, <1>7, <1>8
  <1>10. m \in Nat BY <1>1, <1>9
  <1>11. m = r BY <1>2, <1>9, <1>10
  <1> QED BY <1>3, <1>4, <1>8, <1>11 DEF RuleOf

\* Place by place.
LEMMA UnderPlaces ==
  ASSUME IsMakefile(lines), NEW r \in Rules(lines)
  PROVE  \E ss \in Seq(Seq(CommandOf(lines))) :
           /\ RecipesUnder(lines, r) = FlattenSeq(ss)
           /\ Len(ss) \in Nat
           /\ \A k \in 1 .. Len(ss) :
                /\ r + k \in Range(RecipeLines(lines, r))
                /\ Len(ss[k]) = Len(lines[r + k].cmds)
                /\ \A c \in 1 .. Len(ss[k]) :
                     ss[k][c] = [line |-> r + k, argv |-> <<lines[r + k].cmds[c]>>]
           /\ \A i \in Range(RecipeLines(lines, r)) : \E k \in 1 .. Len(ss) : i = r + k
  <1>1. r \in Nat BY FileType
  <1>2. PICK n \in Nat : /\ RecipeLines(lines, r) = [k \in 1 .. n |-> r + k]
                         /\ \A k \in 1 .. n : RecipeAt(lines, r + k)
    BY <1>1, RecipeLinesType
  <1> DEFINE ss == [k \in 1 .. n |-> Split(lines, r + k)]
  <1>3. ss \in Seq(Seq(CommandOf(lines))) /\ Len(ss) = n
    <2>1. \A k \in 1 .. n : Split(lines, r + k) \in Seq(CommandOf(lines)) BY <1>2, SplitType
    <2> QED BY <2>1
  <1>4. RecipesUnder(lines, r) = FlattenSeq(ss)
    <2>1. DOMAIN RecipeLines(lines, r) = 1 .. n BY <1>2
    <2>2. \A k \in 1 .. n : RecipeLines(lines, r)[k] = r + k BY <1>2
    <2>3. ss = [k \in DOMAIN RecipeLines(lines, r) |-> Split(lines, RecipeLines(lines, r)[k])]
      BY <2>1, <2>2
    <2> QED BY <2>3 DEF RecipesUnder
  <1>5. Range(RecipeLines(lines, r)) = {r + k : k \in 1 .. n} BY <1>2 DEF Range
  <1>6. ASSUME NEW k \in 1 .. n
        PROVE  /\ r + k \in Range(RecipeLines(lines, r))
               /\ Len(ss[k]) = Len(lines[r + k].cmds)
               /\ \A c \in 1 .. Len(ss[k]) :
                    ss[k][c] = [line |-> r + k, argv |-> <<lines[r + k].cmds[c]>>]
    <2>1. lines[r + k].cmds \in Seq(Word(lines)) BY <1>2, FileType
    <2>2. PICK cmds \in Seq(Word(lines)) : cmds = lines[r + k].cmds BY <2>1, Zenon
    <2>3. ss[k] = [c \in 1 .. Len(cmds) |-> [line |-> r + k, argv |-> <<cmds[c]>>]]
      <3>1. DOMAIN cmds = 1 .. Len(cmds) BY <2>2
      <3> QED BY <2>2, <3>1 DEF Split
    <2>4. Len(cmds) \in Nat BY <2>2
    <2>5. Len(ss[k]) = Len(cmds) BY <2>3, <2>4
    <2> QED BY <1>5, <2>2, <2>3, <2>5
  <1> HIDE DEF ss
  <1> QED BY <1>2, <1>3, <1>4, <1>5, <1>6

LEMMA UnderIs ==
  ASSUME IsMakefile(lines), NEW r \in Rules(lines)
  PROVE  /\ \A x \in Range(RecipesUnder(lines, r)) :
              x.argv # <<>> /\ RuleOf(x.line) = r /\ DidOf(x) \in Commands({r})
         /\ UnderRules =>
              \A c \in Commands({r}) : \E x \in Range(RecipesUnder(lines, r)) : DidOf(x) = c
  <1>1. PICK ss \in Seq(Seq(CommandOf(lines))) :
           /\ RecipesUnder(lines, r) = FlattenSeq(ss)
           /\ Len(ss) \in Nat
           /\ \A k \in 1 .. Len(ss) :
                /\ r + k \in Range(RecipeLines(lines, r))
                /\ Len(ss[k]) = Len(lines[r + k].cmds)
                /\ \A c \in 1 .. Len(ss[k]) :
                     ss[k][c] = [line |-> r + k, argv |-> <<lines[r + k].cmds[c]>>]
           /\ \A i \in Range(RecipeLines(lines, r)) : \E k \in 1 .. Len(ss) : i = r + k
    BY UnderPlaces
  <1>2. AllPlaced(FlattenSeq(ss), ss, Len(ss)) BY FlattenPlaces
  <1>3. RecipesUnder(lines, r) \in Seq(CommandOf(lines)) BY FileType, RecipesUnderType
  <1>4. PICK u : u = RecipesUnder(lines, r) OBVIOUS
  <1>5. Range(u) = {u[j] : j \in 1 .. Len(u)} BY <1>3, <1>4 DEF Range
  <1>6. /\ \A j \in 1 .. Len(u) : \E z, m : PlaceOf(u, ss, j, z, m)
        /\ \A k \in 1 .. Len(ss) : Range(ss[k]) \subseteq Range(u)
    BY <1>1, <1>2, <1>4 DEF AllPlaced
  <1>7. ASSUME NEW x \in Range(u)
        PROVE  x.argv # <<>> /\ RuleOf(x.line) = r /\ DidOf(x) \in Commands({r})
    <2>1. PICK j \in 1 .. Len(u) : x = u[j] BY <1>5
    <2>2. PICK z, m : PlaceOf(u, ss, j, z, m) BY <1>6
    <2>3. z \in 1 .. Len(ss) /\ m \in 1 .. Len(ss[z]) /\ x = ss[z][m]
      BY <2>1, <2>2 DEF PlaceOf
    <2>4. x = [line |-> r + z, argv |-> <<lines[r + z].cmds[m]>>] BY <1>1, <2>3
    <2>5. RuleOf(r + z) = r /\ RecipeAt(lines, r + z) BY <1>1, <2>3, RuleOfUnder
    <2>6. lines[r + z].cmds[m] \in Range(lines[r + z].cmds)
      <3>1. lines[r + z].cmds \in Seq(Word(lines)) BY <2>5, FileType
      <3>2. m \in 1 .. Len(lines[r + z].cmds) BY <1>1, <2>3
      <3> QED BY <3>1, <3>2 DEF Range
    <2>7. DidOf(x) = [line |-> r + z, cmd |-> lines[r + z].cmds[m]] BY <2>4 DEF DidOf
    <2>8. r + z \in DOMAIN lines BY <2>5 DEF RecipeAt
    <2>9. lines[r + z].cmds[m] \in UNION {Range(lines[i].cmds) :
                                      i \in {k \in DOMAIN lines : RecipeAt(lines, k)}}
      <3>1. Range(lines[r + z].cmds) \in {Range(lines[i].cmds) :
                                      i \in {k \in DOMAIN lines : RecipeAt(lines, k)}}
        BY <2>5, <2>8
      <3> QED BY <2>6, <3>1
    <2>10. DidOf(x) \in Commands({r}) BY <2>5, <2>6, <2>7, <2>8, <2>9 DEF Commands
    <2> QED BY <2>4, <2>5, <2>10
  <1>8. ASSUME UnderRules, NEW c \in Commands({r})
        PROVE  \E x \in Range(u) : DidOf(x) = c
    <2>1. /\ c = [line |-> c.line, cmd |-> c.cmd]
          /\ RecipeAt(lines, c.line) /\ RuleOf(c.line) = r
          /\ c.cmd \in Range(lines[c.line].cmds) /\ c.line \in DOMAIN lines
      BY DEF Commands
    <2>2. c.line \in Range(RecipeLines(lines, r)) BY <1>8, <2>1 DEF UnderRules
    <2>3. PICK k \in 1 .. Len(ss) : c.line = r + k BY <1>1, <2>2
    <2>4. lines[r + k].cmds \in Seq(Word(lines)) BY <2>1, <2>3, FileType
    <2>5. PICK z \in 1 .. Len(lines[r + k].cmds) : c.cmd = lines[r + k].cmds[z]
      <3>1. PICK cmds \in Seq(Word(lines)) : cmds = lines[r + k].cmds BY <2>4, Zenon
      <3>2. c.cmd \in Range(cmds) BY <2>1, <2>3, <3>1
      <3>3. \E z \in 1 .. Len(cmds) : c.cmd = cmds[z] BY <3>2 DEF Range
      <3> QED BY <3>1, <3>3
    <2>6. z \in 1 .. Len(ss[k]) /\ ss[k][z] = [line |-> r + k, argv |-> <<lines[r + k].cmds[z]>>]
      BY <1>1, <2>5
    <2>7. ss[k][z] \in Range(ss[k])
      <3>1. ss[k] \in Seq(CommandOf(lines)) OBVIOUS
      <3>2. PICK t \in Seq(CommandOf(lines)) : t = ss[k] BY <3>1, Zenon
      <3>3. \A j \in 1 .. Len(t) : t[j] \in Range(t) BY DEF Range
      <3> QED BY <2>6, <3>2, <3>3
    <2>8. ss[k][z] \in Range(u) BY <1>6, <2>7
    <2>9. DidOf(ss[k][z]) = c BY <2>1, <2>3, <2>5, <2>6 DEF DidOf
    <2> QED BY <2>8, <2>9
  <1> QED BY <1>4, <1>7, <1>8
-----------------------------------------------------------------------------
(***************************************************************************)
(* The rules that are needed, and those that names lead to: the least sets *)
(* closed under Refers and LeadsTo.                                        *)
(***************************************************************************)
LEMMA NeededIs ==
  ASSUME NEW g \in Rules(lines)
  PROVE  /\ g \in Needed(g) /\ Needed(g) \subseteq Rules(lines)
         /\ \A q \in Needed(g) : Refers(q) \subseteq Needed(g)
         /\ \A S \in SUBSET Rules(lines) :
              g \in S /\ (\A s \in S : Refers(s) \subseteq S) => Needed(g) \subseteq S
  <1>1. g \in Needed(g) /\ Needed(g) \subseteq Rules(lines) BY DEF Needed
  <1>2. ASSUME NEW q \in Needed(g), NEW x \in Refers(q) PROVE x \in Needed(g)
    <2>1. x \in Rules(lines) BY DEF Refers
    <2>2. ASSUME NEW S \in SUBSET Rules(lines), g \in S, \A s \in S : Refers(s) \subseteq S
          PROVE  x \in S
      <3>1. q \in S BY <2>2 DEF Needed
      <3> QED BY <2>2, <3>1
    <2> QED BY <2>1, <2>2 DEF Needed
  <1>3. ASSUME NEW S \in SUBSET Rules(lines), g \in S, \A s \in S : Refers(s) \subseteq S
        PROVE  Needed(g) \subseteq S
    BY <1>3 DEF Needed
  <1> QED BY <1>1, <1>2, <1>3

LEMMA LedToIs ==
  ASSUME NEW g \in Rules(lines)
  PROVE  /\ g \in LedTo(g) /\ LedTo(g) \subseteq Rules(lines)
         /\ \A q \in LedTo(g) : LeadsTo(q) \subseteq LedTo(g)
  <1>1. g \in LedTo(g) /\ LedTo(g) \subseteq Rules(lines) BY DEF LedTo
  <1>2. ASSUME NEW q \in LedTo(g), NEW x \in LeadsTo(q) PROVE x \in LedTo(g)
    <2>1. x \in Rules(lines) BY DEF LeadsTo
    <2>2. ASSUME NEW S \in SUBSET Rules(lines), g \in S, \A s \in S : LeadsTo(s) \subseteq S
          PROVE  x \in S
      <3>1. q \in S BY <2>2 DEF LedTo
      <3> QED BY <2>2, <3>1
    <2> QED BY <2>1, <2>2 DEF LedTo
  <1> QED BY <1>1, <1>2

(***************************************************************************)
(* The dependency that is followed.                                        *)
(***************************************************************************)
LEMMA FollowedIs ==
  ASSUME NEW X, NEW deps \in Seq(X), deps # <<>>
  PROVE  \E z \in 1 .. Len(deps) :
           /\ Followed(lines, deps) = deps[z]
           /\ findLine(lines, deps[Len(deps)]) # FirstLine => z = Len(deps)
  <1> DEFINE valid == {z \in DOMAIN deps : findLine(lines, deps[z]) # FirstLine}
             S == {1} \cup valid
  <1>1. Len(deps) \in Nat /\ DOMAIN deps = 1 .. Len(deps) /\ 1 \in DOMAIN deps
        /\ Len(deps) \in DOMAIN deps
    OBVIOUS
  <1>2. S \subseteq 0 .. Len(deps) /\ S # {} /\ S \subseteq DOMAIN deps BY <1>1
  <1>3. Followed(lines, deps) = deps[Max(S)] BY DEF Followed
  <1>4. findLine(lines, deps[Len(deps)]) # FirstLine => Len(deps) \in S BY <1>1
  <1> HIDE DEF S
  <1>5. Max(S) \in S /\ \A k \in S : k <= Max(S) BY <1>1, <1>2, MaxOf
  <1>6. Max(S) \in 1 .. Len(deps) BY <1>1, <1>2, <1>5
  <1>7. Len(deps) \in S => Max(S) = Len(deps) BY <1>1, <1>5, <1>6
  <1> QED BY <1>3, <1>4, <1>6, <1>7

LEMMA DepsAreThere ==
  ASSUME IsMakefile(lines), NEW r \in Rules(lines)
  PROVE  lines[r].name # NULL /\ NULL \notin Range(lines[r].deps)
  <1>1. r \in DOMAIN lines /\ lines[r].kind = "rule" BY DEF Rules
  <1>2. ~RecipeAt(lines, r) /\ lines[r] # Blank BY <1>1 DEF RecipeAt, Blank
  <1> QED BY <1>1, <1>2 DEF IsMakefile

WellWritten == Distinct /\ OneReference /\ UnderRules /\ StrayNamesNone

LEMMA FollowRule ==
  ASSUME IsMakefile(lines), WellWritten, NEW r \in Rules(lines)
  PROVE  /\ Follow(lines, stray, r) \in Refers(r) \cup {Missing, FirstLine}
         /\ r # FirstLine => \A q \in Refers(r) : Follow(lines, stray, r) = q
  <1>0. /\ Rules(lines) \subseteq 1 .. Len(lines) /\ Len(lines) \in Nat
        /\ lines[r].deps \in Seq(Word(lines)) /\ r # Missing
    BY FileType DEF Missing
  <1>1. Distinct /\ OneReference BY DEF WellWritten
  <1>2. PICK deps \in Seq(Word(lines)) : deps = lines[r].deps BY <1>0, Zenon
  <1>3. PICK w : w = Followed(lines, deps) OBVIOUS
  <1>4. Follow(lines, stray, r) = findLine(lines, w) BY <1>0, <1>2, <1>3 DEF Follow, DepsAt
  <1>5. CASE deps = <<>>
    <2>1. findLine(lines, w) = FirstLine BY <1>3, <1>5 DEF Followed, findLine
    <2>2. Range(deps) = {} BY <1>5 DEF Range
    <2>3. Refers(r) = {} BY <1>2, <2>2 DEF Refers
    <2> QED BY <1>4, <2>1, <2>3
  <1>6. CASE deps # <<>>
    <2>1. PICK z \in 1 .. Len(deps) :
            /\ w = deps[z]
            /\ findLine(lines, deps[Len(deps)]) # FirstLine => z = Len(deps)
      BY <1>3, <1>6, FollowedIs
    <2>2. w \in Range(deps) /\ deps[Len(deps)] \in Range(deps)
      <3>1. z \in DOMAIN deps /\ Len(deps) \in DOMAIN deps BY <1>6, <2>1
      <3> QED BY <2>1, <3>1 DEF Range
    <2>3. NULL \notin Range(deps) BY <1>2, DepsAreThere
    <2>4. ASSUME findLine(lines, w) \in Rules(lines) PROVE findLine(lines, w) \in Refers(r)
      <3>1. lines[findLine(lines, w)].name = w BY <1>1, <2>2, <2>3, <2>4, NameFound
      <3> QED BY <1>2, <2>2, <2>4, <3>1 DEF Refers
    <2>5. findLine(lines, w) \in {Missing} \cup Rules(lines) BY findLineType DEF Found
    <2>6. ASSUME r # FirstLine, NEW q \in Refers(r) PROVE findLine(lines, w) = q
      <3>1. Last(deps) = lines[q].name /\ q \in Rules(lines) /\ q # FirstLine
        BY <1>1, <1>2, <2>6 DEF OneReference, Refers
      <3>2. deps[Len(deps)] = lines[q].name BY <3>1 DEF Last
      <3>3. findLine(lines, deps[Len(deps)]) = q BY <1>1, <2>2, <2>3, <3>1, <3>2, NameFound
      <3> QED BY <2>1, <3>1, <3>3
    <2> QED BY <1>4, <2>4, <2>5, <2>6
  <1> QED BY <1>5, <1>6

LEMMA FollowMissing ==
  ASSUME IsMakefile(lines), WellWritten, stray \in Seq(Range(stray))
  PROVE  Follow(lines, stray, Missing) \in {Missing, FirstLine}
  <1>1. Distinct /\ StrayNamesNone BY DEF WellWritten
  <1>2. PICK w : w = Followed(lines, stray) OBVIOUS
  <1>3. Follow(lines, stray, Missing) = findLine(lines, w) BY <1>2 DEF Follow, DepsAt
  <1>4. CASE w = NULL BY <1>3, <1>4 DEF findLine
  <1>5. CASE w # NULL
    <2>1. stray # <<>> BY <1>2, <1>5 DEF Followed
    <2>2. PICK z \in 1 .. Len(stray) : w = stray[z] BY <1>2, <2>1, FollowedIs
    <2>3. w \in Range(stray)
      <3>1. z \in DOMAIN stray BY <2>2
      <3> QED BY <2>2, <3>1 DEF Range
    <2>4. ASSUME findLine(lines, w) \in Rules(lines) \ {FirstLine} PROVE FALSE
      <3>1. lines[findLine(lines, w)].name = w BY <1>1, <1>5, <2>4, NameFound
      <3> QED BY <1>1, <2>3, <2>4, <3>1 DEF StrayNamesNone
    <2>5. findLine(lines, w) \in {Missing} \cup Rules(lines) BY findLineType DEF Found
    <2> QED BY <1>3, <2>4, <2>5
  <1> QED BY <1>4, <1>5

(***************************************************************************)
(* A chain follows the references: each rule in it stands right before the *)
(* one it refers to, and all but lines[-1] is needed.                      *)
(***************************************************************************)
Linked(d) ==
  \A j \in 1 .. Len(d) : d[j] \in Rules(lines) =>
    \A q \in Refers(d[j]) : j < Len(d) /\ d[j + 1] = q

LEMMA ChainOrder ==
  ASSUME IsMakefile(lines), WellWritten, stray \in Seq(Range(stray)),
         NEW tok, NEW h, h = findLine(lines, tok),
         NEW c \in Seq(Nat), c = Chain(lines, stray, tok), Len(c) <= MaxDep
  PROVE  /\ Linked(c)
         /\ h # FirstLine => h \in Range(c)
         /\ \A x \in Range(c) :
              x = Missing \/ (h \in Rules(lines) /\ x \in Needed(h) /\ x # FirstLine)
  <1>0. PICK f, n : IsChain(f, n, lines, stray, tok) BY ChainIs
  <1>1. /\ f[1] = h
        /\ \A k \in 1 .. MaxDep + 1 : f[k] \in Found(lines)
        /\ \A k \in 1 .. MaxDep : f[k + 1] = Follow(lines, stray, f[k])
        /\ n \in 0 .. MaxDep + 1
        /\ \A k \in 1 .. n : f[k] # FirstLine
        /\ n <= MaxDep => f[n + 1] = FirstLine
        /\ c = [k \in 1 .. n |-> f[k]]
    BY <1>0, Zenon DEF IsChain
  <1>2. MaxDep \in Nat /\ n \in Nat BY <1>1, MakefileAssumption
  <1>3. Len(c) = n /\ DOMAIN c = 1 .. n /\ \A k \in 1 .. n : c[k] = f[k] BY <1>1, <1>2
  <1>4. n <= MaxDep /\ f[n + 1] = FirstLine BY <1>1, <1>3
  <1>5. /\ Rules(lines) \subseteq 1 .. Len(lines) /\ Missing \notin Rules(lines)
        /\ Distinct /\ OneReference
    BY FileType DEF WellWritten, Missing
  <1>6. Linked(c)
    <2> SUFFICES ASSUME NEW j \in 1 .. n, f[j] \in Rules(lines), NEW q \in Refers(f[j])
                 PROVE  j < n /\ f[j + 1] = q
      <3>1. \A j \in 1 .. n : j < n => j + 1 \in 1 .. n BY <1>2
      <3> QED BY <1>3, <3>1 DEF Linked
    <2>1. f[j] # FirstLine /\ j \in 1 .. MaxDep BY <1>1, <1>2, <1>4
    <2>2. f[j + 1] = Follow(lines, stray, f[j]) BY <1>1, <2>1
    <2>3. f[j + 1] = q BY <2>1, <2>2, FollowRule
    <2>4. q # FirstLine BY <1>5 DEF OneReference
    <2>5. j # n BY <1>4, <2>3, <2>4
    <2> QED BY <1>2, <2>3, <2>5
  <1>7. h # FirstLine => h \in Range(c)
    <2>1. h # FirstLine => n # 0 BY <1>1, <1>4
    <2>2. n # 0 => 1 \in 1 .. n BY <1>2
    <2> QED BY <1>1, <1>3, <2>1, <2>2 DEF Range
  <1> DEFINE Good(x) == x = Missing \/ (h \in Rules(lines) /\ x \in Needed(h))
             Bad == {k \in 1 .. n : ~Good(f[k])}
  <1>8. Bad = {}
    <2>1. SUFFICES ASSUME Bad # {} PROVE FALSE OBVIOUS
    <2>2. PICK b \in Bad : \A k \in Bad : b <= k
      <3>1. Bad \subseteq Nat OBVIOUS
      <3> HIDE DEF Bad
      <3> QED BY <2>1, <3>1, Least
    <2>3. b \in 1 .. n /\ ~Good(f[b]) OBVIOUS
    <2>4. b # 1
      <3>1. h \in {Missing} \cup Rules(lines) BY findLineType DEF Found
      <3>2. Good(h) BY <3>1, NeededIs
      <3> QED BY <1>1, <2>3, <3>2
    <2>5. b - 1 \in 1 .. n /\ b - 1 \in 1 .. MaxDep /\ (b - 1) + 1 = b /\ ~(b <= b - 1)
      BY <1>2, <1>4, <2>3, <2>4
    <2>6. Good(f[b - 1]) BY <2>2, <2>5
    <2>7. f[b] = Follow(lines, stray, f[b - 1]) /\ f[b] # FirstLine BY <1>1, <2>3, <2>5
    <2> HIDE DEF Bad
    <2>8. CASE f[b - 1] = Missing
      <3>1. Follow(lines, stray, Missing) \in {Missing, FirstLine} BY FollowMissing
      <3> QED BY <2>3, <2>7, <2>8, <3>1
    <2>9. CASE h \in Rules(lines) /\ f[b - 1] \in Needed(h)
      <3>1. f[b - 1] \in Rules(lines) /\ Refers(f[b - 1]) \subseteq Needed(h)
        BY <2>9, NeededIs
      <3>2. Follow(lines, stray, f[b - 1]) \in Refers(f[b - 1]) \cup {Missing, FirstLine}
        BY <3>1, FollowRule
      <3> QED BY <2>3, <2>7, <2>9, <3>1, <3>2
    <2> QED BY <2>6, <2>8, <2>9
  <1>9. ASSUME NEW x \in Range(c)
        PROVE  x = Missing \/ (h \in Rules(lines) /\ x \in Needed(h) /\ x # FirstLine)
    <2>1. PICK k \in 1 .. n : x = f[k] BY <1>3 DEF Range
    <2>2. Good(f[k]) BY <1>8
    <2> QED BY <1>1, <2>1, <2>2
  <1> QED BY <1>6, <1>7, <1>9

\* Whatever the file, names lead to all that is in the chain.
StrayLed(g) ==
  \A q \in Rules(lines) : (\E w \in Range(stray) : Occurs(w, lines[q].name)) => q \in LedTo(g)

Led(g, q) == q = FirstLine \/ q \in LedTo(g) \/ (q = Missing /\ StrayLed(g))

LEMMA findLineOccurs ==
  ASSUME IsMakefile(lines), NEW dep, dep # NULL, findLine(lines, dep) \in Rules(lines)
  PROVE  Occurs(dep, lines[findLine(lines, dep)].name)
  <1> DEFINE T == {Missing} \cup {i \in Rules(lines) : Occurs(dep, lines[i].name)}
  <1>1. Rules(lines) \subseteq 1 .. Len(lines) /\ Len(lines) \in Nat BY FileType
  <1>2. T \subseteq 0 .. Len(lines) /\ T # {} BY <1>1 DEF Missing
  <1>3. findLine(lines, dep) = Max(T) BY DEF findLine
  <1>4. Max(T) \in T
    <2> HIDE DEF T
    <2> QED BY <1>1, <1>2, MaxOf
  <1>5. PICK m : m = Max(T) OBVIOUS
  <1>6. m \in T /\ m \in Rules(lines) /\ m # Missing BY <1>1, <1>3, <1>4, <1>5 DEF Missing
  <1> QED BY <1>3, <1>5, <1>6

NamesIn(r) == Range(lines[r].deps) \cup (IF r = FirstLine THEN {lines[r].name} ELSE {})

LEMMA NamesLead ==
  ASSUME IsMakefile(lines), NEW g \in Rules(lines), NEW r \in LedTo(g),
         NEW w \in NamesIn(r)
  PROVE  Led(g, findLine(lines, w))
  <1>1. r \in Rules(lines) /\ LeadsTo(r) \subseteq LedTo(g) BY LedToIs
  <1>2. w # NULL BY <1>1, DepsAreThere DEF NamesIn
  <1>3. findLine(lines, w) \in {Missing} \cup Rules(lines) BY findLineType DEF Found
  <1>4. CASE findLine(lines, w) \in Rules(lines)
    <2>1. Occurs(w, lines[findLine(lines, w)].name) BY <1>2, <1>4, findLineOccurs
    <2>2. findLine(lines, w) \in LeadsTo(r) BY <1>4, <2>1 DEF LeadsTo, NamesIn
    <2> QED BY <1>1, <2>2 DEF Led
  <1>5. CASE findLine(lines, w) = Missing
    <2>1. w \in {n \in NamesIn(r) : findLine(lines, n) = Missing} BY <1>5
    <2>2. Range(stray) \subseteq
            UNION {Range(stray) : dep \in {n \in NamesIn(r) : findLine(lines, n) = Missing}}
      BY <2>1
    <2>3. ASSUME NEW q \in Rules(lines), NEW v \in Range(stray), Occurs(v, lines[q].name)
          PROVE  q \in LedTo(g)
      <3>1. q \in LeadsTo(r) BY <2>2, <2>3 DEF LeadsTo, NamesIn
      <3> QED BY <1>1, <3>1
    <2> QED BY <1>5, <2>3 DEF Led, StrayLed
  <1> QED BY <1>3, <1>4, <1>5

LEMMA FollowLed ==
  ASSUME IsMakefile(lines), stray \in Seq(Range(stray)), NEW g \in Rules(lines),
         NEW r, r # FirstLine, Led(g, r)
  PROVE  Led(g, Follow(lines, stray, r))
  <1>1. CASE r \in LedTo(g)
    <2>1. r \in Rules(lines) BY <1>1, LedToIs
    <2>2. lines[r].deps \in Seq(Word(lines)) /\ r # Missing BY <2>1, FileType DEF Missing
    <2>3. PICK deps \in Seq(Word(lines)) : deps = lines[r].deps BY <2>2, Zenon
    <2>4. PICK w : w = Followed(lines, deps) OBVIOUS
    <2>5. Follow(lines, stray, r) = findLine(lines, w) BY <2>2, <2>3, <2>4 DEF Follow, DepsAt
    <2>6. CASE deps = <<>> BY <2>4, <2>5, <2>6 DEF Followed, findLine, Led
    <2>7. CASE deps # <<>>
      <3>1. PICK z \in 1 .. Len(deps) : w = deps[z] BY <2>4, <2>7, FollowedIs
      <3>2. z \in DOMAIN deps BY <3>1
      <3>3. w \in Range(deps) BY <3>1, <3>2 DEF Range
      <3>4. w \in NamesIn(r) BY <2>3, <3>3 DEF NamesIn
      <3> QED BY <1>1, <2>5, <3>4, NamesLead
    <2> QED BY <2>6, <2>7
  <1>2. CASE r = Missing /\ StrayLed(g)
    <2>1. PICK w : w = Followed(lines, stray) OBVIOUS
    <2>2. Follow(lines, stray, r) = findLine(lines, w) BY <1>2, <2>1 DEF Follow, DepsAt
    <2>3. CASE w = NULL BY <2>2, <2>3 DEF findLine, Led
    <2>4. CASE w # NULL
      <3>1. stray # <<>> BY <2>1, <2>4 DEF Followed
      <3>2. PICK z \in 1 .. Len(stray) : w = stray[z] BY <2>1, <3>1, FollowedIs
      <3>3. z \in DOMAIN stray BY <3>2
      <3>4. w \in Range(stray) BY <3>2, <3>3 DEF Range
      <3>5. findLine(lines, w) \in {Missing} \cup Rules(lines) BY findLineType DEF Found
      <3>6. ASSUME findLine(lines, w) \in Rules(lines) PROVE findLine(lines, w) \in LedTo(g)
        <4>1. Occurs(w, lines[findLine(lines, w)].name) BY <2>4, <3>6, findLineOccurs
        <4> QED BY <1>2, <3>4, <3>6, <4>1 DEF StrayLed
      <3> QED BY <1>2, <2>2, <3>5, <3>6 DEF Led
    <2> QED BY <2>3, <2>4
  <1> QED BY <1>1, <1>2 DEF Led

LEMMA ChainLed ==
  ASSUME IsMakefile(lines), stray \in Seq(Range(stray)), NEW g \in Rules(lines),
         NEW tok, Led(g, findLine(lines, tok)), NEW c, c = Chain(lines, stray, tok)
  PROVE  Range(c) \subseteq LedTo(g) \cup {Missing}
  <1>0. PICK f, n : IsChain(f, n, lines, stray, tok) BY ChainIs
  <1>1. /\ f[1] = findLine(lines, tok)
        /\ \A k \in 1 .. MaxDep : f[k + 1] = Follow(lines, stray, f[k])
        /\ n \in 0 .. MaxDep + 1
        /\ \A k \in 1 .. n : f[k] # FirstLine
        /\ c = [k \in 1 .. n |-> f[k]]
    BY <1>0, Zenon DEF IsChain
  <1>2. MaxDep \in Nat /\ n \in Nat BY <1>1, MakefileAssumption
  <1> DEFINE Bad == {k \in 1 .. n : ~Led(g, f[k])}
  <1>3. Bad = {}
    <2>1. SUFFICES ASSUME Bad # {} PROVE FALSE OBVIOUS
    <2>2. PICK b \in Bad : \A k \in Bad : b <= k
      <3>1. Bad \subseteq Nat OBVIOUS
      <3> HIDE DEF Bad
      <3> QED BY <2>1, <3>1, Least
    <2>3. b \in 1 .. n /\ ~Led(g, f[b]) /\ b # 1 BY <1>1
    <2>4. b - 1 \in 1 .. n /\ b - 1 \in 1 .. MaxDep /\ (b - 1) + 1 = b /\ ~(b <= b - 1)
      BY <1>1, <1>2, <2>3
    <2>5. Led(g, f[b - 1]) BY <2>2, <2>4
    <2>6. f[b] = Follow(lines, stray, f[b - 1]) /\ f[b - 1] # FirstLine BY <1>1, <2>4
    <2> QED BY <2>3, <2>5, <2>6, FollowLed
  <1>4. ASSUME NEW x \in Range(c) PROVE x \in LedTo(g) \cup {Missing}
    <2>1. PICK k \in 1 .. n : x = f[k] BY <1>1 DEF Range
    <2>2. Led(g, f[k]) /\ f[k] # FirstLine BY <1>1, <1>3
    <2> QED BY <2>1, <2>2 DEF Led
  <1> QED BY <1>4

(***************************************************************************)
(* What is run from a record of lines, the last of them first: commands of *)
(* the rules recorded, each after those of the rules it refers to if they  *)
(* are recorded behind it.                                                 *)
(***************************************************************************)
Ordered(d) ==
  \A j \in 1 .. Len(d) : d[j] \in Rules(lines) =>
    \A q \in Refers(d[j]) : \E i \in j + 1 .. Len(d) : d[i] = q

InOrder(s) ==
  \A k \in 1 .. Len(s) :
    /\ s[k].argv # <<>>
    /\ Commands(Refers(RuleOf(s[k].line))) \subseteq {DidOf(s[i]) : i \in 1 .. k - 1}

Made(s) == {DidOf(x) : x \in Range(s)}

LEMMA RecipesOfIs ==
  ASSUME IsMakefile(lines), NEW d \in Seq(Nat)
  PROVE  \E ss \in Seq(Seq(CommandOf(lines))) :
           /\ RecipesOf(lines, d) = FlattenSeq(ss) /\ Len(ss) = Len(d)
           /\ \A j \in 1 .. Len(d) : ss[j] = RecipesUnder(lines, d[Len(d) - j + 1])
  <1> DEFINE n == Len(d)
             ss == [j \in 1 .. n |-> RecipesUnder(lines, Reverse(d)[j])]
  <1>1. n \in Nat /\ DOMAIN d = 1 .. n OBVIOUS
  <1>2. \A j \in 1 .. n : Reverse(d)[j] = d[n - j + 1] /\ d[n - j + 1] \in Nat
    <2>1. \A j \in 1 .. n : (n - j) + 1 \in 1 .. n BY <1>1
    <2> QED BY <1>1, <2>1 DEF Reverse
  <1>3. ss \in Seq(Seq(CommandOf(lines))) /\ Len(ss) = n
    <2>1. \A j \in 1 .. n : RecipesUnder(lines, Reverse(d)[j]) \in Seq(CommandOf(lines))
      BY <1>2, RecipesUnderType
    <2> QED BY <1>1, <2>1
  <1>4. RecipesOf(lines, d) = FlattenSeq(ss) BY <1>1 DEF RecipesOf
  <1>5. \A j \in 1 .. n : ss[j] = RecipesUnder(lines, d[n - j + 1]) BY <1>2
  <1> HIDE DEF ss
  <1> QED BY <1>3, <1>4, <1>5

\* Where a command comes from: the rule recorded at place j of d.
ComesFrom(s, k, d, j) ==
  /\ j \in 1 .. Len(d) /\ d[j] \in Rules(lines)
  /\ s[k] \in Range(RecipesUnder(lines, d[j]))
  /\ \A i \in j + 1 .. Len(d) :
       Range(RecipesUnder(lines, d[i])) \subseteq {s[m] : m \in 1 .. k - 1}

LEMMA RecipesOfPlaces ==
  ASSUME IsMakefile(lines), NEW d \in Seq(Nat), Range(d) \subseteq Found(lines),
         NEW s, s = RecipesOf(lines, d), NEW k \in 1 .. Len(s)
  PROVE  \E j : ComesFrom(s, k, d, j)
  <1>1. PICK ss \in Seq(Seq(CommandOf(lines))) :
           /\ s = FlattenSeq(ss) /\ Len(ss) = Len(d)
           /\ \A j \in 1 .. Len(d) : ss[j] = RecipesUnder(lines, d[Len(d) - j + 1])
    BY RecipesOfIs
  <1>2. PICK z, m : PlaceOf(s, ss, k, z, m) BY <1>1, FlattenPlaces DEF AllPlaced
  <1>3. /\ z \in 1 .. Len(d) /\ m \in 1 .. Len(ss[z]) /\ s[k] = ss[z][m]
        /\ \A i \in 1 .. z - 1 : Range(ss[i]) \subseteq {s[j] : j \in 1 .. k - 1}
    BY <1>1, <1>2 DEF PlaceOf
  <1>4. PICK n \in Nat : n = Len(d) OBVIOUS
  <1>5. PICK j \in 1 .. n : j = n - z + 1
    <2>1. n - z + 1 \in 1 .. n BY <1>3, <1>4
    <2> QED BY <2>1
  <1>6. ss[z] = RecipesUnder(lines, d[j]) BY <1>1, <1>3, <1>4, <1>5
  <1>7. ss[z][m] \in Range(ss[z])
    <2>1. ss[z] \in Seq(CommandOf(lines)) BY <1>1, <1>3
    <2>2. PICK t \in Seq(CommandOf(lines)) : t = ss[z] BY <2>1, Zenon
    <2>3. \A i \in 1 .. Len(t) : t[i] \in Range(t) BY DEF Range
    <2> QED BY <1>3, <2>2, <2>3
  <1>8. d[j] \in Rules(lines)
    <2>1. j \in DOMAIN d BY <1>4, <1>5
    <2>2. d[j] \in Range(d) BY <2>1 DEF Range
    <2>3. d[j] # 0
      <3>1. d[j] = 0 => ss[z] = <<>> BY <1>6, NoneUnderMissing
      <3>2. ss[z] # <<>> BY <1>3
      <3> QED BY <3>1, <3>2
    <2> QED BY <2>2, <2>3 DEF Found, Missing
  <1>9. ASSUME NEW i \in j + 1 .. n
        PROVE  Range(RecipesUnder(lines, d[i])) \subseteq {s[x] : x \in 1 .. k - 1}
    <2>1. PICK y \in 1 .. z - 1 : y = n - i + 1
      <3>0. z \in 1 .. n /\ j = n - z + 1 BY <1>3, <1>4, <1>5
      <3>1. n - i + 1 \in 1 .. z - 1 BY <3>0
      <3> QED BY <3>1
    <2>2. y \in 1 .. Len(d) /\ n - y + 1 = i BY <1>3, <1>4, <2>1
    <2>3. ss[y] = RecipesUnder(lines, d[i]) BY <1>1, <1>4, <2>2
    <2> QED BY <1>3, <2>1, <2>3
  <1>10. ComesFrom(s, k, d, j) BY <1>3, <1>4, <1>6, <1>7, <1>8, <1>9 DEF ComesFrom
  <1> QED BY <1>10

LEMMA RecipesInOrder ==
  ASSUME IsMakefile(lines), UnderRules, NEW d \in Seq(Nat), Range(d) \subseteq Found(lines),
         Ordered(d), NEW s, s = RecipesOf(lines, d)
  PROVE  InOrder(s) /\ Made(s) = Commands(Range(d) \cap Rules(lines))
  <1>1. s \in Seq(CommandOf(lines)) BY RecipesOfType
  <1>2. Range(s) = {s[k] : k \in 1 .. Len(s)} BY <1>1 DEF Range
  <1>3. \A S : \A c : c \in Commands(S) <=>
                        RuleOf(c.line) \in S /\ c \in Commands({RuleOf(c.line)})
    BY DEF Commands
  <1>4. ASSUME NEW k \in 1 .. Len(s)
        PROVE  /\ s[k].argv # <<>>
               /\ Commands(Refers(RuleOf(s[k].line))) \subseteq {DidOf(s[i]) : i \in 1 .. k - 1}
               /\ DidOf(s[k]) \in Commands(Range(d) \cap Rules(lines))
    <2>0. PICK j : ComesFrom(s, k, d, j) BY RecipesOfPlaces
    <2>1. /\ j \in 1 .. Len(d) /\ d[j] \in Rules(lines)
          /\ s[k] \in Range(RecipesUnder(lines, d[j]))
          /\ \A i \in j + 1 .. Len(d) :
               Range(RecipesUnder(lines, d[i])) \subseteq {s[m] : m \in 1 .. k - 1}
      BY <2>0, Zenon DEF ComesFrom
    <2>2. /\ s[k].argv # <<>> /\ RuleOf(s[k].line) = d[j]
          /\ DidOf(s[k]) \in Commands({d[j]})
      BY <2>1, UnderIs
    <2>3. j \in DOMAIN d BY <2>1
    <2>4. d[j] \in Range(d) BY <2>3 DEF Range
    <2>5. DidOf(s[k]) \in Commands(Range(d) \cap Rules(lines))
      <3>1. RuleOf(DidOf(s[k]).line) = d[j] /\ DidOf(s[k]) \in Commands({d[j]})
        <4>1. RuleOf(DidOf(s[k]).line) \in {d[j]} BY <1>3, <2>2, Zenon
        <4> QED BY <2>2, <4>1
      <3>2. RuleOf(DidOf(s[k]).line) \in Range(d) \cap Rules(lines) BY <2>1, <2>4, <3>1
      <3>3. DidOf(s[k]) \in Commands({RuleOf(DidOf(s[k]).line)}) BY <3>1
      <3> QED BY <1>3, <3>2, <3>3, Zenon
    <2>6. ASSUME NEW c \in Commands(Refers(d[j]))
          PROVE  c \in {DidOf(s[i]) : i \in 1 .. k - 1}
      <3>1. RuleOf(c.line) \in Refers(d[j]) /\ c \in Commands({RuleOf(c.line)}) BY <1>3
      <3>2. RuleOf(c.line) \in Rules(lines) BY <3>1 DEF Refers
      <3>3. PICK i \in j + 1 .. Len(d) : d[i] = RuleOf(c.line) BY <2>1, <3>1 DEF Ordered
      <3>4. PICK x \in Range(RecipesUnder(lines, d[i])) : DidOf(x) = c
        BY <3>1, <3>2, <3>3, UnderIs
      <3>5. x \in {s[m] : m \in 1 .. k - 1} BY <2>1, <3>4
      <3> QED BY <3>4, <3>5
    <2> QED BY <2>2, <2>5, <2>6
  <1>5. ASSUME NEW c \in Commands(Range(d) \cap Rules(lines)) PROVE c \in Made(s)
    <2>1. /\ RuleOf(c.line) \in Range(d) /\ RuleOf(c.line) \in Rules(lines)
          /\ c \in Commands({RuleOf(c.line)})
      BY <1>3
    <2>2. PICK n \in Nat : n = Len(d) /\ DOMAIN d = 1 .. n OBVIOUS
    <2>3. PICK j \in 1 .. n : d[j] = RuleOf(c.line) BY <2>1, <2>2 DEF Range
    <2>4. PICK x \in Range(RecipesUnder(lines, d[j])) : DidOf(x) = c BY <2>1, <2>3, UnderIs
    <2>5. PICK ss \in Seq(Seq(CommandOf(lines))) :
           /\ s = FlattenSeq(ss) /\ Len(ss) = n
           /\ \A i \in 1 .. n : ss[i] = RecipesUnder(lines, d[n - i + 1])
      BY <2>2, RecipesOfIs
    <2>6. PICK y \in 1 .. n : y = n - j + 1
      <3>1. n - j + 1 \in 1 .. n BY <2>2
      <3> QED BY <3>1
    <2>7. n - y + 1 = j BY <2>2, <2>6
    <2>8. ss[y] = RecipesUnder(lines, d[j]) BY <2>5, <2>7
    <2>9. x \in Range(s) BY <2>4, <2>5, <2>8, FlattenHas
    <2> QED BY <2>4, <2>9 DEF Made
  <1>6. ASSUME NEW c \in Made(s) PROVE c \in Commands(Range(d) \cap Rules(lines))
    <2>1. PICK x \in Range(s) : c = DidOf(x) BY DEF Made
    <2>2. PICK k \in 1 .. Len(s) : x = s[k] BY <1>2
    <2> QED BY <1>4, <2>1, <2>2
  <1>7. InOrder(s) BY <1>4 DEF InOrder
  <1> QED BY <1>5, <1>6, <1>7

\* In any file the commands belong to the rules recorded.
LEMMA RecipesOfRules ==
  ASSUME IsMakefile(lines), NEW d \in Seq(Nat), Range(d) \subseteq Found(lines),
         NEW x \in Range(RecipesOf(lines, d))
  PROVE  RuleOf(x.line) \in Range(d) \cap Rules(lines)
  <1>1. PICK s \in Seq(CommandOf(lines)) : s = RecipesOf(lines, d)
    <2>1. RecipesOf(lines, d) \in Seq(CommandOf(lines)) BY RecipesOfType
    <2> QED BY <2>1, Zenon
  <1>2. PICK k \in 1 .. Len(s) : x = s[k] BY <1>1 DEF Range
  <1>3. PICK j : /\ j \in 1 .. Len(d) /\ d[j] \in Rules(lines)
                 /\ s[k] \in Range(RecipesUnder(lines, d[j]))
    BY <1>1, RecipesOfPlaces DEF ComesFrom
  <1>4. RuleOf(x.line) = d[j] BY <1>2, <1>3, UnderIs
  <1>5. j \in DOMAIN d BY <1>3
  <1> QED BY <1>3, <1>4, <1>5 DEF Range
-----------------------------------------------------------------------------
(***************************************************************************)
(* The record for the first target: a chain for its name and for each      *)
(* dependency.                                                             *)
(***************************************************************************)
LEMMA DepNoPlaces ==
  ASSUME IsMakefile(lines)
  PROVE  \E ss \in Seq(Seq(Nat)) :
           /\ DepNo(lines, stray, FirstTokens(lines)) = FlattenSeq(ss)
           /\ \A z \in 1 .. Len(ss) : \E w \in NamesIn(FirstLine) : ss[z] = Chain(lines, stray, w)
           /\ \A w \in NamesIn(FirstLine) : \E z \in 1 .. Len(ss) : ss[z] = Chain(lines, stray, w)
  <1>1. PICK deps \in Seq(Word(lines)) : deps = lines[FirstLine].deps
    BY FileType DEF FirstLine
  <1>2. PICK n \in Nat : n = Len(deps) OBVIOUS
  <1>3. PICK tokens \in Seq(Word(lines)) :
          /\ tokens = FirstTokens(lines) /\ Len(tokens) = n + 1
          /\ tokens[1] = lines[FirstLine].name
          /\ \A j \in 2 .. n + 1 : tokens[j] = deps[j - 1]
    BY <1>1, <1>2, FirstTokensAre
  <1>4. DOMAIN tokens = 1 .. n + 1 /\ DOMAIN deps = 1 .. n /\ n + 1 \in Nat BY <1>2, <1>3
  <1>5. \A j \in 1 .. n + 1 : tokens[j] \in NamesIn(FirstLine)
    <2> SUFFICES ASSUME NEW j \in 1 .. n + 1 PROVE tokens[j] \in NamesIn(FirstLine) OBVIOUS
    <2>1. CASE j = 1 BY <1>3, <2>1 DEF NamesIn
    <2>2. CASE j # 1
      <3>1. j \in 2 .. n + 1 /\ j - 1 \in 1 .. n BY <2>2
      <3>2. deps[j - 1] \in Range(deps) BY <1>4, <3>1 DEF Range
      <3> QED BY <1>1, <1>3, <3>1, <3>2 DEF NamesIn
    <2> QED BY <2>1, <2>2
  <1>6. \A w \in NamesIn(FirstLine) : \E j \in 1 .. n + 1 : tokens[j] = w
    <2> SUFFICES ASSUME NEW w \in NamesIn(FirstLine) PROVE \E j \in 1 .. n + 1 : tokens[j] = w
      OBVIOUS
    <2>1. CASE w \in Range(deps)
      <3>1. PICK k \in 1 .. n : w = deps[k] BY <1>4, <2>1 DEF Range
      <3>2. k + 1 \in 2 .. n + 1 /\ k + 1 \in 1 .. n + 1 /\ (k + 1) - 1 = k OBVIOUS
      <3>3. tokens[k + 1] = w BY <1>3, <3>1, <3>2
      <3> QED BY <3>2, <3>3
    <2>2. CASE w = lines[FirstLine].name
      <3>1. 1 \in 1 .. n + 1 OBVIOUS
      <3> QED BY <1>3, <2>2, <3>1
    <2> QED BY <1>1, <2>1, <2>2 DEF NamesIn
  <1> DEFINE ss == [z \in 1 .. n + 1 |-> Chain(lines, stray, Reverse(tokens)[z])]
  <1>7. \A z \in 1 .. n + 1 : (n + 1) - z + 1 \in 1 .. n + 1 OBVIOUS
  <1>8. \A z \in 1 .. n + 1 : Reverse(tokens)[z] = tokens[(n + 1) - z + 1]
    BY <1>3, <1>4, <1>7 DEF Reverse
  <1>9. ss \in Seq(Seq(Nat)) /\ Len(ss) = n + 1
    <2>1. \A z \in 1 .. n + 1 : Chain(lines, stray, Reverse(tokens)[z]) \in Seq(Nat)
      BY ChainType
    <2> QED BY <1>4, <2>1
  <1>10. DepNo(lines, stray, FirstTokens(lines)) = FlattenSeq(ss) BY <1>3, <1>4 DEF DepNo
  <1>11. ASSUME NEW z \in 1 .. n + 1
         PROVE  \E w \in NamesIn(FirstLine) : ss[z] = Chain(lines, stray, w)
    BY <1>5, <1>7, <1>8
  <1>12. ASSUME NEW w \in NamesIn(FirstLine)
         PROVE  \E z \in 1 .. n + 1 : ss[z] = Chain(lines, stray, w)
    <2>1. PICK j \in 1 .. n + 1 : tokens[j] = w BY <1>6
    <2>2. (n + 1) - j + 1 \in 1 .. n + 1 /\ (n + 1) - ((n + 1) - j + 1) + 1 = j OBVIOUS
    <2>3. Reverse(tokens)[(n + 1) - j + 1] = w BY <1>8, <2>1, <2>2
    <2> QED BY <2>2, <2>3
  <1> HIDE DEF ss
  <1> QED BY <1>9, <1>10, <1>11, <1>12

LEMMA DepNoOrder ==
  ASSUME IsMakefile(lines), WellWritten, stray \in Seq(Range(stray)),
         NEW d \in Seq(Nat), d = DepNo(lines, stray, FirstTokens(lines)), Len(d) <= MaxDep
  PROVE  /\ Ordered(d)
         /\ Range(d) \subseteq {Missing} \cup Needed(FirstLine)
         /\ Refers(FirstLine) \subseteq Range(d)
  <1>1. PICK ss \in Seq(Seq(Nat)) :
           /\ d = FlattenSeq(ss)
           /\ \A z \in 1 .. Len(ss) : \E w \in NamesIn(FirstLine) : ss[z] = Chain(lines, stray, w)
           /\ \A w \in NamesIn(FirstLine) : \E z \in 1 .. Len(ss) : ss[z] = Chain(lines, stray, w)
    BY DepNoPlaces
  <1>2. /\ \A j \in 1 .. Len(d) : \E z, m : PlaceOf(d, ss, j, z, m)
        /\ \A z \in 1 .. Len(ss) : Range(ss[z]) \subseteq Range(d) /\ Len(ss[z]) <= Len(d)
    BY <1>1, FlattenPlaces DEF AllPlaced
  <1>3. Len(d) \in Nat /\ MaxDep \in Nat /\ FirstLine \in Rules(lines) /\ Distinct /\ OneReference
    BY MakefileAssumption, FileType DEF FirstLine, WellWritten
  <1>4. ASSUME NEW z \in 1 .. Len(ss)
        PROVE  /\ Linked(ss[z])
               /\ \A x \in Range(ss[z]) : x = Missing \/ x \in Needed(FirstLine)
    <2>1. PICK w \in NamesIn(FirstLine) : ss[z] = Chain(lines, stray, w) BY <1>1
    <2>2. ss[z] \in Seq(Nat) OBVIOUS
    <2>3. PICK c \in Seq(Nat) : c = ss[z] BY <2>2, Zenon
    <2>4. Len(c) <= MaxDep
      <3>1. Len(c) <= Len(d) /\ Len(c) \in Nat BY <1>2, <2>3
      <3> QED BY <1>3, <3>1
    <2>5. PICK h : h = findLine(lines, w) OBVIOUS
    <2>6. /\ Linked(c)
          /\ \A x \in Range(c) :
              x = Missing \/ (h \in Rules(lines) /\ x \in Needed(h) /\ x # FirstLine)
      BY <2>1, <2>3, <2>4, <2>5, ChainOrder
    <2>7. h \in Rules(lines) => Needed(h) \subseteq Needed(FirstLine)
      <3> SUFFICES ASSUME h \in Rules(lines) PROVE Needed(h) \subseteq Needed(FirstLine)
        OBVIOUS
      <3>1. w # NULL BY <1>3, DepsAreThere DEF NamesIn
      <3>2. lines[h].name = w BY <1>3, <2>5, <3>1, NameFound
      <3>3. h \in Needed(FirstLine)
        <4>1. CASE w \in Range(lines[FirstLine].deps)
          <5>1. h \in Refers(FirstLine) BY <3>2, <4>1 DEF Refers
          <5> QED BY <1>3, <5>1, NeededIs
        <4>2. CASE w = lines[FirstLine].name
          <5>1. h = FirstLine BY <1>3, <3>2, <4>2 DEF Distinct
          <5> QED BY <1>3, <5>1, NeededIs
        <4> QED BY <4>1, <4>2 DEF NamesIn
      <3>4. /\ Needed(FirstLine) \subseteq Rules(lines)
            /\ \A q \in Needed(FirstLine) : Refers(q) \subseteq Needed(FirstLine)
        BY <1>3, NeededIs
      <3> QED BY <3>3, <3>4, NeededIs
    <2> QED BY <2>3, <2>6, <2>7
  <1>5. Ordered(d)
    <2> SUFFICES ASSUME NEW j \in 1 .. Len(d), d[j] \in Rules(lines), NEW q \in Refers(d[j])
                 PROVE  \E i \in j + 1 .. Len(d) : d[i] = q
      BY DEF Ordered
    <2>1. PICK z, m : PlaceOf(d, ss, j, z, m) BY <1>2
    <2>2. /\ z \in 1 .. Len(ss) /\ m \in 1 .. Len(ss[z]) /\ d[j] = ss[z][m]
          /\ m < Len(ss[z]) => j < Len(d) /\ d[j + 1] = ss[z][m + 1]
      BY <2>1 DEF PlaceOf
    <2>3. m < Len(ss[z]) /\ ss[z][m + 1] = q BY <1>4, <2>2 DEF Linked
    <2>4. j + 1 \in j + 1 .. Len(d)
      <3>1. j < Len(d) BY <2>2, <2>3
      <3>2. PICK n \in Nat : n = Len(d) BY <1>3
      <3> QED BY <3>1, <3>2
    <2> QED BY <2>2, <2>3, <2>4
  <1>6. ASSUME NEW x \in Range(d) PROVE x = Missing \/ x \in Needed(FirstLine)
    <2>1. PICK j \in 1 .. Len(d) : x = d[j] BY DEF Range
    <2>2. PICK z, m : PlaceOf(d, ss, j, z, m) BY <1>2
    <2>3. z \in 1 .. Len(ss) /\ m \in 1 .. Len(ss[z]) /\ x = ss[z][m]
      BY <2>1, <2>2 DEF PlaceOf
    <2>4. ss[z] \in Seq(Nat) BY <2>3
    <2>5. PICK c \in Seq(Nat) : c = ss[z] BY <2>4, Zenon
    <2>6. m \in DOMAIN c BY <2>3, <2>5
    <2>7. x \in Range(c) BY <2>3, <2>5, <2>6 DEF Range
    <2> QED BY <1>4, <2>3, <2>5, <2>7
  <1>7. ASSUME NEW q \in Refers(FirstLine) PROVE q \in Range(d)
    <2>1. q \in Rules(lines) /\ lines[q].name \in Range(lines[FirstLine].deps) /\ q # FirstLine
      BY <1>3, <1>7 DEF Refers, OneReference
    <2>2. PICK w : w = lines[q].name OBVIOUS
    <2>3. w \in NamesIn(FirstLine) /\ w # NULL BY <2>1, <2>2, DepsAreThere DEF NamesIn
    <2>4. findLine(lines, w) = q BY <1>3, <2>1, <2>2, <2>3, NameFound
    <2>5. PICK z \in 1 .. Len(ss) : ss[z] = Chain(lines, stray, w) BY <1>1, <2>3
    <2>6. ss[z] \in Seq(Nat) OBVIOUS
    <2>7. PICK c \in Seq(Nat) : c = ss[z] BY <2>6, Zenon
    <2>8. Len(c) <= MaxDep
      <3>1. Len(c) <= Len(d) /\ Len(c) \in Nat BY <1>2, <2>7
      <3> QED BY <1>3, <3>1
    <2>9. q \in Range(c) BY <2>1, <2>4, <2>5, <2>7, <2>8, ChainOrder
    <2> QED BY <1>2, <2>7, <2>9
  <1> QED BY <1>5, <1>6, <1>7

\* In any file, names lead to what is recorded.
LEMMA DepNoLed ==
  ASSUME IsMakefile(lines), stray \in Seq(Range(stray)),
         NEW d \in Seq(Nat), d = DepNo(lines, stray, FirstTokens(lines))
  PROVE  Range(d) \subseteq LedTo(FirstLine) \cup {Missing}
  <1>1. PICK ss \in Seq(Seq(Nat)) :
           /\ d = FlattenSeq(ss)
           /\ \A z \in 1 .. Len(ss) : \E w \in NamesIn(FirstLine) : ss[z] = Chain(lines, stray, w)
    BY DepNoPlaces
  <1>2. FirstLine \in Rules(lines) BY FileType DEF FirstLine
  <1>3. FirstLine \in LedTo(FirstLine) BY <1>2, LedToIs
  <1>4. ASSUME NEW x \in Range(d) PROVE x \in LedTo(FirstLine) \cup {Missing}
    <2>1. PICK j \in 1 .. Len(d) : x = d[j] BY DEF Range
    <2>2. PICK z, m : PlaceOf(d, ss, j, z, m) BY <1>1, FlattenPlaces DEF AllPlaced
    <2>3. z \in 1 .. Len(ss) /\ m \in 1 .. Len(ss[z]) /\ x = ss[z][m]
      BY <2>1, <2>2 DEF PlaceOf
    <2>4. ss[z] \in Seq(Nat) BY <2>3
    <2>5. PICK c \in Seq(Nat) : c = ss[z] BY <2>4, Zenon
    <2>6. m \in DOMAIN c BY <2>3, <2>5
    <2>7. x \in Range(c) BY <2>3, <2>5, <2>6 DEF Range
    <2>8. PICK w \in NamesIn(FirstLine) : c = Chain(lines, stray, w) BY <1>1, <2>3, <2>5
    <2>9. Led(FirstLine, findLine(lines, w)) BY <1>2, <1>3, NamesLead
    <2> QED BY <1>2, <2>7, <2>8, <2>9, ChainLed
  <1> QED BY <1>4

(***************************************************************************)
(* What main works out for a goal.                                         *)
(***************************************************************************)
Chosen ==
  \/ goal = RunAll /\ plan = RunFirst(lines, stray) /\ ~RunOverflows(lines, stray)
  \/ /\ goal \in Targets /\ findLine(lines, goal) # Missing
     /\ plan = RunTarget(lines, stray, goal) /\ ~TargetOverflows(lines, stray, goal)

\* The first target's own recipes are run behind the recorded ones.
LEMMA FirstAtTheEnd ==
  ASSUME IsMakefile(lines), NEW d \in Seq(Nat)
  PROVE  /\ <<FirstLine>> \o d \in Seq(Nat)
         /\ RecipesOf(lines, d) \o RecipesUnder(lines, FirstLine)
              = RecipesOf(lines, <<FirstLine>> \o d)
  <1>1. <<FirstLine>> \in Seq(Nat) BY DEF FirstLine
  <1>2. PICK a \in Seq(Nat) : a = <<FirstLine>> BY <1>1, Zenon
  <1>3. RecipesOf(lines, a \o d) = RecipesOf(lines, d) \o RecipesOf(lines, a)
    BY RecipesOfConcat
  <1>4. RecipesOf(lines, a) = RecipesUnder(lines, FirstLine)
    <2>1. PICK ss \in Seq(Seq(CommandOf(lines))) :
           /\ RecipesOf(lines, a) = FlattenSeq(ss) /\ Len(ss) = Len(a)
           /\ \A j \in 1 .. Len(a) : ss[j] = RecipesUnder(lines, a[Len(a) - j + 1])
      BY RecipesOfIs
    <2>2. Len(a) = 1 /\ a[1] = FirstLine BY <1>2
    <2>3. 1 \in 1 .. Len(a) /\ Len(a) - 1 + 1 = 1 BY <2>2
    <2>4. ss[1] = RecipesUnder(lines, FirstLine) /\ Len(ss) = 1 BY <2>1, <2>2, <2>3
    <2>5. RecipesUnder(lines, FirstLine) \in Seq(CommandOf(lines))
      BY RecipesUnderType DEF FirstLine
    <2>6. PICK u \in Seq(CommandOf(lines)) : u = RecipesUnder(lines, FirstLine)
      BY <2>5, Zenon
    <2>7. ss = <<u>>
      <3>1. PICK X : X = Seq(CommandOf(lines)) OBVIOUS
      <3>2. \A t \in Seq(X) : \A y : Len(t) = 1 /\ t[1] = y => t = <<y>> OBVIOUS
      <3>3. ss \in Seq(X) BY <3>1
      <3> QED BY <2>4, <2>6, <3>2, <3>3, Zenon
    <2>8. FlattenSeq(<<u>>) = u BY FlattenSingle
    <2> QED BY <2>1, <2>6, <2>7, <2>8
  <1>5. a \o d \in Seq(Nat) OBVIOUS
  <1> QED BY <1>2, <1>3, <1>4, <1>5

LEMMA FirstInOrder ==
  ASSUME IsMakefile(lines), WellWritten, stray \in Seq(Range(stray)),
         Len(DepNo(lines, stray, FirstTokens(lines))) <= MaxDep,
         NEW s, s = RecipesOf(lines, DepNo(lines, stray, FirstTokens(lines)))
                      \o RecipesUnder(lines, FirstLine)
  PROVE  InOrder(s) /\ Made(s) = Commands(Needed(FirstLine))
  <1>1. PICK d \in Seq(Nat) : d = DepNo(lines, stray, FirstTokens(lines)) BY DepNoType
  <1>2. /\ Ordered(d) /\ Range(d) \subseteq {Missing} \cup Needed(FirstLine)
        /\ Refers(FirstLine) \subseteq Range(d)
    BY <1>1, DepNoOrder
  <1>3. PICK e \in Seq(Nat) : e = <<FirstLine>> \o d
    <2>1. <<FirstLine>> \o d \in Seq(Nat) BY FirstAtTheEnd
    <2> QED BY <2>1, Zenon
  <1>4. s = RecipesOf(lines, e) BY <1>1, <1>3, FirstAtTheEnd
  <1>5. PICK n \in Nat : n = Len(d) OBVIOUS
  <1>6. Len(e) = n + 1 /\ e[1] = FirstLine /\ \A j \in 1 .. n : e[j + 1] = d[j]
    <2>1. <<FirstLine>> \in Seq(Nat) BY DEF FirstLine
    <2> QED BY <1>3, <1>5, <2>1
  <1>7. Range(d) = {d[j] : j \in 1 .. n} /\ Range(e) = {e[j] : j \in 1 .. n + 1}
    <2>1. DOMAIN d = 1 .. n /\ DOMAIN e = 1 .. n + 1 BY <1>5, <1>6
    <2> QED BY <2>1 DEF Range
  <1>8. Range(e) = Range(d) \cup {FirstLine}
    <2>1. ASSUME NEW x \in Range(e) PROVE x \in Range(d) \cup {FirstLine}
      <3>1. PICK j \in 1 .. n + 1 : x = e[j] BY <1>7
      <3>2. j # 1 => j - 1 \in 1 .. n /\ (j - 1) + 1 = j OBVIOUS
      <3>3. CASE j = 1 BY <1>6, <3>1, <3>3
      <3>4. CASE j # 1 BY <1>6, <1>7, <3>1, <3>2, <3>4
      <3> QED BY <3>3, <3>4
    <2>2. ASSUME NEW x \in Range(d) PROVE x \in Range(e)
      <3>1. PICK j \in 1 .. n : x = d[j] BY <1>7
      <3>2. j + 1 \in 1 .. n + 1 OBVIOUS
      <3> QED BY <1>6, <1>7, <3>1, <3>2
    <2>3. FirstLine \in Range(e)
      <3>1. 1 \in 1 .. n + 1 OBVIOUS
      <3> QED BY <1>6, <1>7, <3>1
    <2> QED BY <2>1, <2>2, <2>3
  <1>9. Ordered(e)
    <2> SUFFICES ASSUME NEW j \in 1 .. n + 1, e[j] \in Rules(lines), NEW q \in Refers(e[j])
                 PROVE  \E i \in j + 1 .. n + 1 : e[i] = q
      BY <1>6 DEF Ordered
    <2>1. CASE j = 1
      <3>1. PICK i \in 1 .. n : d[i] = q BY <1>2, <1>6, <1>7, <2>1
      <3>2. i + 1 \in j + 1 .. n + 1 BY <2>1
      <3> QED BY <1>6, <3>1, <3>2
    <2>2. CASE j # 1
      <3>1. PICK k \in 1 .. n : k = j - 1
        <4>1. j - 1 \in 1 .. n BY <2>2
        <4> QED BY <4>1
      <3>2. e[j] = d[k]
        <4>1. k + 1 = j BY <3>1
        <4> QED BY <1>6, <4>1
      <3>3. PICK i \in k + 1 .. n : d[i] = q BY <1>2, <1>5, <3>2 DEF Ordered
      <3>4. i \in 1 .. n /\ i + 1 \in j + 1 .. n + 1 BY <3>1
      <3> QED BY <1>6, <3>3, <3>4
    <2> QED BY <2>1, <2>2
  <1>10. FirstLine \in Rules(lines) BY FileType DEF FirstLine
  <1>11. /\ FirstLine \in Needed(FirstLine) /\ Needed(FirstLine) \subseteq Rules(lines)
         /\ \A S \in SUBSET Rules(lines) :
              FirstLine \in S /\ (\A q \in S : Refers(q) \subseteq S) => Needed(FirstLine) \subseteq S
    BY <1>10, NeededIs
  <1>12. Range(e) \subseteq Found(lines) BY <1>2, <1>8, <1>11 DEF Found
  <1>13. Range(e) \cap Rules(lines) = Needed(FirstLine)
    <2>1. Missing \notin Rules(lines) BY FileType DEF Missing
    <2>2. PICK S \in SUBSET Rules(lines) : S = Range(e) \cap Rules(lines) OBVIOUS
    <2>3. ASSUME NEW r \in S, NEW q \in Refers(r) PROVE q \in S
      <3>1. PICK j \in 1 .. n + 1 : r = e[j] BY <1>7, <2>2
      <3>2. PICK i \in j + 1 .. n + 1 : e[i] = q BY <1>6, <1>9, <2>2, <3>1 DEF Ordered
      <3>3. i \in 1 .. n + 1 OBVIOUS
      <3>4. q \in Rules(lines) BY DEF Refers
      <3> QED BY <1>7, <2>2, <3>2, <3>3, <3>4
    <2>4. Needed(FirstLine) \subseteq S BY <1>8, <1>10, <1>11, <2>2, <2>3
    <2>5. S \subseteq Needed(FirstLine) BY <1>2, <1>8, <1>11, <2>1, <2>2
    <2> QED BY <2>2, <2>4, <2>5
  <1>14. UnderRules BY DEF WellWritten
  <1>15. InOrder(s) /\ Made(s) = Commands(Range(e) \cap Rules(lines))
    BY <1>4, <1>9, <1>12, <1>14, RecipesInOrder
  <1> QED BY <1>13, <1>15

LEMMA LaterInOrder ==
  ASSUME IsMakefile(lines), WellWritten, stray \in Seq(Range(stray)),
         NEW tok, NEW h, h = findLine(lines, tok), h \notin {Missing, FirstLine},
         Len(Chain(lines, stray, tok)) <= MaxDep,
         NEW s, s = RecipesOf(lines, Chain(lines, stray, tok))
  PROVE  InOrder(s) /\ Made(s) = Commands(Needed(h))
  <1>1. PICK c \in Seq(Nat) : c = Chain(lines, stray, tok) BY ChainType
  <1>2. h \in Rules(lines) BY findLineType DEF Found
  <1>3. /\ Linked(c) /\ h \in Range(c)
        /\ \A x \in Range(c) : x = Missing \/ x \in Needed(h)
    BY <1>1, ChainOrder
  <1>4. PICK n \in Nat : n = Len(c) /\ DOMAIN c = 1 .. n OBVIOUS
  <1>5. Ordered(c)
    <2> SUFFICES ASSUME NEW j \in 1 .. n, c[j] \in Rules(lines), NEW q \in Refers(c[j])
                 PROVE  \E i \in j + 1 .. n : c[i] = q
      BY <1>4 DEF Ordered
    <2>1. j < n /\ c[j + 1] = q BY <1>3, <1>4 DEF Linked
    <2>2. j + 1 \in j + 1 .. n BY <2>1
    <2> QED BY <2>1, <2>2
  <1>6. /\ Needed(h) \subseteq Rules(lines)
        /\ \A S \in SUBSET Rules(lines) :
             h \in S /\ (\A q \in S : Refers(q) \subseteq S) => Needed(h) \subseteq S
    BY <1>2, NeededIs
  <1>7. Range(c) \subseteq Found(lines) BY <1>3, <1>6 DEF Found
  <1>8. Range(c) \cap Rules(lines) = Needed(h)
    <2>1. Missing \notin Rules(lines) BY FileType DEF Missing
    <2>2. PICK S \in SUBSET Rules(lines) : S = Range(c) \cap Rules(lines) OBVIOUS
    <2>3. ASSUME NEW r \in S, NEW q \in Refers(r) PROVE q \in S
      <3>1. PICK j \in 1 .. n : r = c[j] BY <1>4, <2>2 DEF Range
      <3>2. PICK i \in j + 1 .. n : c[i] = q BY <1>4, <1>5, <2>2, <3>1 DEF Ordered
      <3>3. i \in 1 .. n OBVIOUS
      <3>4. q \in Range(c) BY <1>4, <3>2, <3>3 DEF Range
      <3>5. q \in Rules(lines) BY DEF Refers
      <3> QED BY <2>2, <3>4, <3>5
    <2>4. Needed(h) \subseteq S BY <1>2, <1>3, <1>6, <2>2, <2>3
    <2>5. S \subseteq Needed(h) BY <1>3, <2>1, <2>2
    <2> QED BY <2>2, <2>4, <2>5
  <1>9. UnderRules BY DEF WellWritten
  <1>10. InOrder(s) /\ Made(s) = Commands(Range(c) \cap Rules(lines))
    BY <1>1, <1>5, <1>7, <1>9, RecipesInOrder
  <1> QED BY <1>8, <1>10

\* A line that is not split at commas: it makes no difference to one command.
LEMMA WholeIsSplit ==
  ASSUME IsMakefile(lines), NEW i, RecipeAt(lines, i), Len(lines[i].cmds) = 1
  PROVE  Whole(lines, i) = Split(lines, i)
  <1>1. lines[i].cmds \in Seq(Word(lines)) BY FileType
  <1>2. PICK cmds \in Seq(Word(lines)) : cmds = lines[i].cmds BY <1>1, Zenon
  <1>3. Len(cmds) = 1 /\ DOMAIN cmds = 1 .. 1 /\ cmds = <<cmds[1]>> BY <1>2
  <1>4. Split(lines, i) = [c \in 1 .. 1 |-> [line |-> i, argv |-> <<cmds[c]>>]]
    BY <1>2, <1>3 DEF Split
  <1>5. PICK y : y = [line |-> i, argv |-> cmds] OBVIOUS
  <1>6. \A c \in 1 .. 1 : [line |-> i, argv |-> <<cmds[c]>>] = y
    <2>1. \A c \in 1 .. 1 : c = 1 OBVIOUS
    <2> QED BY <1>3, <1>5, <2>1
  <1>7. Split(lines, i) = [c \in 1 .. 1 |-> y] BY <1>4, <1>6
  <1>8. [c \in 1 .. 1 |-> y] = <<y>> OBVIOUS
  <1>9. Whole(lines, i) = <<y>> BY <1>2, <1>5 DEF Whole
  <1> QED BY <1>7, <1>8, <1>9

WholeLines ==
  FlattenSeq([k \in DOMAIN RecipeLines(lines, FirstLine) |-> Whole(lines, FirstLine + k)])

LEMMA WholeLinesSplit ==
  ASSUME IsMakefile(lines),
         \A i \in Range(RecipeLines(lines, FirstLine)) : Len(lines[i].cmds) = 1
  PROVE  WholeLines = RecipesUnder(lines, FirstLine)
  <1>1. PICK n \in Nat : /\ RecipeLines(lines, FirstLine) = [k \in 1 .. n |-> FirstLine + k]
                         /\ \A k \in 1 .. n : RecipeAt(lines, FirstLine + k)
    BY RecipeLinesType DEF FirstLine
  <1>2. PICK rl : rl = RecipeLines(lines, FirstLine) OBVIOUS
  <1>3. DOMAIN rl = 1 .. n /\ \A k \in 1 .. n : rl[k] = FirstLine + k BY <1>1, <1>2
  <1>4. ASSUME NEW k \in 1 .. n PROVE Whole(lines, FirstLine + k) = Split(lines, rl[k])
    <2>1. rl[k] \in Range(rl) BY <1>3 DEF Range
    <2>2. Len(lines[FirstLine + k].cmds) = 1 BY <1>2, <1>3, <2>1
    <2> QED BY <1>1, <1>3, <2>2, WholeIsSplit
  <1>5. [k \in DOMAIN rl |-> Whole(lines, FirstLine + k)]
          = [k \in DOMAIN rl |-> Split(lines, rl[k])]
    BY <1>3, <1>4
  <1> QED BY <1>2, <1>5 DEF WholeLines, RecipesUnder

LEMMA WholeLinesOfFirst ==
  ASSUME IsMakefile(lines)
  PROVE  /\ WholeLines \in Seq(CommandOf(lines))
         /\ \A x \in Range(WholeLines) : RuleOf(x.line) = FirstLine
  <1>1. PICK n \in Nat : /\ RecipeLines(lines, FirstLine) = [k \in 1 .. n |-> FirstLine + k]
                         /\ \A k \in 1 .. n : RecipeAt(lines, FirstLine + k)
    BY RecipeLinesType DEF FirstLine
  <1> DEFINE ss == [k \in 1 .. n |-> Whole(lines, FirstLine + k)]
  <1>2. ss \in Seq(Seq(CommandOf(lines))) /\ Len(ss) = n
    <2>1. \A k \in 1 .. n : Whole(lines, FirstLine + k) \in Seq(CommandOf(lines))
      BY <1>1, SplitType
    <2> QED BY <2>1
  <1>3. WholeLines = FlattenSeq(ss)
    <2>1. DOMAIN RecipeLines(lines, FirstLine) = 1 .. n BY <1>1
    <2> QED BY <2>1 DEF WholeLines
  <1>4. \A k \in 1 .. n : ss[k] = <<[line |-> FirstLine + k, argv |-> lines[FirstLine + k].cmds]>>
    BY DEF Whole
  <1> HIDE DEF ss
  <1>5. WholeLines \in Seq(CommandOf(lines)) BY <1>2, <1>3, FlattenType
  <1>6. ASSUME NEW x \in Range(WholeLines) PROVE RuleOf(x.line) = FirstLine
    <2>1. PICK u \in Seq(CommandOf(lines)) : u = WholeLines BY <1>5, Zenon
    <2>2. PICK j \in 1 .. Len(u) : x = u[j] BY <2>1 DEF Range
    <2>3. PICK z, m : PlaceOf(u, ss, j, z, m) BY <1>2, <1>3, <2>1, FlattenPlaces DEF AllPlaced
    <2>4. z \in 1 .. n /\ m \in 1 .. Len(ss[z]) /\ x = ss[z][m]
      BY <1>2, <2>2, <2>3 DEF PlaceOf
    <2>5. PICK y : y = [line |-> FirstLine + z, argv |-> lines[FirstLine + z].cmds] OBVIOUS
    <2>6. ss[z] = <<y>> BY <1>4, <2>4, <2>5
    <2>7. x = y BY <2>4, <2>6
    <2>8. x.line = FirstLine + z BY <2>5, <2>7
    <2>9. FirstLine + z \in Range(RecipeLines(lines, FirstLine)) BY <1>1, <2>4 DEF Range
    <2>10. FirstLine \in Rules(lines) BY FileType DEF FirstLine
    <2> QED BY <2>8, <2>9, <2>10, RuleOfUnder
  <1> QED BY <1>5, <1>6

\* With a file that is handled the plan has the commands of the goal and of all it
\* needs, in order.
LEMMA PlanInOrder ==
  ASSUME IsMakefile(lines), stray \in Seq(Range(stray)), Handled, Chosen
  PROVE  InOrder(plan) /\ Made(plan) = Commands(Needed(GoalLine))
  <1>1. WellWritten BY DEF Handled, WellWritten
  <1>2. PICK d \in Seq(Nat) : d = DepNo(lines, stray, FirstTokens(lines)) BY DepNoType
  <1>3. Len(d) \in Nat /\ MaxDep \in Nat BY MakefileAssumption
  <1>4. CASE goal = RunAll /\ plan = RunFirst(lines, stray) /\ ~RunOverflows(lines, stray)
    <2>1. lines[FirstLine].deps # <<>> BY <1>4 DEF Handled
    <2>2. Len(d) <= MaxDep BY <1>2, <1>3, <1>4, <2>1 DEF RunOverflows
    <2>3. plan = RecipesOf(lines, d) \o RecipesUnder(lines, FirstLine)
      BY <1>2, <1>4, <2>1 DEF RunFirst
    <2>4. GoalLine = FirstLine BY <1>4 DEF GoalLine
    <2> QED BY <1>1, <1>2, <2>2, <2>3, <2>4, FirstInOrder
  <1>5. CASE /\ goal \in Targets /\ findLine(lines, goal) # Missing
             /\ plan = RunTarget(lines, stray, goal) /\ ~TargetOverflows(lines, stray, goal)
    <2>1. goal # RunAll /\ goal # NULL BY <1>5, MymakeAssumption
    <2>2. GoalLine = findLine(lines, goal) BY <2>1 DEF GoalLine
    <2>3. CASE findLine(lines, goal) = FirstLine
      <3>1. FirstLine \in Rules(lines) BY FileType DEF FirstLine
      <3>2. goal = lines[FirstLine].name BY <1>1, <2>1, <2>3, <3>1, NameFound DEF WellWritten
      <3>3. WholeLines = RecipesUnder(lines, FirstLine) BY <3>2, WholeLinesSplit DEF Handled
      <3>4. plan = RecipesOf(lines, d) \o WholeLines
        BY <1>2, <1>5, <2>3 DEF RunTarget, WholeLines
      <3>5. Len(d) <= MaxDep BY <1>2, <1>3, <1>5, <2>3 DEF TargetOverflows
      <3> QED BY <1>1, <1>2, <2>2, <2>3, <3>3, <3>4, <3>5, FirstInOrder
    <2>4. CASE findLine(lines, goal) # FirstLine
      <3>1. plan = RecipesOf(lines, Chain(lines, stray, goal)) BY <1>5, <2>4 DEF RunTarget
      <3>2. Len(Chain(lines, stray, goal)) <= MaxDep
        <4>1. Chain(lines, stray, goal) \in Seq(Nat) BY ChainType
        <4>2. PICK c \in Seq(Nat) : c = Chain(lines, stray, goal) BY <4>1, Zenon
        <4>3. ~(Len(c) > MaxDep) BY <1>5, <2>4, <4>2 DEF TargetOverflows
        <4>4. Len(c) <= MaxDep BY <1>3, <4>3
        <4> QED BY <4>2, <4>4
      <3>3. findLine(lines, goal) \notin {Missing, FirstLine} BY <1>5, <2>4
      <3> QED BY <1>1, <2>2, <3>1, <3>2, <3>3, LaterInOrder
    <2> QED BY <2>3, <2>4
  <1> QED BY <1>4, <1>5 DEF Chosen

\* In any file, names lead to the rule of every command in the plan.
LEMMA PlanLed ==
  ASSUME IsMakefile(lines), stray \in Seq(Range(stray)), Chosen,
         goal = RunAll => lines[FirstLine].deps # <<>>,
         NEW x \in Range(plan)
  PROVE  RuleOf(x.line) \in LedTo(GoalLine)
  <1>1. FirstLine \in Rules(lines) /\ Missing \notin Rules(lines)
    BY FileType DEF FirstLine, Missing
  <1>2. PICK d \in Seq(Nat) : d = DepNo(lines, stray, FirstTokens(lines)) BY DepNoType
  <1>3. Range(d) \subseteq LedTo(FirstLine) \cup {Missing} BY <1>2, DepNoLed
  <1>4. FirstLine \in LedTo(FirstLine) /\ LedTo(FirstLine) \subseteq Rules(lines)
    BY <1>1, LedToIs
  <1>5. Range(d) \subseteq Found(lines) BY <1>3, <1>4 DEF Found
  <1>6. \A y \in Range(RecipesOf(lines, d)) : RuleOf(y.line) \in LedTo(FirstLine)
    <2>1. \A y \in Range(RecipesOf(lines, d)) : RuleOf(y.line) \in Range(d) \cap Rules(lines)
      BY <1>5, RecipesOfRules
    <2> QED BY <1>1, <1>3, <2>1
  <1>7. RecipesOf(lines, d) \in Seq(CommandOf(lines)) BY RecipesOfType
  <1>8. \A X : \A s, t \in Seq(X) : Range(s \o t) \subseteq Range(s) \cup Range(t)
    <2> SUFFICES ASSUME NEW X, NEW s \in Seq(X), NEW t \in Seq(X), NEW y \in Range(s \o t)
                 PROVE  y \in Range(s) \cup Range(t)
      OBVIOUS
    <2>1. s \o t \in Seq(X) /\ Len(s \o t) = Len(s) + Len(t) /\ Len(s) \in Nat /\ Len(t) \in Nat
      OBVIOUS
    <2>2. PICK j \in 1 .. Len(s) + Len(t) : y = (s \o t)[j] BY <2>1 DEF Range
    <2>3. CASE j <= Len(s)
      <3>1. j \in DOMAIN s /\ y = s[j] BY <2>1, <2>2, <2>3
      <3> QED BY <3>1 DEF Range
    <2>4. CASE j > Len(s)
      <3>1. j - Len(s) \in DOMAIN t /\ y = t[j - Len(s)] BY <2>1, <2>2, <2>4
      <3> QED BY <3>1 DEF Range
    <2> QED BY <2>1, <2>2, <2>3, <2>4
  <1>9. CASE goal = RunAll /\ plan = RunFirst(lines, stray)
    <2>1. plan = RecipesOf(lines, d) \o RecipesUnder(lines, FirstLine)
      BY <1>2, <1>9 DEF RunFirst
    <2>2. RecipesUnder(lines, FirstLine) \in Seq(CommandOf(lines))
      BY RecipesUnderType DEF FirstLine
    <2>3. x \in Range(RecipesOf(lines, d)) \/ x \in Range(RecipesUnder(lines, FirstLine))
      BY <1>7, <1>8, <2>1, <2>2
    <2>4. x \in Range(RecipesUnder(lines, FirstLine)) => RuleOf(x.line) = FirstLine
      BY <1>1, UnderIs
    <2>5. GoalLine = FirstLine BY <1>9 DEF GoalLine
    <2> QED BY <1>4, <1>6, <2>3, <2>4, <2>5
  <1>10. CASE /\ goal \in Targets /\ findLine(lines, goal) # Missing
              /\ plan = RunTarget(lines, stray, goal)
    <2>1. goal # RunAll BY <1>10, MymakeAssumption
    <2>2. GoalLine = findLine(lines, goal) BY <2>1 DEF GoalLine
    <2>3. CASE findLine(lines, goal) = FirstLine
      <3>1. plan = RecipesOf(lines, d) \o WholeLines
        BY <1>2, <1>10, <2>3 DEF RunTarget, WholeLines
      <3>2. /\ WholeLines \in Seq(CommandOf(lines))
            /\ \A y \in Range(WholeLines) : RuleOf(y.line) = FirstLine
        BY WholeLinesOfFirst
      <3>3. x \in Range(RecipesOf(lines, d)) \/ x \in Range(WholeLines)
        BY <1>7, <1>8, <3>1, <3>2
      <3> QED BY <1>4, <1>6, <2>2, <2>3, <3>2, <3>3
    <2>4. CASE findLine(lines, goal) # FirstLine
      <3>1. GoalLine \in Rules(lines) BY <1>10, <2>2, findLineType DEF Found
      <3>2. plan = RecipesOf(lines, Chain(lines, stray, goal)) BY <1>10, <2>4 DEF RunTarget
      <3>3. PICK c \in Seq(Nat) : c = Chain(lines, stray, goal) BY ChainType
      <3>4. GoalLine \in LedTo(GoalLine) /\ LedTo(GoalLine) \subseteq Rules(lines)
        BY <3>1, LedToIs
      <3>5. Led(GoalLine, findLine(lines, goal)) BY <2>2, <3>4 DEF Led
      <3>6. Range(c) \subseteq LedTo(GoalLine) \cup {Missing} BY <3>1, <3>3, <3>5, ChainLed
      <3>7. Range(c) \subseteq Found(lines) BY <3>4, <3>6 DEF Found
      <3>8. RuleOf(x.line) \in Range(c) \cap Rules(lines) BY <3>2, <3>3, <3>7, RecipesOfRules
      <3> QED BY <1>1, <3>6, <3>8
    <2> QED BY <2>3, <2>4
  <1> QED BY <1>9, <1>10 DEF Chosen
-----------------------------------------------------------------------------
(***************************************************************************)
(* What the wait after every fork gives while nothing fails: the commands  *)
(* of the plan are run in turn, each once.  Only the first mymake is ever  *)
(* in the loop; it is at the next command to run, or waits at the one that *)
(* its child was born for.                                                 *)
(***************************************************************************)
Runnable == \A place \in DOMAIN plan : plan[place].argv # <<>>

AtTurn(p) ==
  /\ p # <<>> => procs[p].st \in {"born", "program"}
  /\ procs[p].st \in {"loop", "born"} => procs[p].at = Len(ran) + 1
  /\ procs[p].st = "program" => procs[p].at = Len(ran)
  /\ procs[p].st = "wait" =>
       \/ procs[p].at = Len(ran)
       \/ /\ procs[p].at = Len(ran) + 1
          /\ Child(p) \in DOMAIN procs /\ procs[Child(p)].st = "born"

InTurn ==
  Faultless /\ status = "run" /\ Runnable =>
    (\A n \in DOMAIN ran : ran[n] = n) /\ (\A p \in DOMAIN procs : AtTurn(p))

LEMMA InTurnStep == Line /\ Books /\ InTurn /\ [Next]_vars => InTurn'
  <1> SUFFICES ASSUME Line, Books, InTurn, [Next]_vars, Faultless', status' = "run", Runnable'
               PROVE  /\ \A n \in DOMAIN ran' : ran'[n] = n
                      /\ \A p \in DOMAIN procs' : AtTurn(p)'
    BY DEF InTurn
  <1>0. Planned /\ Places /\ Recorded /\ BornFor /\ Descent BY DEF Books
  <1>1. CASE MakeAll \/ PrintRecipes \/ DescribeRules \/ MakeTarget \/ CannotOpen \/ Refuse
    <2>1. /\ procs' = [p \in {<<>>} |-> [at |-> 1, st |-> "loop"]]
          /\ ran' = <<>>
      BY <1>0, <1>1, StartIs DEF history
    <2>2. \A p \in DOMAIN procs' : p = <<>> /\ procs'[p].st = "loop" /\ procs'[p].at = 1
      BY <2>1, OneProcess
    <2>3. Len(ran') = 0 /\ DOMAIN ran' = {} BY <2>1
    <2> QED BY <2>2, <2>3 DEF AtTurn
  <1>2. ASSUME NEW p \in DOMAIN procs, Work(p) \/ ForkFails(p) \/ ExecFails(p)
        PROVE  /\ \A n \in DOMAIN ran' : ran'[n] = n
               /\ \A q \in DOMAIN procs' : AtTurn(q)'
    <2>1. status = "run" /\ UNCHANGED plan BY <1>0, <1>2, StepIs
    <2>2. failed \subseteq failed' /\ unforked \subseteq unforked'
      BY <1>2 DEF Work, Fork, ForkFails, Exec, ExecFails, ExecNull, ProgramEnds, Wait, Leave,
                  history
    <2>3. Faultless /\ Runnable BY <2>1, <2>2 DEF Faultless, Runnable
    <2>4. (\A n \in DOMAIN ran : ran[n] = n) /\ (\A q \in DOMAIN procs : AtTurn(q))
      BY <2>1, <2>3 DEF InTurn
    <2>5. /\ ran \in Seq(Nat) /\ Len(ran) \in Nat /\ DOMAIN ran = 1 .. Len(ran)
          /\ procs[p].at \in Nat /\ procs[p].st \in State /\ p \in Seq(Nat)
      BY <1>0 DEF Recorded, Line, Positions, Processes
    <2>6. AtTurn(p) BY <2>4
    <2>7. p = <<>> /\ (procs[p].st # "wait" \/ Child(p) \notin DOMAIN procs)
            => DOMAIN procs = {p}
      <3> SUFFICES ASSUME p = <<>>, procs[p].st # "wait" \/ Child(p) \notin DOMAIN procs,
                          NEW q \in DOMAIN procs, q # p
                   PROVE  FALSE
        OBVIOUS
      <3>1. Len(q) < Len(p) /\ Len(q) \in Nat BY <1>0, OthersOlder
      <3>2. Len(p) = 0 OBVIOUS
      <3> QED BY <3>1, <3>2
    <2>8. CASE Fork(p)
      <3>1. procs[p].st = "loop" /\ ran' = ran BY <2>8 DEF Fork, Is, history
      <3>2. p = <<>> /\ procs[p].at = Len(ran) + 1 /\ DOMAIN procs = {p}
        BY <2>6, <2>7, <3>1 DEF AtTurn
      <3>3. PICK c : c = Child(p) OBVIOUS
      <3>4. /\ c \notin DOMAIN procs /\ DOMAIN procs' = DOMAIN procs \cup {c}
            /\ procs'[c] = [at |-> procs[p].at, st |-> "born"]
            /\ procs'[p] = [at |-> procs[p].at, st |-> "wait"]
        BY <2>8, <3>3, ForkIs
      <3>5. Child(p)' = c BY <3>3, <3>4 DEF Child, At
      <3>6. AtTurn(p)' BY <3>1, <3>2, <3>4, <3>5 DEF AtTurn
      <3>7. AtTurn(c)' BY <3>1, <3>2, <3>4 DEF AtTurn
      <3> QED BY <2>4, <3>1, <3>2, <3>4, <3>6, <3>7
    <2>9. CASE ForkFails(p) \/ ExecFails(p)
      <3>1. failed' # {} \/ unforked' # {} BY <2>9 DEF ForkFails, ExecFails
      <3> QED BY <3>1 DEF Faultless
    <2>10. CASE Exec(p)
      <3>1. /\ procs' = Goto(p, procs[p].at, "program") /\ procs[p].st = "born"
            /\ ran' = Append(ran, procs[p].at)
        BY <2>10 DEF Exec, Is, At
      <3>2. procs[p].at = Len(ran) + 1 BY <2>6, <3>1 DEF AtTurn
      <3>3. /\ Len(ran') = Len(ran) + 1 /\ DOMAIN ran' = 1 .. Len(ran) + 1
            /\ \A n \in 1 .. Len(ran) : ran'[n] = ran[n]
            /\ ran'[Len(ran) + 1] = Len(ran) + 1
        BY <2>5, <3>1, <3>2
      <3>4. \A n \in DOMAIN ran' : ran'[n] = n
        <4>1. \A n \in DOMAIN ran' : n \in 1 .. Len(ran) \/ n = Len(ran) + 1 BY <2>5, <3>3
        <4> QED BY <2>4, <2>5, <3>3, <4>1
      <3>5. /\ DOMAIN procs' = DOMAIN procs
            /\ procs'[p] = [at |-> procs[p].at, st |-> "program"]
            /\ \A q \in DOMAIN procs : q # p => procs'[q] = procs[q]
        BY <3>1, GotoIs
      <3>6. AtTurn(p)' BY <3>1, <3>2, <3>3, <3>5, <2>6 DEF AtTurn
      <3>7. ASSUME NEW q \in DOMAIN procs, q # p PROVE AtTurn(q)'
        <4>1. /\ Len(q) < Len(p) /\ p[Len(q) + 1] = procs[q].at /\ procs[q].st = "wait"
              /\ Len(q) \in Nat /\ Len(p) \in Nat /\ procs[q].at \in Nat
          BY <1>0, <3>1, <3>7, OthersOlder
        <4>2. AtTurn(q) BY <2>4
        <4>3. q = <<>> BY <4>1, <4>2 DEF AtTurn
        <4>4. Child(q) \in DOMAIN procs BY <4>1 DEF Line, OlderWait
        <4>5. Len(q) = 0 BY <4>3
        <4>6. Len(Child(q)) = 1 /\ Child(q) # <<>> BY <4>1, <4>3, ChildLonger DEF Child, At
        <4>7. Len(p) = 1
          <5> SUFFICES ASSUME Len(p) # 1 PROVE FALSE OBVIOUS
          <5>1. Len(Child(q)) < Len(p) BY <4>1, <4>6
          <5>2. procs[Child(q)].st = "wait" BY <4>4, <5>1 DEF Line, OlderWait
          <5>3. AtTurn(Child(q)) BY <2>4, <4>4
          <5> QED BY <4>6, <5>2, <5>3 DEF AtTurn
        <4>8. Last(p) = procs[p].at BY <1>0, <3>1 DEF BornFor
        <4>9. p[1] = procs[p].at BY <4>7, <4>8 DEF Last
        <4>10. procs[q].at = Len(ran) + 1 BY <3>2, <4>1, <4>5, <4>9
        <4>11. procs'[q] = procs[q] BY <3>5, <3>7
        <4> QED BY <3>3, <4>1, <4>3, <4>10, <4>11 DEF AtTurn
      <3> QED BY <3>4, <3>5, <3>6, <3>7
    <2>11. CASE ExecNull(p)
      <3>1. procs[p].st = "born" /\ plan[procs[p].at].argv = <<>>
        BY <2>11 DEF ExecNull, Is, Argv, At
      <3>2. procs[p].at \in DOMAIN plan
        <4>1. plan \in Seq(CommandOf(lines)) BY <1>0, <2>1 DEF Planned
        <4>2. procs[p].at \in 1 .. Len(plan) + 1 /\ procs[p].at <= Len(plan)
          BY <1>0, <3>1 DEF Places
        <4> QED BY <4>1, <4>2
      <3> QED BY <2>3, <3>1, <3>2 DEF Runnable
    <2>12. CASE ProgramEnds(p)
      <3>1. procs[p].st = "program" /\ procs' = Gone(p) /\ ran' = ran
        BY <2>12 DEF ProgramEnds, Is, history
      <3>2. /\ DOMAIN procs' = DOMAIN procs \ {p}
            /\ \A q \in DOMAIN procs \ {p} : procs'[q] = procs[q]
        BY <3>1, GoneIs
      <3>3. ASSUME NEW q \in DOMAIN procs \ {p} PROVE AtTurn(q)'
        <4>1. AtTurn(q) BY <2>4
        <4>2. procs'[q] = procs[q] BY <3>2
        <4>3. Child(q)' = Child(q) BY <4>2 DEF Child, At
        <4>4. ASSUME NEW c, c \in DOMAIN procs, procs[c].st = "born"
              PROVE  c \in DOMAIN procs' /\ procs'[c].st = "born"
          BY <3>1, <3>2, <4>4
        <4> QED BY <3>1, <4>1, <4>2, <4>3, <4>4 DEF AtTurn
      <3> QED BY <2>4, <3>1, <3>2, <3>3
    <2>13. CASE Wait(p)
      <3>1. /\ procs' = Goto(p, procs[p].at + 1, "loop") /\ procs[p].st = "wait"
            /\ Child(p) \notin DOMAIN procs /\ ran' = ran
        BY <2>13 DEF Wait, WaitOver, Is, At, history
      <3>2. p = <<>> /\ procs[p].at = Len(ran) BY <2>6, <3>1 DEF AtTurn
      <3>3. DOMAIN procs' = {p} /\ procs'[p] = [at |-> procs[p].at + 1, st |-> "loop"]
        BY <2>7, <3>1, <3>2, GotoIs
      <3>4. AtTurn(p)' BY <3>1, <3>2, <3>3 DEF AtTurn
      <3> QED BY <2>4, <3>1, <3>3, <3>4
    <2>14. CASE Leave(p)
      <3>1. procs[p].st = "loop" /\ procs' = Gone(p) /\ ran' = ran
        BY <2>14 DEF Leave, Is, history
      <3>2. DOMAIN procs = {p} BY <2>6, <2>7, <3>1 DEF AtTurn
      <3>3. DOMAIN procs' = {} BY <3>1, <3>2, GoneIs
      <3> QED BY <2>4, <3>1, <3>3
    <2> QED BY <1>2, <2>8, <2>9, <2>10, <2>11, <2>12, <2>13, <2>14 DEF Work
  <1>3. CASE UNCHANGED vars
    BY <1>3 DEF vars, history, InTurn, Faultless, Runnable, AtTurn, Child, At
  <1> QED BY <1>1, <1>2, <1>3 DEF Next

(***************************************************************************)
(* While no fork and no execvp fails, the commands of the plan are run in  *)
(* the order of the plan, each once (wait(NULL), main.c:215 and the        *)
(* others).                                                                *)
(***************************************************************************)
THEOREM CommandsInTurn == Spec => []InTurn
  <1>1. Init => InTurn BY DEF Init, InTurn
  <1> QED BY <1>1, InTurnStep, LineOfDescent, BooksAreRight, PTL DEF Spec
-----------------------------------------------------------------------------
(***************************************************************************)
(* What stays of main's decision: no step changes the file, the goal, or   *)
(* what was worked out for it.                                             *)
(***************************************************************************)
Decided ==
  /\ lines \in Files /\ stray \in Strays
  /\ status = "run" => Chosen
  /\ status = "printed" => plan = Printed(lines, stray)
  /\ status = "described" => plan = Description(lines) /\ ~TokensMissing(lines)
  /\ status = "undefined" =>
       \/ goal = RunAll /\ RunOverflows(lines, stray)
       \/ goal \in Targets /\ findLine(lines, goal) # Missing
          /\ TargetOverflows(lines, stray, goal)
       \/ goal \in {PrintAll, DescribeAll}

LEMMA DecidedStep == Decided /\ [Next]_vars => Decided'
  <1> SUFFICES ASSUME Decided, [Next]_vars PROVE Decided' OBVIOUS
  <1>1. CASE MakeAll BY <1>1 DEF MakeAll, Decide, Decided, Chosen, input
  <1>2. CASE PrintRecipes BY <1>2 DEF PrintRecipes, Decide, Decided, input
  <1>3. CASE MakeTarget BY <1>3 DEF MakeTarget, Decide, Decided, Chosen, input
  <1>4. CASE DescribeRules BY <1>4 DEF DescribeRules, Decided, input
  <1>5. CASE Refuse \/ CannotOpen BY <1>5 DEF Refuse, CannotOpen, Decided, Chosen, input
  <1>6. ASSUME NEW p \in DOMAIN procs, Work(p) \/ ForkFails(p) \/ ExecFails(p)
        PROVE  Decided'
    <2>1. UNCHANGED <<lines, stray, goal, status, plan>>
      BY <1>6 DEF Work, Fork, ForkFails, Exec, ExecFails, ExecNull, ProgramEnds, Wait, Leave,
                  input
    <2> QED BY <2>1 DEF Decided, Chosen
  <1>7. CASE UNCHANGED vars BY <1>7 DEF vars, input, Decided, Chosen
  <1> QED BY <1>1, <1>2, <1>3, <1>4, <1>5, <1>6, <1>7 DEF Next

(***************************************************************************)
(* The decision of main stands until mymake has ended (main.c:195-602).    *)
(***************************************************************************)
THEOREM DecisionStands == Spec => []Decided
  <1>1. Init => Decided BY DEF Init, Decided
  <1> QED BY <1>1, DecidedStep, PTL DEF Spec

(***************************************************************************)
(* What -r prints is what would be run, but for the recipes that a blank   *)
(* line cuts off from the only rule (main.c:370-453), and -p names the     *)
(* recipes of a rule if and only if its count happens to fit (main.c:602), *)
(* as it does for the first rule; for every makefile.                      *)
(***************************************************************************)
THEOREM ListingsAreRight == Spec => []ListingsRight
  <1>1. Decided => ListingsRight
    <2> SUFFICES ASSUME Decided PROVE ListingsRight OBVIOUS
    <2>1. IsMakefile(lines) BY MymakeAssumption DEF Decided
    <2>2. ASSUME status = "printed", Distinct, lines[FirstLine].deps # <<>>
          PROVE  plan = RunFirst(lines, stray) <=> depCount(lines) = 1 => UnderRules
      <3>1. plan = Printed(lines, stray) BY <2>2 DEF Decided
      <3> QED BY <2>1, <2>2, <3>1, PrintedIsRun
    <2>3. ASSUME status = "described", NEW r \in Rules(lines),
                 \A i \in Range(RecipeLines(lines, r)) : Len(lines[i].cmds) = 1
          PROVE  /\ plan[r].recipes = RecipesUnder(lines, r) <=> CountFits(r)
                 /\ r = FirstLine => CountFits(r)
      <3>1. plan = Description(lines) /\ ~TokensMissing(lines) BY <2>3 DEF Decided
      <3>2. plan[r] = Described(lines, r) BY <3>1 DEF Description
      <3>3. Described(lines, r).recipes = RecipesUnder(lines, r) <=> CountFits(r)
        BY <2>1, <2>3, <3>1, DescriptionIsRight
      <3>4. r = FirstLine => CountFits(r) BY <2>1, CountFitsIs
      <3> QED BY <3>2, <3>3, <3>4
    <2> QED BY <2>2, <2>3 DEF ListingsRight
  <1> QED BY <1>1, DecisionStands, PTL

(***************************************************************************)
(* A search that finds a rule for every dependency and no rule twice ends  *)
(* within depNo[MAX_DEP] (main.c:104-122, 243-262), for every makefile     *)
(* with few enough rules.                                                  *)
(***************************************************************************)
THEOREM SearchesEnd == Spec => []SearchEnds
  <1>1. Decided => SearchEnds
    <2> SUFFICES ASSUME Decided, Distinct, goal \notin {PrintAll, DescribeAll},
                        \A r \in Rules(lines) :
                          /\ \A dep \in Range(lines[r].deps) : findLine(lines, dep) # Missing
                          /\ \A q \in Refers(r) : r \notin Needed(q),
                        Max({1, Len(lines[FirstLine].deps)}) * (Cardinality(Rules(lines)) - 1)
                          <= MaxDep
                 PROVE  status # "undefined"
      BY DEF SearchEnds
    <2>1. IsMakefile(lines) BY MymakeAssumption DEF Decided
    <2>2. Searchable BY DEF Searchable
    <2>3. /\ ~RunOverflows(lines, stray)
          /\ \A target : findLine(lines, target) # Missing =>
               ~TargetOverflows(lines, stray, target)
      BY <2>1, <2>2, SearchFits
    <2> QED BY <2>3 DEF Decided
  <1> QED BY <1>1, DecisionStands, PTL

\* With a file that is handled the commands run so far are the first of the plan.
LEMMA RunSoFar ==
  ASSUME Books, InTurn, Decided, status = "run", Handled, Faultless
  PROVE  /\ InOrder(plan) /\ Made(plan) = Commands(Needed(GoalLine))
         /\ DOMAIN plan = 1 .. Len(plan) /\ Len(plan) \in Nat
         /\ \A n \in DOMAIN ran : n \in 1 .. Len(plan) /\ ran[n] = n
         /\ DOMAIN ran = 1 .. Len(ran) /\ Len(ran) \in Nat
  <1>1. IsMakefile(lines) /\ stray \in Seq(Range(stray)) BY MymakeAssumption DEF Decided
  <1>2. InOrder(plan) /\ Made(plan) = Commands(Needed(GoalLine))
    BY <1>1, PlanInOrder DEF Decided
  <1>3. plan \in Seq(CommandOf(lines)) BY DEF Books, Planned
  <1>4. DOMAIN plan = 1 .. Len(plan) /\ Len(plan) \in Nat BY <1>3
  <1>5. Runnable BY <1>2, <1>4 DEF Runnable, InOrder
  <1>6. \A n \in DOMAIN ran : ran[n] = n BY <1>5 DEF InTurn
  <1>7. ran \in Seq(Nat) /\ \A n \in DOMAIN ran : ran[n] \in DOMAIN plan
    BY DEF Books, Recorded
  <1> QED BY <1>2, <1>4, <1>6, <1>7

(***************************************************************************)
(* A command is run only behind all commands of the rules its rule refers  *)
(* to (main.c:243-273: a chain of dependencies is recorded forwards and    *)
(* run backwards), for every makefile that the code takes without mistake  *)
(* and every goal, unless a fork or an execvp fails.                       *)
(***************************************************************************)
THEOREM DependenciesComeFirst == Spec => []DependenciesFirst
  <1>1. Books /\ InTurn /\ Decided => DependenciesFirst
    <2> SUFFICES ASSUME Books, InTurn, Decided, status = "run", Handled, Faultless,
                        NEW n \in DOMAIN ran,
                        NEW c \in Commands(Refers(RuleOf(plan[ran[n]].line)))
                 PROVE  \E m \in 1 .. n - 1 : c = Did(m)
      BY DEF DependenciesFirst
    <2>1. /\ InOrder(plan)
          /\ n \in 1 .. Len(plan) /\ ran[n] = n
          /\ DOMAIN ran = 1 .. Len(ran) /\ Len(ran) \in Nat
          /\ \A m \in DOMAIN ran : ran[m] = m
      BY RunSoFar
    <2>2. c \in {DidOf(plan[m]) : m \in 1 .. n - 1} BY <2>1 DEF InOrder
    <2>3. PICK m \in 1 .. n - 1 : c = DidOf(plan[m]) BY <2>2
    <2>4. m \in DOMAIN ran BY <2>1
    <2>5. ran[m] = m BY <2>1, <2>4
    <2>6. Did(m) = DidOf(plan[m]) BY <2>5 DEF Did, DidOf
    <2> QED BY <2>3, <2>6
  <1> QED BY <1>1, BooksAreRight, CommandsInTurn, DecisionStands, PTL

(***************************************************************************)
(* mymake runs the commands of the goal and of all rules it needs, all of  *)
(* them and no other, for every makefile that the code takes without       *)
(* mistake unless a fork or an execvp fails; and in any makefile, whatever *)
(* fails, no command of a rule to which no name leads (main.c:109, 257).   *)
(***************************************************************************)
THEOREM GoalIsMade == Spec => []GoalMade
  <1>1. Books /\ InTurn /\ Decided => GoalMade
    <2> SUFFICES ASSUME Books, InTurn, Decided, Ended, status = "run"
                 PROVE  /\ Handled /\ Faultless =>
                             {Did(n) : n \in DOMAIN ran} = Commands(Needed(GoalLine))
                        /\ (goal = RunAll => lines[FirstLine].deps # <<>>) =>
                             {RuleOf(plan[ran[n]].line) : n \in DOMAIN ran} \subseteq LedTo(GoalLine)
      BY DEF GoalMade
    <2>1. ASSUME Handled, Faultless
          PROVE  {Did(n) : n \in DOMAIN ran} = Commands(Needed(GoalLine))
      <3>1. /\ InOrder(plan) /\ Made(plan) = Commands(Needed(GoalLine))
            /\ DOMAIN plan = 1 .. Len(plan) /\ Len(plan) \in Nat
            /\ \A n \in DOMAIN ran : n \in 1 .. Len(plan) /\ ran[n] = n
            /\ DOMAIN ran = 1 .. Len(ran) /\ Len(ran) \in Nat
        BY <2>1, RunSoFar
      <3>2. Made(plan) = {DidOf(plan[k]) : k \in 1 .. Len(plan)} BY <3>1 DEF Made, Range
      <3>3. \A n \in DOMAIN ran : Did(n) = DidOf(plan[n]) BY <3>1 DEF Did, DidOf
      \* In the end no place of the plan is left out.
      <3>4. ASSUME NEW k \in 1 .. Len(plan) PROVE k \in DOMAIN ran
        <4>1. k \in DOMAIN plan /\ plan[k].argv # <<>> BY <3>1 DEF InOrder
        <4>2. /\ Account(k) /\ unforked = {} /\ failed = {} /\ procs = <<>> /\ Recorded
          BY <2>1, <4>1 DEF Books, Accounts, Faultless, Ended
        <4>3. Owing(k) = {} /\ FailedAt(k) = {} /\ FailedBefore(k) = {}
          <5>1. DOMAIN <<>> = {} OBVIOUS
          <5> QED BY <4>2, <5>1 DEF Owing, FailedAt, FailedBefore
        <4>4. /\ Cardinality(Owing(k)) = 0 /\ Cardinality(FailedAt(k)) = 0
              /\ Cardinality(FailedBefore(k)) = 0
          BY <4>3, FS_EmptySet
        <4>5. Times(k) \in Nat BY <4>2, Counts
        <4>6. Times(k) + 0 + 0 = 1 + 0 BY <4>2, <4>4 DEF Account
        <4>7. Times(k) = 1 BY <4>5, <4>6
        <4>8. {n \in DOMAIN ran : ran[n] = k} # {} BY <4>7, FS_EmptySet DEF Times
        <4>9. PICK n \in DOMAIN ran : ran[n] = k BY <4>8
        <4> QED BY <3>1, <4>9
      <3>5. DOMAIN ran = 1 .. Len(plan) BY <3>1, <3>4
      <3>6. {Did(n) : n \in DOMAIN ran} = {DidOf(plan[k]) : k \in 1 .. Len(plan)}
        BY <3>3, <3>5
      <3> QED BY <3>1, <3>2, <3>6
    <2>2. ASSUME goal = RunAll => lines[FirstLine].deps # <<>>, NEW n \in DOMAIN ran
          PROVE  RuleOf(plan[ran[n]].line) \in LedTo(GoalLine)
      <3>1. IsMakefile(lines) /\ stray \in Seq(Range(stray)) /\ Chosen
        BY MymakeAssumption DEF Decided
      <3>2. ran[n] \in DOMAIN plan BY DEF Books, Recorded
      <3>3. plan[ran[n]] \in Range(plan) BY <3>2 DEF Range
      <3> QED BY <2>2, <3>1, <3>3, PlanLed
    <2> QED BY <2>1, <2>2
  <1> QED BY <1>1, BooksAreRight, CommandsInTurn, DecisionStands, PTL
=============================================================================
