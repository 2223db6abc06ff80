----------------------------- MODULE FiniteSums -------------------------------
(***************************************************************************)
(* Facts about SumFunctionOnSet, the sum of a function's values over a     *)
(* finite set.  It is a fold, a recursive function over the subsets, and   *)
(* the induction it calls for is replaced by a count: the sum of naturals  *)
(* is the number of the pairs <<x, n>> with n \in 1 .. f[x].  That the     *)
(* count solves the recursion is a matter of one element; that nothing     *)
(* else does follows from a smallest set on which the two would differ.    *)
(***************************************************************************)
EXTENDS FiniteSetsExt, FiniteSetTheorems, TLAPS

Units(f, S) == {w \in S \X (UNION {1 .. f[x] : x \in S}) : w[2] <= f[w[1]]}
Choice(S) == CHOOSE x \in S : TRUE

(***************************************************************************)
(* There are finitely many units.                                          *)
(***************************************************************************)
LEMMA UnitsFinite ==
  ASSUME NEW f, NEW S, IsFiniteSet(S), \A x \in S : f[x] \in Nat
  PROVE  IsFiniteSet(Units(f, S)) /\ Cardinality(Units(f, S)) \in Nat
  <1> DEFINE T == {1 .. f[x] : x \in S}
             up == [x \in S |-> 1 .. f[x]]
  <1>1. IsFiniteSet(T)
    <2>1. up \in Surjection(S, T) BY DEF Surjection
    <2> QED BY <2>1, FS_Surjection
  <1>2. \A t \in T : IsFiniteSet(t) BY FS_Interval
  <1>3. IsFiniteSet(UNION T) BY <1>1, <1>2, FS_UNION
  <1>4. IsFiniteSet(S \X UNION T) BY <1>3, FS_Product
  <1>5. Units(f, S) \in SUBSET (S \X UNION T) BY DEF Units
  <1> QED BY <1>4, <1>5, FS_Subset, FS_CardinalityType

(***************************************************************************)
(* An element of the set contributes its value.                            *)
(***************************************************************************)
LEMMA UnitsOfElement ==
  ASSUME NEW f, NEW S, IsFiniteSet(S), \A x \in S : f[x] \in Nat, NEW e \in S
  PROVE  Cardinality(Units(f, S)) = f[e] + Cardinality(Units(f, S \ {e}))
  <1> DEFINE own == {e} \X (1 .. f[e])
             rest == Units(f, S \ {e})
  <1>1. IsFiniteSet(own) /\ Cardinality(own) = f[e]
    <2>1. IsFiniteSet(1 .. f[e]) /\ Cardinality(1 .. f[e]) = f[e] BY FS_Interval
    <2>2. IsFiniteSet({e}) /\ Cardinality({e}) = 1 BY FS_Singleton
    <2>3. IsFiniteSet(own) /\ Cardinality(own) = Cardinality({e}) * Cardinality(1 .. f[e])
      BY <2>1, <2>2, FS_Product
    <2>4. 1 * f[e] = f[e] OBVIOUS
    <2> QED BY <2>1, <2>2, <2>3, <2>4
  <1>2. IsFiniteSet(rest) /\ Cardinality(rest) \in Nat
    <2>1. IsFiniteSet(S \ {e}) BY FS_RemoveElement
    <2> QED BY <2>1, UnitsFinite
  <1>3. Units(f, S) = own \cup rest
    <2>1. ASSUME NEW w \in Units(f, S)  PROVE w \in own \cup rest
      <3>1. PICK x \in S, n \in UNION {1 .. f[y] : y \in S} : w = <<x, n>> /\ n <= f[x]
        BY <2>1 DEF Units
      <3>2. n \in 1 .. f[x] BY <3>1
      <3>3. CASE x = e BY <3>1, <3>2, <3>3
      <3>4. CASE x # e
        <4>1. x \in S \ {e} BY <3>4
        <4>2. n \in UNION {1 .. f[y] : y \in S \ {e}} BY <4>1, <3>2
        <4> QED BY <3>1, <4>1, <4>2 DEF Units
      <3> QED BY <3>3, <3>4
    <2>2. ASSUME NEW w \in own  PROVE w \in Units(f, S)
      <3>1. PICK n \in 1 .. f[e] : w = <<e, n>> BY <2>2
      <3>2. n \in UNION {1 .. f[y] : y \in S} BY <3>1
      <3> QED BY <3>1, <3>2 DEF Units
    <2>3. ASSUME NEW w \in rest  PROVE w \in Units(f, S)
      <3>1. PICK x \in S \ {e}, n \in UNION {1 .. f[y] : y \in S \ {e}} :
               w = <<x, n>> /\ n <= f[x]
        BY <2>3 DEF Units
      <3>2. n \in UNION {1 .. f[y] : y \in S} BY <3>1
      <3> QED BY <3>1, <3>2 DEF Units
    <2> QED BY <2>1, <2>2, <2>3
  <1>4. own \cap rest = {}
    <2> SUFFICES ASSUME NEW w \in own, w \in rest  PROVE FALSE OBVIOUS
    <2> QED BY DEF Units
  <1>5. Cardinality(own \cup rest) = f[e] + Cardinality(rest) - Cardinality(own \cap rest)
    BY <1>1, <1>2, FS_Union
  <1>6. Cardinality(own \cap rest) = 0 BY <1>4, FS_EmptySet
  <1> QED BY <1>2, <1>3, <1>5, <1>6

LEMMA NoUnits == ASSUME NEW f  PROVE Cardinality(Units(f, {})) = 0
  <1>1. Units(f, {}) = {} BY DEF Units
  <1> QED BY <1>1, FS_EmptySet

(***************************************************************************)
(* The sum is the number of units.                                         *)
(***************************************************************************)
LEMMA SumCounts ==
  ASSUME NEW f, NEW S, IsFiniteSet(S), \A x \in S : f[x] \in Nat
  PROVE  SumFunctionOnSet(f, S) = Cardinality(Units(f, S))
  <1> DEFINE Solves(g) ==
        g = [T \in SUBSET S |-> IF T = {} THEN 0
                                ELSE f[Choice(T)] + g[T \ {Choice(T)}]]
      count == [T \in SUBSET S |-> Cardinality(Units(f, T))]
      iter == CHOOSE g : Solves(g)
  <1>1. SumFunctionOnSet(f, S) = iter[S]
    BY DEF SumFunctionOnSet, FoldFunctionOnSet, MapThenFoldSet, Choice
  <1>2. ASSUME NEW T \in SUBSET S, T # {}
        PROVE  /\ Choice(T) \in T /\ T \ {Choice(T)} \in SUBSET S
               /\ count[T] = f[Choice(T)] + count[T \ {Choice(T)}]
    <2>1. Choice(T) \in T BY <1>2 DEF Choice
    <2>2. IsFiniteSet(T) BY FS_Subset
    <2>3. Cardinality(Units(f, T)) = f[Choice(T)] + Cardinality(Units(f, T \ {Choice(T)}))
      BY <2>1, <2>2, UnitsOfElement
    <2> QED BY <2>1, <2>3
  <1>3. Solves(count)
    <2>1. \A T \in SUBSET S : count[T] = IF T = {} THEN 0
                                ELSE f[Choice(T)] + count[T \ {Choice(T)}]
      BY <1>2, NoUnits
    <2> QED BY <2>1, Zenon
  <1>4. Solves(iter)
    <2> HIDE DEF Solves
    <2> QED BY <1>3
  <1>5. \A T \in SUBSET S : iter[T] = IF T = {} THEN 0 ELSE f[Choice(T)] + iter[T \ {Choice(T)}]
    BY <1>4
  <1> HIDE DEF iter
  <1>6. SUFFICES ASSUME iter[S] # count[S]  PROVE FALSE
    BY <1>1
  <1> DEFINE Wrong == {T \in SUBSET S : iter[T] # count[T]}
  <1>7. PICK T \in Wrong : \A U \in Wrong : <<U, T>> \notin StrictSubsetOrdering(S)
    <2>1. Wrong # {} BY <1>6
    <2>2. Wrong \subseteq FiniteSubsetsOf(S) BY FS_FiniteSubsetsOfFinite
    <2> HIDE DEF Wrong
    <2> QED BY <2>1, <2>2, FS_StrictSubsetOrderingWellFounded, WFMin
  <1>8. T # {} BY <1>5, NoUnits
  <1> DEFINE less == T \ {Choice(T)}
  <1>9. less \in SUBSET S /\ less \subseteq T /\ less # T BY <1>2, <1>8
  <1>10. <<less, T>> \in StrictSubsetOrdering(S) BY <1>9 DEF StrictSubsetOrdering
  <1>11. iter[less] = count[less] BY <1>7, <1>9, <1>10
  <1> QED BY <1>2, <1>5, <1>7, <1>8, <1>11

(***************************************************************************)
(* What the proofs about programs use: the sum of naturals is one, it      *)
(* splits off any element, it depends on the values only, and it grows     *)
(* with the values and with the set.                                       *)
(***************************************************************************)
LEMMA SumIsNat ==
  ASSUME NEW f, NEW S, IsFiniteSet(S), \A x \in S : f[x] \in Nat
  PROVE  SumFunctionOnSet(f, S) \in Nat
  BY SumCounts, UnitsFinite

LEMMA SumOfNone == ASSUME NEW f  PROVE SumFunctionOnSet(f, {}) = 0
  BY SumCounts, NoUnits, FS_EmptySet

LEMMA SumSplits ==
  ASSUME NEW f, NEW S, IsFiniteSet(S), \A x \in S : f[x] \in Nat, NEW e \in S
  PROVE  SumFunctionOnSet(f, S) = f[e] + SumFunctionOnSet(f, S \ {e})
  <1>1. IsFiniteSet(S \ {e}) BY FS_RemoveElement
  <1>2. SumFunctionOnSet(f, S \ {e}) = Cardinality(Units(f, S \ {e})) BY <1>1, SumCounts
  <1>3. SumFunctionOnSet(f, S) = Cardinality(Units(f, S)) BY SumCounts
  <1> QED BY <1>2, <1>3, UnitsOfElement

LEMMA SumGrows ==
  ASSUME NEW f, NEW S, IsFiniteSet(S), NEW e, e \notin S,
         \A x \in S \cup {e} : f[x] \in Nat
  PROVE  SumFunctionOnSet(f, S \cup {e}) = f[e] + SumFunctionOnSet(f, S)
  <1>1. IsFiniteSet(S \cup {e}) BY FS_AddElement
  <1>2. (S \cup {e}) \ {e} = S OBVIOUS
  <1>3. SumFunctionOnSet(f, S \cup {e}) = f[e] + SumFunctionOnSet(f, (S \cup {e}) \ {e})
    BY <1>1, SumSplits
  <1> QED BY <1>2, <1>3

LEMMA SumMonotone ==
  ASSUME NEW f, NEW g, NEW S, NEW T, IsFiniteSet(T), S \subseteq T,
         \A x \in S : f[x] \in Nat, \A x \in T : g[x] \in Nat, \A x \in S : f[x] <= g[x]
  PROVE  SumFunctionOnSet(f, S) <= SumFunctionOnSet(g, T)
  <1>1. IsFiniteSet(S) BY FS_Subset
  <1>2. Units(f, S) \in SUBSET Units(g, T)
    <2> SUFFICES ASSUME NEW w \in Units(f, S)  PROVE w \in Units(g, T)
      OBVIOUS
    <2>1. PICK x \in S, n \in UNION {1 .. f[y] : y \in S} : w = <<x, n>> /\ n <= f[x]
      BY DEF Units
    <2>2. x \in T /\ n \in 1 .. g[x] BY <2>1
    <2>3. n \in UNION {1 .. g[y] : y \in T} BY <2>2
    <2> QED BY <2>1, <2>2, <2>3 DEF Units
  <1>3. IsFiniteSet(Units(g, T)) BY UnitsFinite
  <1>4. Cardinality(Units(f, S)) <= Cardinality(Units(g, T)) BY <1>2, <1>3, FS_Subset
  <1> QED BY <1>1, <1>4, SumCounts

LEMMA SumSame ==
  ASSUME NEW f, NEW g, NEW S, IsFiniteSet(S),
         \A x \in S : f[x] \in Nat /\ g[x] = f[x]
  PROVE  SumFunctionOnSet(g, S) = SumFunctionOnSet(f, S)
  <1>1. SumFunctionOnSet(g, S) <= SumFunctionOnSet(f, S) BY SumMonotone
  <1>2. SumFunctionOnSet(f, S) <= SumFunctionOnSet(g, S) BY SumMonotone
  <1>3. SumFunctionOnSet(f, S) \in Nat /\ SumFunctionOnSet(g, S) \in Nat BY SumIsNat
  <1> QED BY <1>1, <1>2, <1>3

LEMMA SumChanges ==
  ASSUME NEW f, NEW g, NEW S, IsFiniteSet(S), NEW e \in S,
         \A x \in S : f[x] \in Nat /\ g[x] \in Nat, \A x \in S \ {e} : g[x] = f[x]
  PROVE  SumFunctionOnSet(g, S) = SumFunctionOnSet(f, S) - f[e] + g[e]
  <1>1. SumFunctionOnSet(f, S) = f[e] + SumFunctionOnSet(f, S \ {e}) BY SumSplits
  <1>2. SumFunctionOnSet(g, S) = g[e] + SumFunctionOnSet(g, S \ {e}) BY SumSplits
  <1>3. IsFiniteSet(S \ {e}) BY FS_RemoveElement
  <1>4. SumFunctionOnSet(g, S \ {e}) = SumFunctionOnSet(f, S \ {e}) BY <1>3, SumSame
  <1>5. SumFunctionOnSet(f, S \ {e}) \in Nat BY <1>3, SumIsNat
  <1> QED BY <1>1, <1>2, <1>4, <1>5

LEMMA SumCoversElement ==
  ASSUME NEW f, NEW S, IsFiniteSet(S), \A x \in S : f[x] \in Nat, NEW e \in S
  PROVE  f[e] <= SumFunctionOnSet(f, S)
  <1>1. SumFunctionOnSet(f, S) = f[e] + SumFunctionOnSet(f, S \ {e}) BY SumSplits
  <1>2. SumFunctionOnSet(f, S \ {e}) \in Nat BY FS_RemoveElement, SumIsNat
  <1> QED BY <1>1, <1>2

(***************************************************************************)
(* Sums over disjoint sets add up.                                         *)
(***************************************************************************)
LEMMA UnitsOfSubset ==
  ASSUME NEW f, NEW S, NEW T, S \subseteq T, \A x \in T : f[x] \in Nat
  PROVE  Units(f, S) = {w \in Units(f, T) : w[1] \in S}
  <1>1. ASSUME NEW w \in Units(f, S)  PROVE w \in Units(f, T) /\ w[1] \in S
    <2>1. PICK x \in S, n \in UNION {1 .. f[y] : y \in S} : w = <<x, n>> /\ n <= f[x]
      BY <1>1 DEF Units
    <2>2. n \in UNION {1 .. f[y] : y \in T} BY <2>1
    <2> QED BY <2>1, <2>2 DEF Units
  <1>2. ASSUME NEW w \in Units(f, T), w[1] \in S  PROVE w \in Units(f, S)
    <2>1. PICK x \in T, n \in UNION {1 .. f[y] : y \in T} : w = <<x, n>> /\ n <= f[x]
      BY <1>2 DEF Units
    <2>2. x \in S /\ n \in 1 .. f[x] BY <1>2, <2>1
    <2>3. n \in UNION {1 .. f[y] : y \in S} BY <2>2
    <2> QED BY <2>1, <2>2, <2>3 DEF Units
  <1> QED BY <1>1, <1>2

LEMMA SumJoins ==
  ASSUME NEW f, NEW S, NEW T, IsFiniteSet(S), IsFiniteSet(T), S \cap T = {},
         \A x \in S \cup T : f[x] \in Nat
  PROVE  SumFunctionOnSet(f, S \cup T) = SumFunctionOnSet(f, S) + SumFunctionOnSet(f, T)
  <1> DEFINE A == Units(f, S)
             B == Units(f, T)
             C == Units(f, S \cup T)
  <1>1. IsFiniteSet(S \cup T) BY FS_Union
  <1>2. /\ A = {w \in C : w[1] \in S}
        /\ B = {w \in C : w[1] \in T}
    BY UnitsOfSubset
  <1>3. C = A \cup B
    <2>1. \A w \in C : w[1] \in S \cup T BY DEF Units
    <2> HIDE DEF A, B, C
    <2> QED BY <1>2, <2>1
  <1>4. IsFiniteSet(A) /\ IsFiniteSet(B) /\ Cardinality(A) \in Nat /\ Cardinality(B) \in Nat
    BY UnitsFinite
  <1>5. /\ SumFunctionOnSet(f, S) = Cardinality(A)
        /\ SumFunctionOnSet(f, T) = Cardinality(B)
        /\ SumFunctionOnSet(f, S \cup T) = Cardinality(C)
    BY <1>1, SumCounts
  <1> HIDE DEF A, B, C
  <1>6. A \cap B = {} BY <1>2
  <1>7. Cardinality(A \cup B) = Cardinality(A) + Cardinality(B) - Cardinality(A \cap B)
    BY <1>4, FS_Union
  <1>8. Cardinality(A \cap B) = 0 BY <1>6, FS_EmptySet
  <1> QED BY <1>3, <1>4, <1>5, <1>7, <1>8

(***************************************************************************)
(* Elements of value zero do not count.                                    *)
(***************************************************************************)
LEMMA SumSkipsZeros ==
  ASSUME NEW f, NEW S, NEW T, IsFiniteSet(T), S \subseteq T,
         \A x \in T : f[x] \in Nat, \A x \in T \ S : f[x] = 0
  PROVE  SumFunctionOnSet(f, T) = SumFunctionOnSet(f, S)
  <1>1. IsFiniteSet(S) BY FS_Subset
  <1>2. Units(f, T) = Units(f, S)
    <2>1. Units(f, S) = {w \in Units(f, T) : w[1] \in S} BY UnitsOfSubset
    <2>2. \A w \in Units(f, T) : w[1] \in S
      <3> SUFFICES ASSUME NEW w \in Units(f, T)  PROVE w[1] \in S OBVIOUS
      <3>1. PICK x \in T, n \in UNION {1 .. f[y] : y \in T} : w = <<x, n>> /\ n <= f[x]
        BY DEF Units
      <3>2. n >= 1 BY <3>1
      <3> QED BY <3>1, <3>2
    <2> QED BY <2>1, <2>2
  <1> QED BY <1>1, <1>2, SumCounts

(***************************************************************************)
(* What one step does to a sum: an element e gains d, and elements of      *)
(* value zero may join.                                                    *)
(***************************************************************************)
LEMMA SumStep ==
  ASSUME NEW f, NEW g, NEW S, NEW T, IsFiniteSet(T), S \subseteq T, NEW e, NEW d \in Nat,
         \A x \in S : f[x] \in Nat /\ g[x] = f[x] + (IF x = e THEN d ELSE 0),
         \A x \in T \ S : g[x] = 0
  PROVE  SumFunctionOnSet(g, T) = SumFunctionOnSet(f, S) + (IF e \in S THEN d ELSE 0)
  <1>1. IsFiniteSet(S) BY FS_Subset
  <1>2. \A x \in T : g[x] \in Nat OBVIOUS
  <1>3. SumFunctionOnSet(g, T) = SumFunctionOnSet(g, S) BY <1>2, SumSkipsZeros
  <1>4. CASE e \in S
    <2>1. /\ \A x \in S : f[x] \in Nat /\ g[x] \in Nat
          /\ \A x \in S \ {e} : g[x] = f[x]
          /\ g[e] = f[e] + d
      BY <1>2, <1>4
    <2>2. SumFunctionOnSet(g, S) = SumFunctionOnSet(f, S) - f[e] + g[e]
      BY <1>1, <1>4, <2>1, SumChanges
    <2>3. SumFunctionOnSet(f, S) \in Nat BY <1>1, SumIsNat
    <2> QED BY <1>3, <1>4, <2>1, <2>2, <2>3
  <1>5. CASE e \notin S
    <2>1. \A x \in S : f[x] \in Nat /\ g[x] = f[x] BY <1>5
    <2>2. SumFunctionOnSet(g, S) = SumFunctionOnSet(f, S) BY <1>1, <2>1, SumSame
    <2>3. SumFunctionOnSet(f, S) \in Nat BY <1>1, SumIsNat
    <2> QED BY <1>3, <1>5, <2>2, <2>3
  <1> QED BY <1>4, <1>5
=============================================================================
