------------------------------ MODULE FiniteSums ------------------------------
(***************************************************************************)
(* Least elements, and sums over finite sets as the folds of the community *)
(* modules define them.  What holds of the empty set and passes from the   *)
(* smaller subsets of a set to the set itself is proved by contradiction:  *)
(* among the subsets for which it fails there would be a least one.        *)
(***************************************************************************)
EXTENDS Integers, Functions, FiniteSetTheorems, WellFoundedInduction, TLAPS

\* What holds of some subset of a finite set holds of a least one.
LEMMA LeastSubset ==
    ASSUME NEW S, IsFiniteSet(S), NEW T, T \subseteq SUBSET S, T # {}
    PROVE  \E x \in T : \A y \in SUBSET x : y # x => y \notin T
<1>1. IsWellFoundedOn(StrictSubsetOrdering(S), SUBSET S)
  BY FS_StrictSubsetOrderingWellFounded, FS_FiniteSubsetsOfFinite
<1>2. PICK x \in T : \A y \in T : <<y, x>> \notin StrictSubsetOrdering(S)
  BY <1>1, WFMin
<1> QED  BY <1>2 DEF StrictSubsetOrdering

\* What holds of some natural number holds of a least one.
LEMMA LeastNatural ==
    ASSUME NEW T, T \subseteq Nat, T # {}
    PROVE  \E n \in T : \A k \in T : n <= k
<1>1. PICK n \in T : \A k \in T : <<k, n>> \notin OpToRel(<, Nat)
  BY NatLessThanWellFounded, WFMin
<1>2. ASSUME NEW k \in T PROVE n <= k
  <2>1. <<k, n>> \in Nat \X Nat /\ <<k, n>>[1] = k /\ <<k, n>>[2] = n
    OBVIOUS
  <2>2. ~(k < n)
    BY <1>1, <2>1 DEF OpToRel
  <2> QED  BY <2>1, <2>2
<1> QED  BY <1>2

-----------------------------------------------------------------------------
(* Sums. *)

\* The element that a fold takes first.
First(S) == CHOOSE x \in S : TRUE

\* f adds up fun over every subset of S, one element at a time.
AddsUp(fun, S, f) ==
  f = [s \in SUBSET S |-> IF s = {} THEN 0 ELSE fun[First(s)] + f[s \ {First(s)}]]

Sum(fun, S) == FoldFunctionOnSet(+, 0, fun, S)

LEMMA SumIsChosen ==
    ASSUME NEW fun, NEW S
    PROVE  Sum(fun, S) = (CHOOSE f : AddsUp(fun, S, f))[S]
BY DEF Sum, FoldFunctionOnSet, MapThenFoldSet, AddsUp, First

LEMMA FirstIn ==
    ASSUME NEW S, S # {}
    PROVE  First(S) \in S
BY DEF First

LEMMA AddsUpOnce ==
    ASSUME NEW fun, NEW S, IsFiniteSet(S), NEW R, NEW f, NEW g,
           AddsUp(fun, S, f), AddsUp(fun, R, g), S \subseteq R
    PROVE  \A s \in SUBSET S : f[s] = g[s]
<1> DEFINE T == {s \in SUBSET S : f[s] # g[s]}
<1> SUFFICES ASSUME T # {} PROVE FALSE
  OBVIOUS
<1>0. T \subseteq SUBSET S
  OBVIOUS
<1>1. PICK x \in T : \A y \in SUBSET x : y # x => y \notin T
  <2> HIDE DEF T
  <2> QED  BY <1>0, LeastSubset
<1>2. /\ f[x] = IF x = {} THEN 0 ELSE fun[First(x)] + f[x \ {First(x)}]
      /\ g[x] = IF x = {} THEN 0 ELSE fun[First(x)] + g[x \ {First(x)}]
  BY DEF AddsUp
<1>3. x # {} => f[x \ {First(x)}] = g[x \ {First(x)}]
  BY <1>1, FirstIn
<1> QED  BY <1>2, <1>3

LEMMA ChosenAddsUp ==
    ASSUME NEW fun, NEW S, \E f : AddsUp(fun, S, f)
    PROVE  AddsUp(fun, S, CHOOSE f : AddsUp(fun, S, f))
BY Zenon

LEMMA AddsUpExists ==
    ASSUME NEW fun, NEW S, IsFiniteSet(S)
    PROVE  \E f : AddsUp(fun, S, f)
<1> DEFINE T == {s \in SUBSET S : ~\E f : AddsUp(fun, s, f)}
<1> SUFFICES ASSUME T # {} PROVE FALSE
  OBVIOUS
<1>0. T \subseteq SUBSET S
  OBVIOUS
<1>1. PICK x \in T : \A y \in SUBSET x : y # x => y \notin T
  <2> HIDE DEF T
  <2> QED  BY <1>0, LeastSubset
<1> DEFINE f(s) == CHOOSE h : AddsUp(fun, s, h)
           g == [s \in SUBSET x |->
                   IF s = {} THEN 0
                   ELSE fun[First(s)] + f(s \ {First(s)})[s \ {First(s)}]]
<1>2. ASSUME NEW y \in SUBSET x, y # x
      PROVE  AddsUp(fun, y, f(y)) /\ IsFiniteSet(y)
  BY <1>1, <1>2, ChosenAddsUp, FS_Subset
<1>3. ASSUME NEW s \in SUBSET x, s # {}
      PROVE  f(s \ {First(s)})[s \ {First(s)}] = g[s \ {First(s)}]
  <2> DEFINE u == s \ {First(s)}
  <2>1. u \in SUBSET x /\ u # x
    BY <1>3, FirstIn
  <2>2. AddsUp(fun, u, f(u))
    BY <1>2, <2>1
  <2>3. f(u)[u] = IF u = {} THEN 0 ELSE fun[First(u)] + f(u)[u \ {First(u)}]
    BY <2>2 DEF AddsUp
  <2>4. u # {} => f(u)[u \ {First(u)}] = f(u \ {First(u)})[u \ {First(u)}]
    <3> SUFFICES ASSUME u # {} PROVE f(u)[u \ {First(u)}] = f(u \ {First(u)})[u \ {First(u)}]
      OBVIOUS
    <3> DEFINE v == u \ {First(u)}
    <3>1. v \in SUBSET x /\ v # x /\ v \subseteq u
      BY <2>1, FirstIn
    <3>2. AddsUp(fun, v, f(v)) /\ IsFiniteSet(v)
      BY <1>2, <3>1
    <3> HIDE DEF u, v, f
    <3>3. f(v)[v] = f(u)[v]
      BY <2>2, <3>1, <3>2, AddsUpOnce
    <3> QED  BY <3>3 DEF v
  <2> QED  BY <2>1, <2>3, <2>4
<1>4. AddsUp(fun, x, g)
  <2> DEFINE a(s) == IF s = {} THEN 0 ELSE fun[First(s)] + f(s \ {First(s)})[s \ {First(s)}]
             b(s) == IF s = {} THEN 0 ELSE fun[First(s)] + g[s \ {First(s)}]
  <2>a. ASSUME NEW s \in SUBSET x PROVE a(s) = b(s)
    <3>1. CASE s = {}
      BY <3>1
    <3>2. CASE s # {}
      <4>1. f(s \ {First(s)})[s \ {First(s)}] = g[s \ {First(s)}]
        BY <1>3, <3>2
      <4> HIDE DEF f, g
      <4> QED  BY <3>2, <4>1
    <3> QED  BY <3>1, <3>2
  <2>b. g = [s \in SUBSET x |-> a(s)]
    OBVIOUS
  <2>1. g = [s \in SUBSET x |-> b(s)]
    <3> HIDE DEF g, a, b
    <3> QED  BY <2>a, <2>b
  <2> QED  BY <2>1 DEF AddsUp
<1> QED  BY <1>4

LEMMA SumStep ==
    ASSUME NEW fun, NEW S, IsFiniteSet(S)
    PROVE  /\ S = {} => Sum(fun, S) = 0
           /\ S # {} => Sum(fun, S) = fun[First(S)] + Sum(fun, S \ {First(S)})
<1> DEFINE f == CHOOSE h : AddsUp(fun, S, h)
<1>1. AddsUp(fun, S, f)
  BY AddsUpExists, ChosenAddsUp
<1>2. f[S] = IF S = {} THEN 0 ELSE fun[First(S)] + f[S \ {First(S)}]
  BY <1>1 DEF AddsUp
<1>3. Sum(fun, S) = f[S]
  BY SumIsChosen
<1>4. ASSUME S # {}
      PROVE  f[S \ {First(S)}] = Sum(fun, S \ {First(S)})
  <2> DEFINE u == S \ {First(S)}
             g == CHOOSE h : AddsUp(fun, u, h)
  <2>1. IsFiniteSet(u) /\ u \subseteq S
    BY FS_Subset
  <2>2. AddsUp(fun, u, g)
    BY <2>1, AddsUpExists, ChosenAddsUp
  <2>3. Sum(fun, u) = g[u]
    BY SumIsChosen
  <2> HIDE DEF u, f, g
  <2>4. g[u] = f[u]
    BY <1>1, <2>1, <2>2, AddsUpOnce
  <2> QED  BY <2>3, <2>4 DEF u
<1> HIDE DEF f
<1> QED  BY <1>2, <1>3, <1>4

\* A sum of natural numbers is one.
LEMMA SumNat ==
    ASSUME NEW S, IsFiniteSet(S), NEW fun, \A x \in S : fun[x] \in Nat
    PROVE  Sum(fun, S) \in Nat
<1> DEFINE T == {s \in SUBSET S : Sum(fun, s) \notin Nat}
<1> SUFFICES ASSUME T # {} PROVE FALSE
  OBVIOUS
<1>0. T \subseteq SUBSET S
  OBVIOUS
<1>1. PICK s \in T : \A y \in SUBSET s : y # s => y \notin T
  <2> HIDE DEF T
  <2> QED  BY <1>0, LeastSubset
<1>2. IsFiniteSet(s)
  BY FS_Subset
<1>3. s # {} => First(s) \in s /\ Sum(fun, s \ {First(s)}) \in Nat
  BY <1>1, FirstIn
<1> QED  BY <1>2, <1>3, SumStep

\* It does not matter which element is added last.
LEMMA SumRemove ==
    ASSUME NEW S, IsFiniteSet(S), NEW fun, \A x \in S : fun[x] \in Nat, NEW a \in S
    PROVE  Sum(fun, S) = fun[a] + Sum(fun, S \ {a})
<1> DEFINE T == {s \in SUBSET S : \E e \in s : Sum(fun, s) # fun[e] + Sum(fun, s \ {e})}
<1> SUFFICES ASSUME T # {} PROVE FALSE
  OBVIOUS
<1>0. T \subseteq SUBSET S
  OBVIOUS
<1>1. PICK s \in T : \A y \in SUBSET s : y # s => y \notin T
  <2> HIDE DEF T
  <2> QED  BY <1>0, LeastSubset
<1>2. PICK b \in s : Sum(fun, s) # fun[b] + Sum(fun, s \ {b})
  OBVIOUS
<1> DEFINE e == First(s)
<1>3. IsFiniteSet(s) /\ e \in s /\ b \in S /\ e \in S
  BY FS_Subset, FirstIn
<1>4. Sum(fun, s) = fun[e] + Sum(fun, s \ {e})
  BY <1>3, SumStep
<1>5. b # e
  BY <1>2, <1>4
<1> HIDE DEF e
<1>6. s \ {e} \in SUBSET S /\ s \ {e} \notin T /\ s \ {b} \in SUBSET S /\ s \ {b} \notin T
  BY <1>1, <1>3
<1>7. /\ Sum(fun, s \ {e}) = fun[b] + Sum(fun, (s \ {e}) \ {b})
      /\ Sum(fun, s \ {b}) = fun[e] + Sum(fun, (s \ {b}) \ {e})
  BY <1>3, <1>5, <1>6
<1>8. (s \ {e}) \ {b} = (s \ {b}) \ {e}
  OBVIOUS
<1>9. Sum(fun, (s \ {e}) \ {b}) \in Nat
  <2>1. IsFiniteSet((s \ {e}) \ {b}) /\ \A x \in (s \ {e}) \ {b} : fun[x] \in Nat
    BY <1>3, FS_Subset
  <2> QED  BY <2>1, SumNat
<1> QED  BY <1>2, <1>3, <1>4, <1>7, <1>8, <1>9

\* Functions that agree on a set have the same sum over it.
LEMMA SumSame ==
    ASSUME NEW S, IsFiniteSet(S), NEW fun, NEW gun, \A x \in S : fun[x] = gun[x]
    PROVE  Sum(fun, S) = Sum(gun, S)
<1> DEFINE T == {s \in SUBSET S : Sum(fun, s) # Sum(gun, s)}
<1> SUFFICES ASSUME T # {} PROVE FALSE
  OBVIOUS
<1>0. T \subseteq SUBSET S
  OBVIOUS
<1>1. PICK s \in T : \A y \in SUBSET s : y # s => y \notin T
  <2> HIDE DEF T
  <2> QED  BY <1>0, LeastSubset
<1>2. IsFiniteSet(s)
  BY FS_Subset
<1>3. s # {} => First(s) \in s /\ Sum(fun, s \ {First(s)}) = Sum(gun, s \ {First(s)})
  BY <1>1, FirstIn
<1> QED  BY <1>2, <1>3, SumStep

\* The sum over two sets without common elements.
LEMMA SumUnion ==
    ASSUME NEW A, NEW B, IsFiniteSet(A), IsFiniteSet(B), A \cap B = {},
           NEW fun, \A x \in A \cup B : fun[x] \in Nat
    PROVE  Sum(fun, A \cup B) = Sum(fun, A) + Sum(fun, B)
<1> DEFINE T == {b \in SUBSET B : Sum(fun, A \cup b) # Sum(fun, A) + Sum(fun, b)}
<1> SUFFICES ASSUME T # {} PROVE FALSE
  OBVIOUS
<1>0. T \subseteq SUBSET B
  OBVIOUS
<1>1. PICK b \in T : \A y \in SUBSET b : y # b => y \notin T
  <2> HIDE DEF T
  <2> QED  BY <1>0, LeastSubset
<1>2. Sum(fun, A) \in Nat /\ IsFiniteSet(b) /\ IsFiniteSet(A \cup b)
  BY SumNat, FS_Subset, FS_Union
<1>3. CASE b = {}
  <2>1. Sum(fun, b) = 0 /\ A \cup b = A
    BY <1>2, <1>3, SumStep
  <2> QED  BY <1>2, <2>1
<1>4. CASE b # {}
  <2> DEFINE e == First(b)
  <2>1. e \in b /\ e \notin A
    BY <1>4, FirstIn
  <2> HIDE DEF e
  <2>2. Sum(fun, A \cup b) = fun[e] + Sum(fun, (A \cup b) \ {e})
    BY <1>2, <2>1, SumRemove
  <2>3. Sum(fun, b) = fun[e] + Sum(fun, b \ {e})
    BY <1>2, <2>1, SumRemove
  <2>4. (A \cup b) \ {e} = A \cup (b \ {e}) /\ b \ {e} \in SUBSET b /\ b \ {e} # b
    BY <2>1
  <2>5. Sum(fun, A \cup (b \ {e})) = Sum(fun, A) + Sum(fun, b \ {e})
    BY <1>1, <2>4
  <2>6. Sum(fun, b \ {e}) \in Nat /\ fun[e] \in Nat
    BY <1>2, <2>1, SumNat, FS_Subset
  <2> QED  BY <1>2, <2>2, <2>3, <2>4, <2>5, <2>6
<1> QED  BY <1>3, <1>4

\* Counting is adding ones.
LEMMA SumOnes ==
    ASSUME NEW S, IsFiniteSet(S), NEW fun, \A x \in S : fun[x] = 1
    PROVE  Sum(fun, S) = Cardinality(S)
<1> DEFINE T == {s \in SUBSET S : Sum(fun, s) # Cardinality(s)}
<1> SUFFICES ASSUME T # {} PROVE FALSE
  OBVIOUS
<1>0. T \subseteq SUBSET S
  OBVIOUS
<1>1. PICK s \in T : \A y \in SUBSET s : y # s => y \notin T
  <2> HIDE DEF T
  <2> QED  BY <1>0, LeastSubset
<1>2. IsFiniteSet(s)
  BY FS_Subset
<1>3. CASE s = {}
  BY <1>2, <1>3, SumStep, FS_EmptySet
<1>4. CASE s # {}
  <2> DEFINE e == First(s)
  <2>1. e \in s
    BY <1>4, FirstIn
  <2> HIDE DEF e
  <2>2. Sum(fun, s \ {e}) = Cardinality(s \ {e})
    BY <1>1, <2>1
  <2>3. Cardinality(s \ {e}) = Cardinality(s) - 1 /\ Cardinality(s) \in Nat
    BY <1>2, <2>1, FS_RemoveElement, FS_CardinalityType
  <2>4. Sum(fun, s) = 1 + Sum(fun, s \ {e})
    BY <1>2, <2>1, SumRemove
  <2> QED  BY <2>2, <2>3, <2>4
<1> QED  BY <1>3, <1>4

\* A sum over a set is the sum of the sums over the parts it falls into.
LEMMA SumParts ==
    ASSUME NEW P, IsFiniteSet(P), IsFiniteSet(UNION P),
           \A p, q \in P : p # q => p \cap q = {},
           NEW fun, \A x \in UNION P : fun[x] \in Nat,
           NEW sums, \A p \in P : sums[p] = Sum(fun, p)
    PROVE  Sum(sums, P) = Sum(fun, UNION P)
<1> DEFINE T == {s \in SUBSET P : Sum(sums, s) # Sum(fun, UNION s)}
<1> SUFFICES ASSUME T # {} PROVE FALSE
  OBVIOUS
<1>0. T \subseteq SUBSET P
  OBVIOUS
<1>1. PICK s \in T : \A y \in SUBSET s : y # s => y \notin T
  <2> HIDE DEF T
  <2> QED  BY <1>0, LeastSubset
<1>2. IsFiniteSet(s)
  BY FS_Subset
<1>3. CASE s = {}
  <2>1. UNION s = {} /\ IsFiniteSet({})
    BY <1>3, FS_EmptySet
  <2> QED  BY <1>2, <1>3, <2>1, SumStep
<1>4. CASE s # {}
  <2> DEFINE e == First(s)
  <2>1. e \in s
    BY <1>4, FirstIn
  <2>2. Sum(sums, s) = sums[e] + Sum(sums, s \ {e})
    BY <1>2, <1>4, SumStep
  <2> HIDE DEF e
  <2>3. Sum(sums, s \ {e}) = Sum(fun, UNION (s \ {e}))
    BY <1>1, <2>1
  <2> DEFINE rest == UNION (s \ {e})
  <2>4. e \subseteq UNION P /\ rest \subseteq UNION P /\ UNION s = e \cup rest
    BY <2>1
  <2>5. e \cap rest = {}
    BY <2>1
  <2>6. IsFiniteSet(e) /\ IsFiniteSet(rest) /\ \A x \in e \cup rest : fun[x] \in Nat
    BY <2>4, FS_Subset
  <2> HIDE DEF rest
  <2>7. Sum(fun, e \cup rest) = Sum(fun, e) + Sum(fun, rest)
    BY <2>5, <2>6, SumUnion
  <2> QED  BY <2>1, <2>2, <2>3, <2>4, <2>7 DEF rest
<1> QED  BY <1>3, <1>4
=============================================================================
