----------------------------- MODULE SumTheorems -----------------------------
(***************************************************************************)
(* Facts about sums over finite sets.  The library's induction on finite   *)
(* sets takes an operator; here a set of subsets takes its place, and the  *)
(* induction is that a smallest subset outside that set does not exist.    *)
(***************************************************************************)
EXTENDS Integers, FiniteSets, Functions, Folds, FiniteSetTheorems, TLAPS

\* Induction on the subsets of a finite set.
LEMMA SubsetInduction ==
    ASSUME NEW S, IsFiniteSet(S), NEW Good,
           \A T \in SUBSET S : (\A U \in SUBSET T : U # T => U \in Good) => T \in Good
    PROVE  SUBSET S \subseteq Good
<1> DEFINE Bad == {T \in SUBSET S : T \notin Good}
<1>1. SUFFICES ASSUME Bad # {} PROVE FALSE
  OBVIOUS
<1>2. FiniteSubsetsOf(S) = SUBSET S
  BY FS_FiniteSubsetsOfFinite
<1>3. IsWellFoundedOn(StrictSubsetOrdering(S), SUBSET S)
  BY <1>2, FS_StrictSubsetOrderingWellFounded
<1>4. PICK T \in Bad : \A U \in Bad : ~(<<U, T>> \in StrictSubsetOrdering(S))
  <2>1. Bad \subseteq SUBSET S
    OBVIOUS
  <2> HIDE DEF Bad
  <2> QED
    BY <1>1, <1>3, <2>1, WFMin
<1>5. \A U \in SUBSET T : U # T => U \in Good
  BY <1>4 DEF StrictSubsetOrdering
<1> QED
  BY <1>5

----------------------------------------------------------------------------
(* What the recursion computes *)

\* One step of the sum of f over s.
SumStep(f, iter, s) ==
    IF s = {} THEN 0
    ELSE LET x == CHOOSE x \in s : TRUE IN f[x] + iter[s \ {x}]

IsSum(f, iter, S) == iter = [s \in SUBSET S |-> SumStep(f, iter, s)]

LEMMA SumIsRecursive ==
    ASSUME NEW f, NEW S
    PROVE  SumFunctionOnSet(f, S) = (CHOOSE iter : IsSum(f, iter, S))[S]
BY DEF SumFunctionOnSet, FoldFunctionOnSet, MapThenFoldSet, IsSum, SumStep

\* Two such functions agree where both are defined.
LEMMA SumIsUnique ==
    ASSUME NEW f, NEW g, NEW h, NEW S, NEW T, IsFiniteSet(S),
           IsSum(f, g, S), IsSum(f, h, T)
    PROVE  \A s \in SUBSET (S \cap T) : g[s] = h[s]
<1> DEFINE Both == S \cap T
           Good == {s \in SUBSET Both : g[s] = h[s]}
<1>1. IsFiniteSet(Both)
  BY FS_Subset
<1>2. ASSUME NEW s \in SUBSET Both, \A u \in SUBSET s : u # s => u \in Good
      PROVE  s \in Good
  <2>1. g[s] = SumStep(f, g, s) /\ h[s] = SumStep(f, h, s)
    BY DEF IsSum
  <2>2. CASE s = {}
    BY <2>1, <2>2 DEF SumStep
  <2>3. CASE s # {}
    <3> DEFINE x == CHOOSE x \in s : TRUE
    <3>1. x \in s
      BY <2>3
    <3>2. s \ {x} \in Good
      BY <1>2, <3>1
    <3>3. g[s] = f[x] + g[s \ {x}] /\ h[s] = f[x] + h[s \ {x}]
      BY <2>1, <2>3 DEF SumStep
    <3> QED
      BY <3>2, <3>3
  <2> QED
    BY <2>2, <2>3
<1> HIDE DEF Both, Good
<1>3. SUBSET Both \subseteq Good
  BY <1>1, <1>2, SubsetInduction
<1> QED
  BY <1>3 DEF Both, Good

\* One exists, for a finite set.
LEMMA SumExists ==
    ASSUME NEW f, NEW S, IsFiniteSet(S)
    PROVE  \E iter : IsSum(f, iter, S)
<1> DEFINE Good == {T \in SUBSET S : \E iter : IsSum(f, iter, T)}
<1>1. ASSUME NEW T \in SUBSET S, \A U \in SUBSET T : U # T => U \in Good
      PROVE  T \in Good
  <2> DEFINE V == [u \in SUBSET T |-> SumFunctionOnSet(f, u)]
             g == [s \in SUBSET T |-> SumStep(f, V, s)]
  <2>1. ASSUME NEW s \in SUBSET T
        PROVE  g[s] = SumStep(f, g, s)
    <3>1. CASE s = {}
      BY <3>1 DEF SumStep
    <3>2. CASE s # {}
      <4> DEFINE x == CHOOSE x \in s : TRUE
                 u == s \ {x}
      <4>1. x \in s
        BY <3>2
      <4>2. u \in SUBSET T /\ u # T
        BY <4>1
      <4>3. V[u] = g[u]
        <5>1. PICK iter : iter = CHOOSE g2 : IsSum(f, g2, u)
          OBVIOUS
        <5>2. IsSum(f, iter, u)
          BY <1>1, <4>2, <5>1
        <5>3. V[u] = iter[u]
          BY <4>2, <5>1, SumIsRecursive
        <5>4. iter[u] = SumStep(f, iter, u)
          BY <5>2 DEF IsSum
        <5>5. g[u] = SumStep(f, V, u)
          BY <4>2
        <5>6. SumStep(f, iter, u) = SumStep(f, V, u)
          <6>1. CASE u = {}
            BY <6>1 DEF SumStep
          <6>2. CASE u # {}
            <7> DEFINE y == CHOOSE y \in u : TRUE
                       w == u \ {y}
            <7>1. y \in u
              BY <6>2
            <7>2. w \in SUBSET u /\ w \in SUBSET T /\ w # T
              BY <4>2, <7>1
            <7>3. PICK other : other = CHOOSE g2 : IsSum(f, g2, w)
              OBVIOUS
            <7>4. IsSum(f, other, w)
              BY <1>1, <7>2, <7>3
            <7>5. V[w] = other[w]
              BY <7>2, <7>3, SumIsRecursive
            <7>6. IsFiniteSet(u) /\ w \in SUBSET (u \cap w)
              BY <4>2, <7>2, FS_Subset
            <7>7. iter[w] = other[w]
              <8> HIDE DEF w, u
              <8> QED
                BY <5>2, <7>4, <7>6, SumIsUnique
            <7>8. SumStep(f, iter, u) = f[y] + iter[w] /\ SumStep(f, V, u) = f[y] + V[w]
              BY <6>2 DEF SumStep
            <7> QED
              BY <7>5, <7>7, <7>8
          <6> QED
            BY <6>1, <6>2
        <5> QED
          BY <5>3, <5>4, <5>5, <5>6
      <4>4. SumStep(f, V, s) = f[x] + V[u] /\ SumStep(f, g, s) = f[x] + g[u]
        BY <3>2 DEF SumStep
      <4> QED
        BY <4>3, <4>4
    <3> QED
      BY <3>1, <3>2
  <2>2. g = [s \in SUBSET T |-> g[s]]
    OBVIOUS
  <2>3. IsSum(f, g, T)
    <3> HIDE DEF g
    <3> QED
      BY <2>1, <2>2 DEF IsSum
  <2> QED
    BY <2>3
<1> HIDE DEF Good
<1>2. SUBSET S \subseteq Good
  BY <1>1, SubsetInduction
<1> QED
  BY <1>2 DEF Good

\* So the sum over a set is that over the set without the element chosen, and that element's share.
LEMMA SumUnfolds ==
    ASSUME NEW f, NEW S, IsFiniteSet(S)
    PROVE  /\ SumFunctionOnSet(f, {}) = 0
           /\ S # {} => LET x == CHOOSE x \in S : TRUE
                        IN  SumFunctionOnSet(f, S) = f[x] + SumFunctionOnSet(f, S \ {x})
<1>1. ASSUME NEW T, IsFiniteSet(T)
      PROVE  \E iter : IsSum(f, iter, T) /\ SumFunctionOnSet(f, T) = iter[T]
  BY <1>1, SumExists, SumIsRecursive
<1>2. SumFunctionOnSet(f, {}) = 0
  BY <1>1, FS_EmptySet DEF IsSum, SumStep
<1>3. ASSUME S # {}
      PROVE  LET x == CHOOSE x \in S : TRUE
             IN  SumFunctionOnSet(f, S) = f[x] + SumFunctionOnSet(f, S \ {x})
  <2> DEFINE x == CHOOSE x \in S : TRUE
             u == S \ {x}
  <2>1. IsFiniteSet(u) /\ u \in SUBSET (S \cap u)
    BY FS_Subset
  <2>2. PICK iter : IsSum(f, iter, S) /\ SumFunctionOnSet(f, S) = iter[S]
    BY <1>1
  <2>3. PICK other : IsSum(f, other, u) /\ SumFunctionOnSet(f, u) = other[u]
    BY <1>1, <2>1
  <2>4. iter[u] = other[u]
    <3> HIDE DEF u
    <3> QED
      BY <2>1, <2>2, <2>3, SumIsUnique
  <2>5. iter[S] = f[x] + iter[u]
    BY <1>3, <2>2 DEF IsSum, SumStep
  <2> QED
    BY <2>2, <2>3, <2>4, <2>5
<1> QED
  BY <1>2, <1>3

----------------------------------------------------------------------------
(* What the proofs about the contracts use                                 *)

\* The sum over no terms is 0.
THEOREM SumEmpty ==
    ASSUME NEW f
    PROVE  SumFunctionOnSet(f, {}) = 0
BY SumUnfolds, FS_EmptySet

\* A sum of integers is an integer, one of natural numbers a natural number.
THEOREM SumType ==
    ASSUME NEW f, NEW S, IsFiniteSet(S), NEW Values \in {Int, Nat}, \A x \in S : f[x] \in Values
    PROVE  SumFunctionOnSet(f, S) \in Values
<1> DEFINE Good == {T \in SUBSET S : SumFunctionOnSet(f, T) \in Values}
<1>1. ASSUME NEW T \in SUBSET S, \A U \in SUBSET T : U # T => U \in Good
      PROVE  T \in Good
  <2>1. CASE T = {}
    BY <2>1, SumEmpty
  <2>2. CASE T # {}
    <3> DEFINE x == CHOOSE x \in T : TRUE
    <3>1. x \in T
      BY <2>2
    <3>2. T \ {x} \in Good
      BY <1>1, <3>1
    <3>3. SumFunctionOnSet(f, T) = f[x] + SumFunctionOnSet(f, T \ {x})
      BY <2>2, SumUnfolds, FS_Subset
    <3>4. f[x] \in Values
      BY <3>1
    <3> HIDE DEF x
    <3> QED
      BY <3>2, <3>3, <3>4
  <2> QED
    BY <2>1, <2>2
<1> HIDE DEF Good
<1>2. SUBSET S \subseteq Good
  BY <1>1, SubsetInduction
<1> QED
  BY <1>2 DEF Good

\* A sum of integers may be taken in any order: any element can be the last.
THEOREM SumRemove ==
    ASSUME NEW f, NEW S, IsFiniteSet(S), \A x \in S : f[x] \in Int, NEW y \in S
    PROVE  SumFunctionOnSet(f, S) = f[y] + SumFunctionOnSet(f, S \ {y})
<1> DEFINE Good == {T \in SUBSET S : \A z \in T :
                        SumFunctionOnSet(f, T) = f[z] + SumFunctionOnSet(f, T \ {z})}
<1>1. ASSUME NEW T \in SUBSET S, \A U \in SUBSET T : U # T => U \in Good, NEW z \in T
      PROVE  SumFunctionOnSet(f, T) = f[z] + SumFunctionOnSet(f, T \ {z})
  <2> DEFINE x == CHOOSE x \in T : TRUE
             both == T \ {x, z}
  <2>1. x \in T
    OBVIOUS
  <2>2. IsFiniteSet(T)
    BY FS_Subset
  <2>3. SumFunctionOnSet(f, T) = f[x] + SumFunctionOnSet(f, T \ {x})
    BY <2>2, SumUnfolds
  <2> HIDE DEF x
  <2>4. CASE x = z
    BY <2>3, <2>4
  <2>5. CASE x # z
    <3>1. T \ {x} \in Good /\ T \ {z} \in Good
      BY <1>1, <2>1
    <3>2. both = (T \ {x}) \ {z} /\ both = (T \ {z}) \ {x}
      OBVIOUS
    <3>3. SumFunctionOnSet(f, T \ {x}) = f[z] + SumFunctionOnSet(f, both)
      BY <2>5, <3>1, <3>2
    <3>4. SumFunctionOnSet(f, T \ {z}) = f[x] + SumFunctionOnSet(f, both)
      BY <2>1, <2>5, <3>1, <3>2
    <3>5. SumFunctionOnSet(f, both) \in Int
      <4>1. IsFiniteSet(both) /\ \A w \in both : f[w] \in Int
        BY FS_Subset, <2>2
      <4> HIDE DEF both
      <4> QED
        BY <4>1, SumType
    <3>6. f[x] \in Int /\ f[z] \in Int
      BY <2>1
    <3> HIDE DEF both
    <3> QED
      BY <2>3, <3>3, <3>4, <3>5, <3>6
  <2> QED
    BY <2>4, <2>5
<1>2. \A T \in SUBSET S : (\A U \in SUBSET T : U # T => U \in Good) => T \in Good
  BY <1>1
<1> HIDE DEF Good
<1>3. SUBSET S \subseteq Good
  BY <1>2, SubsetInduction
<1> QED
  BY <1>3 DEF Good

\* Functions that agree on a set have the same sum over it.
THEOREM SumAgree ==
    ASSUME NEW f, NEW g, NEW S, IsFiniteSet(S), \A x \in S : f[x] = g[x]
    PROVE  SumFunctionOnSet(f, S) = SumFunctionOnSet(g, S)
<1> DEFINE Good == {T \in SUBSET S : SumFunctionOnSet(f, T) = SumFunctionOnSet(g, T)}
<1>1. ASSUME NEW T \in SUBSET S, \A U \in SUBSET T : U # T => U \in Good
      PROVE  T \in Good
  <2>1. CASE T = {}
    BY <2>1, SumEmpty
  <2>2. CASE T # {}
    <3> DEFINE x == CHOOSE x \in T : TRUE
    <3>1. x \in T
      BY <2>2
    <3>2. T \ {x} \in Good
      BY <1>1, <3>1
    <3>3. IsFiniteSet(T)
      BY FS_Subset
    <3>4. SumFunctionOnSet(f, T) = f[x] + SumFunctionOnSet(f, T \ {x})
      BY <2>2, <3>3, SumUnfolds
    <3>5. SumFunctionOnSet(g, T) = g[x] + SumFunctionOnSet(g, T \ {x})
      BY <2>2, <3>3, SumUnfolds
    <3> HIDE DEF x
    <3> QED
      BY <3>1, <3>2, <3>4, <3>5
  <2> QED
    BY <2>1, <2>2
<1> HIDE DEF Good
<1>2. SUBSET S \subseteq Good
  BY <1>1, SubsetInduction
<1> QED
  BY <1>2 DEF Good

\* The sum changes by as much as the one value that does.
THEOREM SumUpdate ==
    ASSUME NEW f, NEW g, NEW S, IsFiniteSet(S), NEW y \in S,
           \A x \in S : f[x] \in Int /\ g[x] \in Int, \A x \in S \ {y} : g[x] = f[x]
    PROVE  SumFunctionOnSet(g, S) = SumFunctionOnSet(f, S) + (g[y] - f[y])
<1> DEFINE rest == S \ {y}
<1>1. IsFiniteSet(rest) /\ \A x \in rest : f[x] \in Int /\ g[x] = f[x]
  BY FS_Subset
<1>2. SumFunctionOnSet(f, S) = f[y] + SumFunctionOnSet(f, rest)
  BY SumRemove
<1>3. SumFunctionOnSet(g, S) = g[y] + SumFunctionOnSet(g, rest)
  BY SumRemove
<1> HIDE DEF rest
<1>4. SumFunctionOnSet(g, rest) = SumFunctionOnSet(f, rest)
  BY <1>1, SumAgree
<1>5. SumFunctionOnSet(f, rest) \in Int
  BY <1>1, SumType
<1> QED
  BY <1>2, <1>3, <1>4, <1>5

\* The same of two values that change.
THEOREM SumUpdateTwo ==
    ASSUME NEW f, NEW g, NEW S, IsFiniteSet(S), NEW y \in S, NEW z \in S, y # z,
           \A x \in S : f[x] \in Int /\ g[x] \in Int, \A x \in S \ {y, z} : g[x] = f[x]
    PROVE  SumFunctionOnSet(g, S) = SumFunctionOnSet(f, S) + (g[y] - f[y]) + (g[z] - f[z])
<1> DEFINE h == [x \in S |-> IF x = y THEN g[x] ELSE f[x]]
<1>1. /\ \A x \in S : h[x] \in Int
      /\ \A x \in S \ {y} : h[x] = f[x]
      /\ \A x \in S \ {z} : g[x] = h[x]
      /\ h[y] = g[y] /\ h[z] = f[z]
  OBVIOUS
<1> HIDE DEF h
<1>2. SumFunctionOnSet(h, S) = SumFunctionOnSet(f, S) + (h[y] - f[y])
  BY <1>1, SumUpdate
<1>3. SumFunctionOnSet(g, S) = SumFunctionOnSet(h, S) + (g[z] - h[z])
  BY <1>1, SumUpdate
<1> QED
  BY <1>1, <1>2, <1>3

\* A new element adds its value.
THEOREM SumAdd ==
    ASSUME NEW f, NEW S, IsFiniteSet(S), NEW y, y \notin S,
           \A x \in S \cup {y} : f[x] \in Int
    PROVE  SumFunctionOnSet(f, S \cup {y}) = f[y] + SumFunctionOnSet(f, S)
<1> DEFINE more == S \cup {y}
<1>1. IsFiniteSet(more) /\ y \in more /\ more \ {y} = S
  BY FS_AddElement
<1> HIDE DEF more
<1>2. \A x \in more : f[x] \in Int
  BY DEF more
<1>3. SumFunctionOnSet(f, more) = f[y] + SumFunctionOnSet(f, S)
  BY <1>1, <1>2, SumRemove
<1> QED
  BY <1>3 DEF more

\* The sum of two functions, value by value, sums to the sum of theirs.
THEOREM SumPlus ==
    ASSUME NEW f, NEW g, NEW h, NEW S, IsFiniteSet(S),
           \A x \in S : f[x] \in Int /\ g[x] \in Int /\ h[x] = f[x] + g[x]
    PROVE  SumFunctionOnSet(h, S) = SumFunctionOnSet(f, S) + SumFunctionOnSet(g, S)
<1> DEFINE Good == {T \in SUBSET S :
                        SumFunctionOnSet(h, T) = SumFunctionOnSet(f, T) + SumFunctionOnSet(g, T)}
<1>1. ASSUME NEW T \in SUBSET S, \A U \in SUBSET T : U # T => U \in Good
      PROVE  T \in Good
  <2>1. CASE T = {}
    BY <2>1, SumEmpty
  <2>2. CASE T # {}
    <3>1. PICK x : x \in T
      BY <2>2
    <3> DEFINE U == T \ {x}
    <3>2. IsFiniteSet(T) /\ IsFiniteSet(U) /\ U \in Good
      BY <1>1, <3>1, FS_Subset
    <3>3. \A z \in T : f[z] \in Int /\ g[z] \in Int /\ h[z] \in Int
      OBVIOUS
    <3>4. SumFunctionOnSet(f, T) = f[x] + SumFunctionOnSet(f, U)
      BY <3>1, <3>2, <3>3, SumRemove
    <3>5. SumFunctionOnSet(g, T) = g[x] + SumFunctionOnSet(g, U)
      BY <3>1, <3>2, <3>3, SumRemove
    <3>6. SumFunctionOnSet(h, T) = h[x] + SumFunctionOnSet(h, U)
      BY <3>1, <3>2, <3>3, SumRemove
    <3>7. SumFunctionOnSet(h, U) = SumFunctionOnSet(f, U) + SumFunctionOnSet(g, U)
      BY <3>2
    <3>8. \A z \in U : f[z] \in Int /\ g[z] \in Int
      OBVIOUS
    <3> HIDE DEF U
    <3>9. SumFunctionOnSet(f, U) \in Int /\ SumFunctionOnSet(g, U) \in Int
      BY <3>2, <3>8, SumType
    <3> QED
      BY <3>1, <3>3, <3>4, <3>5, <3>6, <3>7, <3>9
  <2> QED
    BY <2>1, <2>2
<1> HIDE DEF Good
<1>2. SUBSET S \subseteq Good
  BY <1>1, SubsetInduction
<1> QED
  BY <1>2 DEF Good

\* No natural number in a sum is larger than the sum.
THEOREM SumBound ==
    ASSUME NEW f, NEW S, IsFiniteSet(S), \A x \in S : f[x] \in Nat, NEW y \in S
    PROVE  f[y] <= SumFunctionOnSet(f, S)
<1> DEFINE rest == S \ {y}
<1>1. IsFiniteSet(rest) /\ \A x \in rest : f[x] \in Nat
  BY FS_Subset
<1>2. SumFunctionOnSet(f, S) = f[y] + SumFunctionOnSet(f, rest)
  BY SumRemove
<1> HIDE DEF rest
<1>3. SumFunctionOnSet(f, rest) \in Nat
  BY <1>1, SumType
<1> QED
  BY <1>2, <1>3

\* A sum of nothing but zeros is zero.
THEOREM SumZero ==
    ASSUME NEW f, NEW S, IsFiniteSet(S), \A x \in S : f[x] = 0
    PROVE  SumFunctionOnSet(f, S) = 0
<1> DEFINE n == SumFunctionOnSet(f, S)
<1>1. n = n + n
  BY SumPlus
<1>2. n \in Int
  BY SumType
<1> HIDE DEF n
<1>3. n = 0
  BY <1>1, <1>2
<1> QED
  BY <1>3 DEF n

\* What is zero can be left out of a sum.
THEOREM SumSupport ==
    ASSUME NEW f, NEW S, NEW T, IsFiniteSet(T), S \subseteq T,
           \A x \in T : f[x] \in Int, \A x \in T \ S : f[x] = 0
    PROVE  SumFunctionOnSet(f, S) = SumFunctionOnSet(f, T)
<1> DEFINE Good == {U \in SUBSET T : SumFunctionOnSet(f, U \cap S) = SumFunctionOnSet(f, U)}
<1>1. ASSUME NEW U \in SUBSET T, \A V \in SUBSET U : V # U => V \in Good
      PROVE  U \in Good
  <2>1. CASE U \subseteq S
    <3>1. U \cap S = U
      BY <2>1
    <3> QED
      BY <3>1
  <2>2. CASE ~(U \subseteq S)
    <3>1. PICK x \in U : x \notin S
      BY <2>2
    <3> DEFINE V == U \ {x}
    <3>2. V \in Good /\ V \cap S = U \cap S
      BY <1>1, <3>1
    <3>3. IsFiniteSet(U) /\ IsFiniteSet(V) /\ \A z \in U : f[z] \in Int
      BY FS_Subset
    <3>4. SumFunctionOnSet(f, U) = f[x] + SumFunctionOnSet(f, V)
      BY <3>3, SumRemove
    <3>5. SumFunctionOnSet(f, V) \in Int
      <4>1. \A z \in V : f[z] \in Int
        OBVIOUS
      <4> HIDE DEF V
      <4> QED
        BY <3>3, <4>1, SumType
    <3>6. f[x] = 0
      BY <3>1
    <3>7. SumFunctionOnSet(f, U \cap S) = SumFunctionOnSet(f, V)
      BY <3>2
    <3> HIDE DEF V
    <3> QED
      BY <3>4, <3>5, <3>6, <3>7
  <2> QED
    BY <2>1, <2>2
<1> HIDE DEF Good
<1>2. SUBSET T \subseteq Good
  BY <1>1, SubsetInduction
<1>3. T \cap S = S
  OBVIOUS
<1> QED
  BY <1>2, <1>3 DEF Good
=============================================================================
