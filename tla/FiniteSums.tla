----------------------------- MODULE FiniteSums -----------------------------
(***************************************************************************)
(* What SumFunctionOnSet of the community module Functions computes over a *)
(* finite set, as the proofs about accounts need it: it does not depend on *)
(* the order in which elements are chosen, changes by what one summand     *)
(* changes, and bounds each of its summands when none is negative.         *)
(*                                                                         *)
(* Induction is by a minimal counterexample among the subsets of a finite  *)
(* set (WFMin and FS_StrictSubsetOrderingWellFounded).                     *)
(***************************************************************************)
EXTENDS Integers, FiniteSets, Functions, FiniteSetTheorems, WellFoundedInduction, TLAPS

\* The element that the fold takes first.
Pick(s) == CHOOSE x \in s : TRUE

\* g is the function by which SumFunctionOnSet(f, T) is defined.
Iterates(g, f, T) ==
    g = [s \in SUBSET T |-> IF s = {} THEN 0 ELSE f[Pick(s)] + g[s \ {Pick(s)}]]

Iterator(f, T) == CHOOSE g : Iterates(g, f, T)

\* The definition of the library in these words.
LEMMA SumIsIterator ==
    ASSUME NEW f, NEW T
    PROVE  SumFunctionOnSet(f, T) = Iterator(f, T)[T]
  BY DEF SumFunctionOnSet, FoldFunctionOnSet, MapThenFoldSet, Iterator, Iterates, Pick

\* The element taken first is one of the set.
LEMMA PickIn ==
    ASSUME NEW s, s # {}
    PROVE  Pick(s) \in s
  BY DEF Pick

\* Every nonempty set of subsets of a finite set has a minimal element.
LEMMA MinimalSubset ==
    ASSUME NEW S, IsFiniteSet(S), NEW C, C \subseteq SUBSET S, C # {}
    PROVE  \E s \in C : \A u \in C : u \subseteq s => u = s
  <1>1. IsWellFoundedOn(StrictSubsetOrdering(S), SUBSET S)
    BY FS_StrictSubsetOrderingWellFounded, FS_FiniteSubsetsOfFinite
  <1>2. PICK s \in C : \A u \in C : ~ (<<u, s>> \in StrictSubsetOrdering(S))
    BY <1>1, WFMin
  <1>3. ASSUME NEW u \in C, u \subseteq s PROVE u = s
    <2>1. <<u, s>> \in (SUBSET S) \X (SUBSET S)
      OBVIOUS
    <2> QED BY <1>2, <1>3, <2>1 DEF StrictSubsetOrdering
  <1> QED BY <1>3

\* A function that iterates over T does so over every subset of T.
LEMMA IteratesSubset ==
    ASSUME NEW f, NEW T, NEW U \in SUBSET T, NEW g, Iterates(g, f, T)
    PROVE  Iterates([s \in SUBSET U |-> g[s]], f, U)
  <1> DEFINE h == [s \in SUBSET U |-> g[s]]
  <1>1. ASSUME NEW s \in SUBSET U
        PROVE  h[s] = IF s = {} THEN 0 ELSE f[Pick(s)] + h[s \ {Pick(s)}]
    <2>1. s \in SUBSET T /\ s \ {Pick(s)} \in SUBSET U
      OBVIOUS
    <2>2. h[s] = g[s] /\ h[s \ {Pick(s)}] = g[s \ {Pick(s)}]
      BY <2>1
    <2> HIDE DEF h
    <2> QED BY <2>1, <2>2 DEF Iterates
  <1>2. h = [s \in SUBSET U |-> h[s]]
    OBVIOUS
  <1> HIDE DEF h
  <1>3. h = [s \in SUBSET U |-> IF s = {} THEN 0 ELSE f[Pick(s)] + h[s \ {Pick(s)}]]
    BY <1>1, <1>2
  <1>4. Iterates(h, f, U)
    BY <1>3 DEF Iterates
  <1> QED BY <1>4 DEF h

\* Two functions that iterate over a finite set are equal.
LEMMA IteratesUnique ==
    ASSUME NEW f, NEW T, IsFiniteSet(T), NEW g, NEW h, Iterates(g, f, T), Iterates(h, f, T)
    PROVE  g = h
  <1> DEFINE C == {s \in SUBSET T : g[s] # h[s]}
  <1>1. C = {}
    <2> SUFFICES ASSUME C # {} PROVE FALSE
      OBVIOUS
    <2>1. PICK s \in C : \A u \in C : u \subseteq s => u = s
      <3>1. C \subseteq SUBSET T
        OBVIOUS
      <3> HIDE DEF C
      <3> QED BY <3>1, MinimalSubset
    <2>2. s # {}
      BY <2>1 DEF Iterates
    <2>3. Pick(s) \in s
      BY <2>2, PickIn
    <2>4. s \ {Pick(s)} \in SUBSET T /\ s \ {Pick(s)} # s /\ s \ {Pick(s)} \subseteq s
      BY <2>3
    <2>5. g[s \ {Pick(s)}] = h[s \ {Pick(s)}]
      BY <2>1, <2>4
    <2>6. /\ g[s] = f[Pick(s)] + g[s \ {Pick(s)}]
          /\ h[s] = f[Pick(s)] + h[s \ {Pick(s)}]
      BY <2>2 DEF Iterates
    <2> QED BY <2>5, <2>6
  <1>2. \A s \in SUBSET T : g[s] = h[s]
    BY <1>1
  <1>3. g = [s \in SUBSET T |-> g[s]] /\ h = [s \in SUBSET T |-> h[s]]
    BY DEF Iterates
  <1> QED BY <1>2, <1>3

\* What an iterating function has at a subset is the sum over the subset.
LEMMA IteratesSums ==
    ASSUME NEW f, NEW T, IsFiniteSet(T), NEW g, Iterates(g, f, T), NEW s \in SUBSET T
    PROVE  g[s] = Iterator(f, s)[s]
  <1> DEFINE h == [u \in SUBSET s |-> g[u]]
  <1>1. Iterates(h, f, s)
    BY IteratesSubset
  <1>2. Iterates(Iterator(f, s), f, s)
    BY <1>1 DEF Iterator
  <1>3. h = Iterator(f, s)
    BY <1>1, <1>2, IteratesUnique, FS_Subset
  <1> QED BY <1>3

\* There is a function that iterates.
LEMMA IteratesExists ==
    ASSUME NEW f, NEW S, IsFiniteSet(S)
    PROVE  Iterates(Iterator(f, S), f, S)
  <1> DEFINE C == {T \in SUBSET S : ~ \E g : Iterates(g, f, T)}
  <1>1. C = {}
    <2> SUFFICES ASSUME C # {} PROVE FALSE
      OBVIOUS
    <2>1. PICK T \in C : \A u \in C : u \subseteq T => u = T
      <3>1. C \subseteq SUBSET S
        OBVIOUS
      <3> HIDE DEF C
      <3> QED BY <3>1, MinimalSubset
    <2>2. ASSUME NEW u \in SUBSET T, u # T PROVE Iterates(Iterator(f, u), f, u)
      BY <2>1, <2>2 DEF Iterator
    <2> DEFINE H(u) == Iterator(f, u)[u]
               g == [s \in SUBSET T |->
                       IF s = {} THEN 0 ELSE f[Pick(s)] + H(s \ {Pick(s)})]
    <2>3. ASSUME NEW s \in SUBSET T, s # {} PROVE g[s \ {Pick(s)}] = H(s \ {Pick(s)})
      <3> DEFINE u == s \ {Pick(s)}
      <3>1. u \in SUBSET T /\ u # T
        BY <2>3, PickIn
      <3>2. Iterates(Iterator(f, u), f, u) /\ IsFiniteSet(u)
        BY <2>2, <3>1, FS_Subset
      <3>3. H(u) = IF u = {} THEN 0 ELSE f[Pick(u)] + Iterator(f, u)[u \ {Pick(u)}]
        BY <3>2 DEF Iterates
      <3>4. u \ {Pick(u)} \in SUBSET u
        OBVIOUS
      <3>5. Iterator(f, u)[u \ {Pick(u)}] = H(u \ {Pick(u)})
        BY <3>2, <3>4, IteratesSums
      <3>6. g[u] = IF u = {} THEN 0 ELSE f[Pick(u)] + H(u \ {Pick(u)})
        BY <3>1
      <3> HIDE DEF H, g, u
      <3>7. g[u] = H(u)
        BY <3>3, <3>5, <3>6
      <3> QED BY <3>7 DEF u
    <2>4. \A s \in SUBSET T : g[s] = IF s = {} THEN 0 ELSE f[Pick(s)] + g[s \ {Pick(s)}]
      BY <2>3
    <2>5. g = [s \in SUBSET T |-> g[s]]
      OBVIOUS
    <2> HIDE DEF g
    <2>6. Iterates(g, f, T)
      BY <2>4, <2>5 DEF Iterates
    <2> QED BY <2>1, <2>6
  <1>2. \E g : Iterates(g, f, S)
    BY <1>1
  <1> QED BY <1>2 DEF Iterator

-----------------------------------------------------------------------------
\* The sum over the empty set, and over any other with its first element apart.
LEMMA SumStep ==
    ASSUME NEW f, NEW S, IsFiniteSet(S)
    PROVE  SumFunctionOnSet(f, S) =
             IF S = {} THEN 0 ELSE f[Pick(S)] + SumFunctionOnSet(f, S \ {Pick(S)})
  <1>1. Iterates(Iterator(f, S), f, S)
    BY IteratesExists
  <1>2. Iterator(f, S)[S] = IF S = {} THEN 0 ELSE f[Pick(S)] + Iterator(f, S)[S \ {Pick(S)}]
    BY <1>1 DEF Iterates
  <1>3. Iterator(f, S)[S \ {Pick(S)}] = Iterator(f, S \ {Pick(S)})[S \ {Pick(S)}]
    BY <1>1, IteratesSums
  <1> QED BY <1>2, <1>3, SumIsIterator

\* The empty sum.
LEMMA SumEmpty == \A f : SumFunctionOnSet(f, {}) = 0
  BY SumStep, FS_EmptySet

\* A sum of integers is an integer.
LEMMA SumType ==
    ASSUME NEW S, IsFiniteSet(S), NEW f, \A x \in S : f[x] \in Int
    PROVE  SumFunctionOnSet(f, S) \in Int
  <1> DEFINE C == {T \in SUBSET S : SumFunctionOnSet(f, T) \notin Int}
  <1>1. C = {}
    <2> SUFFICES ASSUME C # {} PROVE FALSE
      OBVIOUS
    <2>1. PICK T \in C : \A u \in C : u \subseteq T => u = T
      <3>1. C \subseteq SUBSET S
        OBVIOUS
      <3> HIDE DEF C
      <3> QED BY <3>1, MinimalSubset
    <2>2. IsFiniteSet(T)
      BY FS_Subset
    <2>3. T # {}
      BY SumEmpty
    <2>4. Pick(T) \in T
      BY <2>3, PickIn
    <2>5. SumFunctionOnSet(f, T \ {Pick(T)}) \in Int
      BY <2>1, <2>4
    <2>6. SumFunctionOnSet(f, T) = f[Pick(T)] + SumFunctionOnSet(f, T \ {Pick(T)})
      BY <2>2, <2>3, SumStep
    <2> QED BY <2>4, <2>5, <2>6
  <1> QED BY <1>1

\* Any element can be taken apart, not only the first.
LEMMA SumSplit ==
    ASSUME NEW S, IsFiniteSet(S), NEW f, \A x \in S : f[x] \in Int, NEW a \in S
    PROVE  SumFunctionOnSet(f, S) = f[a] + SumFunctionOnSet(f, S \ {a})
  <1> DEFINE Sum(T) == SumFunctionOnSet(f, T)
             C == {T \in SUBSET S : \E b \in T : Sum(T) # f[b] + Sum(T \ {b})}
  <1>1. C = {}
    <2> SUFFICES ASSUME C # {} PROVE FALSE
      OBVIOUS
    <2>1. PICK T \in C : \A u \in C : u \subseteq T => u = T
      <3>1. C \subseteq SUBSET S
        OBVIOUS
      <3> HIDE DEF C
      <3> QED BY <3>1, MinimalSubset
    <2>2. PICK b \in T : Sum(T) # f[b] + Sum(T \ {b})
      OBVIOUS
    <2> DEFINE p == Pick(T)
    <2>3. IsFiniteSet(T) /\ p \in T
      BY <2>2, FS_Subset, PickIn
    <2>4. Sum(T) = f[p] + Sum(T \ {p})
      BY <2>2, <2>3, SumStep
    <2>5. p # b
      BY <2>2, <2>4
    <2>6. T \ {p} \notin C /\ T \ {b} \notin C
      BY <2>1, <2>2, <2>3
    <2>7. Sum(T \ {p}) = f[b] + Sum((T \ {p}) \ {b})
      BY <2>5, <2>6
    <2>8. Sum(T \ {b}) = f[p] + Sum((T \ {b}) \ {p})
      BY <2>3, <2>5, <2>6
    <2>9. (T \ {p}) \ {b} = (T \ {b}) \ {p} /\ (T \ {p}) \ {b} \in SUBSET S
      OBVIOUS
    <2>10. Sum((T \ {p}) \ {b}) \in Int
      BY <2>9, FS_Subset, SumType
    <2>11. f[p] \in Int /\ f[b] \in Int
      BY <2>3
    <2> DEFINE rest == Sum((T \ {p}) \ {b})
    <2>12. Sum(T) = f[p] + (f[b] + rest) /\ Sum(T \ {b}) = f[p] + rest
      BY <2>4, <2>7, <2>8, <2>9
    <2>13. f[p] + (f[b] + rest) = f[b] + (f[p] + rest)
      <3> HIDE DEF rest, p
      <3> QED BY <2>10, <2>11 DEF rest
    <2> QED BY <2>2, <2>12, <2>13
  <1> QED BY <1>1

\* The sum depends on the summands only.
LEMMA SumSame ==
    ASSUME NEW S, IsFiniteSet(S), NEW f, NEW g, \A x \in S : f[x] = g[x]
    PROVE  SumFunctionOnSet(f, S) = SumFunctionOnSet(g, S)
  <1> DEFINE C == {T \in SUBSET S : SumFunctionOnSet(f, T) # SumFunctionOnSet(g, T)}
  <1>1. C = {}
    <2> SUFFICES ASSUME C # {} PROVE FALSE
      OBVIOUS
    <2>1. PICK T \in C : \A u \in C : u \subseteq T => u = T
      <3>1. C \subseteq SUBSET S
        OBVIOUS
      <3> HIDE DEF C
      <3> QED BY <3>1, MinimalSubset
    <2>2. IsFiniteSet(T)
      BY FS_Subset
    <2>3. T # {}
      BY SumEmpty
    <2>4. Pick(T) \in T
      BY <2>3, PickIn
    <2>5. SumFunctionOnSet(f, T \ {Pick(T)}) = SumFunctionOnSet(g, T \ {Pick(T)})
      BY <2>1, <2>4
    <2>6. /\ SumFunctionOnSet(f, T) = f[Pick(T)] + SumFunctionOnSet(f, T \ {Pick(T)})
          /\ SumFunctionOnSet(g, T) = g[Pick(T)] + SumFunctionOnSet(g, T \ {Pick(T)})
      BY <2>2, <2>3, SumStep
    <2> QED BY <2>4, <2>5, <2>6
  <1> QED BY <1>1

\* When one summand changes the sum changes by as much.
LEMMA SumChange ==
    ASSUME NEW S, IsFiniteSet(S), NEW f, NEW g, NEW a \in S,
           \A x \in S : f[x] \in Int, \A x \in S \ {a} : g[x] = f[x], g[a] \in Int
    PROVE  SumFunctionOnSet(g, S) = SumFunctionOnSet(f, S) + g[a] - f[a]
  <1>1. IsFiniteSet(S \ {a}) /\ \A x \in S : g[x] \in Int
    BY FS_Subset
  <1>2. SumFunctionOnSet(f, S) = f[a] + SumFunctionOnSet(f, S \ {a})
    BY SumSplit
  <1>3. SumFunctionOnSet(g, S) = g[a] + SumFunctionOnSet(g, S \ {a})
    BY <1>1, SumSplit
  <1>4. SumFunctionOnSet(f, S \ {a}) = SumFunctionOnSet(g, S \ {a})
    BY <1>1, SumSame
  <1>5. SumFunctionOnSet(f, S \ {a}) \in Int
    BY <1>1, SumType
  <1> QED BY <1>1, <1>2, <1>3, <1>4, <1>5

\* A sum without negative summands is not negative.
LEMMA SumNonNegative ==
    ASSUME NEW S, IsFiniteSet(S), NEW f, \A x \in S : f[x] \in Nat
    PROVE  SumFunctionOnSet(f, S) \in Nat
  <1> DEFINE C == {T \in SUBSET S : SumFunctionOnSet(f, T) \notin Nat}
  <1>1. C = {}
    <2> SUFFICES ASSUME C # {} PROVE FALSE
      OBVIOUS
    <2>1. PICK T \in C : \A u \in C : u \subseteq T => u = T
      <3>1. C \subseteq SUBSET S
        OBVIOUS
      <3> HIDE DEF C
      <3> QED BY <3>1, MinimalSubset
    <2>2. IsFiniteSet(T)
      BY FS_Subset
    <2>3. T # {}
      BY SumEmpty
    <2>4. Pick(T) \in T
      BY <2>3, PickIn
    <2>5. SumFunctionOnSet(f, T \ {Pick(T)}) \in Nat
      BY <2>1, <2>4
    <2>6. SumFunctionOnSet(f, T) = f[Pick(T)] + SumFunctionOnSet(f, T \ {Pick(T)})
      BY <2>2, <2>3, SumStep
    <2> QED BY <2>4, <2>5, <2>6
  <1> QED BY <1>1

\* It is at least as large as each of its summands.
LEMMA SumBounds ==
    ASSUME NEW S, IsFiniteSet(S), NEW f, \A x \in S : f[x] \in Nat, NEW a \in S
    PROVE  SumFunctionOnSet(f, S) >= f[a]
  <1>1. IsFiniteSet(S \ {a}) /\ \A x \in S : f[x] \in Int
    BY FS_Subset
  <1>2. SumFunctionOnSet(f, S) = f[a] + SumFunctionOnSet(f, S \ {a})
    BY <1>1, SumSplit
  <1>3. SumFunctionOnSet(f, S \ {a}) \in Nat
    BY <1>1, SumNonNegative
  <1> QED BY <1>2, <1>3

\* Larger summands have a larger sum.
LEMMA SumMonotone ==
    ASSUME NEW S, IsFiniteSet(S), NEW f, NEW g,
           \A x \in S : f[x] \in Int /\ g[x] \in Int /\ f[x] <= g[x]
    PROVE  SumFunctionOnSet(f, S) <= SumFunctionOnSet(g, S)
  <1> DEFINE C == {T \in SUBSET S : ~ (SumFunctionOnSet(f, T) <= SumFunctionOnSet(g, T))}
  <1>1. C = {}
    <2> SUFFICES ASSUME C # {} PROVE FALSE
      OBVIOUS
    <2>1. PICK T \in C : \A u \in C : u \subseteq T => u = T
      <3>1. C \subseteq SUBSET S
        OBVIOUS
      <3> HIDE DEF C
      <3> QED BY <3>1, MinimalSubset
    <2>2. IsFiniteSet(T)
      BY FS_Subset
    <2>3. T # {}
      BY SumEmpty
    <2>4. Pick(T) \in T
      BY <2>3, PickIn
    <2> DEFINE U == T \ {Pick(T)}
    <2>5. SumFunctionOnSet(f, U) <= SumFunctionOnSet(g, U)
      BY <2>1, <2>4
    <2>6. /\ SumFunctionOnSet(f, T) = f[Pick(T)] + SumFunctionOnSet(f, U)
          /\ SumFunctionOnSet(g, T) = g[Pick(T)] + SumFunctionOnSet(g, U)
      BY <2>2, <2>3, SumStep
    <2>7. SumFunctionOnSet(f, U) \in Int /\ SumFunctionOnSet(g, U) \in Int
      <3>1. IsFiniteSet(U) /\ U \subseteq S
        BY <2>2, FS_Subset
      <3>2. (\A x \in U : f[x] \in Int) /\ (\A x \in U : g[x] \in Int)
        BY <3>1
      <3> HIDE DEF U
      <3> QED BY <3>1, <3>2, SumType
    <2>8. f[Pick(T)] \in Int /\ g[Pick(T)] \in Int /\ f[Pick(T)] <= g[Pick(T)]
      BY <2>4
    <2>9. ~ (SumFunctionOnSet(f, T) <= SumFunctionOnSet(g, T))
      OBVIOUS
    <2> HIDE DEF C, U
    <2> QED BY <2>5, <2>6, <2>7, <2>8, <2>9
  <1> QED BY <1>1

\* Zeros sum up to zero.
LEMMA SumZero ==
    ASSUME NEW S, IsFiniteSet(S), NEW f, \A x \in S : f[x] = 0
    PROVE  SumFunctionOnSet(f, S) = 0
  <1> DEFINE C == {T \in SUBSET S : SumFunctionOnSet(f, T) # 0}
  <1>1. C = {}
    <2> SUFFICES ASSUME C # {} PROVE FALSE
      OBVIOUS
    <2>1. PICK T \in C : \A u \in C : u \subseteq T => u = T
      <3>1. C \subseteq SUBSET S
        OBVIOUS
      <3> HIDE DEF C
      <3> QED BY <3>1, MinimalSubset
    <2>2. IsFiniteSet(T)
      BY FS_Subset
    <2>3. T # {}
      BY SumEmpty
    <2>4. Pick(T) \in T
      BY <2>3, PickIn
    <2>5. SumFunctionOnSet(f, T \ {Pick(T)}) = 0
      BY <2>1, <2>4
    <2>6. SumFunctionOnSet(f, T) = f[Pick(T)] + SumFunctionOnSet(f, T \ {Pick(T)})
      BY <2>2, <2>3, SumStep
    <2> QED BY <2>4, <2>5, <2>6
  <1> QED BY <1>1
=============================================================================
