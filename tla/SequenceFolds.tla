---------------------------- MODULE SequenceFolds ----------------------------
(***************************************************************************)
(* What FoldLeft of the community module SequencesExt computes, for any    *)
(* operator op with a parameter p: nothing for the empty sequence, and one *)
(* application more for one element more.  The operator is a constant, so  *)
(* that a module instantiates these lemmas for each of its folds.          *)
(*                                                                         *)
(* The library folds over the subsets of the domain, largest index first.  *)
(* Induction is by a minimal counterexample (WFMin).                       *)
(***************************************************************************)
EXTENDS Naturals, Sequences, SequencesExt, FiniteSetTheorems, SequenceTheorems,
        WellFoundedInduction, TLAPS

CONSTANT op(_, _, _)

Folded(b, s, p) == FoldLeft(LAMBDA acc, x : op(acc, x, p), b, s)

-----------------------------------------------------------------------------
\* A nonempty set of naturals has a least element.
LEMMA Least ==
    ASSUME NEW T, T \subseteq Nat, T # {}
    PROVE  \E n \in T : \A k \in T : n <= k
  <1>1. PICK n \in T : \A k \in T : ~ (<<k, n>> \in OpToRel(<, Nat))
    BY NatLessThanWellFounded, WFMin
  <1>2. ASSUME NEW k \in T PROVE n <= k
    <2>1. k \in Nat /\ n \in Nat /\ <<k, n>> \in Nat \X Nat
      OBVIOUS
    <2>2. ~(k < n)
      BY <1>1, <2>1 DEF OpToRel
    <2> QED BY <2>1, <2>2
  <1> QED BY <1>2

\* A set of indices.
Indices(S) == \E n \in Nat : S \subseteq 1..n

LEMMA SomeIndices ==
    /\ \A S, U : Indices(S) /\ U \subseteq S => Indices(U)
    /\ \A n \in Nat : Indices(1..n)
    /\ Indices({})
  BY DEF Indices

\* Induction up to n, on the set of the numbers for which a fact holds.
LEMMA UpTo ==
    ASSUME NEW n \in Nat, NEW T, 0 \in T, \A k \in 0..(n - 1) : k \in T => k + 1 \in T
    PROVE  n \in T
  <1> DEFINE F == {k \in 0..n : k \notin T}
  <1>1. F = {}
    <2> SUFFICES ASSUME F # {} PROVE FALSE
      OBVIOUS
    <2>1. PICK k \in F : \A j \in F : k <= j
      <3>1. F \subseteq Nat
        OBVIOUS
      <3> HIDE DEF F
      <3> QED BY <3>1, Least
    <2>2. k \in 1..n /\ k - 1 \in 0..(n - 1) /\ k - 1 \notin F
      BY <2>1
    <2>3. k - 1 \in T /\ (k - 1) + 1 = k
      BY <2>2
    <2> QED BY <2>1, <2>2, <2>3
  <1> QED BY <1>1

\* The largest index of a set of indices is one of the set.
LEMMA MaxIn ==
    ASSUME NEW S, Indices(S), S # {}
    PROVE  Max(S) \in S /\ \A y \in S : Max(S) >= y
  <1>0. PICK n \in Nat : S \subseteq 1..n
    BY DEF Indices
  <1> DEFINE T == {k \in Nat : \A y \in S : y <= k}
  <1>1. n \in T
    BY <1>0
  <1>2. PICK k \in T : \A j \in T : k <= j
    <2>1. T \subseteq Nat /\ T # {}
      BY <1>1
    <2> HIDE DEF T
    <2> QED BY <2>1, Least
  <1>3. k \in S
    <2> SUFFICES ASSUME k \notin S PROVE FALSE
      OBVIOUS
    <2>1. \A y \in S : y < k /\ y >= 1 /\ y \in Nat
      BY <1>0, <1>2
    <2>2. PICK y \in S : TRUE
      OBVIOUS
    <2>3. k - 1 \in Nat /\ \A z \in S : z <= k - 1
      BY <1>2, <2>1, <2>2
    <2>4. k - 1 \in T
      BY <2>3
    <2> QED BY <1>2, <2>4
  <1>4. \A y \in S : k >= y
    BY <1>2
  <1>5. \E x \in S : \A y \in S : x >= y
    BY <1>3, <1>4
  <1> QED BY <1>5 DEF Max

\* The largest index of the first n is n.
LEMMA MaxOfFirst ==
    ASSUME NEW n \in Nat, n # 0
    PROVE  Max(1..n) = n /\ (1..n) \ {n} = 1..(n - 1)
  <1>1. n \in 1..n
    OBVIOUS
  <1>2. PICK S : S = 1..n
    OBVIOUS
  <1>3. Max(S) \in S /\ \A y \in S : Max(S) >= y
    BY <1>1, <1>2, MaxIn, SomeIndices
  <1> QED BY <1>1, <1>2, <1>3

-----------------------------------------------------------------------------
\* g is the function by which the fold of the elements with indices in T is
\* defined.
Iterates(g, b, s, p, T) ==
    g = [S \in SUBSET T |-> IF S = {} THEN b
                            ELSE op(g[S \ {Max(S)}], s[Max(S)], p)]

Iterator(b, s, p, T) == CHOOSE g : Iterates(g, b, s, p, T)

\* The definition of the library in these words.
LEMMA FoldIsIterator ==
    ASSUME NEW b, NEW s, NEW p
    PROVE  Folded(b, s, p) = Iterator(b, s, p, DOMAIN s)[DOMAIN s]
  BY DEF Folded, FoldLeft, MapThenFoldSet, Iterator, Iterates

\* A function that iterates over T does so over every subset of T.
On(g, U) == [S \in SUBSET U |-> g[S]]

LEMMA IteratesSubset ==
    ASSUME NEW b, NEW s, NEW p, NEW T, NEW U \in SUBSET T, NEW g, Iterates(g, b, s, p, T)
    PROVE  Iterates(On(g, U), b, s, p, U)
  <1> DEFINE h == [S \in SUBSET U |-> g[S]]
  <1>1. ASSUME NEW S \in SUBSET U
        PROVE  h[S] = IF S = {} THEN b ELSE op(h[S \ {Max(S)}], s[Max(S)], p)
    <2>1. S \in SUBSET T /\ S \ {Max(S)} \in SUBSET U
      OBVIOUS
    <2>2. h[S] = g[S] /\ h[S \ {Max(S)}] = g[S \ {Max(S)}]
      BY <2>1
    <2> HIDE DEF h
    <2> QED BY <2>1, <2>2 DEF Iterates
  <1>2. h = [S \in SUBSET U |-> h[S]]
    OBVIOUS
  <1> HIDE DEF h
  <1>3. h = [S \in SUBSET U |-> IF S = {} THEN b ELSE op(h[S \ {Max(S)}], s[Max(S)], p)]
    BY <1>1, <1>2
  <1>4. Iterates(h, b, s, p, U)
    BY <1>3 DEF Iterates
  <1> QED BY <1>4 DEF h, On

\* Every nonempty set of subsets of a finite set has a minimal element.
LEMMA MinimalSubset ==
    ASSUME NEW D, IsFiniteSet(D), NEW C, C \subseteq SUBSET D, C # {}
    PROVE  \E S \in C : \A U \in C : U \subseteq S => U = S
  <1>1. IsWellFoundedOn(StrictSubsetOrdering(D), SUBSET D)
    BY FS_StrictSubsetOrderingWellFounded, FS_FiniteSubsetsOfFinite
  <1>2. PICK S \in C : \A U \in C : ~ (<<U, S>> \in StrictSubsetOrdering(D))
    BY <1>1, WFMin
  <1>3. ASSUME NEW U \in C, U \subseteq S PROVE U = S
    <2>1. <<U, S>> \in (SUBSET D) \X (SUBSET D)
      OBVIOUS
    <2> QED BY <1>2, <1>3, <2>1 DEF StrictSubsetOrdering
  <1> QED BY <1>3

\* A set of indices is finite.
LEMMA FiniteIndices ==
    ASSUME NEW T, Indices(T)
    PROVE  IsFiniteSet(T)
  <1>1. PICK n \in Nat : T \subseteq 1..n
    BY DEF Indices
  <1>2. IsFiniteSet(1..n)
    BY FS_Interval
  <1> QED BY <1>1, <1>2, FS_Subset

\* Two functions that iterate over the same indices, of sequences that agree
\* there, are equal.
LEMMA IteratesUnique ==
    ASSUME NEW b, NEW s, NEW t, NEW p, NEW T, Indices(T),
           \A i \in T : s[i] = t[i],
           NEW g, NEW h, Iterates(g, b, s, p, T), Iterates(h, b, t, p, T)
    PROVE  g = h
  <1> DEFINE C == {S \in SUBSET T : g[S] # h[S]}
  <1>1. C = {}
    <2> SUFFICES ASSUME C # {} PROVE FALSE
      OBVIOUS
    <2>1. PICK S \in C : \A U \in C : U \subseteq S => U = S
      <3>1. PICK D : D = T
        OBVIOUS
      <3>2. C \subseteq SUBSET D /\ IsFiniteSet(D)
        BY <3>1, FiniteIndices
      <3> HIDE DEF C
      <3> QED BY <3>2, MinimalSubset
    <2>2. S # {}
      BY <2>1 DEF Iterates
    <2>3. Max(S) \in S
      BY <2>1, <2>2, MaxIn, SomeIndices
    <2>4. S \ {Max(S)} \in SUBSET T /\ S \ {Max(S)} # S /\ S \ {Max(S)} \subseteq S
      BY <2>3
    <2>5. g[S \ {Max(S)}] = h[S \ {Max(S)}]
      BY <2>1, <2>4
    <2>6. /\ g[S] = op(g[S \ {Max(S)}], s[Max(S)], p)
          /\ h[S] = op(h[S \ {Max(S)}], t[Max(S)], p)
      BY <2>2 DEF Iterates
    <2>7. s[Max(S)] = t[Max(S)]
      BY <2>3
    <2> QED BY <2>5, <2>6, <2>7
  <1>2. \A S \in SUBSET T : g[S] = h[S]
    BY <1>1
  <1>3. g = [S \in SUBSET T |-> g[S]] /\ h = [S \in SUBSET T |-> h[S]]
    BY DEF Iterates
  <1> QED BY <1>2, <1>3

\* Functions that iterate over different indices agree on common ones.
LEMMA IteratesAgree ==
    ASSUME NEW b, NEW s, NEW t, NEW p, NEW T, Indices(T), NEW g, NEW f,
           NEW S \in SUBSET T, \A i \in S : s[i] = t[i],
           Iterates(g, b, s, p, T), Iterates(f, b, t, p, S)
    PROVE  g[S] = f[S]
  <1>1. Iterates(On(g, S), b, s, p, S)
    BY IteratesSubset
  <1>2. Indices(S)
    BY SomeIndices
  <1>3. On(g, S) = f
    BY <1>1, <1>2, IteratesUnique
  <1>4. On(g, S)[S] = g[S]
    BY DEF On
  <1> QED BY <1>3, <1>4

\* There is a function that iterates.
LEMMA IteratesExists ==
    ASSUME NEW b, NEW s, NEW p, NEW D, Indices(D)
    PROVE  Iterates(Iterator(b, s, p, D), b, s, p, D)
  <1> DEFINE C == {T \in SUBSET D : ~ \E g : Iterates(g, b, s, p, T)}
  <1>1. C = {}
    <2> SUFFICES ASSUME C # {} PROVE FALSE
      OBVIOUS
    <2>1. PICK T \in C : \A U \in C : U \subseteq T => U = T
      <3>1. C \subseteq SUBSET D /\ IsFiniteSet(D)
        BY FiniteIndices
      <3> HIDE DEF C
      <3> QED BY <3>1, MinimalSubset
    <2>2. ASSUME NEW U \in SUBSET T, U # T PROVE Iterates(Iterator(b, s, p, U), b, s, p, U)
      BY <2>1, <2>2 DEF Iterator
    <2> DEFINE H(U) == Iterator(b, s, p, U)[U]
               g == [S \in SUBSET T |->
                       IF S = {} THEN b ELSE op(H(S \ {Max(S)}), s[Max(S)], p)]
    <2>3. ASSUME NEW S \in SUBSET T, S # {} PROVE g[S \ {Max(S)}] = H(S \ {Max(S)})
      <3> DEFINE U == S \ {Max(S)}
      <3>1. U \in SUBSET T /\ U # T
        BY <2>1, <2>3, MaxIn, SomeIndices
      <3>2. Iterates(Iterator(b, s, p, U), b, s, p, U)
        BY <2>2, <3>1
      <3>3. H(U) = IF U = {} THEN b
                   ELSE op(Iterator(b, s, p, U)[U \ {Max(U)}], s[Max(U)], p)
        BY <3>2 DEF Iterates
      <3>4. U \ {Max(U)} \in SUBSET U /\ U \ {Max(U)} # T /\ Indices(U)
        BY <2>1, <3>1, SomeIndices
      <3>5. Iterator(b, s, p, U)[U \ {Max(U)}] = H(U \ {Max(U)})
        <4> HIDE DEF U
        <4>1. PICK V : V = U \ {Max(U)}
          OBVIOUS
        <4>2. V \in SUBSET U /\ V \in SUBSET T /\ V # T
          BY <3>1, <3>4, <4>1
        <4>3. Iterates(Iterator(b, s, p, V), b, s, p, V)
          BY <2>2, <4>2
        <4>4. PICK f : f = Iterator(b, s, p, U)
          OBVIOUS
        <4>5. PICK e : e = Iterator(b, s, p, V)
          OBVIOUS
        <4>6. Iterates(f, b, s, p, U) /\ Iterates(e, b, s, p, V) /\ Indices(U)
          BY <3>2, <3>4, <4>3, <4>4, <4>5
        <4>7. f[V] = e[V]
          BY <4>2, <4>6, IteratesAgree
        <4> QED BY <4>1, <4>4, <4>5, <4>7
      <3>6. g[U] = IF U = {} THEN b ELSE op(H(U \ {Max(U)}), s[Max(U)], p)
        BY <3>1
      <3> HIDE DEF H, g, U
      <3>7. g[U] = H(U)
        BY <3>3, <3>5, <3>6
      <3> QED BY <3>7 DEF U
    <2>4. \A S \in SUBSET T : g[S] = IF S = {} THEN b ELSE op(g[S \ {Max(S)}], s[Max(S)], p)
      BY <2>3
    <2>5. g = [S \in SUBSET T |-> g[S]]
      OBVIOUS
    <2> HIDE DEF g
    <2>6. Iterates(g, b, s, p, T)
      BY <2>4, <2>5 DEF Iterates
    <2> QED BY <2>1, <2>6
  <1>2. \E g : Iterates(g, b, s, p, D)
    BY <1>1
  <1> QED BY <1>2 DEF Iterator

-----------------------------------------------------------------------------
\* The fold of the empty sequence.
LEMMA FoldEmpty == ASSUME NEW b, NEW p PROVE Folded(b, <<>>, p) = b
  <1>1. PICK D : D = DOMAIN <<>>
    OBVIOUS
  <1>2. D = {} /\ Indices(D)
    BY <1>1, SomeIndices
  <1>3. Iterates(Iterator(b, <<>>, p, D), b, <<>>, p, D)
    BY <1>2, IteratesExists
  <1>4. Iterator(b, <<>>, p, D)[D] = b
    BY <1>2, <1>3 DEF Iterates
  <1> QED BY <1>1, <1>4, FoldIsIterator

\* One element more is one application more.
LEMMA FoldAppend ==
    ASSUME NEW b, NEW X, NEW s \in Seq(X), NEW x \in X, NEW p
    PROVE  Folded(b, Append(s, x), p) = op(Folded(b, s, p), x, p)
  <1>1. PICK n \in Nat : n = Len(s)
    OBVIOUS
  <1>2. PICK t : t = Append(s, x)
    OBVIOUS
  <1>3. /\ DOMAIN s = 1..n /\ DOMAIN t = 1..(n + 1)
        /\ t[n + 1] = x /\ \A i \in 1..n : s[i] = t[i]
    BY <1>1, <1>2
  <1>4. PICK T : T = 1..(n + 1)
    OBVIOUS
  <1>5. Max(T) = n + 1 /\ T \ {Max(T)} = 1..n /\ T # {} /\ 1..n \in SUBSET T
    <2>1. PICK m \in Nat : m = n + 1
      OBVIOUS
    <2>2. Max(1..m) = m /\ (1..m) \ {m} = 1..(m - 1)
      BY <2>1, MaxOfFirst
    <2> QED BY <1>4, <2>1, <2>2
  <1>6. Iterates(Iterator(b, t, p, T), b, t, p, T)
    <2>1. Indices(T)
      BY <1>4, SomeIndices
    <2> QED BY <2>1, IteratesExists
  <1>7. Iterator(b, t, p, T)[T] = op(Iterator(b, t, p, T)[1..n], x, p)
    BY <1>3, <1>5, <1>6 DEF Iterates
  <1>8. Iterates(Iterator(b, s, p, 1..n), b, s, p, 1..n)
    BY IteratesExists, SomeIndices
  <1>9. Iterator(b, t, p, T)[1..n] = Iterator(b, s, p, 1..n)[1..n]
    <2>1. PICK S : S = 1..n
      OBVIOUS
    <2>2. S \in SUBSET T /\ Indices(T) /\ \A i \in S : t[i] = s[i]
      BY <1>3, <1>4, <1>5, <2>1, SomeIndices
    <2>4. PICK f : f = Iterator(b, t, p, T)
      OBVIOUS
    <2>5. PICK e : e = Iterator(b, s, p, S)
      OBVIOUS
    <2>6. Iterates(f, b, t, p, T) /\ Iterates(e, b, s, p, S)
      BY <1>6, <1>8, <2>1, <2>4, <2>5
    <2>7. f[S] = e[S]
      BY <2>2, <2>6, IteratesAgree
    <2> QED BY <2>1, <2>4, <2>5, <2>7
  <1> QED BY <1>2, <1>3, <1>4, <1>7, <1>9, FoldIsIterator

\* A set that every application stays in holds the fold.
LEMMA FoldIn ==
    ASSUME NEW A, NEW X, NEW s \in Seq(X), NEW b \in A, NEW p,
           \A a \in A, i \in 1..Len(s) : op(a, s[i], p) \in A
    PROVE  Folded(b, s, p) \in A
  <1> DEFINE T == {k \in 0..Len(s) : Folded(b, SubSeq(s, 1, k), p) \in A}
  <1>1. Len(s) \in Nat /\ SubSeq(s, 1, Len(s)) = s
    OBVIOUS
  <1>2. 0 \in T
    <2>1. SubSeq(s, 1, 0) = <<>>
      OBVIOUS
    <2>2. Folded(b, SubSeq(s, 1, 0), p) \in A
      BY <2>1, FoldEmpty
    <2> QED BY <1>1, <2>2
  <1>3. ASSUME NEW k \in 0..(Len(s) - 1), k \in T PROVE k + 1 \in T
    <2>0. k \in 0..Len(s) /\ k + 1 \in 1..Len(s)
      BY <1>1
    <2>1. PICK r \in Seq(X), x \in X : r = SubSeq(s, 1, k) /\ x = s[k + 1]
      <3>1. SubSeq(s, 1, k) \in Seq(X)
        BY <2>0
      <3>2. s[k + 1] \in X
        BY <2>0
      <3> QED BY <3>1, <3>2
    <2>2. SubSeq(s, 1, k + 1) = Append(r, x)
      BY <2>0, <2>1
    <2>3. Folded(b, Append(r, x), p) = op(Folded(b, r, p), x, p)
      BY FoldAppend
    <2>4. k + 1 \in 1..Len(s) /\ Folded(b, r, p) \in A
      BY <1>1, <1>3, <2>1
    <2>5. op(Folded(b, r, p), x, p) \in A
      BY <2>1, <2>4
    <2>6. Folded(b, SubSeq(s, 1, k + 1), p) \in A
      BY <2>2, <2>3, <2>5
    <2> QED BY <2>0, <2>6
  <1>4. Len(s) \in T
    <2> HIDE DEF T
    <2> QED BY <1>1, <1>2, <1>3, UpTo
  <1> QED BY <1>1, <1>4
==============================================================================
