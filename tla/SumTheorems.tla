----------------------------- MODULE SumTheorems -----------------------------
(***************************************************************************)
(* Sums over finite sets: the bytes of the files of a FileStore, the        *)
(* requests of a span of RateLimiter.  The specifications write them with   *)
(* the folds of the community modules, which are recursive functions on the *)
(* subsets of a set.  What is shown here by recursion is shown by taking a   *)
(* minimal set for which it fails: proper subsets of a finite set are well   *)
(* founded.                                                                  *)
(***************************************************************************)
EXTENDS Integers, FiniteSetsExt, FiniteSetTheorems, WellFoundedInduction, TLAPS

\* The sum of g over S.
Total(g, S) == MapThenSumSet(LAMBDA x : g[x], S)

Some(T) == CHOOSE x \in T : TRUE
Rest(T) == T \ {Some(T)}

\* sum is the recursive function that the fold over S is defined by.
IsSum(sum, g, S) ==
  sum = [T \in SUBSET S |-> IF T = {} THEN 0 ELSE g[Some(T)] + sum[Rest(T)]]

\* Total is the value of that function at S.
LEMMA TotalIs ==
  ASSUME NEW g, NEW S
  PROVE  Total(g, S) = (CHOOSE sum : IsSum(sum, g, S))[S]
BY DEF Total, IsSum, Some, Rest, MapThenSumSet, MapThenFoldSet

\* A non-empty family of subsets of a finite set has a minimal member: what
\* proofs by induction over finite sets come down to.
LEMMA MinimalSet ==
  ASSUME NEW S, IsFiniteSet(S), NEW F, F \subseteq SUBSET S, F # {}
  PROVE  \E T \in F : \A U \in F : U \subseteq T => U = T
<1>1. \E T \in F : \A U \in F : ~(<<U, T>> \in StrictSubsetOrdering(S))
  BY WFMin, FS_StrictSubsetOrderingWellFounded, FS_FiniteSubsetsOfFinite
<1>2. QED
  BY <1>1 DEF StrictSubsetOrdering

\* What is left of a set without one member is smaller.
LEMMA RestSmaller ==
  ASSUME NEW T, T # {}
  PROVE  /\ Some(T) \in T
         /\ Rest(T) \subseteq T /\ Rest(T) # T
BY DEF Some, Rest

\* Two sums agree where both are defined.
LEMMA SumsAgree ==
  ASSUME NEW g, NEW S, NEW R, NEW f, NEW h, IsSum(f, g, S), IsSum(h, g, R),
         NEW T, IsFiniteSet(T), T \subseteq S, T \subseteq R
  PROVE  f[T] = h[T]
<1> DEFINE F == {U \in SUBSET T : f[U] # h[U]}
<1> SUFFICES ASSUME F # {} PROVE FALSE
  OBVIOUS
<1>1. PICK U \in F : \A V \in F : V \subseteq U => V = U
  <2> HIDE DEF F
  <2>1. F \subseteq SUBSET T
    BY DEF F
  <2>2. QED
    BY <2>1, MinimalSet
<1>2. U # {}
  BY <1>1 DEF IsSum
<1>3. f[Rest(U)] = h[Rest(U)]
  BY <1>1, <1>2, RestSmaller
<1>4. f[U] = g[Some(U)] + f[Rest(U)] /\ h[U] = g[Some(U)] + h[Rest(U)]
  BY <1>2 DEF IsSum
<1>5. QED
  BY <1>1, <1>3, <1>4

\* The recursion of the fold defines a function.
LEMMA SumExists ==
  ASSUME NEW g, NEW S, IsFiniteSet(S)
  PROVE  \E sum : IsSum(sum, g, S)
<1> DEFINE F == {T \in SUBSET S : ~ \E sum : IsSum(sum, g, T)}
<1> SUFFICES ASSUME F # {} PROVE FALSE
  OBVIOUS
<1>1. PICK T \in F : \A U \in F : U \subseteq T => U = T
  <2> HIDE DEF F
  <2>1. F \subseteq SUBSET S
    BY DEF F
  <2>2. QED
    BY <2>1, MinimalSet
<1> DEFINE sumOf(U) == CHOOSE sum : IsSum(sum, g, U)
           total == [U \in SUBSET T |->
                       IF U = {} THEN 0 ELSE g[Some(U)] + sumOf(Rest(U))[Rest(U)]]
<1>2. ASSUME NEW U, U \subseteq T, U # T PROVE IsSum(sumOf(U), g, U) /\ IsFiniteSet(U)
  <2>1. \E sum : IsSum(sum, g, U)
    BY <1>1, <1>2
  <2>2. IsFiniteSet(U)
    BY <1>1, <1>2, FS_Subset
  <2>3. QED
    BY <2>1, <2>2
<1>3. ASSUME NEW U \in SUBSET T, U # {} PROVE total[Rest(U)] = sumOf(Rest(U))[Rest(U)]
  <2> DEFINE W == Rest(U)
  <2>1. W \subseteq T /\ W # T /\ W \in SUBSET T
    BY <1>3, RestSmaller
  <2>2. IsSum(sumOf(W), g, W)
    BY <2>1, <1>2
  <2>3. CASE W = {}
    BY <2>1, <2>2, <2>3 DEF IsSum
  <2>4. CASE W # {}
    <3>1. Rest(W) \subseteq W /\ Rest(W) \subseteq T /\ Rest(W) # T
      BY <2>1, <2>4, RestSmaller
    <3>2. IsSum(sumOf(Rest(W)), g, Rest(W)) /\ IsFiniteSet(Rest(W))
      BY <3>1, <1>2
    <3>3. sumOf(W)[Rest(W)] = sumOf(Rest(W))[Rest(W)]
      <4> HIDE DEF sumOf, W
      <4> QED BY <2>2, <3>1, <3>2, SumsAgree
    <3>4. sumOf(W)[W] = g[Some(W)] + sumOf(W)[Rest(W)]
      BY <2>2, <2>4 DEF IsSum
    <3>5. total[W] = g[Some(W)] + sumOf(Rest(W))[Rest(W)]
      BY <2>1, <2>4
    <3>6. QED
      BY <3>3, <3>4, <3>5
  <2>5. QED
    BY <2>3, <2>4
<1>4. IsSum(total, g, T)
  <2>1. \A U \in SUBSET T : U # {} => total[U] = g[Some(U)] + total[Rest(U)]
    BY <1>3
  <2>2. total[{}] = 0
    OBVIOUS
  <2>3. total = [U \in SUBSET T |-> IF U = {} THEN 0 ELSE g[Some(U)] + total[Rest(U)]]
    <3>1. \A U \in SUBSET T : U # {} => g[Some(U)] + total[Rest(U)] = g[Some(U)] + sumOf(Rest(U))[Rest(U)]
      BY <1>3
    <3>2. QED BY <3>1
  <2>4. QED
    BY <2>3 DEF IsSum
<1>5. QED
  BY <1>1, <1>4

\* The recursion of a sum, with the members taken in the order of CHOOSE.
LEMMA TotalStep ==
  ASSUME NEW g, NEW S, IsFiniteSet(S)
  PROVE  Total(g, S) = IF S = {} THEN 0 ELSE g[Some(S)] + Total(g, Rest(S))
<1> DEFINE sumOf(T) == CHOOSE sum : IsSum(sum, g, T)
<1>1. IsSum(sumOf(S), g, S)
  BY SumExists
<1>2. CASE S = {}
  BY <1>1, <1>2, TotalIs DEF IsSum
<1>3. CASE S # {}
  <2>1. Rest(S) \subseteq S /\ IsFiniteSet(Rest(S))
    BY <1>3, RestSmaller, FS_Subset
  <2>2. IsSum(sumOf(Rest(S)), g, Rest(S))
    BY <2>1, SumExists
  <2>3. sumOf(S)[Rest(S)] = sumOf(Rest(S))[Rest(S)]
    <3> HIDE DEF sumOf
    <3> QED BY <1>1, <2>1, <2>2, SumsAgree
  <2>4. sumOf(S)[S] = g[Some(S)] + sumOf(S)[Rest(S)]
    BY <1>1, <1>3 DEF IsSum
  <2>5. QED
    BY <1>3, <2>3, <2>4, TotalIs
<1>4. QED
  BY <1>2, <1>3

\* The sum of nothing.
LEMMA TotalEmpty == \A g : Total(g, {}) = 0
BY TotalStep, FS_EmptySet

\* A sum of natural numbers is one.
LEMMA TotalType ==
  ASSUME NEW g, NEW S, IsFiniteSet(S), \A x \in S : g[x] \in Nat
  PROVE  Total(g, S) \in Nat
<1> DEFINE F == {T \in SUBSET S : Total(g, T) \notin Nat}
<1> SUFFICES ASSUME F # {} PROVE FALSE
  OBVIOUS
<1>1. PICK T \in F : \A U \in F : U \subseteq T => U = T
  <2> HIDE DEF F
  <2>1. F \subseteq SUBSET S
    BY DEF F
  <2>2. QED
    BY <2>1, MinimalSet
<1>2. IsFiniteSet(T)
  BY FS_Subset
<1>3. T # {}
  <2>1. Total(g, T) \notin Nat
    OBVIOUS
  <2>2. Total(g, {}) \in Nat
    BY TotalEmpty
  <2>3. QED
    BY <2>1, <2>2
<1>4. Some(T) \in T /\ Rest(T) \subseteq T /\ Rest(T) # T
  BY <1>3, RestSmaller
<1>5. Total(g, Rest(T)) \in Nat
  BY <1>1, <1>4
<1>6. Total(g, T) = g[Some(T)] + Total(g, Rest(T))
  BY <1>2, <1>3, TotalStep
<1>7. QED
  BY <1>4, <1>5, <1>6

\* Any member may be taken out first.
LEMMA TotalRemove ==
  ASSUME NEW g, NEW S, IsFiniteSet(S), \A x \in S : g[x] \in Nat, NEW y \in S
  PROVE  Total(g, S) = g[y] + Total(g, S \ {y})
<1> DEFINE F == {T \in SUBSET S : \E z \in T : Total(g, T) # g[z] + Total(g, T \ {z})}
<1> SUFFICES ASSUME F # {} PROVE FALSE
  OBVIOUS
<1>1. PICK T \in F : \A U \in F : U \subseteq T => U = T
  <2> HIDE DEF F
  <2>1. F \subseteq SUBSET S
    BY DEF F
  <2>2. QED
    BY <2>1, MinimalSet
<1>2. PICK z \in T : Total(g, T) # g[z] + Total(g, T \ {z})
  OBVIOUS
<1>3. Some(T) \in T /\ Rest(T) = T \ {Some(T)} /\ Rest(T) # T
  BY RestSmaller DEF Rest
<1>4. \A U \in SUBSET T : IsFiniteSet(U)
  BY FS_Subset
<1>5. Total(g, T) = g[Some(T)] + Total(g, T \ {Some(T)})
  BY <1>3, <1>4, TotalStep
<1>6. z # Some(T)
  BY <1>2, <1>5
<1> DEFINE U == T \ {z}  V == T \ {Some(T)}  W == T \ {z, Some(T)}
<1>7. Total(g, V) = g[z] + Total(g, W)
  <2>1. V \subseteq T /\ V # T /\ z \in V /\ V \ {z} = W
    BY <1>3, <1>6
  <2>2. V \notin F
    BY <1>1, <2>1
  <2>3. QED
    BY <2>1, <2>2
<1>8. Total(g, U) = g[Some(T)] + Total(g, W)
  <2>1. U \subseteq T /\ U # T /\ Some(T) \in U /\ U \ {Some(T)} = W
    BY <1>3, <1>6
  <2>2. U \notin F
    BY <1>1, <2>1
  <2>3. QED
    BY <2>1, <2>2
<1>9. g[z] \in Nat /\ g[Some(T)] \in Nat /\ Total(g, W) \in Nat
  <2>1. IsFiniteSet(W) /\ \A x \in W : g[x] \in Nat
    BY <1>4
  <2>2. QED
    BY <1>3, <2>1, TotalType
<1>10. QED
  BY <1>2, <1>5, <1>7, <1>8, <1>9

\* A member more.
LEMMA TotalAdd ==
  ASSUME NEW g, NEW S, IsFiniteSet(S), NEW y, y \notin S,
         \A x \in S \cup {y} : g[x] \in Nat
  PROVE  Total(g, S \cup {y}) = g[y] + Total(g, S)
<1>1. IsFiniteSet(S \cup {y}) /\ (S \cup {y}) \ {y} = S
  BY FS_AddElement
<1>2. QED
  BY <1>1, TotalRemove

\* A sum depends on the function at the members alone.
LEMMA TotalSame ==
  ASSUME NEW g, NEW h, NEW S, IsFiniteSet(S), \A x \in S : g[x] = h[x]
  PROVE  Total(g, S) = Total(h, S)
<1> DEFINE F == {T \in SUBSET S : Total(g, T) # Total(h, T)}
<1> SUFFICES ASSUME F # {} PROVE FALSE
  OBVIOUS
<1>1. PICK T \in F : \A U \in F : U \subseteq T => U = T
  <2> HIDE DEF F
  <2>1. F \subseteq SUBSET S
    BY DEF F
  <2>2. QED
    BY <2>1, MinimalSet
<1>2. IsFiniteSet(T)
  BY FS_Subset
<1>3. T # {}
  BY <1>1, <1>2, TotalStep
<1>4. Some(T) \in T /\ Rest(T) \subseteq T /\ Rest(T) # T
  BY <1>3, RestSmaller
<1>5. Total(g, Rest(T)) = Total(h, Rest(T))
  BY <1>1, <1>4
<1>6. QED
  BY <1>1, <1>2, <1>3, <1>4, <1>5, TotalStep

\* Disjoint sets, and with it subsets.
LEMMA TotalUnion ==
  ASSUME NEW g, NEW S, IsFiniteSet(S), NEW R, IsFiniteSet(R), S \cap R = {},
         \A x \in S \cup R : g[x] \in Nat
  PROVE  Total(g, S \cup R) = Total(g, S) + Total(g, R)
<1> DEFINE F == {T \in SUBSET S : Total(g, T \cup R) # Total(g, T) + Total(g, R)}
<1> SUFFICES ASSUME F # {} PROVE FALSE
  OBVIOUS
<1>1. PICK T \in F : \A U \in F : U \subseteq T => U = T
  <2> HIDE DEF F
  <2>1. F \subseteq SUBSET S
    BY DEF F
  <2>2. QED
    BY <2>1, MinimalSet
<1>2. IsFiniteSet(T) /\ IsFiniteSet(T \cup R)
  BY FS_Subset, FS_Union
<1>3. Total(g, R) \in Nat
  BY TotalType
<1>4. PICK y : y \in T
  <2>1. Total(g, {} \cup R) = Total(g, {}) + Total(g, R)
    <3>1. {} \cup R = R
      OBVIOUS
    <3>2. QED
      BY <1>3, <3>1, TotalEmpty
  <2>2. T # {}
    BY <2>1
  <2>3. QED
    BY <2>2
<1> DEFINE U == T \ {y}
<1>5. Total(g, U \cup R) = Total(g, U) + Total(g, R)
  BY <1>1, <1>4
<1>6. Total(g, T) = g[y] + Total(g, U)
  BY <1>2, <1>4, TotalRemove
<1>7. Total(g, T \cup R) = g[y] + Total(g, U \cup R)
  <2>1. y \in T \cup R /\ (T \cup R) \ {y} = U \cup R
    BY <1>4
  <2>2. \A x \in T \cup R : g[x] \in Nat
    OBVIOUS
  <2>3. QED
    BY <1>2, <2>1, <2>2, TotalRemove
<1>8. Total(g, U) \in Nat /\ g[y] \in Nat
  <2>1. IsFiniteSet(U) /\ \A x \in U : g[x] \in Nat
    BY <1>2, FS_RemoveElement
  <2>2. QED
    BY <1>4, <2>1, TotalType
<1>9. QED
  BY <1>1, <1>3, <1>5, <1>6, <1>7, <1>8

\* A sum over fewer members is not greater.
LEMMA TotalSubset ==
  ASSUME NEW g, NEW S, IsFiniteSet(S), \A x \in S : g[x] \in Nat,
         NEW T \in SUBSET S
  PROVE  /\ Total(g, T) \in Nat
         /\ Total(g, T) <= Total(g, S)
<1>1. IsFiniteSet(T) /\ IsFiniteSet(S \ T) /\ T \cup (S \ T) = S
  BY FS_Subset, FS_Difference
<1>2. Total(g, T) \in Nat /\ Total(g, S \ T) \in Nat
  BY <1>1, TotalType
<1>3. Total(g, S) = Total(g, T) + Total(g, S \ T)
  BY <1>1, TotalUnion
<1>4. QED
  BY <1>2, <1>3

\* A sum of nothing but zeros.
LEMMA TotalZero ==
  ASSUME NEW g, NEW S, IsFiniteSet(S), \A x \in S : g[x] = 0
  PROVE  Total(g, S) = 0
<1> DEFINE F == {T \in SUBSET S : Total(g, T) # 0}
<1> SUFFICES ASSUME F # {} PROVE FALSE
  OBVIOUS
<1>1. PICK T \in F : \A U \in F : U \subseteq T => U = T
  <2> HIDE DEF F
  <2>1. F \subseteq SUBSET S
    BY DEF F
  <2>2. QED
    BY <2>1, MinimalSet
<1>2. IsFiniteSet(T)
  BY FS_Subset
<1>3. T # {}
  <2>1. Total(g, T) # 0
    OBVIOUS
  <2>2. QED
    BY <2>1, TotalEmpty
<1>4. Some(T) \in T /\ Rest(T) \subseteq T /\ Rest(T) # T
  BY <1>3, RestSmaller
<1>5. Total(g, Rest(T)) = 0
  BY <1>1, <1>4
<1>6. Total(g, T) = g[Some(T)] + Total(g, Rest(T))
  BY <1>2, <1>3, TotalStep
<1>7. QED
  BY <1>4, <1>5, <1>6

\* A function that differs from another at one member.
LEMMA TotalUpdate ==
  ASSUME NEW g, NEW h, NEW S, IsFiniteSet(S), NEW y \in S,
         \A x \in S : g[x] \in Nat /\ h[x] \in Nat,
         \A x \in S \ {y} : h[x] = g[x]
  PROVE  /\ Total(g, S) = g[y] + Total(g, S \ {y})
         /\ Total(h, S) = h[y] + Total(g, S \ {y})
         /\ Total(g, S \ {y}) \in Nat
<1>1. IsFiniteSet(S \ {y})
  BY FS_RemoveElement
<1>2. Total(h, S \ {y}) = Total(g, S \ {y}) /\ Total(g, S \ {y}) \in Nat
  BY <1>1, TotalSame, TotalType
<1>3. Total(g, S) = g[y] + Total(g, S \ {y}) /\ Total(h, S) = h[y] + Total(h, S \ {y})
  BY TotalRemove
<1>4. QED
  BY <1>2, <1>3
=============================================================================
