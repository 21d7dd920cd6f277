-------------------------------- MODULE Sums --------------------------------
(***************************************************************************)
(* Laws of SumFunctionOnSet, the sum of f[x] over the x of a finite set:   *)
(* what the proofs about stock and counters need of it. The fold behind it *)
(* is a recursive function over the subsets of S; that there is one, and   *)
(* that the order of summation does not matter, is shown first.            *)
(***************************************************************************)
EXTENDS Integers, Functions, FiniteSetTheorems, TLAPS

Pick(S) == CHOOSE x \in S : TRUE
IsSum(g, f, S) ==
    g = [s \in SUBSET S |-> IF s = {} THEN 0 ELSE f[Pick(s)] + g[s \ {Pick(s)}]]
IntOn(f, S) == \A x \in S : f[x] \in Int

\* The definitions of the community modules, spelled out.
LEMMA SumIsFold ==
    ASSUME NEW f, NEW S
    PROVE  SumFunctionOnSet(f, S) = (CHOOSE g : IsSum(g, f, S))[S]
BY DEF SumFunctionOnSet, FoldFunctionOnSet, MapThenFoldSet, IsSum, Pick

\* Induction over the subsets of a finite set, for a set of subsets.
LEMMA SubsetInduction ==
    ASSUME NEW S, IsFiniteSet(S), NEW G,
           \A T \in SUBSET S : (\A x \in T : T \ {x} \in G) => T \in G
    PROVE  SUBSET S \subseteq G
<1> DEFINE rest == (SUBSET S) \ G
           less == StrictSubsetOrdering(S)
<1> SUFFICES ASSUME rest # {} PROVE FALSE
  OBVIOUS
<1>1. IsWellFoundedOn(less, SUBSET S)
  <2>1. FiniteSubsetsOf(S) = SUBSET S
    BY FS_FiniteSubsetsOfFinite
  <2>2. IsWellFoundedOn(StrictSubsetOrdering(S), FiniteSubsetsOf(S))
    BY FS_StrictSubsetOrderingWellFounded
  <2> QED
    BY <2>1, <2>2
<1>2. rest \subseteq SUBSET S
  OBVIOUS
<1> HIDE DEF less
<1>3. PICK T \in rest : \A U \in rest : ~(<<U, T>> \in less)
  BY <1>1, <1>2, WFMin
<1>4. \A x \in T : <<T \ {x}, T>> \in less
  BY DEF less, StrictSubsetOrdering
<1> QED
  BY <1>3, <1>4

\* The fold exists: if it does up to the size of T without an element, then it does
\* up to the size of T.
LEMMA SumExists ==
    ASSUME NEW S, IsFiniteSet(S), NEW f, IntOn(f, S)
    PROVE  \E g \in [SUBSET S -> Int] : IsSum(g, f, S)
<1> DEFINE Value(g, s) == IF s = {} THEN 0 ELSE f[Pick(s)] + g[s \ {Pick(s)}]
           Upto(g, n) == \A s \in SUBSET S : Cardinality(s) <= n => g[s] = Value(g, s)
           G == {T \in SUBSET S : \E g \in [SUBSET S -> Int] : Upto(g, Cardinality(T))}
<1>1. \A s \in SUBSET S : s # {} => Pick(s) \in s
  BY DEF Pick
<1>2. \A s \in SUBSET S : /\ IsFiniteSet(s) /\ Cardinality(s) \in Nat
                          /\ \A x \in s : Cardinality(s \ {x}) = Cardinality(s) - 1
                          /\ Cardinality(s) = 0 <=> s = {}
  BY FS_Subset, FS_CardinalityType, FS_RemoveElement, FS_EmptySet
<1>3. ASSUME NEW T \in SUBSET S, \A x \in T : T \ {x} \in G
      PROVE  T \in G
  <2>1. CASE T = {}
    <3> DEFINE g == [s \in SUBSET S |-> 0]
    <3>1. g \in [SUBSET S -> Int] /\ Upto(g, Cardinality(T))
      BY <1>2, <2>1
    <3> QED
      BY <3>1
  <2>2. CASE T # {}
    <3>1. PICK x \in T : T \ {x} \in G
      BY <1>3, <2>2
    <3>2. PICK g \in [SUBSET S -> Int] : Upto(g, Cardinality(T) - 1)
      BY <1>2, <3>1
    <3> DEFINE h == [s \in SUBSET S |-> Value(g, s)]
    <3>3. ASSUME NEW s \in SUBSET S
          PROVE  Value(g, s) \in Int
      BY <1>1, <3>3 DEF IntOn
    <3>4. h \in [SUBSET S -> Int]
      BY <3>3
    <3>5. ASSUME NEW s \in SUBSET S, Cardinality(s) <= Cardinality(T)
          PROVE  h[s] = Value(h, s)
      <4>1. CASE s = {}
        BY <4>1
      <4>2. CASE s # {}
        <5>1. /\ s \ {Pick(s)} \in SUBSET S
              /\ Cardinality(s \ {Pick(s)}) <= Cardinality(T) - 1
          BY <1>1, <1>2, <3>5, <4>2
        <5>2. g[s \ {Pick(s)}] = h[s \ {Pick(s)}]
          BY <3>2, <5>1
        <5> QED
          BY <4>2, <5>2
      <4> QED
        BY <4>1, <4>2
    <3> QED
      BY <3>4, <3>5
  <2> QED
    BY <2>1, <2>2
<1>4. S \in G
  <2> HIDE DEF G
  <2> QED
    BY <1>3, SubsetInduction
<1>5. PICK g \in [SUBSET S -> Int] : Upto(g, Cardinality(S))
  BY <1>4
<1>6. \A s \in SUBSET S : g[s] = Value(g, s)
  BY <1>5, FS_Subset, FS_CardinalityType
<1>7. g = [s \in SUBSET S |-> Value(g, s)]
  BY <1>6
<1> QED
  BY <1>7 DEF IsSum

\* Two folds agree where both are defined.
LEMMA SumUnique ==
    ASSUME NEW S, IsFiniteSet(S), NEW f, NEW g, IntOn(f, S),
           NEW h1, IsSum(h1, f, S), NEW U, S \subseteq U, NEW h2, IsSum(h2, g, U),
           \A x \in S : f[x] = g[x]
    PROVE  h1[S] = h2[S]
<1> DEFINE G == {T \in SUBSET S : h1[T] = h2[T]}
<1>1. ASSUME NEW T \in SUBSET S, \A x \in T : T \ {x} \in G
      PROVE  T \in G
  <2>1. T = {} \/ Pick(T) \in T
    BY DEF Pick
  <2>2. h1[T] = IF T = {} THEN 0 ELSE f[Pick(T)] + h1[T \ {Pick(T)}]
    BY DEF IsSum
  <2>3. h2[T] = IF T = {} THEN 0 ELSE g[Pick(T)] + h2[T \ {Pick(T)}]
    BY DEF IsSum
  <2> QED
    BY <1>1, <2>1, <2>2, <2>3
<1>2. S \in G
  <2> HIDE DEF G
  <2> QED
    BY <1>1, SubsetInduction
<1> QED
  BY <1>2

\* The equation of the sum, the element to start with chosen by the fold.
LEMMA SumUnfold ==
    ASSUME NEW S, IsFiniteSet(S), NEW f, IntOn(f, S)
    PROVE  /\ SumFunctionOnSet(f, S) \in Int
           /\ S = {} => SumFunctionOnSet(f, S) = 0
           /\ S # {} => /\ Pick(S) \in S
                        /\ SumFunctionOnSet(f, S)
                             = f[Pick(S)] + SumFunctionOnSet(f, S \ {Pick(S)})
<1> DEFINE fold(T) == CHOOSE g : IsSum(g, f, T)
           R == S \ {Pick(S)}
<1>1. \E g \in [SUBSET S -> Int] : IsSum(g, f, S)
  BY SumExists
<1>2. IsSum(fold(S), f, S)
  BY <1>1
<1>3. fold(S)[S] = IF S = {} THEN 0 ELSE f[Pick(S)] + fold(S)[R]
  BY <1>2 DEF IsSum
<1>4. IsFiniteSet(R) /\ IntOn(f, R) /\ R \subseteq S
  BY FS_Subset DEF IntOn
<1>5. IsSum(fold(R), f, R)
  <2>1. \E g \in [SUBSET R -> Int] : IsSum(g, f, R)
    BY <1>4, SumExists
  <2> QED
    BY <2>1
<1>6. fold(R)[R] = fold(S)[R]
  <2> HIDE DEF R, fold
  <2> QED
    BY <1>2, <1>4, <1>5, SumUnique
<1>7. fold(S)[S] \in Int
  <2>1. PICK g \in [SUBSET S -> Int] : IsSum(g, f, S)
    BY <1>1
  <2>2. g[S] = fold(S)[S]
    <3> HIDE DEF fold
    <3> QED
      BY <1>2, <2>1, SumUnique
  <2> QED
    BY <2>1, <2>2
<1>8. SumFunctionOnSet(f, S) = fold(S)[S] /\ SumFunctionOnSet(f, R) = fold(R)[R]
  BY SumIsFold
<1> HIDE DEF fold
<1> QED
  BY <1>3, <1>6, <1>7, <1>8 DEF Pick

-----------------------------------------------------------------------------
(* Laws of sums over a part of the domain.                                 *)

\* Any element may come first.
LEMMA SumRemove ==
    ASSUME NEW S, IsFiniteSet(S), NEW f, IntOn(f, S), NEW x \in S
    PROVE  SumFunctionOnSet(f, S) = f[x] + SumFunctionOnSet(f, S \ {x})
<1> DEFINE G == {T \in SUBSET S : \A y \in T :
                    SumFunctionOnSet(f, T) = f[y] + SumFunctionOnSet(f, T \ {y})}
<1>1. \A T \in SUBSET S : IsFiniteSet(T) /\ IntOn(f, T)
  BY FS_Subset DEF IntOn
<1>2. ASSUME NEW T \in SUBSET S, \A y \in T : T \ {y} \in G
      PROVE  T \in G
  <2> SUFFICES ASSUME NEW y \in T
               PROVE  SumFunctionOnSet(f, T) = f[y] + SumFunctionOnSet(f, T \ {y})
    OBVIOUS
  <2> DEFINE z == Pick(T)
  <2>1. z \in T /\ SumFunctionOnSet(f, T) = f[z] + SumFunctionOnSet(f, T \ {z})
    BY <1>1, SumUnfold
  <2> HIDE DEF z
  <2>2. CASE y # z
    <3> DEFINE R == (T \ {z}) \ {y}
    <3>1. y \in T \ {z} /\ z \in T \ {y} /\ (T \ {y}) \ {z} = R
      BY <2>1, <2>2
    <3>2. /\ SumFunctionOnSet(f, T \ {z}) = f[y] + SumFunctionOnSet(f, R)
          /\ SumFunctionOnSet(f, T \ {y}) = f[z] + SumFunctionOnSet(f, R)
      BY <1>2, <2>1, <3>1
    <3>3. SumFunctionOnSet(f, R) \in Int /\ f[y] \in Int /\ f[z] \in Int
      BY <1>1, <2>1, SumUnfold DEF IntOn
    <3> HIDE DEF R
    <3> QED
      BY <2>1, <3>1, <3>2, <3>3
  <2> QED
    BY <2>1, <2>2
<1>3. S \in G
  <2> HIDE DEF G
  <2> QED
    BY <1>2, SubsetInduction
<1> QED
  BY <1>3

\* Sums of the same numbers are the same.
LEMMA SumSame ==
    ASSUME NEW S, IsFiniteSet(S), NEW f, IntOn(f, S), NEW g, \A x \in S : f[x] = g[x]
    PROVE  SumFunctionOnSet(f, S) = SumFunctionOnSet(g, S)
<1>1. IntOn(g, S)
  BY DEF IntOn
<1>2. \E h \in [SUBSET S -> Int] : IsSum(h, f, S)
  BY SumExists
<1>3. \E h \in [SUBSET S -> Int] : IsSum(h, g, S)
  BY <1>1, SumExists
<1> DEFINE h1 == CHOOSE h : IsSum(h, f, S)
           h2 == CHOOSE h : IsSum(h, g, S)
<1>4. IsSum(h1, f, S) /\ IsSum(h2, g, S)
  BY <1>2, <1>3
<1>5. SumFunctionOnSet(f, S) = h1[S] /\ SumFunctionOnSet(g, S) = h2[S]
  BY SumIsFold
<1> HIDE DEF h1, h2
<1> QED
  BY <1>4, <1>5, SumUnique

\* The sum of sums.
LEMMA SumPlus ==
    ASSUME NEW S, IsFiniteSet(S), NEW f, IntOn(f, S), NEW g, IntOn(g, S),
           NEW h, \A x \in S : h[x] = f[x] + g[x]
    PROVE  SumFunctionOnSet(h, S) = SumFunctionOnSet(f, S) + SumFunctionOnSet(g, S)
<1> DEFINE Adds(T) == SumFunctionOnSet(h, T)
                        = SumFunctionOnSet(f, T) + SumFunctionOnSet(g, T)
           G == {T \in SUBSET S : Adds(T)}
<1>1. \A T \in SUBSET S : IsFiniteSet(T) /\ IntOn(f, T) /\ IntOn(g, T) /\ IntOn(h, T)
  BY FS_Subset DEF IntOn
<1>2. ASSUME NEW T \in SUBSET S, \A y \in T : T \ {y} \in G
      PROVE  T \in G
  <2>1. CASE T = {}
    <3>1. /\ SumFunctionOnSet(f, T) = 0 /\ SumFunctionOnSet(g, T) = 0
          /\ SumFunctionOnSet(h, T) = 0
      BY <1>1, <2>1, SumUnfold
    <3> QED
      BY <3>1
  <2>2. CASE T # {}
    <3>1. PICK y \in T : Adds(T \ {y})
      BY <1>2, <2>2
    <3>2. /\ SumFunctionOnSet(f, T) = f[y] + SumFunctionOnSet(f, T \ {y})
          /\ SumFunctionOnSet(g, T) = g[y] + SumFunctionOnSet(g, T \ {y})
          /\ SumFunctionOnSet(h, T) = h[y] + SumFunctionOnSet(h, T \ {y})
      BY <1>1, SumRemove
    <3>3. /\ SumFunctionOnSet(f, T \ {y}) \in Int
          /\ SumFunctionOnSet(g, T \ {y}) \in Int
          /\ f[y] \in Int /\ g[y] \in Int /\ h[y] = f[y] + g[y]
      BY <1>1, SumUnfold DEF IntOn
    <3> QED
      BY <3>1, <3>2, <3>3
  <2> QED
    BY <2>1, <2>2
<1>3. S \in G
  <2> HIDE DEF G
  <2> QED
    BY <1>2, SubsetInduction
<1> QED
  BY <1>3

\* A sum of naturals is one.
LEMMA SumOfNats ==
    ASSUME NEW S, IsFiniteSet(S), NEW f, \A x \in S : f[x] \in Nat
    PROVE  SumFunctionOnSet(f, S) \in Nat
<1> DEFINE G == {T \in SUBSET S : SumFunctionOnSet(f, T) \in Nat}
<1>1. \A T \in SUBSET S : IsFiniteSet(T) /\ IntOn(f, T)
  BY FS_Subset DEF IntOn
<1>2. ASSUME NEW T \in SUBSET S, \A y \in T : T \ {y} \in G
      PROVE  T \in G
  <2>1. CASE T = {}
    BY <1>1, <2>1, SumUnfold
  <2>2. CASE T # {}
    <3>1. PICK y \in T : SumFunctionOnSet(f, T \ {y}) \in Nat
      BY <1>2, <2>2
    <3>2. SumFunctionOnSet(f, T) = f[y] + SumFunctionOnSet(f, T \ {y})
      BY <1>1, SumRemove
    <3> QED
      BY <3>1, <3>2
  <2> QED
    BY <2>1, <2>2
<1>3. S \in G
  <2> HIDE DEF G
  <2> QED
    BY <1>2, SubsetInduction
<1> QED
  BY <1>3

\* What is no more everywhere is no more in all.
LEMMA SumMonotone ==
    ASSUME NEW S, IsFiniteSet(S), NEW f, IntOn(f, S), NEW g, IntOn(g, S),
           \A x \in S : f[x] <= g[x]
    PROVE  SumFunctionOnSet(f, S) <= SumFunctionOnSet(g, S)
<1> DEFINE d == [x \in S |-> g[x] - f[x]]
<1>1. \A x \in S : d[x] \in Nat /\ g[x] = f[x] + d[x]
  BY DEF IntOn
<1>2. IntOn(d, S)
  BY <1>1 DEF IntOn
<1> HIDE DEF d
<1>3. SumFunctionOnSet(d, S) \in Nat
  BY <1>1, SumOfNats
<1>4. SumFunctionOnSet(g, S) = SumFunctionOnSet(f, S) + SumFunctionOnSet(d, S)
  BY <1>1, <1>2, SumPlus
<1>5. SumFunctionOnSet(f, S) \in Int
  BY SumUnfold
<1> QED
  BY <1>3, <1>4, <1>5

\* What is 0 outside a part may be left out there.
LEMMA SumOfPart ==
    ASSUME NEW S, IsFiniteSet(S), NEW f, IntOn(f, S), NEW T \in SUBSET S,
           \A x \in S \ T : f[x] = 0
    PROVE  SumFunctionOnSet(f, S) = SumFunctionOnSet(f, T)
<1> DEFINE G == {U \in SUBSET S : SumFunctionOnSet(f, U) = SumFunctionOnSet(f, U \cap T)}
<1>1. \A U \in SUBSET S : IsFiniteSet(U) /\ IntOn(f, U)
  BY FS_Subset DEF IntOn
<1>2. ASSUME NEW U \in SUBSET S, \A y \in U : U \ {y} \in G
      PROVE  U \in G
  <2>1. CASE U \subseteq T
    <3>1. U \cap T = U
      BY <2>1
    <3> QED
      BY <3>1
  <2>2. CASE ~(U \subseteq T)
    <3>1. PICK y \in U : y \notin T
      BY <2>2
    <3>2. SumFunctionOnSet(f, U) = f[y] + SumFunctionOnSet(f, U \ {y})
      BY <1>1, SumRemove
    <3>3. f[y] = 0 /\ SumFunctionOnSet(f, U \ {y}) \in Int
      BY <1>1, <3>1, SumUnfold
    <3> DEFINE P == U \cap T
    <3>4. (U \ {y}) \cap T = P
      BY <3>1
    <3>5. SumFunctionOnSet(f, U \ {y}) = SumFunctionOnSet(f, P)
      BY <1>2, <3>1, <3>4
    <3>6. SumFunctionOnSet(f, U) = SumFunctionOnSet(f, P)
      <4> HIDE DEF P
      <4> QED
        BY <3>2, <3>3, <3>5
    <3> QED
      BY <3>6
  <2> QED
    BY <2>1, <2>2
<1>3. S \in G
  <2> HIDE DEF G
  <2> QED
    BY <1>2, SubsetInduction
<1>4. S \cap T = T
  OBVIOUS
<1> QED
  BY <1>3, <1>4

-----------------------------------------------------------------------------
(* Laws of sums over a domain, as the proofs use them.                     *)

\* A sum of integers is one.
LEMMA SumInt ==
    ASSUME NEW S, IsFiniteSet(S), NEW f \in [S -> Int]
    PROVE  SumFunction(f) \in Int
BY SumUnfold DEF SumFunction, IntOn

\* A sum of naturals is one.
LEMMA SumNat ==
    ASSUME NEW S, IsFiniteSet(S), NEW f \in [S -> Nat]
    PROVE  SumFunction(f) \in Nat
BY SumOfNats DEF SumFunction

\* A sum whose terms are 0.
LEMMA SumZero ==
    ASSUME NEW S, IsFiniteSet(S), NEW f \in [S -> Int], \A x \in S : f[x] = 0
    PROVE  SumFunction(f) = 0
<1>1. SumFunctionOnSet(f, S) = SumFunctionOnSet(f, {})
  BY SumOfPart DEF IntOn
<1>2. SumFunctionOnSet(f, {}) = 0
  BY SumUnfold, FS_EmptySet DEF IntOn
<1> QED
  BY <1>1, <1>2 DEF SumFunction

\* When a term changes, the sum changes by as much.
LEMMA SumPoint ==
    ASSUME NEW S, IsFiniteSet(S), NEW f \in [S -> Int], NEW g \in [S -> Int],
           NEW x \in S, \A y \in S : y # x => g[y] = f[y]
    PROVE  SumFunction(g) = SumFunction(f) - f[x] + g[x]
<1>1. IntOn(f, S) /\ IntOn(g, S) /\ IntOn(f, S \ {x}) /\ IsFiniteSet(S \ {x})
  BY FS_Subset DEF IntOn
<1>2. SumFunctionOnSet(f, S) = f[x] + SumFunctionOnSet(f, S \ {x})
  BY <1>1, SumRemove
<1>3. SumFunctionOnSet(g, S) = g[x] + SumFunctionOnSet(g, S \ {x})
  BY <1>1, SumRemove
<1>4. SumFunctionOnSet(f, S \ {x}) = SumFunctionOnSet(g, S \ {x})
  BY <1>1, SumSame
<1>5. SumFunctionOnSet(f, S \ {x}) \in Int
  BY <1>1, SumUnfold
<1> QED
  BY <1>2, <1>3, <1>4, <1>5 DEF SumFunction

\* A new term is added.
LEMMA SumGrows ==
    ASSUME NEW S, IsFiniteSet(S), NEW f, \A y \in S : f[y] \in Int, DOMAIN f = S,
           NEW x, x \notin S, NEW U, U = S \union {x},
           NEW g, \A y \in S : g[y] = f[y], DOMAIN g = U, g[x] \in Int
    PROVE  /\ IsFiniteSet(U)
           /\ SumFunction(g) = SumFunction(f) + g[x]
           /\ SumFunction(f) \in Int
<1>1. IsFiniteSet(U) /\ U \ {x} = S /\ x \in U
  BY FS_AddElement
<1>2. IntOn(g, U) /\ IntOn(f, S)
  BY DEF IntOn
<1>3. SumFunctionOnSet(g, U) = g[x] + SumFunctionOnSet(g, U \ {x})
  BY <1>1, <1>2, SumRemove
<1>4. SumFunctionOnSet(g, U \ {x}) = SumFunctionOnSet(g, S)
  BY <1>1
<1>5. SumFunctionOnSet(f, S) = SumFunctionOnSet(g, S)
  BY <1>2, SumSame
<1>6. SumFunctionOnSet(f, S) \in Int
  BY <1>2, SumUnfold
<1> QED
  BY <1>1, <1>3, <1>4, <1>5, <1>6 DEF SumFunction

\* A sum over 1 .. m + 1 adds its last term to the sum over 1 .. m.
LEMMA SumNext ==
    ASSUME NEW m \in Nat, NEW f \in [1 .. m + 1 -> Int]
    PROVE  SumFunction(f) = SumFunction([n \in 1 .. m |-> f[n]]) + f[m + 1]
<1> DEFINE S == 1 .. m
           U == 1 .. m + 1
           x == m + 1
           g == [n \in S |-> f[n]]
<1>1. IsFiniteSet(S) /\ x \notin S
  BY FS_Interval
<1>2. /\ IsFiniteSet(U) /\ IntOn(f, U) /\ x \in U /\ DOMAIN f = U
      /\ DOMAIN g = S /\ \A n \in S : f[n] = g[n] /\ f[n] \in Int
  BY FS_Interval DEF IntOn
<1>3. SumFunctionOnSet(f, U \ {x}) = SumFunctionOnSet(g, S)
  <2>1. U \ {x} = S
    OBVIOUS
  <2> HIDE DEF S, U, g, x
  <2>2. SumFunctionOnSet(f, S) = SumFunctionOnSet(g, S)
    BY <1>1, <1>2, SumSame DEF IntOn
  <2> QED
    BY <2>1, <2>2
<1>4. SumFunctionOnSet(f, U) = f[x] + SumFunctionOnSet(f, U \ {x})
  <2> HIDE DEF S, U, g, x
  <2> QED
    BY <1>2, SumRemove
<1>5. SumFunction(f) = SumFunction(g) + f[x]
  <2>1. SumFunctionOnSet(g, S) \in Int /\ f[x] \in Int
    <3> HIDE DEF S, U, g, x
    <3> QED
      BY <1>1, <1>2, SumUnfold DEF IntOn
  <2> HIDE DEF S, U, g, x
  <2> QED
    BY <1>2, <1>3, <1>4, <2>1 DEF SumFunction
<1> QED
  BY <1>5 DEF g, x

\* No term of a sum of naturals is more than the sum.
LEMMA SumTerm ==
    ASSUME NEW S, IsFiniteSet(S), NEW f \in [S -> Nat], NEW x \in S
    PROVE  f[x] <= SumFunction(f)
<1>1. IsFiniteSet(S \ {x}) /\ IntOn(f, S)
  BY FS_Subset DEF IntOn
<1>2. SumFunctionOnSet(f, S \ {x}) \in Nat
  BY <1>1, SumOfNats
<1>3. SumFunctionOnSet(f, S) = f[x] + SumFunctionOnSet(f, S \ {x})
  BY <1>1, SumRemove
<1> QED
  BY <1>2, <1>3 DEF SumFunction
=============================================================================
