------------------------------ MODULE SumProofs ------------------------------
(***************************************************************************)
(* Sums over finite sets, as SumFunction of the community modules computes *)
(* them: they do not depend on the order in which the elements are chosen, *)
(* and change by what is added, taken away or replaced.  And the induction *)
(* over finite sets and numbers that this and other proofs need, for the   *)
(* members of a set: it follows from the well-founded orders of both.      *)
(***************************************************************************)
EXTENDS Integers, FiniteSets, Functions, FiniteSetTheorems, WellFoundedInduction, TLAPS

\* Induction over a finite set, for a class of its subsets: one that has a subset
\* whenever it has everything that is properly in it, has every subset.
LEMMA SubsetInduction ==
    ASSUME NEW S, IsFiniteSet(S), NEW C,
           \A X \in SUBSET S : (\A Y \in SUBSET X : Y # X => Y \in C) => X \in C
    PROVE  \A X \in SUBSET S : X \in C
<1> DEFINE Bad == {X \in SUBSET S : X \notin C}
           R == StrictSubsetOrdering(S)
<1>1. SUFFICES ASSUME Bad # {} PROVE FALSE
  OBVIOUS
<1>2. PICK X \in Bad : \A Y \in Bad : ~(<<Y, X>> \in R)
  <2>1. IsWellFoundedOn(R, SUBSET S)
    BY FS_StrictSubsetOrderingWellFounded, FS_FiniteSubsetsOfFinite
  <2>2. Bad \subseteq SUBSET S
    OBVIOUS
  <2> HIDE DEF Bad, R
  <2> QED BY <1>1, <2>1, <2>2, WFMin
<1>3. ASSUME NEW Y \in SUBSET X, Y # X
      PROVE  Y \in C
  BY <1>2, <1>3 DEF StrictSubsetOrdering
<1> QED BY <1>3

\* Induction over the natural numbers, for a class of them.
LEMMA NatSetInduction ==
    ASSUME NEW C, 0 \in C, \A n \in Nat : n \in C => n + 1 \in C
    PROVE  \A n \in Nat : n \in C
<1> DEFINE Bad == {n \in Nat : n \notin C}
           R == OpToRel(<, Nat)
<1>1. SUFFICES ASSUME Bad # {} PROVE FALSE
  OBVIOUS
<1>2. PICK m \in Bad : \A k \in Bad : ~(<<k, m>> \in R)
  <2> HIDE DEF Bad, R
  <2>1. IsWellFoundedOn(R, Nat)
    BY NatLessThanWellFounded DEF R
  <2>2. Bad \subseteq Nat
    BY DEF Bad
  <2> QED BY <1>1, <2>1, <2>2, WFMin
<1>3. m - 1 \in Nat /\ m - 1 < m /\ (m - 1) + 1 = m
  OBVIOUS
<1>4. m - 1 \notin Bad
  BY <1>2, <1>3 DEF OpToRel
<1>5. (m - 1) + 1 \in C
  BY <1>3, <1>4
<1> QED BY <1>3, <1>5

\* The values of a function on a finite set are not more than its elements.
LEMMA ValuesFinite ==
    ASSUME NEW S, IsFiniteSet(S), NEW f
    PROVE  IsFiniteSet({f[x] : x \in S}) /\ Cardinality({f[x] : x \in S}) <= Cardinality(S)
<1> DEFINE T == {f[x] : x \in S}
           g == [x \in S |-> f[x]]
<1>1. g \in Surjection(S, T)
  BY DEF Surjection
<1> HIDE DEF g, T
<1>2. IsFiniteSet(T) /\ Cardinality(T) <= Cardinality(S)
  BY <1>1, FS_Surjection
<1> QED BY <1>2 DEF T

-----------------------------------------------------------------------------

\* g gives the sum of f over every subset of S.
IsSum(f, S, g) ==
    /\ g \in [SUBSET S -> Int]
    /\ g[{}] = 0
    /\ \A X \in SUBSET S : \A x \in X : g[X] = f[x] + g[X \ {x}]

\* What FoldFunctionOnSet asks of its iteration.
SumDef(f, S, g) ==
    g = [X \in SUBSET S |->
            IF X = {} THEN 0
            ELSE f[CHOOSE x \in X : TRUE] + g[X \ {CHOOSE x \in X : TRUE}]]

LEMMA SumExpanded ==
    ASSUME NEW f, NEW S
    PROVE  SumFunctionOnSet(f, S) = (CHOOSE g : SumDef(f, S, g))[S]
BY DEF SumFunctionOnSet, FoldFunctionOnSet, MapThenFoldSet, SumDef

\* There are sums over the subsets of a finite set of integers.
LEMMA SumExists ==
    ASSUME NEW S, IsFiniteSet(S), NEW f, \A x \in S : f[x] \in Int
    PROVE  \E g : IsSum(f, S, g)
<1> DEFINE C == {X \in SUBSET S : \E g : IsSum(f, X, g)}
<1>1. {} \in C
  <2>1. IsSum(f, {}, [X \in SUBSET {} |-> 0])
    BY DEF IsSum
  <2> QED BY <2>1
<1>2. ASSUME NEW X \in SUBSET S, NEW x \in X, X \ {x} \in C
      PROVE  X \in C
  <2>1. PICK g : IsSum(f, X \ {x}, g)
    BY <1>2
  <2> DEFINE h == [Y \in SUBSET X |-> IF x \in Y THEN f[x] + g[Y \ {x}] ELSE g[Y]]
  <2>2. \A Y \in SUBSET X : Y \ {x} \in SUBSET (X \ {x}) /\ g[Y \ {x}] \in Int
    BY <2>1 DEF IsSum
  <2>3. \A Y \in SUBSET X : x \notin Y => Y \in SUBSET (X \ {x}) /\ g[Y] \in Int
    BY <2>1 DEF IsSum
  <2>4. f[x] \in Int
    OBVIOUS
  <2>5. h \in [SUBSET X -> Int]
    BY <2>2, <2>3, <2>4
  <2>6. h[{}] = 0
    BY <2>1 DEF IsSum
  <2>7. ASSUME NEW Y \in SUBSET X, NEW y \in Y
        PROVE  h[Y] = f[y] + h[Y \ {y}]
    <3>1. f[y] \in Int /\ Y \ {y} \in SUBSET X
      OBVIOUS
    <3>2. CASE y = x
      <4>1. h[Y] = f[x] + g[Y \ {x}] /\ h[Y \ {y}] = g[Y \ {x}]
        BY <3>1, <3>2
      <4> QED BY <4>1, <3>2
    <3>3. CASE y # x /\ x \in Y
      <4>1. h[Y] = f[x] + g[Y \ {x}]
        BY <3>3
      <4>2. h[Y \ {y}] = f[x] + g[(Y \ {y}) \ {x}]
        BY <3>1, <3>3
      <4>3. (Y \ {y}) \ {x} = (Y \ {x}) \ {y} /\ y \in Y \ {x}
        BY <3>3
      <4>4. g[Y \ {x}] = f[y] + g[(Y \ {x}) \ {y}]
        BY <2>1, <2>2, <4>3 DEF IsSum
      <4>5. g[(Y \ {x}) \ {y}] \in Int
        BY <2>2, <3>1, <4>3
      <4>6. h[Y \ {y}] = f[x] + g[(Y \ {x}) \ {y}]
        BY <4>2, <4>3
      <4> HIDE DEF h
      <4> QED BY <4>1, <4>4, <4>5, <4>6, <3>1, <2>4
    <3>4. CASE x \notin Y
      <4>1. h[Y] = g[Y] /\ h[Y \ {y}] = g[Y \ {y}]
        BY <3>1, <3>4
      <4>2. g[Y] = f[y] + g[Y \ {y}]
        BY <2>1, <2>3, <3>4 DEF IsSum
      <4> QED BY <4>1, <4>2
    <3> QED BY <3>2, <3>3, <3>4
  <2>8. IsSum(f, X, h)
    <3> HIDE DEF h
    <3> QED BY <2>5, <2>6, <2>7 DEF IsSum
  <2> HIDE DEF h
  <2> QED BY <2>8
<1>3. ASSUME NEW X \in SUBSET S, \A Y \in SUBSET X : Y # X => Y \in C
      PROVE  X \in C
  <2>1. CASE X = {}
    BY <2>1, <1>1
  <2>2. CASE X # {}
    <3>1. PICK x \in X : TRUE
      BY <2>2
    <3>2. X \ {x} \in C
      BY <1>3
    <3> HIDE DEF C
    <3> QED BY <1>2, <3>2
  <2> QED BY <2>1, <2>2
<1>4. S \in C
  <2> HIDE DEF C
  <2>1. \A X \in SUBSET S : X \in C
    BY <1>3, SubsetInduction
  <2> QED BY <2>1
<1> QED BY <1>4

\* Sums are unique, however their elements are chosen.
LEMMA SumUnique ==
    ASSUME NEW S, IsFiniteSet(S), NEW f, NEW g, IsSum(f, S, g), NEW h, SumDef(f, S, h),
           NEW X \in SUBSET S
    PROVE  h[X] = g[X]
<1> DEFINE C == {Y \in SUBSET S : h[Y] = g[Y]}
<1>1. ASSUME NEW Y \in SUBSET S, \A Z \in SUBSET Y : Z # Y => Z \in C
      PROVE  Y \in C
  <2>1. CASE Y = {}
    BY <2>1 DEF IsSum, SumDef
  <2>2. CASE Y # {}
    <3> DEFINE y == CHOOSE y \in Y : TRUE
    <3>1. y \in Y
      BY <2>2
    <3>2. h[Y] = f[y] + h[Y \ {y}]
      BY <2>2 DEF SumDef
    <3>3. h[Y \ {y}] = g[Y \ {y}]
      BY <3>1, <1>1
    <3> HIDE DEF y
    <3>4. g[Y] = f[y] + g[Y \ {y}]
      BY <3>1 DEF IsSum
    <3> QED BY <3>2, <3>3, <3>4
  <2> QED BY <2>1, <2>2
<1>2. \A Y \in SUBSET S : Y \in C
  <2> HIDE DEF C
  <2> QED BY <1>1, SubsetInduction
<1> QED BY <1>2

\* Every such function gives SumFunctionOnSet.
LEMMA SumIs ==
    ASSUME NEW S, IsFiniteSet(S), NEW f, NEW g, IsSum(f, S, g)
    PROVE  SumFunctionOnSet(f, S) = g[S]
<1>1. SumDef(f, S, g)
  <2>1. ASSUME NEW X \in SUBSET S
        PROVE  g[X] = IF X = {} THEN 0
                      ELSE f[CHOOSE x \in X : TRUE] + g[X \ {CHOOSE x \in X : TRUE}]
    BY DEF IsSum
  <2>2. g = [X \in SUBSET S |-> g[X]]
    BY DEF IsSum
  <2> QED BY <2>1, <2>2 DEF SumDef
<1>2. SumDef(f, S, CHOOSE h : SumDef(f, S, h))
  BY <1>1
<1>3. (CHOOSE h : SumDef(f, S, h))[S] = g[S]
  BY <1>2, SumUnique
<1> QED BY <1>3, SumExpanded

\* It gives the sums over the smaller sets, too.
LEMMA SumRestrict ==
    ASSUME NEW S, IsFiniteSet(S), NEW f, NEW g, IsSum(f, S, g), NEW X \in SUBSET S
    PROVE  SumFunctionOnSet(f, X) = g[X]
<1> DEFINE h == [Y \in SUBSET X |-> g[Y]]
<1>1. IsSum(f, X, h)
  BY DEF IsSum
<1>2. IsFiniteSet(X)
  BY FS_Subset
<1> HIDE DEF h
<1>3. SumFunctionOnSet(f, X) = h[X]
  BY <1>1, <1>2, SumIs
<1> QED BY <1>3 DEF h

-----------------------------------------------------------------------------

\* The sum over no elements.
LEMMA SumEmpty ==
    ASSUME NEW f
    PROVE  SumFunctionOnSet(f, {}) = 0
<1>1. IsSum(f, {}, [X \in SUBSET {} |-> 0])
  BY DEF IsSum
<1> QED BY <1>1, SumIs, FS_EmptySet

\* Any one element can be taken off.
LEMMA SumSplit ==
    ASSUME NEW S, IsFiniteSet(S), NEW f, \A x \in S : f[x] \in Int, NEW a \in S
    PROVE  /\ SumFunctionOnSet(f, S) = f[a] + SumFunctionOnSet(f, S \ {a})
           /\ SumFunctionOnSet(f, S \ {a}) \in Int
<1>1. PICK g : IsSum(f, S, g)
  BY SumExists
<1>2. SumFunctionOnSet(f, S) = g[S] /\ SumFunctionOnSet(f, S \ {a}) = g[S \ {a}]
  BY <1>1, SumRestrict
<1> QED BY <1>1, <1>2 DEF IsSum

\* A sum of integers is an integer.
LEMMA SumType ==
    ASSUME NEW S, IsFiniteSet(S), NEW f, \A x \in S : f[x] \in Int
    PROVE  SumFunctionOnSet(f, S) \in Int
<1>1. PICK g : IsSum(f, S, g)
  BY SumExists
<1>2. SumFunctionOnSet(f, S) = g[S]
  BY <1>1, SumIs
<1> QED BY <1>1, <1>2 DEF IsSum

\* What is summed matters on the set only.
LEMMA SumAgree ==
    ASSUME NEW S, IsFiniteSet(S), NEW f, NEW h, \A x \in S : f[x] \in Int /\ h[x] = f[x]
    PROVE  SumFunctionOnSet(h, S) = SumFunctionOnSet(f, S)
<1>1. PICK g : IsSum(f, S, g)
  BY SumExists
<1>2. IsSum(h, S, g)
  BY <1>1 DEF IsSum
<1> QED BY <1>1, <1>2, SumIs

\* Replacing the value of one element changes the sum by the difference.
LEMMA SumReplace ==
    ASSUME NEW S, IsFiniteSet(S), NEW f, NEW h, NEW a \in S,
           \A x \in S : f[x] \in Int /\ h[x] \in Int,
           \A x \in S : x # a => h[x] = f[x]
    PROVE  SumFunctionOnSet(h, S) = SumFunctionOnSet(f, S) + (h[a] - f[a])
<1>1. IsFiniteSet(S \ {a})
  BY FS_RemoveElement
<1>2. SumFunctionOnSet(h, S \ {a}) = SumFunctionOnSet(f, S \ {a})
  BY <1>1, SumAgree
<1>3. /\ SumFunctionOnSet(f, S) = f[a] + SumFunctionOnSet(f, S \ {a})
      /\ SumFunctionOnSet(h, S) = h[a] + SumFunctionOnSet(h, S \ {a})
      /\ SumFunctionOnSet(f, S \ {a}) \in Int
  BY SumSplit
<1>4. f[a] \in Int /\ h[a] \in Int
  OBVIOUS
<1> QED BY <1>2, <1>3, <1>4

\* A new element adds its value.
LEMMA SumAdd ==
    ASSUME NEW S, IsFiniteSet(S), NEW a, a \notin S, NEW f, NEW h, h[a] \in Int,
           \A x \in S : f[x] \in Int /\ h[x] = f[x]
    PROVE  SumFunctionOnSet(h, S \cup {a}) = SumFunctionOnSet(f, S) + h[a]
<1> DEFINE T == S \cup {a}
<1>1. IsFiniteSet(T) /\ a \in T /\ T \ {a} = S
  BY FS_AddElement
<1>2. \A x \in T : h[x] \in Int
  OBVIOUS
<1> HIDE DEF T
<1>3. SumFunctionOnSet(h, T) = h[a] + SumFunctionOnSet(h, S) /\ SumFunctionOnSet(h, S) \in Int
  BY <1>1, <1>2, SumSplit
<1>4. SumFunctionOnSet(h, S) = SumFunctionOnSet(f, S)
  BY SumAgree
<1> QED BY <1>3, <1>4 DEF T

\* A sum of natural numbers is one, and not less than that of fewer or smaller ones.
LEMMA SumGrows ==
    ASSUME NEW S, IsFiniteSet(S), NEW T \in SUBSET S, NEW f, NEW h,
           \A x \in S : h[x] \in Nat,
           \A x \in T : f[x] \in Nat /\ f[x] <= h[x]
    PROVE  /\ SumFunctionOnSet(f, T) \in Nat /\ SumFunctionOnSet(h, S) \in Nat
           /\ SumFunctionOnSet(f, T) <= SumFunctionOnSet(h, S)
<1> DEFINE Part(X) == SumFunctionOnSet(f, X \cap T)
           All(X) == SumFunctionOnSet(h, X)
           C == {X \in SUBSET S : Part(X) \in Nat /\ All(X) \in Nat /\ Part(X) <= All(X)}
<1>1. ASSUME NEW X \in SUBSET S, \A Y \in SUBSET X : Y # X => Y \in C
      PROVE  X \in C
  <2>1. CASE X = {}
    <3>1. X \cap T = {}
      BY <2>1
    <3>2. Part(X) = 0 /\ All(X) = 0
      BY <2>1, <3>1, SumEmpty
    <3> QED BY <3>2
  <2>2. ASSUME NEW a \in X
        PROVE  X \in C
    <3> DEFINE Y == X \ {a}
    <3>1. Y \in C
      BY <1>1
    <3>2. IsFiniteSet(X) /\ IsFiniteSet(X \cap T) /\ \A x \in X : h[x] \in Int
      BY FS_Subset
    <3>3. All(X) = h[a] + All(Y)
      BY <3>2, SumSplit
    <3>4. h[a] \in Nat
      OBVIOUS
    <3>5. CASE a \in T
      <4>1. (X \cap T) \ {a} = Y \cap T /\ a \in X \cap T /\ \A x \in X \cap T : f[x] \in Int
        BY <3>5
      <4>2. Part(X) = f[a] + Part(Y)
        BY <3>2, <4>1, SumSplit
      <4>3. f[a] \in Nat /\ f[a] <= h[a]
        BY <3>5
      <4>4. Part(Y) \in Nat /\ All(Y) \in Nat /\ Part(Y) <= All(Y)
        BY <3>1
      <4> HIDE DEF Part, All, Y
      <4>5. Part(X) \in Nat /\ All(X) \in Nat /\ Part(X) <= All(X)
        BY <3>3, <3>4, <4>2, <4>3, <4>4
      <4> QED BY <4>5
    <3>6. CASE a \notin T
      <4>1. X \cap T = Y \cap T
        BY <3>6
      <4>2. Part(X) = Part(Y)
        BY <4>1
      <4>3. Part(Y) \in Nat /\ All(Y) \in Nat /\ Part(Y) <= All(Y)
        BY <3>1
      <4> HIDE DEF Part, All, Y
      <4>4. Part(X) \in Nat /\ All(X) \in Nat /\ Part(X) <= All(X)
        BY <3>3, <3>4, <4>2, <4>3
      <4> QED BY <4>4
    <3> QED BY <3>5, <3>6
  <2> QED BY <2>1, <2>2
<1>2. S \in C
  <2> HIDE DEF C
  <2>1. \A X \in SUBSET S : X \in C
    BY <1>1, SubsetInduction
  <2> QED BY <2>1
<1>3. S \cap T = T
  OBVIOUS
<1> QED BY <1>2, <1>3
=============================================================================
