---------------------------- MODULE TrafficProofs ----------------------------
(* Proofs about TrafficStats: the pages agree, and traffic is counted once, for   *)
(* any finite set of connections, any chains, processes and hosts, any minutes,   *)
(* bytes, settings and mishaps.                                                   *)
(*                                                                                *)
(* Sums of bytes over finite sets come first, then what the operations on buckets *)
(* do to the sum over any set of keys, then the attribution of one snapshot.  The *)
(* invariant has two halves.  DataInv is about where buckets are: in the table,   *)
(* pending, or taken by a writer; together they balance and hold what is owed.    *)
(* CounterInv is about mihomo's counters: samples and baselines lag behind them,  *)
(* and what is booked in all, and under each key, is at most what had gone        *)
(* through the core when it was sampled.                                          *)
EXTENDS TrafficStats, WellFoundedInduction, FiniteSetTheorems, TLAPS

(********************************** bytes ************************************)

Directions == {"up", "down"}
Vec == [Directions -> Nat]
AtMost(a, b) == \A d \in Directions : a[d] <= b[d]

LEMMA ZeroType == Zero \in Vec /\ \A d \in Directions : Zero[d] = 0
  BY DEF Zero, Vec, Directions

LEMMA PlusType ==
  ASSUME NEW a \in Vec, NEW b \in Vec
  PROVE  Plus(a, b) \in Vec /\ \A d \in Directions : Plus(a, b)[d] = a[d] + b[d]
  BY DEF Plus, Vec, Directions

LEMMA SameVec ==
  ASSUME NEW a \in Vec, NEW b \in Vec, \A d \in Directions : a[d] = b[d]
  PROVE  a = b
  BY DEF Vec

LEMMA PlusZero == ASSUME NEW a \in Vec PROVE Plus(a, Zero) = a /\ Plus(Zero, a) = a
<1>1. Plus(a, Zero) \in Vec /\ Plus(Zero, a) \in Vec
  BY ZeroType, PlusType
<1>2. \A d \in Directions : Plus(a, Zero)[d] = a[d] /\ Plus(Zero, a)[d] = a[d]
  BY ZeroType, PlusType DEF Vec
<1> QED
  BY <1>1, <1>2, SameVec

LEMMA PlusCommutes == ASSUME NEW a \in Vec, NEW b \in Vec PROVE Plus(a, b) = Plus(b, a)
<1>1. \A d \in Directions : Plus(a, b)[d] = Plus(b, a)[d]
  BY PlusType DEF Vec
<1> QED
  BY <1>1, PlusType, SameVec

LEMMA PlusAssociates ==
  ASSUME NEW a \in Vec, NEW b \in Vec, NEW c \in Vec
  PROVE  Plus(a, Plus(b, c)) = Plus(Plus(a, b), c)
<1>1. Plus(b, c) \in Vec /\ Plus(a, b) \in Vec
  BY PlusType
<1>2. \A d \in Directions : Plus(a, Plus(b, c))[d] = Plus(Plus(a, b), c)[d]
  BY <1>1, PlusType DEF Vec
<1> QED
  BY <1>1, <1>2, PlusType, SameVec

\* a + (b + c) = b + (a + c).
LEMMA PlusSwaps ==
  ASSUME NEW a \in Vec, NEW b \in Vec, NEW c \in Vec
  PROVE  Plus(a, Plus(b, c)) = Plus(b, Plus(a, c))
  BY PlusAssociates, PlusCommutes

LEMMA PlusAtMost ==
  ASSUME NEW a \in Vec, NEW b \in Vec, NEW c \in Vec, NEW e \in Vec,
         AtMost(a, c), AtMost(b, e)
  PROVE  AtMost(Plus(a, b), Plus(c, e))
<1>1. SUFFICES ASSUME NEW x \in Directions PROVE Plus(a, b)[x] <= Plus(c, e)[x]
  BY DEF AtMost
<1>2. a[x] \in Nat /\ b[x] \in Nat /\ c[x] \in Nat /\ e[x] \in Nat
  BY DEF Vec
<1>3. a[x] <= c[x] /\ b[x] <= e[x]
  BY DEF AtMost
<1>4. Plus(a, b)[x] = a[x] + b[x] /\ Plus(c, e)[x] = c[x] + e[x]
  BY PlusType
<1> QED
  BY <1>2, <1>3, <1>4

\* (a + b) + (c + d) = (a + c) + (b + d).
LEMMA PlusExchange ==
  ASSUME NEW a \in Vec, NEW b \in Vec, NEW c \in Vec, NEW d \in Vec
  PROVE  Plus(Plus(a, b), Plus(c, d)) = Plus(Plus(a, c), Plus(b, d))
<1>1. Plus(a, b) \in Vec /\ Plus(c, d) \in Vec /\ Plus(a, c) \in Vec /\ Plus(b, d) \in Vec
  BY PlusType
<1>2. ASSUME NEW x \in Directions
      PROVE  Plus(Plus(a, b), Plus(c, d))[x] = Plus(Plus(a, c), Plus(b, d))[x]
  <2>1. Plus(Plus(a, b), Plus(c, d))[x] = (a[x] + b[x]) + (c[x] + d[x])
    BY <1>1, PlusType
  <2>2. Plus(Plus(a, c), Plus(b, d))[x] = (a[x] + c[x]) + (b[x] + d[x])
    BY <1>1, PlusType
  <2>3. a[x] \in Nat /\ b[x] \in Nat /\ c[x] \in Nat /\ d[x] \in Nat
    BY DEF Vec
  <2> QED
    BY <2>1, <2>2, <2>3
<1>3. Plus(Plus(a, b), Plus(c, d)) \in Vec /\ Plus(Plus(a, c), Plus(b, d)) \in Vec
  BY <1>1, PlusType
<1> QED
  BY <1>2, <1>3, SameVec

(***************************** sums over sets ********************************)

\* A set of natural numbers that is not empty has a least element.
LEMMA NatMin ==
  ASSUME NEW T, T \subseteq Nat, T # {}
  PROVE  \E x \in T : \A y \in T : x <= y
<1>1. PICK x \in T : \A y \in T : ~ (<<y, x>> \in OpToRel(<,Nat))
  BY WFMin, NatLessThanWellFounded
<1>2. \A y \in T : ~ (y < x)
  BY <1>1 DEF OpToRel
<1> HIDE DEF OpToRel
<1>3. \A y \in T : x <= y
  BY <1>2
<1> QED
  BY <1>3

\* Induction over the subsets of a finite set: a collection F of its subsets that has
\* each of them whose proper subsets it has, has them all.
LEMMA SubsetInduction ==
  ASSUME NEW S, IsFiniteSet(S), NEW F,
         \A T \in SUBSET S : (\A U \in SUBSET T : U # T => U \in F) => T \in F
  PROVE  SUBSET S \subseteq F
<1> DEFINE Bad == (SUBSET S) \ F
           Sizes == {Cardinality(T) : T \in Bad}
<1> SUFFICES ASSUME Bad # {} PROVE FALSE
  OBVIOUS
<1>1. \A T \in SUBSET S : IsFiniteSet(T) /\ Cardinality(T) \in Nat
  BY FS_Subset, FS_CardinalityType
<1>2. Sizes \subseteq Nat /\ Sizes # {}
  BY <1>1
<1>3. PICK n \in Sizes : \A k \in Sizes : n <= k
  BY <1>2, NatMin
<1>4. PICK T \in Bad : n = Cardinality(T)
  BY <1>3
<1>5. PICK U \in SUBSET T : U # T /\ U \notin F
  BY <1>4
<1>6. U \in Bad /\ Cardinality(U) \in Sizes
  <2>1. U \in Bad
    BY <1>4, <1>5
  <2> QED
    BY <2>1
<1>7. Cardinality(U) < Cardinality(T)
  <2>1. IsFiniteSet(T) /\ Cardinality(T) \in Nat /\ Cardinality(U) \in Nat
    BY <1>1, <1>4, <1>6
  <2>2. Cardinality(U) <= Cardinality(T) /\ (Cardinality(U) = Cardinality(T) => T = U)
    BY <2>1, <1>5, FS_Subset
  <2> QED
    BY <2>1, <2>2, <1>5
<1>8. Cardinality(T) <= Cardinality(U)
  BY <1>3, <1>4, <1>6
<1>9. Cardinality(T) \in Nat /\ Cardinality(U) \in Nat
  BY <1>1, <1>4, <1>6
<1> QED
  BY <1>7, <1>8, <1>9

First(s) == CHOOSE x \in s : TRUE
IsSum(g, f, T) ==
  g = [s \in SUBSET T |-> IF s = {} THEN Zero ELSE Plus(f[First(s)], g[s \ {First(s)}])]
TheSum(f, T) == (CHOOSE g : IsSum(g, f, T))[T]

\* BytesOf is the fold by its recursive definition, which exists for finite sets.
LEMMA BytesOfIs == ASSUME NEW f, NEW T PROVE BytesOf(T, f) = TheSum(f, T)
  BY DEF BytesOf, FoldFunctionOnSet, MapThenFoldSet, IsSum, TheSum, First

\* The function a sum is defined by exists, and each such function gives the sums.
SumDefined(f, T) ==
  /\ \E g : IsSum(g, f, T)
  /\ \A g : IsSum(g, f, T) => g[T] = TheSum(f, T)

LEMMA SumExists ==
  ASSUME NEW S, IsFiniteSet(S), NEW f
  PROVE  SumDefined(f, S)
<1> DEFINE F == {T \in SUBSET S : SumDefined(f, T)}
<1>1. ASSUME NEW T \in SUBSET S, \A U \in SUBSET T : U # T => U \in F
      PROVE  SumDefined(f, T)
  <2> DEFINE h == [s \in SUBSET T |-> IF s = {} THEN Zero
                                      ELSE Plus(f[First(s)], TheSum(f, s \ {First(s)}))]
  <2>1. ASSUME NEW U, NEW g, U \subseteq T, IsSum(g, f, T)
        PROVE  IsSum([s \in SUBSET U |-> g[s]], f, U)
    BY <2>1 DEF IsSum
  <2>2. ASSUME NEW g, IsSum(g, f, T), NEW U \in SUBSET T, U # T
        PROVE  g[U] = TheSum(f, U)
    <3>1. IsSum([s \in SUBSET U |-> g[s]], f, U)
      BY <2>1, <2>2
    <3>2. [s \in SUBSET U |-> g[s]][U] = TheSum(f, U)
      BY <3>1, <1>1, <2>2 DEF SumDefined
    <3> QED
      BY <3>2
  <2>3. ASSUME NEW s \in SUBSET T, s # {}
        PROVE  First(s) \in s /\ s \ {First(s)} \in SUBSET T /\ s \ {First(s)} # T
    BY <2>3 DEF First
  <2>4. ASSUME NEW U \in SUBSET T, U # T, U # {}
        PROVE  TheSum(f, U) = Plus(f[First(U)], TheSum(f, U \ {First(U)}))
    <3>1. PICK g : IsSum(g, f, U)
      BY <1>1, <2>4 DEF SumDefined
    <3>2. SumDefined(f, U) /\ SumDefined(f, U \ {First(U)})
      BY <1>1, <2>3, <2>4
    <3>3. First(U) \in U
      BY <2>3, <2>4
    <3> DEFINE V == U \ {First(U)}
    <3>4. IsSum([s \in SUBSET V |-> g[s]], f, V)
      BY <3>1 DEF IsSum
    <3>5. [s \in SUBSET V |-> g[s]][V] = TheSum(f, V)
      BY <3>4, <3>2 DEF SumDefined
    <3>6. g[U] = Plus(f[First(U)], g[V])
      BY <3>1, <2>4 DEF IsSum
    <3> QED
      BY <3>1, <3>2, <3>5, <3>6 DEF SumDefined
  <2>5. \A s \in SUBSET T : s # T => h[s] = TheSum(f, s)
    <3>1. ASSUME {} # T PROVE TheSum(f, {}) = Zero
      <4>1. PICK g : IsSum(g, f, {})
        BY <1>1, <3>1 DEF SumDefined
      <4>2. g[{}] = Zero
        BY <4>1 DEF IsSum
      <4> QED
        BY <4>1, <4>2, <1>1, <3>1 DEF SumDefined
    <3> QED
      BY <3>1, <2>4
  <2>6. IsSum(h, f, T)
    <3>1. \A s \in SUBSET T : s # {} => h[s \ {First(s)}] = TheSum(f, s \ {First(s)})
      BY <2>3, <2>5
    <3> HIDE DEF h
    <3>2. h = [s \in SUBSET T |-> h[s]] /\ \A s \in SUBSET T :
            h[s] = IF s = {} THEN Zero ELSE Plus(f[First(s)], h[s \ {First(s)}])
      BY <3>1 DEF h
    <3> QED
      BY <3>2 DEF IsSum
  <2>7. ASSUME NEW g, IsSum(g, f, T), NEW k, IsSum(k, f, T) PROVE g[T] = k[T]
    <3>1. CASE T = {}
      BY <2>7, <3>1 DEF IsSum
    <3>2. CASE T # {}
      <4>1. g[T \ {First(T)}] = k[T \ {First(T)}]
        BY <2>2, <2>3, <2>7, <3>2
      <4>2. g[T] = Plus(f[First(T)], g[T \ {First(T)}])
        BY <2>7, <3>2 DEF IsSum
      <4>3. k[T] = Plus(f[First(T)], k[T \ {First(T)}])
        BY <2>7, <3>2 DEF IsSum
      <4> QED
        BY <4>1, <4>2, <4>3
    <3> QED
      BY <3>1, <3>2
  <2>8. \E g : IsSum(g, f, T)
    BY <2>6
  <2>9. IsSum(CHOOSE g : IsSum(g, f, T), f, T)
    BY <2>8
  <2> QED
    BY <2>7, <2>8, <2>9 DEF SumDefined, TheSum
<1>2. \A T \in SUBSET S : (\A U \in SUBSET T : U # T => U \in F) => T \in F
  BY <1>1
<1> HIDE DEF F
<1>3. SUBSET S \subseteq F
  BY <1>2, SubsetInduction
<1> QED
  BY <1>3 DEF F

\* The sum over nothing, and over a set with an element taken out.
LEMMA SumEmpty == ASSUME NEW f PROVE BytesOf({}, f) = Zero
<1>1. PICK g : IsSum(g, f, {})
  BY SumExists, FS_EmptySet DEF SumDefined
<1>2. g[{}] = Zero
  BY <1>1 DEF IsSum
<1> QED
  BY <1>1, <1>2, SumExists, FS_EmptySet, BytesOfIs DEF SumDefined

LEMMA SumFirst ==
  ASSUME NEW S, IsFiniteSet(S), S # {}, NEW f
  PROVE  BytesOf(S, f) = Plus(f[First(S)], BytesOf(S \ {First(S)}, f))
<1> DEFINE R == S \ {First(S)}
<1>1. First(S) \in S /\ IsFiniteSet(R)
  BY FS_Subset DEF First
<1>2. PICK g : IsSum(g, f, S)
  BY SumExists DEF SumDefined
<1>3. IsSum([s \in SUBSET R |-> g[s]], f, R)
  BY <1>2 DEF IsSum
<1>4. g[R] = TheSum(f, R)
  <2>1. [s \in SUBSET R |-> g[s]][R] = TheSum(f, R)
    BY <1>1, <1>3, SumExists DEF SumDefined
  <2> QED
    BY <2>1
<1>5. g[S] = Plus(f[First(S)], g[R])
  BY <1>1, <1>2 DEF IsSum
<1>6. g[S] = TheSum(f, S)
  BY <1>2, SumExists DEF SumDefined
<1> QED
  BY <1>4, <1>5, <1>6, BytesOfIs

\* The values a function has on a set are bytes.
OnVec(f, S) == \A x \in S : f[x] \in Vec

LEMMA SumType ==
  ASSUME NEW S, IsFiniteSet(S), NEW f, OnVec(f, S)
  PROVE  BytesOf(S, f) \in Vec
<1> DEFINE F == {T \in SUBSET S : BytesOf(T, f) \in Vec}
<1>1. ASSUME NEW T \in SUBSET S, \A U \in SUBSET T : U # T => U \in F
      PROVE  T \in F
  <2>1. CASE T = {}
    BY <2>1, SumEmpty, ZeroType
  <2>2. CASE T # {}
    <3>1. First(T) \in T /\ IsFiniteSet(T)
      BY <2>2, FS_Subset DEF First
    <3>2. BytesOf(T \ {First(T)}, f) \in Vec /\ f[First(T)] \in Vec
      BY <1>1, <3>1 DEF OnVec
    <3> QED
      BY <2>2, <3>1, <3>2, SumFirst, PlusType
  <2> QED
    BY <2>1, <2>2
<1> HIDE DEF F
<1>2. SUBSET S \subseteq F
  BY <1>1, SubsetInduction
<1> QED
  BY <1>2 DEF F

\* Any element may be the one that is added last.
LEMMA SumRemove ==
  ASSUME NEW S, IsFiniteSet(S), NEW f, OnVec(f, S), NEW x \in S
  PROVE  BytesOf(S, f) = Plus(f[x], BytesOf(S \ {x}, f))
<1> DEFINE F == {T \in SUBSET S : \A y \in T : BytesOf(T, f) = Plus(f[y], BytesOf(T \ {y}, f))}
<1>1. ASSUME NEW T \in SUBSET S, \A U \in SUBSET T : U # T => U \in F
      PROVE  T \in F
  <2>1. SUFFICES ASSUME NEW y \in T PROVE BytesOf(T, f) = Plus(f[y], BytesOf(T \ {y}, f))
    OBVIOUS
  <2> DEFINE z == First(T)
             both == T \ {y, z}
  <2>2. z \in T /\ IsFiniteSet(T)
    BY FS_Subset DEF First
  <2>3. BytesOf(T, f) = Plus(f[z], BytesOf(T \ {z}, f))
    BY <2>2, SumFirst
  <2> HIDE DEF z
  <2>4. CASE y = z
    BY <2>3, <2>4
  <2>5. CASE y # z
    <3>1. (T \ {z}) \ {y} = both /\ (T \ {y}) \ {z} = both
      OBVIOUS
    <3>2. T \ {z} \in F /\ T \ {y} \in F
      BY <1>1, <2>2
    <3>3. BytesOf(T \ {z}, f) = Plus(f[y], BytesOf(both, f))
      BY <2>2, <2>5, <3>1, <3>2
    <3>4. BytesOf(T \ {y}, f) = Plus(f[z], BytesOf(both, f))
      BY <2>2, <2>5, <3>1, <3>2
    <3>5. IsFiniteSet(both) /\ OnVec(f, both)
      BY <2>2, FS_Subset DEF OnVec
    <3>6. BytesOf(both, f) \in Vec /\ f[y] \in Vec /\ f[z] \in Vec
      BY <2>2, <3>5, SumType DEF OnVec
    <3> QED
      BY <2>3, <3>3, <3>4, <3>6, PlusSwaps
  <2> QED
    BY <2>4, <2>5
<1> HIDE DEF F
<1>2. SUBSET S \subseteq F
  BY <1>1, SubsetInduction
<1> QED
  BY <1>2 DEF F

\* Sums of functions that agree on the set are equal.
LEMMA SumSame ==
  ASSUME NEW S, IsFiniteSet(S), NEW f, NEW g, \A x \in S : f[x] = g[x]
  PROVE  BytesOf(S, f) = BytesOf(S, g)
<1> DEFINE F == {T \in SUBSET S : BytesOf(T, f) = BytesOf(T, g)}
<1>1. ASSUME NEW T \in SUBSET S, \A U \in SUBSET T : U # T => U \in F
      PROVE  T \in F
  <2>1. CASE T = {}
    BY <2>1, SumEmpty
  <2>2. CASE T # {}
    <3>1. First(T) \in T /\ IsFiniteSet(T)
      BY <2>2, FS_Subset DEF First
    <3>2. BytesOf(T \ {First(T)}, f) = BytesOf(T \ {First(T)}, g)
      BY <1>1, <3>1
    <3> QED
      BY <2>2, <3>1, <3>2, SumFirst
  <2> QED
    BY <2>1, <2>2
<1> HIDE DEF F
<1>2. SUBSET S \subseteq F
  BY <1>1, SubsetInduction
<1> QED
  BY <1>2 DEF F

\* The sum over two disjoint sets.
LEMMA SumUnion ==
  ASSUME NEW S, IsFiniteSet(S), NEW R, IsFiniteSet(R), S \cap R = {}, NEW f, OnVec(f, S \cup R)
  PROVE  BytesOf(S \cup R, f) = Plus(BytesOf(S, f), BytesOf(R, f))
<1> DEFINE F == {T \in SUBSET S : BytesOf(T \cup R, f) = Plus(BytesOf(T, f), BytesOf(R, f))}
<1>0. BytesOf(R, f) \in Vec
  BY SumType DEF OnVec
<1>1. ASSUME NEW T \in SUBSET S, \A U \in SUBSET T : U # T => U \in F
      PROVE  T \in F
  <2>1. CASE T = {}
    <3>1. T \cup R = R
      BY <2>1
    <3> QED
      BY <1>0, <2>1, <3>1, SumEmpty, PlusZero
  <2>2. CASE T # {}
    <3>1. PICK x : x \in T
      BY <2>2
    <3> DEFINE U == T \ {x}
    <3>2. IsFiniteSet(T) /\ IsFiniteSet(U) /\ IsFiniteSet(T \cup R)
      BY FS_Subset, FS_Union
    <3>3. (T \cup R) \ {x} = U \cup R
      BY <3>1
    <3>4. BytesOf(U \cup R, f) = Plus(BytesOf(U, f), BytesOf(R, f))
      BY <1>1, <3>1
    <3>5. OnVec(f, T \cup R) /\ OnVec(f, T) /\ OnVec(f, U)
      BY DEF OnVec
    <3>6. f[x] \in Vec /\ BytesOf(U, f) \in Vec
      BY <3>1, <3>2, <3>5, SumType DEF OnVec
    <3>7. BytesOf(T \cup R, f) = Plus(f[x], BytesOf(U \cup R, f))
      BY <3>1, <3>2, <3>3, <3>5, SumRemove
    <3>8. BytesOf(T, f) = Plus(f[x], BytesOf(U, f))
      BY <3>1, <3>2, <3>5, SumRemove
    <3> QED
      BY <1>0, <3>4, <3>6, <3>7, <3>8, PlusAssociates
  <2> QED
    BY <2>1, <2>2
<1> HIDE DEF F
<1>2. SUBSET S \subseteq F
  BY <1>1, SubsetInduction
<1> QED
  BY <1>2 DEF F

\* The sum of the sums of two functions.
LEMMA SumPlus ==
  ASSUME NEW S, IsFiniteSet(S), NEW f, OnVec(f, S), NEW g, OnVec(g, S),
         NEW h, \A x \in S : h[x] = Plus(f[x], g[x])
  PROVE  BytesOf(S, h) = Plus(BytesOf(S, f), BytesOf(S, g))
<1> DEFINE F == {T \in SUBSET S : BytesOf(T, h) = Plus(BytesOf(T, f), BytesOf(T, g))}
<1>1. ASSUME NEW T \in SUBSET S, \A U \in SUBSET T : U # T => U \in F
      PROVE  T \in F
  <2>1. CASE T = {}
    BY <2>1, SumEmpty, PlusZero, ZeroType
  <2>2. CASE T # {}
    <3> DEFINE x == First(T)
               U == T \ {x}
    <3>1. x \in T /\ IsFiniteSet(T) /\ IsFiniteSet(U)
      BY <2>2, FS_Subset DEF First
    <3>2. /\ BytesOf(T, h) = Plus(h[x], BytesOf(U, h))
          /\ BytesOf(T, f) = Plus(f[x], BytesOf(U, f))
          /\ BytesOf(T, g) = Plus(g[x], BytesOf(U, g))
      BY <2>2, <3>1, SumFirst
    <3> HIDE DEF x
    <3>3. BytesOf(U, h) = Plus(BytesOf(U, f), BytesOf(U, g))
      BY <1>1, <3>1
    <3>4. OnVec(f, U) /\ OnVec(g, U)
      BY DEF OnVec
    <3>5. /\ f[x] \in Vec /\ g[x] \in Vec /\ h[x] = Plus(f[x], g[x])
          /\ BytesOf(U, f) \in Vec /\ BytesOf(U, g) \in Vec
      BY <3>1, <3>4, SumType DEF OnVec
    <3> QED
      BY <3>2, <3>3, <3>5, PlusExchange
  <2> QED
    BY <2>1, <2>2
<1> HIDE DEF F
<1>2. SUBSET S \subseteq F
  BY <1>1, SubsetInduction
<1> QED
  BY <1>2 DEF F

LEMMA SumZero ==
  ASSUME NEW S, IsFiniteSet(S), NEW f, \A x \in S : f[x] = Zero
  PROVE  BytesOf(S, f) = Zero
<1> DEFINE F == {T \in SUBSET S : BytesOf(T, f) = Zero}
<1>1. ASSUME NEW T \in SUBSET S, \A U \in SUBSET T : U # T => U \in F
      PROVE  T \in F
  <2>1. CASE T = {}
    BY <2>1, SumEmpty
  <2>2. CASE T # {}
    <3>1. First(T) \in T /\ IsFiniteSet(T)
      BY <2>2, FS_Subset DEF First
    <3>2. BytesOf(T \ {First(T)}, f) = Zero
      BY <1>1, <3>1
    <3>3. f[First(T)] = Zero
      BY <3>1
    <3> QED
      BY <2>2, <3>1, <3>2, <3>3, SumFirst, PlusZero, ZeroType
  <2> QED
    BY <2>1, <2>2
<1> HIDE DEF F
<1>2. SUBSET S \subseteq F
  BY <1>1, SubsetInduction
<1> QED
  BY <1>2 DEF F

\* Sums grow with what is summed, and with the set.
LEMMA SumAtMost ==
  ASSUME NEW S, IsFiniteSet(S), NEW f, OnVec(f, S), NEW g, OnVec(g, S),
         \A x \in S : AtMost(f[x], g[x])
  PROVE  AtMost(BytesOf(S, f), BytesOf(S, g))
<1> DEFINE F == {T \in SUBSET S : AtMost(BytesOf(T, f), BytesOf(T, g))}
<1>1. ASSUME NEW T \in SUBSET S, \A U \in SUBSET T : U # T => U \in F
      PROVE  T \in F
  <2>1. CASE T = {}
    <3>1. BytesOf(T, f) = Zero /\ BytesOf(T, g) = Zero
      BY <2>1, SumEmpty
    <3> QED
      BY <3>1, ZeroType DEF AtMost
  <2>2. CASE T # {}
    <3> DEFINE x == First(T)
               U == T \ {x}
    <3>1. x \in T /\ IsFiniteSet(T) /\ IsFiniteSet(U)
      BY <2>2, FS_Subset DEF First
    <3>2. /\ BytesOf(T, f) = Plus(f[x], BytesOf(U, f))
          /\ BytesOf(T, g) = Plus(g[x], BytesOf(U, g))
      BY <2>2, <3>1, SumFirst
    <3> HIDE DEF x
    <3>3. AtMost(BytesOf(U, f), BytesOf(U, g)) /\ AtMost(f[x], g[x])
      BY <1>1, <3>1
    <3>4. OnVec(f, U) /\ OnVec(g, U)
      BY DEF OnVec
    <3>5. f[x] \in Vec /\ g[x] \in Vec /\ BytesOf(U, f) \in Vec /\ BytesOf(U, g) \in Vec
      BY <3>1, <3>4, SumType DEF OnVec
    <3>6. AtMost(Plus(f[x], BytesOf(U, f)), Plus(g[x], BytesOf(U, g)))
      BY <3>3, <3>5, PlusAtMost
    <3> QED
      BY <3>2, <3>6
  <2> QED
    BY <2>1, <2>2
<1> HIDE DEF F
<1>2. SUBSET S \subseteq F
  BY <1>1, SubsetInduction
<1> QED
  BY <1>2 DEF F

(******************************** buckets ************************************)

KeysOf(c) == {Key(c)[dim] : dim \in Dimensions}
Names == {"", Unattributed} \cup UNION {KeysOf(c) : c \in Connections}
Keys  == Nat \X (Dimensions \cup {"total"}) \X Names

IsBuckets(b) ==
  /\ b = [k \in DOMAIN b |-> b[k]] /\ IsFiniteSet(DOMAIN b) /\ DOMAIN b \subseteq Keys
  /\ OnVec(b, DOMAIN b)

\* What the buckets with a key in P hold.
Inside(b, P) == BytesOf(DOMAIN b \cap P, b)

LEMMA InsideType ==
  ASSUME NEW b, IsBuckets(b), NEW P
  PROVE  Inside(b, P) \in Vec
<1>1. IsFiniteSet(DOMAIN b \cap P) /\ OnVec(b, DOMAIN b \cap P)
  BY FS_Subset DEF IsBuckets, OnVec
<1> QED
  BY <1>1, SumType DEF Inside

LEMMA NoBucketsInside ==
  /\ IsBuckets(NoBuckets) /\ \A P : Inside(NoBuckets, P) = Zero
<1>1. DOMAIN NoBuckets = {} /\ NoBuckets = [k \in {} |-> NoBuckets[k]]
  BY DEF NoBuckets
<1>2. IsFiniteSet({})
  BY FS_EmptySet
<1>3. \A P : DOMAIN NoBuckets \cap P = {}
  BY <1>1
<1> HIDE DEF NoBuckets
<1> QED
  BY <1>1, <1>2, <1>3, SumEmpty DEF IsBuckets, Inside, OnVec

LEMMA AtType == ASSUME NEW b, IsBuckets(b), NEW k PROVE At(b, k) \in Vec
  BY ZeroType DEF At, IsBuckets, OnVec

LEMMA MergedType ==
  ASSUME NEW a, IsBuckets(a), NEW b, IsBuckets(b)
  PROVE  IsBuckets(Merged(a, b))
<1> DEFINE D == DOMAIN a \cup DOMAIN b
           m == Merged(a, b)
<1>1. DOMAIN m = D /\ m = [k \in D |-> m[k]] /\ \A k \in D : m[k] = Plus(At(a, k), At(b, k))
  BY DEF Merged
<1>2. IsFiniteSet(D) /\ D \subseteq Keys
  BY FS_Union DEF IsBuckets
<1>3. ASSUME NEW k \in D PROVE m[k] \in Vec
  <2>1. At(a, k) \in Vec /\ At(b, k) \in Vec
    BY AtType
  <2> QED
    BY <1>1, <2>1, PlusType
<1> HIDE DEF m, D
<1>4. IsBuckets(m)
  BY <1>1, <1>2, <1>3 DEF IsBuckets, OnVec
<1> QED
  BY <1>4 DEF m

\* Over a larger set of keys nothing is added.
LEMMA InsideAt ==
  ASSUME NEW b, IsBuckets(b), NEW P, NEW D, IsFiniteSet(D), DOMAIN b \subseteq D,
         NEW f, \A k \in D : f[k] = At(b, k)
  PROVE  BytesOf(D \cap P, f) = Inside(b, P)
<1> DEFINE S == DOMAIN b \cap P
           R == (D \cap P) \ S
<1>1. IsFiniteSet(S) /\ IsFiniteSet(R)
  BY FS_Subset
<1>2. S \cap R = {} /\ D \cap P = S \cup R /\ S \cup R \subseteq D
  OBVIOUS
<1>3. OnVec(f, S \cup R)
  BY <1>2, AtType DEF OnVec
<1>4. BytesOf(S, f) = Inside(b, P)
  <2>1. \A k \in S : f[k] = b[k]
    BY DEF At
  <2> QED
    BY <1>1, <2>1, SumSame DEF Inside
<1>5. BytesOf(R, f) = Zero
  <2>1. \A k \in R : f[k] = Zero
    BY DEF At
  <2> QED
    BY <1>1, <2>1, SumZero
<1>6. BytesOf(D \cap P, f) = Plus(BytesOf(S, f), BytesOf(R, f))
  BY <1>1, <1>2, <1>3, SumUnion
<1> QED
  BY <1>4, <1>5, <1>6, InsideType, PlusZero

\* Merging adds what both hold, whatever the keys.
LEMMA MergedInside ==
  ASSUME NEW a, IsBuckets(a), NEW b, IsBuckets(b), NEW P
  PROVE  Inside(Merged(a, b), P) = Plus(Inside(a, P), Inside(b, P))
<1> DEFINE D == DOMAIN a \cup DOMAIN b
           m == Merged(a, b)
           f == [k \in D |-> At(a, k)]
           g == [k \in D |-> At(b, k)]
<1>1. IsFiniteSet(D) /\ IsFiniteSet(D \cap P) /\ DOMAIN a \subseteq D /\ DOMAIN b \subseteq D
  <2>1. IsFiniteSet(D)
    BY FS_Union DEF IsBuckets
  <2> QED
    BY <2>1, FS_Subset
<1>2. DOMAIN m = D /\ \A k \in D : m[k] = Plus(At(a, k), At(b, k))
  BY DEF Merged
<1>3. /\ \A k \in D : f[k] = At(a, k) /\ g[k] = At(b, k)
      /\ OnVec(f, D \cap P) /\ OnVec(g, D \cap P)
  BY AtType DEF OnVec
<1> HIDE DEF D, m, f, g
<1>4. \A k \in D \cap P : m[k] = Plus(f[k], g[k])
  BY <1>2, <1>3
<1>5. BytesOf(D \cap P, m) = Plus(BytesOf(D \cap P, f), BytesOf(D \cap P, g))
  BY <1>1, <1>3, <1>4, SumPlus
<1>6. BytesOf(D \cap P, f) = Inside(a, P)
  BY <1>1, <1>3, InsideAt
<1>7. BytesOf(D \cap P, g) = Inside(b, P)
  BY <1>1, <1>3, InsideAt
<1>8. Inside(m, P) = BytesOf(D \cap P, m)
  BY <1>2 DEF Inside
<1> QED
  BY <1>5, <1>6, <1>7, <1>8 DEF m

\* Deleting rows leaves what the others hold.
LEMMA RestrictInside ==
  ASSUME NEW b, IsBuckets(b), NEW C, C \subseteq DOMAIN b, NEW P
  PROVE  IsBuckets(Restrict(b, C)) /\ Inside(Restrict(b, C), P) = Inside(b, P \cap C)
<1> DEFINE r == Restrict(b, C)
<1>1. DOMAIN r = C /\ r = [k \in C |-> r[k]] /\ \A k \in C : r[k] = b[k]
  BY DEF Restrict
<1>2. IsFiniteSet(C) /\ IsFiniteSet(C \cap P)
  BY FS_Subset DEF IsBuckets
<1>3. C \cap P = DOMAIN b \cap (P \cap C)
  OBVIOUS
<1> HIDE DEF r
<1>4. IsBuckets(r)
  BY <1>1, <1>2 DEF IsBuckets, OnVec
<1>5. BytesOf(C \cap P, r) = BytesOf(C \cap P, b)
  BY <1>1, <1>2, SumSame
<1> QED
  BY <1>1, <1>3, <1>4, <1>5 DEF Inside, r

LEMMA InsideUnion ==
  ASSUME NEW b, IsBuckets(b), NEW P, NEW Q, P \cap Q = {}
  PROVE  Inside(b, P \cup Q) = Plus(Inside(b, P), Inside(b, Q))
<1> DEFINE S == DOMAIN b \cap P
           R == DOMAIN b \cap Q
<1>1. IsFiniteSet(S) /\ IsFiniteSet(R) /\ OnVec(b, S \cup R)
  BY FS_Subset DEF IsBuckets, OnVec
<1>2. S \cap R = {} /\ DOMAIN b \cap (P \cup Q) = S \cup R
  OBVIOUS
<1> HIDE DEF S, R
<1>3. BytesOf(S \cup R, b) = Plus(BytesOf(S, b), BytesOf(R, b))
  BY <1>1, <1>2, SumUnion
<1> QED
  BY <1>2, <1>3 DEF Inside, S, R

LEMMA PlusMore ==
  ASSUME NEW a \in Vec, NEW b \in Vec
  PROVE  AtMost(a, Plus(a, b)) /\ AtMost(b, Plus(a, b))
  BY PlusType DEF AtMost, Vec

LEMMA InsideMore ==
  ASSUME NEW b, IsBuckets(b), NEW P, NEW Q, P \subseteq Q
  PROVE  AtMost(Inside(b, P), Inside(b, Q))
<1>1. P \cup (Q \ P) = Q /\ P \cap (Q \ P) = {}
  OBVIOUS
<1>2. Inside(b, Q) = Plus(Inside(b, P), Inside(b, Q \ P))
  BY <1>1, InsideUnion
<1> QED
  BY <1>2, InsideType, PlusMore

\* Keys that are added to: one in every dimension of `keys`.
IsNames(keys) ==
  /\ DOMAIN keys \in {{"total"}, Dimensions}
  /\ \A dim \in DOMAIN keys : keys[dim] \in Names
Booked(m, keys) == {<<m, dim, keys[dim]>> : dim \in DOMAIN keys}

LEMMA BookedFinite ==
  ASSUME NEW m \in Nat, NEW keys, IsNames(keys)
  PROVE  IsFiniteSet(Booked(m, keys)) /\ Booked(m, keys) \subseteq Keys
<1> DEFINE key(dim) == <<m, dim, keys[dim]>>
<1>1. ASSUME DOMAIN keys = {"total"} PROVE IsFiniteSet(Booked(m, keys))
  <2>1. Booked(m, keys) = {key("total")}
    BY <1>1 DEF Booked
  <2> QED
    BY <2>1, FS_Singleton
<1>2. ASSUME DOMAIN keys = Dimensions PROVE IsFiniteSet(Booked(m, keys))
  <2> DEFINE two == {key("proxy")} \cup {key("process")}
  <2>1. Booked(m, keys) = two \cup {key("host")}
    BY <1>2 DEF Booked, Dimensions
  <2>2. IsFiniteSet({key("proxy")}) /\ IsFiniteSet({key("process")}) /\ IsFiniteSet({key("host")})
    BY FS_Singleton
  <2> HIDE DEF key
  <2>3. IsFiniteSet(two)
    BY <2>2, FS_Union
  <2> HIDE DEF two
  <2>4. IsFiniteSet(two \cup {key("host")})
    BY <2>2, <2>3, FS_Union
  <2> QED
    BY <2>1, <2>4
<1>3. IsFiniteSet(Booked(m, keys))
  BY <1>1, <1>2 DEF IsNames
<1>4. DOMAIN keys \subseteq Dimensions \cup {"total"}
  BY DEF IsNames
<1>5. Booked(m, keys) \subseteq Keys
  BY <1>4 DEF Booked, Keys, IsNames
<1> QED
  BY <1>3, <1>5

LEMMA ManyIsBuckets ==
  ASSUME NEW S, IsFiniteSet(S), S \subseteq Keys, NEW n \in Vec
  PROVE  IsBuckets([k \in S |-> n])
  BY DEF IsBuckets, OnVec

LEMMA AddType ==
  ASSUME NEW b, IsBuckets(b), NEW m \in Nat, NEW keys, IsNames(keys), NEW n \in Vec
  PROVE  IsBuckets(Add(b, m, keys, n))
<1>1. IsBuckets([k \in Booked(m, keys) |-> n])
  BY BookedFinite, ManyIsBuckets
<1> QED
  BY <1>1, MergedType DEF Add, Booked

\* Add adds n where one of its keys is in P.
LEMMA AddInside ==
  ASSUME NEW b, IsBuckets(b), NEW m \in Nat, NEW keys, IsNames(keys), NEW n \in Vec,
         NEW P, NEW k, Booked(m, keys) \cap P = {k}
  PROVE  Inside(Add(b, m, keys, n), P) = Plus(Inside(b, P), n)
<1> DEFINE c == [x \in Booked(m, keys) |-> n]
<1>1. IsBuckets(c) /\ DOMAIN c = Booked(m, keys) /\ c[k] = n
  BY BookedFinite, ManyIsBuckets
<1> HIDE DEF c
<1>2. Inside(c, P) = n
  <2>1. BytesOf({k}, c) = Plus(n, BytesOf({}, c))
    <3>1. IsFiniteSet({k}) /\ OnVec(c, {k}) /\ {k} \ {k} = {} /\ k \in {k}
      BY <1>1, FS_Singleton DEF OnVec
    <3> QED
      BY <1>1, <3>1, SumRemove
  <2> QED
    BY <1>1, <2>1, SumEmpty, PlusZero DEF Inside
<1>3. CASE n = Zero
  BY <1>3, InsideType, PlusZero DEF Add
<1>4. CASE n # Zero
  <2>1. Add(b, m, keys, n) = Merged(b, c)
    BY <1>4 DEF Add, c, Booked
  <2> QED
    BY <1>1, <1>2, <2>1, MergedInside
<1> QED
  BY <1>3, <1>4

LEMMA AddOutside ==
  ASSUME NEW b, IsBuckets(b), NEW m \in Nat, NEW keys, IsNames(keys), NEW n \in Vec,
         NEW P, Booked(m, keys) \cap P = {}
  PROVE  Inside(Add(b, m, keys, n), P) = Inside(b, P)
<1> DEFINE c == [x \in Booked(m, keys) |-> n]
<1>1. IsBuckets(c) /\ DOMAIN c = Booked(m, keys)
  BY BookedFinite, ManyIsBuckets
<1> HIDE DEF c
<1>2. Inside(c, P) = Zero
  BY <1>1, SumEmpty DEF Inside
<1>3. n # Zero => Add(b, m, keys, n) = Merged(b, c)
  BY DEF Add, c, Booked
<1>4. n = Zero => Add(b, m, keys, n) = b
  BY DEF Add
<1> QED
  BY <1>1, <1>2, <1>3, <1>4, MergedInside, InsideType, PlusZero

(************************* what one snapshot adds ****************************)

AllDimensions == Dimensions \cup {"total"}
From(dim, since) == {k \in Keys : k[2] = dim /\ k[1] >= since}
Of(dim, key)     == {k \in Keys : k[2] = dim /\ k[3] = key}
During(m)        == {k \in Keys : k[2] = "total" /\ k[1] = m}
When(c, n)       == IF c THEN n ELSE Zero

LEMMA DimensionsDiffer == "total" \notin Dimensions
  BY DEF Dimensions

LEMMA WhenType == ASSUME NEW n \in Vec, NEW c \in BOOLEAN PROVE When(c, n) \in Vec
  BY ZeroType DEF When

LEMMA KnownNames ==
  /\ IsNames(TheTotal) /\ DOMAIN TheTotal = {"total"} /\ TheTotal["total"] = ""
  /\ IsNames(TheRest) /\ DOMAIN TheRest = Dimensions
  /\ \A dim \in Dimensions : TheRest[dim] = Unattributed
  /\ \A c \in Connections : IsNames(Key(c)) /\ DOMAIN Key(c) = Dimensions
<1>1. IsNames(TheTotal) /\ DOMAIN TheTotal = {"total"} /\ TheTotal["total"] = ""
  <2>1. DOMAIN TheTotal = {"total"} /\ TheTotal["total"] = ""
    BY DEF TheTotal
  <2> QED
    BY <2>1, Zenon DEF IsNames, Names
<1>2. /\ IsNames(TheRest) /\ DOMAIN TheRest = Dimensions
      /\ \A dim \in Dimensions : TheRest[dim] = Unattributed
  BY DEF IsNames, TheRest, Names
<1>3. ASSUME NEW c \in Connections PROVE IsNames(Key(c)) /\ DOMAIN Key(c) = Dimensions
  <2>1. DOMAIN Key(c) = Dimensions
    BY DEF Key, Dimensions
  <2>2. KeysOf(c) \subseteq Names
    BY DEF Names
  <2>3. \A dim \in Dimensions : Key(c)[dim] \in KeysOf(c)
    BY DEF KeysOf
  <2> QED
    BY <2>1, <2>2, <2>3 DEF IsNames
<1> QED
  BY <1>1, <1>2, <1>3

LEMMA AddFrom ==
  ASSUME NEW b, IsBuckets(b), NEW m \in Nat, NEW keys, IsNames(keys), NEW n \in Vec,
         NEW dim \in AllDimensions, NEW since \in Int
  PROVE  Inside(Add(b, m, keys, n), From(dim, since))
           = Plus(Inside(b, From(dim, since)), When(dim \in DOMAIN keys /\ m >= since, n))
<1> DEFINE P == From(dim, since)
<1>1. Booked(m, keys) \subseteq Keys
  BY BookedFinite
<1>2. CASE dim \in DOMAIN keys /\ m >= since
  <2>1. Booked(m, keys) \cap P = {<<m, dim, keys[dim]>>}
    BY <1>1, <1>2 DEF Booked, From
  <2>2. PICK k : Booked(m, keys) \cap P = {k}
    BY <2>1
  <2> HIDE DEF P
  <2>3. Inside(Add(b, m, keys, n), P) = Plus(Inside(b, P), n)
    BY <2>2, AddInside
  <2> QED
    BY <1>2, <2>3 DEF When, P
<1>3. CASE ~ (dim \in DOMAIN keys /\ m >= since)
  <2>1. Booked(m, keys) \cap P = {}
    BY <1>1, <1>3 DEF Booked, From
  <2> QED
    BY <1>3, <2>1, AddOutside, InsideType, PlusZero DEF When
<1> QED
  BY <1>2, <1>3

LEMMA AddDuring ==
  ASSUME NEW b, IsBuckets(b), NEW m \in Nat, NEW keys, IsNames(keys), NEW n \in Vec, NEW t \in Int
  PROVE  Inside(Add(b, m, keys, n), During(t))
           = Plus(Inside(b, During(t)), When("total" \in DOMAIN keys /\ m = t, n))
<1> DEFINE P == During(t)
<1>1. Booked(m, keys) \subseteq Keys
  BY BookedFinite
<1>2. CASE "total" \in DOMAIN keys /\ m = t
  <2>1. Booked(m, keys) \cap P = {<<m, "total", keys["total"]>>}
    BY <1>1, <1>2 DEF Booked, During
  <2>2. PICK k : Booked(m, keys) \cap P = {k}
    BY <2>1
  <2> HIDE DEF P
  <2>3. Inside(Add(b, m, keys, n), P) = Plus(Inside(b, P), n)
    BY <2>2, AddInside
  <2> QED
    BY <1>2, <2>3 DEF When, P
<1>3. CASE ~ ("total" \in DOMAIN keys /\ m = t)
  <2>1. Booked(m, keys) \cap P = {}
    BY <1>1, <1>3 DEF Booked, During
  <2> QED
    BY <1>3, <2>1, AddOutside, InsideType, PlusZero DEF When
<1> QED
  BY <1>2, <1>3

LEMMA AddOf ==
  ASSUME NEW b, IsBuckets(b), NEW m \in Nat, NEW keys, IsNames(keys), NEW n \in Vec,
         NEW dim \in AllDimensions, NEW key
  PROVE  Inside(Add(b, m, keys, n), Of(dim, key))
           = Plus(Inside(b, Of(dim, key)), When(dim \in DOMAIN keys /\ keys[dim] = key, n))
<1> DEFINE P == Of(dim, key)
<1>1. Booked(m, keys) \subseteq Keys
  BY BookedFinite
<1>2. CASE dim \in DOMAIN keys /\ keys[dim] = key
  <2>1. Booked(m, keys) \cap P = {<<m, dim, keys[dim]>>}
    BY <1>1, <1>2 DEF Booked, Of
  <2>2. PICK k : Booked(m, keys) \cap P = {k}
    BY <2>1
  <2> HIDE DEF P
  <2>3. Inside(Add(b, m, keys, n), P) = Plus(Inside(b, P), n)
    BY <2>2, AddInside
  <2> QED
    BY <1>2, <2>3 DEF When, P
<1>3. CASE ~ (dim \in DOMAIN keys /\ keys[dim] = key)
  <2>1. Booked(m, keys) \cap P = {}
    BY <1>1, <1>3 DEF Booked, Of
  <2> QED
    BY <1>3, <2>1, AddOutside, InsideType, PlusZero DEF When
<1> QED
  BY <1>2, <1>3

(****************************** one after the other **************************)

IsSeen(s) ==
  s = [c \in DOMAIN s |-> s[c]] /\ DOMAIN s \subseteq Connections /\ OnVec(s, DOMAIN s)

LEMMA LessType ==
  ASSUME NEW a \in Vec, NEW b \in Vec
  PROVE  /\ Less(a, b) \in Vec
         /\ \A d \in Directions : Less(a, b)[d] = IF a[d] > b[d] THEN a[d] - b[d] ELSE 0
<1>1. \A d \in Directions : a[d] \in Nat /\ b[d] \in Nat
  BY DEF Vec
<1> QED
  BY <1>1 DEF Less, Vec, Directions

LEMMA LeastType ==
  ASSUME NEW a \in Vec, NEW b \in Vec
  PROVE  Least(a, b) \in Vec /\ AtMost(Least(a, b), a) /\ AtMost(Least(a, b), b)
<1>1. \A d \in Directions : a[d] \in Nat /\ b[d] \in Nat
  BY DEF Vec
<1>2. \A d \in Directions : Least(a, b)[d] = IF a[d] < b[d] THEN a[d] ELSE b[d]
  BY DEF Least, Directions
<1>3. Least(a, b) \in Vec
  BY <1>1 DEF Least, Vec, Directions
<1> QED
  BY <1>1, <1>2, <1>3 DEF AtMost

\* What is not more than a is left when it is taken from a.
LEMMA LessRest ==
  ASSUME NEW a \in Vec, NEW b \in Vec, AtMost(b, a)
  PROVE  Plus(b, Less(a, b)) = a /\ Plus(Less(a, b), b) = a
<1>1. Less(a, b) \in Vec
  BY LessType
<1>2. ASSUME NEW d \in Directions PROVE Plus(b, Less(a, b))[d] = a[d]
  <2>1. a[d] \in Nat /\ b[d] \in Nat /\ b[d] <= a[d]
    BY DEF Vec, AtMost
  <2>2. Less(a, b)[d] = IF a[d] > b[d] THEN a[d] - b[d] ELSE 0
    BY LessType
  <2>3. Plus(b, Less(a, b))[d] = b[d] + Less(a, b)[d]
    BY <1>1, PlusType
  <2> QED
    BY <2>1, <2>2, <2>3
<1> QED
  BY <1>1, <1>2, PlusType, PlusCommutes, SameVec

Grows(counters, seen, c) == Less(counters[c], At(seen, c))
IsShares(g, pending, seen, grown, order, counters, m, N) ==
  g = [n \in 0 .. N |->
         IF n = 0 THEN [left |-> grown, pending |-> pending]
         ELSE [left |-> Less(g[n - 1].left,
                             Least(Grows(counters, seen, order[n]), g[n - 1].left)),
               pending |-> Add(g[n - 1].pending, m, Key(order[n]),
                               Least(Grows(counters, seen, order[n]), g[n - 1].left))]]

LEMMA AttributeIs ==
  ASSUME NEW pending, NEW seen, NEW grown, NEW order, NEW counters, NEW m
  PROVE  Attribute(pending, seen, grown, order, counters, m)
           = (CHOOSE g : IsShares(g, pending, seen, grown, order, counters, m, Len(order)))[Len(order)]
  BY DEF Attribute, IsShares, Grows

\* Induction over the natural numbers, on a set.
LEMMA NatSteps ==
  ASSUME NEW T, 0 \in T, \A n \in Nat : n \in T => n + 1 \in T
  PROVE  Nat \subseteq T
<1> SUFFICES ASSUME Nat \ T # {} PROVE FALSE
  OBVIOUS
<1>1. PICK x \in Nat \ T : \A y \in Nat \ T : x <= y
  BY NatMin
<1>2. x # 0 /\ x - 1 \in Nat /\ x - 1 \in T
  BY <1>1
<1> QED
  BY <1>1, <1>2

\* Attributing in an order is defined at every step.
LEMMA SharesExist ==
  ASSUME NEW pending, NEW seen, NEW grown, NEW order, NEW counters, NEW m, NEW N \in Nat
  PROVE  \E g : IsShares(g, pending, seen, grown, order, counters, m, N)
<1> DEFINE Is(g, n) == IsShares(g, pending, seen, grown, order, counters, m, n)
           T == {n \in Nat : \E g : Is(g, n)}
<1>1. 0 \in T
  <2>1. Is([n \in 0 .. 0 |-> [left |-> grown, pending |-> pending]], 0)
    BY DEF IsShares
  <2> QED
    BY <2>1
<1>2. ASSUME NEW n \in T PROVE n + 1 \in T
  <2>1. PICK g : Is(g, n)
    OBVIOUS
  <2> DEFINE share == Least(Grows(counters, seen, order[n + 1]), g[n].left)
             last == [left |-> Less(g[n].left, share),
                      pending |-> Add(g[n].pending, m, Key(order[n + 1]), share)]
             h == [k \in 0 .. n + 1 |-> IF k = n + 1 THEN last ELSE g[k]]
  <2>2. \A k \in 0 .. n : h[k] = g[k]
    OBVIOUS
  <2>3. h[n + 1] = last
    OBVIOUS
  <2>4. Is(h, n + 1)
    <3>1. \A k \in 0 .. n : h[k] =
            IF k = 0 THEN [left |-> grown, pending |-> pending]
            ELSE [left |-> Less(h[k - 1].left, Least(Grows(counters, seen, order[k]), h[k - 1].left)),
                  pending |-> Add(h[k - 1].pending, m, Key(order[k]),
                                  Least(Grows(counters, seen, order[k]), h[k - 1].left))]
      <4>1. \A k \in 0 .. n : g[k] =
            IF k = 0 THEN [left |-> grown, pending |-> pending]
            ELSE [left |-> Less(g[k - 1].left, Least(Grows(counters, seen, order[k]), g[k - 1].left)),
                  pending |-> Add(g[k - 1].pending, m, Key(order[k]),
                                  Least(Grows(counters, seen, order[k]), g[k - 1].left))]
        BY <2>1 DEF IsShares
      <4>2. \A k \in 0 .. n : k # 0 => k - 1 \in 0 .. n
        OBVIOUS
      <4> HIDE DEF h
      <4> QED
        BY <2>2, <4>1, <4>2
    <3>2. h[n + 1] = [left |-> Less(h[n].left, Least(Grows(counters, seen, order[n + 1]), h[n].left)),
                      pending |-> Add(h[n].pending, m, Key(order[n + 1]),
                                      Least(Grows(counters, seen, order[n + 1]), h[n].left))]
      BY <2>2, <2>3
    <3>3. h = [k \in 0 .. n + 1 |-> h[k]]
      OBVIOUS
    <3>4. \A k \in 0 .. n + 1 : k \in 0 .. n \/ (k = n + 1 /\ k # 0 /\ k - 1 = n)
      OBVIOUS
    <3> HIDE DEF h
    <3>5. h = [k \in 0 .. n + 1 |->
            IF k = 0 THEN [left |-> grown, pending |-> pending]
            ELSE [left |-> Less(h[k - 1].left, Least(Grows(counters, seen, order[k]), h[k - 1].left)),
                  pending |-> Add(h[k - 1].pending, m, Key(order[k]),
                                  Least(Grows(counters, seen, order[k]), h[k - 1].left))]]
      BY <3>1, <3>2, <3>3, <3>4
    <3> QED
      BY <3>5 DEF IsShares
  <2> HIDE DEF Is
  <2> QED
    BY <2>4
<1> HIDE DEF Is
<1>3. Nat \subseteq T
  <2>1. \A n \in Nat : n \in T => n + 1 \in T
    BY <1>2
  <2> HIDE DEF T
  <2> QED
    BY <1>1, <2>1, NatSteps
<1> QED
  BY <1>3 DEF Is

LEMMA Shares ==
  ASSUME NEW pending, NEW seen, NEW grown, NEW order, NEW counters, NEW m, Len(order) \in Nat
  PROVE  \E g :
    /\ Attribute(pending, seen, grown, order, counters, m) = g[Len(order)]
    /\ g[0] = [left |-> grown, pending |-> pending]
    /\ \A n \in 1 .. Len(order) : \E share :
         /\ share = Least(Grows(counters, seen, order[n]), g[n - 1].left)
         /\ g[n].left = Less(g[n - 1].left, share)
         /\ g[n].pending = Add(g[n - 1].pending, m, Key(order[n]), share)
<1> DEFINE Is(g) == IsShares(g, pending, seen, grown, order, counters, m, Len(order))
           g == CHOOSE f : Is(f)
<1>1. Is(g)
  BY SharesExist
<1>2. Attribute(pending, seen, grown, order, counters, m) = g[Len(order)]
  BY AttributeIs
<1> HIDE DEF g
<1>3. g[0] = [left |-> grown, pending |-> pending]
  BY <1>1 DEF IsShares
<1>4. \A n \in 1 .. Len(order) :
    g[n] = [left |-> Less(g[n - 1].left, Least(Grows(counters, seen, order[n]), g[n - 1].left)),
            pending |-> Add(g[n - 1].pending, m, Key(order[n]),
                            Least(Grows(counters, seen, order[n]), g[n - 1].left))]
  BY <1>1 DEF IsShares
<1>5. ASSUME NEW n \in 1 .. Len(order)
      PROVE  \E share :
               /\ share = Least(Grows(counters, seen, order[n]), g[n - 1].left)
               /\ g[n].left = Less(g[n - 1].left, share)
               /\ g[n].pending = Add(g[n - 1].pending, m, Key(order[n]), share)
  <2> DEFINE share == Least(Grows(counters, seen, order[n]), g[n - 1].left)
  <2>1. g[n] = [left |-> Less(g[n - 1].left, share),
                pending |-> Add(g[n - 1].pending, m, Key(order[n]), share)]
    BY <1>4
  <2> HIDE DEF share
  <2>2. g[n].left = Less(g[n - 1].left, share)
        /\ g[n].pending = Add(g[n - 1].pending, m, Key(order[n]), share)
    BY <2>1
  <2>3. share = Least(Grows(counters, seen, order[n]), g[n - 1].left)
    BY DEF share
  <2> QED
    BY <2>2, <2>3
<1> QED
  BY <1>2, <1>3, <1>5

Growth(counters, seen, S) == [c \in S |-> Grows(counters, seen, c)]
Sharing(S, dim, key) == {c \in S : Key(c)[dim] = key}

\* What attributing does to the buckets b, of which `all` bytes were to be shared
\* among the connections in S, when `left` are left and the buckets are now p.
Shared(b, p, all, left, counters, seen, S, m) ==
  /\ left \in Vec /\ IsBuckets(p)
  /\ \A dim \in Dimensions, since \in Int :
       Plus(Inside(p, From(dim, since)), When(m >= since, left))
         = Plus(Inside(b, From(dim, since)), When(m >= since, all))
  /\ \A since \in Int : Inside(p, From("total", since)) = Inside(b, From("total", since))
  /\ \A t \in Int : Inside(p, During(t)) = Inside(b, During(t))
  /\ \A dim \in Dimensions, key \in Names :
       AtMost(Inside(p, Of(dim, key)),
              Plus(Inside(b, Of(dim, key)),
                   BytesOf(Sharing(S, dim, key), Growth(counters, seen, S))))

LEMMA AtSeenType == ASSUME NEW s, IsSeen(s), NEW c PROVE At(s, c) \in Vec
  BY ZeroType DEF At, IsSeen, OnVec

LEMMA AtMostRefl == ASSUME NEW a \in Vec PROVE AtMost(a, a)
  BY DEF AtMost, Vec

LEMMA AtMostTrans ==
  ASSUME NEW a \in Vec, NEW b \in Vec, NEW c \in Vec, AtMost(a, b), AtMost(b, c)
  PROVE  AtMost(a, c)
  BY DEF AtMost, Vec

LEMMA WhenPlus ==
  ASSUME NEW a \in Vec, NEW b \in Vec, NEW c \in BOOLEAN
  PROVE  Plus(When(c, a), When(c, b)) = When(c, Plus(a, b))
  BY ZeroType, PlusZero DEF When

\* One connection more takes its share.
LEMMA ShareStep ==
  ASSUME NEW b, IsBuckets(b), NEW p, NEW all \in Vec, NEW left, NEW D \in SUBSET Connections,
         NEW c \in Connections \ D, NEW seen, IsSeen(seen), NEW counters,
         \A x \in D \cup {c} : counters[x] \in Vec, NEW m \in Nat,
         Shared(b, p, all, left, counters, seen, D, m), NEW share,
         share = Least(Grows(counters, seen, c), left)
  PROVE  Shared(b, Add(p, m, Key(c), share), all, Less(left, share), counters, seen, D \cup {c}, m)
<1> DEFINE q == Add(p, m, Key(c), share)
           rest == Less(left, share)
           C == D \cup {c}
<1>1. left \in Vec /\ IsBuckets(p)
  BY DEF Shared
<1>2. \A x \in C : Grows(counters, seen, x) \in Vec
  BY AtSeenType, LessType DEF Grows
<1>3. share \in Vec /\ AtMost(share, left) /\ AtMost(share, Grows(counters, seen, c))
  BY <1>1, <1>2, LeastType
<1>4. rest \in Vec /\ Plus(share, rest) = left
  BY <1>1, <1>3, LessType, LessRest
<1>5. IsNames(Key(c)) /\ DOMAIN Key(c) = Dimensions
  BY KnownNames
<1>6. IsBuckets(q)
  BY <1>1, <1>3, <1>5, AddType
<1>7. ASSUME NEW dim \in Dimensions, NEW since \in Int
      PROVE  Plus(Inside(q, From(dim, since)), When(m >= since, rest))
               = Plus(Inside(b, From(dim, since)), When(m >= since, all))
  <2> DEFINE I == Inside(p, From(dim, since))
             w == m >= since
  <2>1. dim \in AllDimensions /\ (dim \in DOMAIN Key(c) /\ m >= since) = w
    BY <1>5 DEF AllDimensions
  <2>2. Inside(q, From(dim, since)) = Plus(I, When(w, share))
    BY <1>1, <1>3, <1>5, <2>1, AddFrom
  <2>3. I \in Vec /\ When(w, share) \in Vec /\ When(w, rest) \in Vec
    BY <1>1, <1>3, <1>4, InsideType, ZeroType DEF When
  <2> HIDE DEF I, w
  <2>4. Plus(Plus(I, When(w, share)), When(w, rest)) = Plus(I, Plus(When(w, share), When(w, rest)))
    BY <2>3, PlusAssociates
  <2>5. Plus(When(w, share), When(w, rest)) = When(w, left)
    BY <1>1, <1>3, <1>4, ZeroType, PlusZero DEF When
  <2>6. Plus(I, When(w, left)) = Plus(Inside(b, From(dim, since)), When(w, all))
    BY DEF Shared, I, w
  <2> QED
    BY <2>2, <2>4, <2>5, <2>6 DEF w
<1>8. ASSUME NEW since \in Int
      PROVE  Inside(q, From("total", since)) = Inside(b, From("total", since))
  <2>1. "total" \in AllDimensions /\ "total" \notin DOMAIN Key(c)
    BY <1>5, DimensionsDiffer DEF AllDimensions
  <2>2. Inside(q, From("total", since))
          = Plus(Inside(p, From("total", since)), When("total" \in DOMAIN Key(c) /\ m >= since, share))
    BY <1>1, <1>3, <1>5, <2>1, AddFrom
  <2>3. Inside(q, From("total", since)) = Inside(p, From("total", since))
    BY <1>1, <2>1, <2>2, InsideType, PlusZero DEF When
  <2> QED
    BY <2>3 DEF Shared
<1>9. ASSUME NEW t \in Int PROVE Inside(q, During(t)) = Inside(b, During(t))
  <2>1. "total" \notin DOMAIN Key(c)
    BY <1>5, DimensionsDiffer
  <2>2. Inside(q, During(t)) = Plus(Inside(p, During(t)), When("total" \in DOMAIN Key(c) /\ m = t, share))
    BY <1>1, <1>3, <1>5, AddDuring
  <2>3. Inside(q, During(t)) = Inside(p, During(t))
    BY <1>1, <2>1, <2>2, InsideType, PlusZero DEF When
  <2> QED
    BY <2>3 DEF Shared
<1>10. ASSUME NEW dim \in Dimensions, NEW key \in Names
       PROVE  AtMost(Inside(q, Of(dim, key)),
                     Plus(Inside(b, Of(dim, key)),
                          BytesOf(Sharing(C, dim, key), Growth(counters, seen, C))))
  <2> DEFINE I == Inside(p, Of(dim, key))
             J == Inside(b, Of(dim, key))
             w == Key(c)[dim] = key
             G == Growth(counters, seen, C)
             B == BytesOf(Sharing(D, dim, key), Growth(counters, seen, D))
             E == BytesOf(Sharing(C, dim, key), G)
  <2>1. dim \in AllDimensions /\ (dim \in DOMAIN Key(c) /\ Key(c)[dim] = key) = w
    BY <1>5 DEF AllDimensions
  <2>2. Inside(q, Of(dim, key)) = Plus(I, When(w, share))
    BY <1>1, <1>3, <1>5, <2>1, AddOf
  <2>3. AtMost(I, Plus(J, B))
    BY DEF Shared
  <2>4. /\ IsFiniteSet(Sharing(D, dim, key)) /\ IsFiniteSet(Sharing(C, dim, key))
        /\ OnVec(G, Sharing(C, dim, key)) /\ OnVec(G, Sharing(D, dim, key))
    <3>1. Sharing(D, dim, key) \subseteq Connections /\ Sharing(C, dim, key) \subseteq Connections
      BY DEF Sharing
    <3>2. OnVec(G, C)
      BY <1>2 DEF OnVec, Growth
    <3> QED
      BY <3>1, <3>2, FS_Subset, TrafficBounds DEF OnVec, Sharing
  <2>5. B = BytesOf(Sharing(D, dim, key), G)
    <3>1. \A x \in Sharing(D, dim, key) : Growth(counters, seen, D)[x] = G[x]
      BY DEF Sharing, Growth
    <3> HIDE DEF G
    <3> QED
      BY <2>4, <3>1, SumSame
  <2>6. I \in Vec /\ J \in Vec /\ B \in Vec /\ E \in Vec
    BY <1>1, <2>4, <2>5, InsideType, SumType
  <2>7. E = Plus(B, When(w, G[c]))
    <3>1. CASE w
      <4>1. c \in Sharing(C, dim, key) /\ Sharing(C, dim, key) \ {c} = Sharing(D, dim, key)
        BY <3>1 DEF Sharing
      <4> HIDE DEF G
      <4>2. E = Plus(G[c], BytesOf(Sharing(C, dim, key) \ {c}, G))
        BY <2>4, <4>1, SumRemove
      <4>3. G[c] \in Vec
        BY <2>4, <4>1 DEF OnVec
      <4> HIDE DEF E, B
      <4>4. E = Plus(B, G[c])
        BY <2>5, <2>6, <4>1, <4>2, <4>3, PlusCommutes
      <4> QED
        BY <3>1, <4>4 DEF When
    <3>2. CASE ~w
      <4>1. Sharing(C, dim, key) = Sharing(D, dim, key)
        BY <3>2 DEF Sharing
      <4> HIDE DEF E, B, G
      <4>2. E = B
        BY <2>5, <4>1 DEF E
      <4> QED
        BY <2>6, <3>2, <4>2, PlusZero DEF When
    <3> QED
      BY <3>1, <3>2
  <2>8. G[c] = Grows(counters, seen, c) /\ G[c] \in Vec
    BY <1>2 DEF Growth
  <2> HIDE DEF I, J, G, B, E, w
  <2>9. w \in BOOLEAN
    BY DEF w
  <2>10. /\ When(w, share) \in Vec /\ When(w, G[c]) \in Vec
         /\ AtMost(When(w, share), When(w, G[c]))
    BY <1>3, <2>8, <2>9, ZeroType, AtMostRefl DEF When
  <2>11. AtMost(Plus(I, When(w, share)), Plus(Plus(J, B), When(w, G[c])))
    BY <2>3, <2>6, <2>10, PlusType, PlusAtMost
  <2>12. Plus(Plus(J, B), When(w, G[c])) = Plus(J, E)
    BY <2>6, <2>7, <2>10, PlusAssociates
  <2> QED
    BY <2>2, <2>11, <2>12 DEF J, E, G
<1> HIDE DEF q, rest, C
<1>11. Shared(b, q, all, rest, counters, seen, C, m)
  BY <1>4, <1>6, <1>7, <1>8, <1>9, <1>10 DEF Shared
<1> QED
  BY <1>11 DEF q, rest, C

LEMMA ShareNone ==
  ASSUME NEW b, IsBuckets(b), NEW all \in Vec, NEW counters, NEW seen, NEW m \in Nat
  PROVE  Shared(b, b, all, all, counters, seen, {}, m)
<1>1. \A dim, key : Sharing({}, dim, key) = {}
  BY DEF Sharing
<1>2. \A dim, key : BytesOf(Sharing({}, dim, key), Growth(counters, seen, {})) = Zero
  BY <1>1, SumEmpty
<1>3. \A P : Inside(b, P) \in Vec /\ AtMost(Inside(b, P), Plus(Inside(b, P), Zero))
  BY InsideType, PlusZero, AtMostRefl
<1> QED
  BY <1>2, <1>3 DEF Shared

\* Attributing keeps every dimension with what is left equal to the total, and gives a
\* key at most what the counters of its connections grew by.
LEMMA AttributeShares ==
  ASSUME NEW b, IsBuckets(b), NEW seen, IsSeen(seen), NEW all \in Vec,
         NEW S \in SUBSET Connections, NEW order \in SetToSeqs(S), NEW counters \in [S -> Vec],
         NEW m \in Nat
  PROVE  LET r == Attribute(b, seen, all, order, counters, m) IN
         Shared(b, r.pending, all, r.left, counters, seen, S, m)
<1> DEFINE N == Cardinality(S)
           Done(n) == {order[i] : i \in 1 .. n}
<1>1. IsFiniteSet(S) /\ N \in Nat
  BY TrafficBounds, FS_Subset, FS_CardinalityType
<1>2. order \in [1 .. N -> S] /\ \A i, j \in 1 .. N : i # j => order[i] # order[j]
  BY DEF SetToSeqs
<1>3. Len(order) = N
  BY <1>1, <1>2
<1>4. Done(N) = S
  <2>1. order \in Injection(1 .. N, S)
    BY <1>2 DEF Injection, IsInjective
  <2>2. Cardinality(1 .. N) = N
    BY <1>1, FS_Interval
  <2>3. order \in Surjection(1 .. N, S)
    BY <1>1, <2>1, <2>2, FS_Injection
  <2> QED
    BY <1>2, <2>3 DEF Surjection
<1>5. PICK g :
    /\ Attribute(b, seen, all, order, counters, m) = g[N]
    /\ g[0] = [left |-> all, pending |-> b]
    /\ \A n \in 1 .. N : \E share :
         /\ share = Least(Grows(counters, seen, order[n]), g[n - 1].left)
         /\ g[n].left = Less(g[n - 1].left, share)
         /\ g[n].pending = Add(g[n - 1].pending, m, Key(order[n]), share)
  BY <1>1, <1>3, Shares
<1> DEFINE Good(n) == Shared(b, g[n].pending, all, g[n].left, counters, seen, Done(n), m)
           T == {n \in Nat : n <= N => Good(n)}
<1>6. Good(0)
  <2>1. Done(0) = {} /\ g[0].pending = b /\ g[0].left = all
    BY <1>5
  <2> HIDE DEF Done
  <2> QED
    BY <2>1, ShareNone
<1>7. ASSUME NEW n \in Nat, n + 1 <= N, Good(n) PROVE Good(n + 1)
  <2> DEFINE c == order[n + 1]
             D == Done(n)
  <2>1. n + 1 \in 1 .. N /\ n = (n + 1) - 1
    BY <1>1, <1>7
  <2>2. PICK share :
          /\ share = Least(Grows(counters, seen, c), g[n].left)
          /\ g[n + 1].left = Less(g[n].left, share)
          /\ g[n + 1].pending = Add(g[n].pending, m, Key(c), share)
    BY <1>5, <2>1
  <2>3. Done(n + 1) = D \cup {c}
    <3>1. 1 .. (n + 1) = (1 .. n) \cup {n + 1}
      OBVIOUS
    <3> QED
      BY <3>1
  <2>4. D \cup {c} \subseteq S /\ c \notin D
    BY <1>1, <1>2, <2>1
  <2> HIDE DEF c, Done, D
  <2>5. D \in SUBSET Connections /\ c \in Connections \ D
    BY <2>4
  <2>6. \A x \in D \cup {c} : counters[x] \in Vec
    BY <2>4
  <2>7. Shared(b, g[n].pending, all, g[n].left, counters, seen, D, m)
    BY <1>7 DEF D
  <2>8. Shared(b, g[n + 1].pending, all, g[n + 1].left, counters, seen, D \cup {c}, m)
    BY <2>2, <2>5, <2>6, <2>7, ShareStep
  <2> QED
    BY <2>3, <2>8
<1> HIDE DEF Good
<1>8. N \in T
  <2>1. 0 \in T
    BY <1>6
  <2>2. \A n \in Nat : n \in T => n + 1 \in T
    BY <1>1, <1>7
  <2> HIDE DEF T
  <2> QED
    BY <1>1, <2>1, <2>2, NatSteps
<1>9. Good(N)
  BY <1>1, <1>8
<1> QED
  BY <1>4, <1>5, <1>9 DEF Good

\* Every dimension adds up to the total, from any minute on.
Balanced(b) ==
  \A dim \in Dimensions, since \in Int : Inside(b, From(dim, since)) = Inside(b, From("total", since))

\* One connection's counter is read with its own history, or without any after a fall.
Known(acc, totals)   == IF Falls(acc, totals) THEN <<>> ELSE acc.seen
Counted(acc, totals) == IF Falls(acc, totals) THEN totals ELSE Less(totals, acc.totals)

\* What booking n bytes, of which the connections in S account for their growth, does.
Adds(b, p, n, m) ==
  /\ n \in Vec /\ IsBuckets(p)
  /\ Balanced(b) => Balanced(p)
  /\ \A since \in Int :
       Inside(p, From("total", since)) = Plus(Inside(b, From("total", since)), When(m >= since, n))
  /\ \A t \in Int : Inside(p, During(t)) = Plus(Inside(b, During(t)), When(m = t, n))
AddsShares(b, p, counters, seen, S) ==
  \A dim \in Dimensions, key \in Names \ {Unattributed} :
    AtMost(Inside(p, Of(dim, key)),
           Plus(Inside(b, Of(dim, key)), BytesOf(Sharing(S, dim, key), Growth(counters, seen, S))))

\* What is added to both sides cancels.
LEMMA SameSum ==
  ASSUME NEW a \in Vec, NEW b \in Vec, NEW c \in Vec, Plus(a, c) = Plus(b, c)
  PROVE  a = b
<1>1. ASSUME NEW d \in Directions PROVE a[d] = b[d]
  <2>1. a[d] + c[d] = b[d] + c[d]
    BY PlusType
  <2> QED
    BY <2>1 DEF Vec
<1> QED
  BY <1>1, SameVec

\* With what is left booked as the rest, every dimension is equal to the total again.
LEMMA ObserveAdds ==
  ASSUME NEW b, IsBuckets(b), NEW seen, IsSeen(seen), NEW n \in Vec,
         NEW S \in SUBSET Connections, NEW order \in SetToSeqs(S), NEW counters \in [S -> Vec],
         NEW m \in Nat
  PROVE  LET r == Attribute(Add(b, m, TheTotal, n), seen, n, order, counters, m)
             p == Add(r.pending, m, TheRest, r.left)
         IN  Adds(b, p, n, m) /\ AddsShares(b, p, counters, seen, S)
<1> DEFINE a == Add(b, m, TheTotal, n)
           r == Attribute(a, seen, n, order, counters, m)
           q == r.pending
           left == r.left
           p == Add(q, m, TheRest, left)
<1>1. IsBuckets(a)
  BY KnownNames, AddType
<1>2. Shared(a, q, n, left, counters, seen, S, m)
  <2> HIDE DEF a
  <2> QED
    BY <1>1, AttributeShares
<1>3. left \in Vec /\ IsBuckets(q)
  BY <1>2 DEF Shared
<1> HIDE DEF q, left, r
<1>4. IsBuckets(p)
  BY <1>3, KnownNames, AddType
<1>5. /\ "total" \in AllDimensions /\ "total" \in DOMAIN TheTotal /\ "total" \notin DOMAIN TheRest
      /\ \A dim \in Dimensions : dim \in AllDimensions /\ dim \notin DOMAIN TheTotal
                                 /\ dim \in DOMAIN TheRest
      /\ IsNames(TheTotal) /\ IsNames(TheRest)
  BY KnownNames, DimensionsDiffer DEF AllDimensions
<1>6. ASSUME NEW since \in Int
      PROVE  Inside(p, From("total", since))
               = Plus(Inside(b, From("total", since)), When(m >= since, n))
  <2>1. Inside(a, From("total", since))
          = Plus(Inside(b, From("total", since)), When("total" \in DOMAIN TheTotal /\ m >= since, n))
    BY <1>5, AddFrom
  <2>2. Inside(q, From("total", since)) = Inside(a, From("total", since))
    BY <1>2 DEF Shared
  <2>3. Inside(p, From("total", since))
          = Plus(Inside(q, From("total", since)), When("total" \in DOMAIN TheRest /\ m >= since, left))
    BY <1>3, <1>5, AddFrom
  <2>4. Inside(q, From("total", since)) \in Vec
    BY <1>3, InsideType
  <2> HIDE DEF a, p
  <2>5. Inside(p, From("total", since)) = Inside(q, From("total", since))
    BY <1>5, <2>3, <2>4, PlusZero DEF When
  <2> QED
    BY <1>5, <2>1, <2>2, <2>5 DEF When
<1>7. ASSUME NEW t \in Int
      PROVE  Inside(p, During(t)) = Plus(Inside(b, During(t)), When(m = t, n))
  <2>1. Inside(a, During(t))
          = Plus(Inside(b, During(t)), When("total" \in DOMAIN TheTotal /\ m = t, n))
    BY <1>5, AddDuring
  <2>2. Inside(q, During(t)) = Inside(a, During(t))
    BY <1>2 DEF Shared
  <2>3. Inside(p, During(t))
          = Plus(Inside(q, During(t)), When("total" \in DOMAIN TheRest /\ m = t, left))
    BY <1>3, <1>5, AddDuring
  <2>4. Inside(q, During(t)) \in Vec
    BY <1>3, InsideType
  <2> HIDE DEF a, p
  <2>5. Inside(p, During(t)) = Inside(q, During(t))
    BY <1>5, <2>3, <2>4, PlusZero DEF When
  <2> QED
    BY <1>5, <2>1, <2>2, <2>5 DEF When
<1>8. ASSUME Balanced(b), NEW dim \in Dimensions, NEW since \in Int
      PROVE  Inside(p, From(dim, since)) = Inside(p, From("total", since))
  <2> DEFINE w == m >= since
  <2>1. Inside(a, From(dim, since))
          = Plus(Inside(b, From(dim, since)), When(dim \in DOMAIN TheTotal /\ m >= since, n))
    BY <1>5, AddFrom
  <2>2. Inside(b, From(dim, since)) \in Vec
    BY InsideType
  <2>3. Plus(Inside(q, From(dim, since)), When(m >= since, left))
          = Plus(Inside(a, From(dim, since)), When(m >= since, n))
    BY <1>2 DEF Shared
  <2>4. Inside(p, From(dim, since))
          = Plus(Inside(q, From(dim, since)), When(dim \in DOMAIN TheRest /\ m >= since, left))
    BY <1>3, <1>5, AddFrom
  <2> HIDE DEF a, p
  <2>5. Inside(a, From(dim, since)) = Inside(b, From(dim, since))
    BY <1>5, <2>1, <2>2, PlusZero DEF When
  <2>6. Inside(p, From(dim, since)) = Plus(Inside(q, From(dim, since)), When(m >= since, left))
    BY <1>5, <2>4 DEF When
  <2>7. Inside(b, From(dim, since)) = Inside(b, From("total", since))
    BY <1>8 DEF Balanced
  <2> QED
    BY <1>6, <2>3, <2>5, <2>6, <2>7
<1>9. ASSUME NEW dim \in Dimensions, NEW key \in Names \ {Unattributed}
      PROVE  AtMost(Inside(p, Of(dim, key)),
                    Plus(Inside(b, Of(dim, key)),
                         BytesOf(Sharing(S, dim, key), Growth(counters, seen, S))))
  <2>1. Inside(a, Of(dim, key))
          = Plus(Inside(b, Of(dim, key)), When(dim \in DOMAIN TheTotal /\ TheTotal[dim] = key, n))
    BY <1>5, AddOf
  <2>2. Inside(b, Of(dim, key)) \in Vec /\ Inside(q, Of(dim, key)) \in Vec
    BY <1>3, InsideType
  <2>3. Inside(p, Of(dim, key))
          = Plus(Inside(q, Of(dim, key)), When(dim \in DOMAIN TheRest /\ TheRest[dim] = key, left))
    BY <1>3, <1>5, AddOf
  <2>4. TheRest[dim] # key
    BY KnownNames
  <2> HIDE DEF a, p
  <2>5. Inside(a, Of(dim, key)) = Inside(b, Of(dim, key))
    BY <1>5, <2>1, <2>2, PlusZero DEF When
  <2>6. Inside(p, Of(dim, key)) = Inside(q, Of(dim, key))
    BY <2>2, <2>3, <2>4, PlusZero DEF When
  <2>7. AtMost(Inside(q, Of(dim, key)),
               Plus(Inside(a, Of(dim, key)),
                    BytesOf(Sharing(S, dim, key), Growth(counters, seen, S))))
    BY <1>2 DEF Shared
  <2> QED
    BY <2>5, <2>6, <2>7
<1> HIDE DEF p
<1>10. Adds(b, p, n, m)
  BY <1>4, <1>6, <1>7, <1>8 DEF Adds, Balanced
<1>11. AddsShares(b, p, counters, seen, S)
  BY <1>9 DEF AddsShares
<1> QED
  BY <1>10, <1>11 DEF p, q, r, left

LEMMA NoSampleDiffers == NoSample \notin Vec
<1>1. DOMAIN NoSample = {"state"}
  BY DEF NoSample
<1>2. \A v \in Vec : DOMAIN v = Directions
  BY DEF Vec
<1>3. {"state"} # Directions
  BY DEF Directions
<1> QED
  BY <1>1, <1>2, <1>3

IsCollector(acc) ==
  /\ acc = [state |-> "up", totals |-> acc.totals, seen |-> acc.seen, pending |-> acc.pending,
            controller |-> acc.controller]
  /\ acc.totals \in Vec \cup {NoSample} /\ IsSeen(acc.seen) /\ IsBuckets(acc.pending)
  /\ acc.totals = NoSample => acc.seen = <<>>

LEMMA NothingSeen == IsSeen(<<>>)
<1>1. DOMAIN <<>> = {} /\ <<>> = [c \in {} |-> <<>>[c]]
  OBVIOUS
<1> QED
  BY <1>1 DEF IsSeen, OnVec

\* The first snapshot books nothing; a later one books what the totals grew by.
LEMMA Observed ==
  ASSUME NEW acc, IsCollector(acc), NEW totals \in Vec,
         NEW S \in SUBSET Connections, NEW order \in SetToSeqs(S), NEW counters \in [S -> Vec],
         NEW m \in Nat
  PROVE  LET new == Observe(acc, totals, order, counters, m) IN
         /\ new = [state |-> "up", totals |-> totals, seen |-> counters, pending |-> new.pending,
                   controller |-> acc.controller]
         /\ acc.totals = NoSample => new.pending = acc.pending
         /\ acc.totals # NoSample =>
              /\ Adds(acc.pending, new.pending, Counted(acc, totals), m)
              /\ AddsShares(acc.pending, new.pending, counters, Known(acc, totals), S)
<1> DEFINE new == Observe(acc, totals, order, counters, m)
<1>0. PICK t, s, q, c :
        acc = [state |-> "up", totals |-> t, seen |-> s, pending |-> q, controller |-> c]
  BY DEF IsCollector
<1>1. CASE acc.totals = NoSample
  <2>1. new = [acc EXCEPT !.totals = totals, !.seen = counters]
    BY <1>1 DEF Observe
  <2>2. new = [state |-> "up", totals |-> totals, seen |-> counters, pending |-> acc.pending,
               controller |-> acc.controller]
    BY <1>0, <2>1
  <2> HIDE DEF new
  <2>3. new.pending = acc.pending
    BY <2>2
  <2> QED
    BY <1>1, <2>2, <2>3 DEF new
<1>2. CASE acc.totals # NoSample
  <2> DEFINE n == Counted(acc, totals)
             known == Known(acc, totals)
             r == Attribute(Add(acc.pending, m, TheTotal, n), known, n, order, counters, m)
             p == Add(r.pending, m, TheRest, r.left)
  <2>1. new = [acc EXCEPT !.totals = totals, !.seen = counters, !.pending = p]
    BY <1>2 DEF Observe, Counted, Known
  <2>2. n \in Vec /\ IsSeen(known) /\ IsBuckets(acc.pending)
    BY <1>2, LessType, NothingSeen DEF Counted, Known, IsCollector
  <2> HIDE DEF n, known
  <2>3. Adds(acc.pending, p, n, m) /\ AddsShares(acc.pending, p, counters, known, S)
    BY <2>2, ObserveAdds
  <2> HIDE DEF p
  <2>4. new = [state |-> "up", totals |-> totals, seen |-> counters, pending |-> p,
               controller |-> acc.controller]
    BY <1>0, <2>1
  <2> HIDE DEF new
  <2>5. new.pending = p
    BY <2>4
  <2> QED
    BY <1>2, <2>3, <2>4, <2>5 DEF new, n, known
<1> QED
  BY <1>1, <1>2

(**************************** where buckets are ******************************)

IsTaken(x) == x = <<>> \/ \E b : IsBuckets(b) /\ x = <<b>>
IsFlush(c, f) ==
  \E l, e : /\ f = [loop |-> l, exit |-> e] /\ IsTaken(l) /\ IsTaken(e)
            /\ l = <<>> \/ e = <<>>
            /\ l # <<>> \/ e # <<>> => c # AppGone
IsData(c, f, t) ==
  /\ c = AppGone \/ IsCollector(c)
  /\ IsFlush(c, f) /\ IsBuckets(t)

TakenFrom(f, by) == IF f[by] = <<>> THEN NoBuckets ELSE f[by][1]
AllFrom(c, f, t) ==
  IF c # AppGone
  THEN Merged(Merged(Merged(t, c.pending), TakenFrom(f, "loop")), TakenFrom(f, "exit"))
  ELSE t
\* The bytes in all of them together.
Total4(c, f, t, P) ==
  IF c # AppGone
  THEN Plus(Plus(Plus(Inside(t, P), Inside(c.pending, P)), Inside(TakenFrom(f, "loop"), P)),
            Inside(TakenFrom(f, "exit"), P))
  ELSE Inside(t, P)
BalancedData(c, f, t) ==
  /\ Balanced(t) /\ (c # AppGone => Balanced(c.pending))
  /\ Balanced(TakenFrom(f, "loop")) /\ Balanced(TakenFrom(f, "exit"))

LEMMA CollectorUp ==
  ASSUME NEW c, IsCollector(c) PROVE c # AppGone /\ IsBuckets(c.pending)
<1>1. PICK t, s, q, x :
        c = [state |-> "up", totals |-> t, seen |-> s, pending |-> q, controller |-> x]
  BY DEF IsCollector
<1>2. c.state = "up" /\ AppGone.state = "gone"
  BY <1>1 DEF AppGone
<1> QED
  BY <1>2 DEF IsCollector

LEMMA TakenType ==
  ASSUME NEW c, NEW f, IsFlush(c, f)
  PROVE  IsBuckets(TakenFrom(f, "loop")) /\ IsBuckets(TakenFrom(f, "exit"))
<1>1. PICK l, e : f = [loop |-> l, exit |-> e] /\ IsTaken(l) /\ IsTaken(e)
  BY DEF IsFlush
<1>2. f["loop"] = l /\ f["exit"] = e
  BY <1>1
<1>3. ASSUME NEW x, IsTaken(x), x # <<>> PROVE IsBuckets(x[1])
  BY <1>3 DEF IsTaken
<1> QED
  BY <1>1, <1>2, <1>3, NoBucketsInside DEF TakenFrom

\* What is everywhere together is the sum of the places.
LEMMA AllIs ==
  ASSUME NEW c, NEW f, NEW t, IsData(c, f, t)
  PROVE  IsBuckets(AllFrom(c, f, t)) /\ \A P : Inside(AllFrom(c, f, t), P) = Total4(c, f, t, P)
<1> DEFINE l == TakenFrom(f, "loop")
           e == TakenFrom(f, "exit")
           p == c.pending
<1>1. CASE c = AppGone
  BY <1>1 DEF AllFrom, Total4, IsData
<1>2. CASE c # AppGone
  <2>1. IsBuckets(t) /\ IsBuckets(p) /\ IsBuckets(l) /\ IsBuckets(e)
    BY <1>2, TakenType, CollectorUp DEF IsData
  <2> HIDE DEF l, e, p
  <2>2. IsBuckets(Merged(t, p))
    BY <2>1, MergedType
  <2>3. IsBuckets(Merged(Merged(t, p), l))
    BY <2>1, <2>2, MergedType
  <2>4. IsBuckets(Merged(Merged(Merged(t, p), l), e))
    BY <2>1, <2>3, MergedType
  <2>5. ASSUME NEW P
        PROVE  Inside(Merged(Merged(Merged(t, p), l), e), P)
                 = Plus(Plus(Plus(Inside(t, P), Inside(p, P)), Inside(l, P)), Inside(e, P))
    BY <2>1, <2>2, <2>3, MergedInside
  <2> QED
    BY <1>2, <2>4, <2>5 DEF AllFrom, Total4, l, e, p
<1> QED
  BY <1>1, <1>2

LEMMA Total4Type ==
  ASSUME NEW c, NEW f, NEW t, IsData(c, f, t), NEW P
  PROVE  Total4(c, f, t, P) \in Vec
  BY AllIs, InsideType

\* Sums of four, by direction.
LEMMA FourType ==
  ASSUME NEW t \in Vec, NEW p \in Vec, NEW l \in Vec, NEW e \in Vec
  PROVE  /\ Plus(Plus(Plus(t, p), l), e) \in Vec
         /\ \A d \in Directions : Plus(Plus(Plus(t, p), l), e)[d] = t[d] + p[d] + l[d] + e[d]
<1>1. Plus(t, p) \in Vec
  BY PlusType
<1>2. Plus(Plus(t, p), l) \in Vec
  BY <1>1, PlusType
<1> QED
  BY <1>1, <1>2, PlusType

LEMMA LessPlus ==
  ASSUME NEW a \in Vec, NEW b \in Vec
  PROVE  Less(Plus(a, b), b) = a
<1>1. Plus(a, b) \in Vec
  BY PlusType
<1>2. ASSUME NEW d \in Directions PROVE Less(Plus(a, b), b)[d] = a[d]
  <2>1. a[d] \in Nat /\ b[d] \in Nat
    BY DEF Vec
  <2> QED
    BY <1>1, <2>1, PlusType, LessType
<1> QED
  BY <1>1, <1>2, LessType, SameVec

(************************ merging and purging buckets ************************)

LEMMA MergedBalanced ==
  ASSUME NEW a, IsBuckets(a), Balanced(a), NEW b, IsBuckets(b), Balanced(b)
  PROVE  Balanced(Merged(a, b))
  BY MergedInside DEF Balanced

LEMMA NoneBalanced == Balanced(NoBuckets)
  BY NoBucketsInside DEF Balanced

Recent(b, cutoff) == Restrict(b, {k \in DOMAIN b : k[1] >= cutoff})

\* Deleting the rows before a minute keeps the balance, and the later minutes.
LEMMA RecentKeeps ==
  ASSUME NEW b, IsBuckets(b), NEW cutoff \in Int
  PROVE  /\ IsBuckets(Recent(b, cutoff))
         /\ Balanced(b) => Balanced(Recent(b, cutoff))
         /\ \A m \in Nat : m >= cutoff =>
              Inside(Recent(b, cutoff), During(m)) = Inside(b, During(m))
         /\ \A P : AtMost(Inside(Recent(b, cutoff), P), Inside(b, P))
<1> DEFINE C == {k \in DOMAIN b : k[1] >= cutoff}
           r == Recent(b, cutoff)
<1>1. IsBuckets(r) /\ \A P : Inside(r, P) = Inside(b, P \cap C)
  BY RestrictInside DEF Recent
<1>2. DOMAIN b \subseteq Keys /\ \A k \in Keys : k[1] \in Nat
  BY DEF IsBuckets, Keys
<1>3. ASSUME NEW dim, NEW since \in Int
      PROVE  Inside(r, From(dim, since)) = Inside(b, From(dim, IF since > cutoff THEN since ELSE cutoff))
  <2>1. DOMAIN b \cap (From(dim, since) \cap C)
          = DOMAIN b \cap From(dim, IF since > cutoff THEN since ELSE cutoff)
    BY <1>2 DEF From
  <2> HIDE DEF C
  <2> QED
    BY <1>1, <2>1 DEF Inside
<1>4. ASSUME Balanced(b) PROVE Balanced(r)
  <2>1. ASSUME NEW dim \in Dimensions, NEW since \in Int
        PROVE  Inside(r, From(dim, since)) = Inside(r, From("total", since))
    <3> DEFINE s == IF since > cutoff THEN since ELSE cutoff
    <3>1. s \in Int
      OBVIOUS
    <3>2. Inside(b, From(dim, s)) = Inside(b, From("total", s))
      BY <1>4, <3>1 DEF Balanced
    <3> QED
      BY <1>3, <3>2
  <2> QED
    BY <2>1 DEF Balanced
<1>5. ASSUME NEW m \in Nat, m >= cutoff PROVE Inside(r, During(m)) = Inside(b, During(m))
  <2>1. DOMAIN b \cap (During(m) \cap C) = DOMAIN b \cap During(m)
    BY <1>2, <1>5 DEF During
  <2> HIDE DEF C
  <2> QED
    BY <1>1, <2>1 DEF Inside
<1>6. \A P : P \cap C \subseteq P
  OBVIOUS
<1> HIDE DEF C, r
<1>7. \A P : AtMost(Inside(r, P), Inside(b, P))
  BY <1>1, <1>6, InsideMore
<1> QED
  BY <1>1, <1>4, <1>5, <1>7 DEF r

LEMMA SumOverIs ==
  ASSUME NEW b, IsBuckets(b), NEW m
  PROVE  SumOver(b, m, "total") = Inside(b, During(m))
<1>1. {k \in DOMAIN b : k[1] = m /\ k[2] = "total"} = DOMAIN b \cap During(m)
  BY DEF IsBuckets, During
<1> QED
  BY <1>1 DEF SumOver, Inside

(*************************** steps on the buckets ****************************)

DataType ==
  /\ IsData(collector, flush, table)
  /\ owed \in [0 .. LastMinute -> Vec] /\ minute \in 0 .. LastMinute /\ purged \in Nat
  /\ setting \in SettingValues /\ blind \in BOOLEAN
Whole(P) == Total4(collector, flush, table, P)
Recorded == ~blind => \A m \in purged .. LastMinute : Whole(During(m)) = owed[m]
DataInv  == DataType /\ BalancedData(collector, flush, table) /\ Recorded

\* Nothing is entered that was not there before.
NoMore == \A P : AtMost(Whole(P)', Whole(P))

LEMMA NothingTaken ==
  /\ TakenFrom(NoFlush, "loop") = NoBuckets /\ TakenFrom(NoFlush, "exit") = NoBuckets
  /\ \A c : IsFlush(c, NoFlush)
<1>1. NoFlush["loop"] = <<>> /\ NoFlush["exit"] = <<>>
  BY DEF NoFlush
<1>2. \A c : IsFlush(c, NoFlush)
  BY DEF IsFlush, NoFlush, IsTaken
<1> QED
  BY <1>1, <1>2 DEF TakenFrom

LEMMA TotalUntaken ==
  ASSUME NEW c, NEW t, IsData(c, NoFlush, t), c # AppGone, NEW P
  PROVE  Total4(c, NoFlush, t, P) = Plus(Inside(t, P), Inside(c.pending, P))
<1>1. Inside(t, P) \in Vec /\ Inside(c.pending, P) \in Vec
  BY InsideType, CollectorUp DEF IsData
<1>2. Plus(Inside(t, P), Inside(c.pending, P)) \in Vec
  BY <1>1, PlusType
<1> QED
  BY <1>2, NothingTaken, NoBucketsInside, PlusZero DEF Total4

\* The flush in which one writer has taken b.
TakenBy(by, b) == IF by = "loop" THEN [loop |-> <<b>>, exit |-> <<>>] ELSE [loop |-> <<>>, exit |-> <<b>>]

LEMMA TakenByType ==
  ASSUME NEW by \in {"loop", "exit"}, NEW b, IsBuckets(b)
  PROVE  /\ \A c : c # AppGone => IsFlush(c, TakenBy(by, b))
         /\ TakenFrom(TakenBy(by, b), by) = b
         /\ \A o \in {"loop", "exit"} : o # by => TakenFrom(TakenBy(by, b), o) = NoBuckets
<1>1. IsTaken(<<b>>) /\ IsTaken(<<>>) /\ <<b>> # <<>> /\ <<b>>[1] = b
  BY DEF IsTaken
<1>2. CASE by = "loop"
  <2> DEFINE f == [loop |-> <<b>>, exit |-> <<>>]
  <2>1. TakenBy(by, b) = f /\ f["loop"] = <<b>> /\ f["exit"] = <<>>
    BY <1>2 DEF TakenBy
  <2>2. \A c : c # AppGone => IsFlush(c, f)
    BY <1>1 DEF IsFlush
  <2> HIDE DEF f
  <2> QED
    BY <1>1, <1>2, <2>1, <2>2 DEF TakenFrom
<1>3. CASE by = "exit"
  <2> DEFINE f == [loop |-> <<>>, exit |-> <<b>>]
  <2>1. TakenBy(by, b) = f /\ f["exit"] = <<b>> /\ f["loop"] = <<>>
    BY <1>3 DEF TakenBy
  <2>2. \A c : c # AppGone => IsFlush(c, f)
    BY <1>1 DEF IsFlush
  <2> HIDE DEF f
  <2> QED
    BY <1>1, <1>3, <2>1, <2>2 DEF TakenFrom
<1> QED
  BY <1>2, <1>3

LEMMA TotalTaken ==
  ASSUME NEW c, NEW t, NEW by \in {"loop", "exit"}, NEW b, IsBuckets(b),
         IsData(c, TakenBy(by, b), t), c # AppGone, NEW P
  PROVE  Total4(c, TakenBy(by, b), t, P) = Plus(Plus(Inside(t, P), Inside(c.pending, P)), Inside(b, P))
<1>1. Inside(t, P) \in Vec /\ Inside(c.pending, P) \in Vec /\ Inside(b, P) \in Vec
  BY InsideType, CollectorUp DEF IsData
<1> DEFINE s == Plus(Inside(t, P), Inside(c.pending, P))
<1>2. s \in Vec /\ Plus(s, Inside(b, P)) \in Vec
  BY <1>1, PlusType
<1>3. CASE by = "loop"
  <2>1. TakenFrom(TakenBy(by, b), "loop") = b /\ TakenFrom(TakenBy(by, b), "exit") = NoBuckets
    BY <1>3, TakenByType
  <2> HIDE DEF s
  <2> QED
    BY <1>2, <2>1, NoBucketsInside, PlusZero DEF Total4, s
<1>4. CASE by = "exit"
  <2>1. TakenFrom(TakenBy(by, b), "exit") = b /\ TakenFrom(TakenBy(by, b), "loop") = NoBuckets
    BY <1>4, TakenByType
  <2> HIDE DEF s
  <2> QED
    BY <1>2, <2>1, NoBucketsInside, PlusZero DEF Total4, s
<1> QED
  BY <1>3, <1>4

LEMMA TotalTakenExit ==
  ASSUME NEW c, NEW t, NEW b, IsBuckets(b), IsData(c, TakenBy("exit", b), t), c # AppGone, NEW P
  PROVE  Total4(c, TakenBy("exit", b), t, P) = Plus(Plus(Inside(t, P), Inside(c.pending, P)), Inside(b, P))
<1>1. "exit" \in {"loop", "exit"}
  OBVIOUS
<1> QED
  BY <1>1, TotalTaken, SMTT(40)

LEMMA TotalTakenLoop ==
  ASSUME NEW c, NEW t, NEW b, IsBuckets(b), IsData(c, TakenBy("loop", b), t), c # AppGone, NEW P
  PROVE  Total4(c, TakenBy("loop", b), t, P) = Plus(Plus(Inside(t, P), Inside(c.pending, P)), Inside(b, P))
<1>1. "loop" \in {"loop", "exit"}
  OBVIOUS
<1> QED
  BY <1>1, TotalTaken, SMTT(40)

LEMMA FlushedBy ==
  ASSUME NEW c, NEW f, IsFlush(c, f), NEW by \in {"loop", "exit"}, f[by] # <<>>
  PROVE  c # AppGone /\ \E b : IsBuckets(b) /\ f = TakenBy(by, b) /\ f[by] = <<b>> /\ f[by][1] = b
<1>1. PICK l, e : /\ f = [loop |-> l, exit |-> e] /\ IsTaken(l) /\ IsTaken(e)
                  /\ l = <<>> \/ e = <<>>
                  /\ l # <<>> \/ e # <<>> => c # AppGone
  BY DEF IsFlush
<1>2. f["loop"] = l /\ f["exit"] = e
  BY <1>1
<1>3. CASE by = "loop"
  <2>1. PICK b : IsBuckets(b) /\ l = <<b>>
    BY <1>1, <1>2, <1>3 DEF IsTaken
  <2>2. e = <<>>
    BY <1>1, <1>2, <1>3
  <2> QED
    BY <1>1, <1>2, <1>3, <2>1, <2>2 DEF TakenBy
<1>4. CASE by = "exit"
  <2>1. PICK b : IsBuckets(b) /\ e = <<b>>
    BY <1>1, <1>2, <1>4 DEF IsTaken
  <2>2. l = <<>>
    BY <1>1, <1>2, <1>4
  <2> QED
    BY <1>1, <1>2, <1>4, <2>1, <2>2 DEF TakenBy
<1> QED
  BY <1>3, <1>4

\* The collector with other pending buckets.
LEMMA PendingChanged ==
  ASSUME NEW c, IsCollector(c), NEW b, IsBuckets(b)
  PROVE  /\ IsCollector([c EXCEPT !.pending = b]) /\ [c EXCEPT !.pending = b].pending = b
         /\ [c EXCEPT !.pending = b].totals = c.totals /\ [c EXCEPT !.pending = b].seen = c.seen
<1>1. PICK t, s, q, x :
        c = [state |-> "up", totals |-> t, seen |-> s, pending |-> q, controller |-> x]
  BY DEF IsCollector
<1> DEFINE d == [c EXCEPT !.pending = b]
<1>2. d = [state |-> "up", totals |-> t, seen |-> s, pending |-> b, controller |-> x]
  BY <1>1
<1>3. c.totals = t /\ c.seen = s
  BY <1>1
<1> HIDE DEF d
<1>4. d.pending = b /\ d.totals = t /\ d.seen = s /\ d.controller = x
  BY <1>2
<1>5. IsCollector(d)
  BY <1>2, <1>3, <1>4 DEF IsCollector
<1> QED
  BY <1>3, <1>4, <1>5 DEF d

\* A step after which the same is there, in other places.
LEMMA Moves ==
  ASSUME DataInv, IsData(collector, flush, table)', BalancedData(collector, flush, table)',
         \A P : Whole(P)' = Whole(P),
         UNCHANGED <<owed, minute, purged, blind, setting>>
  PROVE  DataInv' /\ NoMore
<1>1. DataType'
  BY DEF DataInv, DataType
<1>2. Recorded'
  BY DEF DataInv, Recorded
<1>3. NoMore
  BY Total4Type, AtMostRefl DEF NoMore, Whole, DataInv, DataType
<1> QED
  BY <1>1, <1>2, <1>3 DEF DataInv

\* flush_pending takes what is pending.
LEMMA TakeData ==
  ASSUME DataInv, NEW by \in {"loop", "exit"}, Take(by)
  PROVE  DataInv' /\ NoMore
<1> DEFINE p == collector.pending
<1>1. /\ collector # AppGone /\ flush = NoFlush
      /\ flush' = [flush EXCEPT ![by] = <<p>>]
      /\ collector' = [collector EXCEPT !.pending = NoBuckets]
      /\ table' = table
  BY DEF Take, AppUp
<1>2. IsCollector(collector) /\ IsBuckets(p) /\ IsBuckets(table)
  BY <1>1, CollectorUp DEF DataInv, DataType, IsData
<1>3. IsCollector(collector') /\ collector'.pending = NoBuckets /\ collector' # AppGone
  <2>1. IsBuckets(NoBuckets)
    BY NoBucketsInside
  <2>2. IsCollector(collector') /\ collector'.pending = NoBuckets
    BY <1>1, <1>2, <2>1, PendingChanged
  <2> QED
    BY <2>2, CollectorUp
<1>4. flush' = TakenBy(by, p)
  <2> HIDE DEF p
  <2>1. flush' = [[loop |-> <<>>, exit |-> <<>>] EXCEPT ![by] = <<p>>]
    BY <1>1 DEF NoFlush
  <2>2. by = "loop" => flush' = [loop |-> <<p>>, exit |-> <<>>]
    BY <2>1
  <2>3. by = "exit" => flush' = [loop |-> <<>>, exit |-> <<p>>]
    BY <2>1
  <2> QED
    BY <2>2, <2>3 DEF TakenBy
<1>5. IsData(collector, flush, table)'
  <2>1. IsFlush(collector', TakenBy(by, p))
    BY <1>2, <1>3, TakenByType
  <2> HIDE DEF p
  <2> QED
    BY <1>1, <1>2, <1>3, <1>4, <2>1 DEF IsData
<1>6. BalancedData(collector, flush, table)'
  <2>1. Balanced(p) /\ Balanced(table)
    BY <1>1 DEF DataInv, BalancedData
  <2>2. \A o \in {"loop", "exit"} : TakenFrom(flush', o) \in {p, NoBuckets}
    BY <1>2, <1>4, TakenByType
  <2> QED
    BY <1>1, <1>3, <2>1, <2>2, NoneBalanced DEF BalancedData
<1>7. ASSUME NEW P PROVE Whole(P)' = Whole(P)
  <2>1. Whole(P) = Plus(Inside(table, P), Inside(p, P))
    BY <1>1, TotalUntaken DEF Whole, DataInv, DataType
  <2>2. Total4(collector', TakenBy(by, p), table', P)
          = Plus(Plus(Inside(table', P), Inside(collector'.pending, P)), Inside(p, P))
    <3>1. IsData(collector', TakenBy(by, p), table')
      BY <1>4, <1>5
    <3> QED
      BY <1>2, <1>3, <3>1, TotalTaken
  <2>3. Inside(table, P) \in Vec /\ table' = table
    BY <1>1, <1>2, InsideType
  <2>4. Inside(collector'.pending, P) = Zero
    BY <1>3, NoBucketsInside
  <2>5. Plus(Inside(table', P), Inside(collector'.pending, P)) = Inside(table, P)
    BY <2>3, <2>4, PlusZero
  <2>6. Whole(P)' = Total4(collector', flush', table', P)
    BY DEF Whole
  <2> HIDE DEF p
  <2> QED
    BY <1>4, <2>1, <2>2, <2>5, <2>6
<1> QED
  BY <1>5, <1>6, <1>7, Moves DEF Take, Ghosts

\* A new process has nothing pending.
LEMMA StartsData ==
  ASSUME DataInv, ApplicationStarts
  PROVE  DataInv' /\ NoMore
<1>1. collector = AppGone /\ collector' = Fresh /\ flush' = flush /\ table' = table
  BY DEF ApplicationStarts, AppUp
<1>2. IsCollector(Fresh) /\ Fresh.pending = NoBuckets
  BY NoBucketsInside, NothingSeen DEF IsCollector, Fresh
<1>3. Fresh # AppGone
  BY <1>2, CollectorUp
<1>4. flush = NoFlush
  BY <1>1 DEF DataInv, DataType, IsData, IsFlush, NoFlush
<1>5. IsData(collector, flush, table)'
  BY <1>1, <1>2, <1>4, NothingTaken DEF IsData, DataInv, DataType
<1>6. BalancedData(collector, flush, table)'
  BY <1>1, <1>2, <1>4, NothingTaken, NoneBalanced DEF BalancedData, DataInv
<1>7. ASSUME NEW P PROVE Whole(P)' = Whole(P)
  <2>1. Whole(P) = Inside(table, P)
    BY <1>1 DEF Whole, Total4
  <2>2. Inside(table, P) \in Vec
    BY InsideType DEF DataInv, DataType, IsData
  <2>3. Total4(collector', NoFlush, table', P) = Plus(Inside(table', P), Inside(collector'.pending, P))
    <3>1. IsData(collector', NoFlush, table') /\ collector' # AppGone
      BY <1>1, <1>3, <1>4, <1>5
    <3> QED
      BY <3>1, TotalUntaken
  <2> QED
    BY <1>1, <1>2, <1>4, <2>1, <2>2, <2>3, NoBucketsInside, PlusZero DEF Whole
<1> QED
  BY <1>5, <1>6, <1>7, Moves DEF ApplicationStarts, Ghosts

\* A failed write puts back what was taken.
LEMMA FailsInLoop ==
  ASSUME DataInv, CommitFails("loop")
  PROVE  DataInv' /\ NoMore
<1> DEFINE p == collector.pending
           b == flush["loop"][1]
<1>1. /\ flush["loop"] # <<>>
      /\ collector' = [collector EXCEPT !.pending = Merged(b, p)]
      /\ flush' = [flush EXCEPT !["loop"] = <<>>]
      /\ table' = table
  BY DEF CommitFails
<1>2. collector # AppGone /\ IsBuckets(b) /\ flush = TakenBy("loop", b)
  BY <1>1, FlushedBy DEF DataInv, DataType, IsData
<1>3. IsCollector(collector) /\ IsBuckets(p) /\ IsBuckets(table)
  BY <1>2, CollectorUp DEF DataInv, DataType, IsData
<1> DEFINE back == Merged(b, p)
<1>4. IsBuckets(back)
  BY <1>2, <1>3, MergedType
<1>5. IsCollector(collector') /\ collector'.pending = back /\ collector' # AppGone
  <2> HIDE DEF back
  <2>1. collector' = [collector EXCEPT !.pending = back]
    BY <1>1 DEF back
  <2> QED
    BY <1>3, <1>4, <2>1, PendingChanged, CollectorUp
<1>6. flush' = NoFlush
  <2> HIDE DEF b
  <2> QED
    BY <1>1, <1>2 DEF NoFlush, TakenBy
<1>7. IsData(collector, flush, table)'
  BY <1>1, <1>3, <1>5, <1>6, NothingTaken DEF IsData
<1>8. BalancedData(collector, flush, table)'
  <2>1. Balanced(p) /\ Balanced(table) /\ Balanced(b)
    BY <1>2, TakenByType DEF DataInv, BalancedData
  <2>2. Balanced(back)
    BY <1>2, <1>3, <2>1, MergedBalanced
  <2> QED
    BY <1>1, <1>5, <1>6, <2>1, <2>2, NothingTaken, NoneBalanced DEF BalancedData
<1>9. ASSUME NEW P PROVE Whole(P)' = Whole(P)
  <2>1. Total4(collector, TakenBy("loop", b), table, P)
          = Plus(Plus(Inside(table, P), Inside(p, P)), Inside(b, P))
    <3>1. IsData(collector, TakenBy("loop", b), table)
      BY <1>2 DEF DataInv, DataType
    <3> HIDE DEF b
    <3> QED
      BY <1>2, <3>1, TotalTaken
  <2>2. Total4(collector', NoFlush, table', P) = Plus(Inside(table', P), Inside(back, P))
    <3>1. IsData(collector', NoFlush, table')
      BY <1>6, <1>7
    <3> QED
      BY <1>5, <3>1, TotalUntaken
  <2>3. Inside(back, P) = Plus(Inside(b, P), Inside(p, P))
    BY <1>2, <1>3, MergedInside
  <2>4. Inside(table, P) \in Vec /\ Inside(p, P) \in Vec /\ Inside(b, P) \in Vec
    BY <1>2, <1>3, InsideType
  <2> HIDE DEF b, p, back
  <2>5. Plus(Inside(table, P), Plus(Inside(b, P), Inside(p, P)))
          = Plus(Plus(Inside(table, P), Inside(p, P)), Inside(b, P))
    BY <2>4, PlusAssociates, PlusCommutes
  <2> QED
    BY <1>1, <1>2, <1>6, <2>1, <2>2, <2>3, <2>5 DEF Whole
<1> QED
  BY <1>7, <1>8, <1>9, Moves DEF CommitFails, Ghosts

\* The process ends, with `forgiven` lost and the rest in the table.
LEMMA EndsData ==
  ASSUME DataInv, NEW forgiven, IsBuckets(forgiven), Ends(forgiven),
         IsBuckets(table'), Balanced(table'), purged' \in Nat, purged' >= purged,
         UNCHANGED <<minute, setting, blind>>,
         \A m \in Nat : m >= purged' =>
           Whole(During(m)) = Plus(Inside(table', During(m)), Inside(forgiven, During(m))),
         \A P : AtMost(Inside(table', P), Whole(P))
  PROVE  DataInv' /\ NoMore
<1>1. collector' = AppGone /\ flush' = NoFlush
  BY DEF Ends
<1>2. \A P : Whole(P)' = Inside(table', P)
  BY <1>1 DEF Whole, Total4
<1>3. \A m \in 0 .. LastMinute : owed'[m] = Less(owed[m], Inside(forgiven, During(m)))
  BY SumOverIs DEF Ends, DataInv, DataType
<1>4. owed' \in [0 .. LastMinute -> Vec]
  <2>1. owed' = [m \in 0 .. LastMinute |-> owed'[m]]
    BY DEF Ends, DataInv, DataType
  <2>2. ASSUME NEW m \in 0 .. LastMinute PROVE owed'[m] \in Vec
    <3>1. owed[m] \in Vec /\ Inside(forgiven, During(m)) \in Vec
      BY InsideType DEF DataInv, DataType
    <3> QED
      BY <1>3, <3>1, LessType
  <2> QED
    BY <2>1, <2>2
<1>5. DataType'
  BY <1>1, <1>4, NothingTaken DEF DataInv, DataType, IsData
<1>6. BalancedData(collector, flush, table)'
  BY <1>1, NothingTaken, NoneBalanced DEF BalancedData
<1>7. Recorded'
  <2>1. SUFFICES ASSUME ~blind, NEW m \in purged' .. LastMinute PROVE Inside(table', During(m)) = owed'[m]
    BY <1>2 DEF Recorded
  <2>2. m \in 0 .. LastMinute /\ m \in purged .. LastMinute /\ m \in Nat /\ m >= purged'
    BY TrafficBounds DEF DataInv, DataType
  <2>3. owed[m] = Plus(Inside(table', During(m)), Inside(forgiven, During(m)))
    BY <2>1, <2>2 DEF DataInv, Recorded
  <2> QED
    BY <1>3, <2>2, <2>3, LessPlus, InsideType
<1>8. NoMore
  BY <1>2 DEF NoMore
<1> QED
  BY <1>5, <1>6, <1>7, <1>8 DEF DataInv

\* A crash loses what is in memory, and no more.
LEMMA CrashData ==
  ASSUME DataInv, ApplicationCrashes
  PROVE  DataInv' /\ NoMore
<1> DEFINE p == collector.pending
           l == TakenFrom(flush, "loop")
           e == TakenFrom(flush, "exit")
           lost == Merged(Merged(p, l), e)
<1>1. collector # AppGone /\ Ends(lost) /\ UNCHANGED <<minute, setting, blind, table, purged>>
  BY DEF ApplicationCrashes, AppUp, Taken, TakenFrom
<1>2. IsBuckets(p) /\ IsBuckets(l) /\ IsBuckets(e) /\ IsBuckets(table)
  BY <1>1, TakenType, CollectorUp DEF DataInv, DataType, IsData
<1>3. ASSUME NEW P
      PROVE  /\ Whole(P) = Plus(Plus(Plus(Inside(table, P), Inside(p, P)), Inside(l, P)), Inside(e, P))
             /\ Inside(table, P) \in Vec /\ Inside(p, P) \in Vec /\ Inside(l, P) \in Vec
             /\ Inside(e, P) \in Vec
  BY <1>1, <1>2, InsideType DEF Whole, Total4
<1> HIDE DEF p, l, e
<1>4. IsBuckets(Merged(p, l)) /\ IsBuckets(lost)
  BY <1>2, MergedType
<1>5. ASSUME NEW P PROVE Whole(P) = Plus(Inside(table, P), Inside(lost, P))
  <2> DEFINE t == Inside(table, P)
             a == Inside(p, P)
             b == Inside(l, P)
             c == Inside(e, P)
  <2>1. Inside(lost, P) = Plus(Plus(a, b), c)
    BY <1>2, <1>4, MergedInside
  <2>2. t \in Vec /\ a \in Vec /\ b \in Vec /\ c \in Vec /\ Whole(P) = Plus(Plus(Plus(t, a), b), c)
    BY <1>3
  <2> HIDE DEF t, a, b, c, lost
  <2>3. Plus(a, b) \in Vec
    BY <2>2, PlusType
  <2>4. Plus(Plus(t, a), b) = Plus(t, Plus(a, b))
    BY <2>2, PlusAssociates
  <2>5. Plus(Plus(t, Plus(a, b)), c) = Plus(t, Plus(Plus(a, b), c))
    BY <2>2, <2>3, PlusAssociates
  <2> QED
    BY <2>1, <2>2, <2>4, <2>5 DEF t
<1> HIDE DEF lost
<1>6. \A P : AtMost(Inside(table, P), Whole(P))
  BY <1>2, <1>4, <1>5, PlusMore, InsideType
<1>7. purged' \in Nat /\ purged' >= purged /\ Balanced(table') /\ IsBuckets(table')
  BY <1>1, <1>2 DEF DataInv, DataType, BalancedData
<1>8. \A m \in Nat : m >= purged' =>
        Whole(During(m)) = Plus(Inside(table', During(m)), Inside(lost, During(m)))
  BY <1>1, <1>5
<1>9. \A P : AtMost(Inside(table', P), Whole(P))
  BY <1>1, <1>6
<1> QED
  BY <1>1, <1>4, <1>7, <1>8, <1>9, EndsData

\* A write that fails on exit loses what was taken and what came since.
LEMMA FailsAtExit ==
  ASSUME DataInv, CommitFails("exit")
  PROVE  DataInv' /\ NoMore
<1> DEFINE p == collector.pending
<1>0. PICK b : /\ collector # AppGone /\ IsBuckets(b) /\ flush = TakenBy("exit", b)
               /\ flush["exit"][1] = b
  BY FlushedBy DEF CommitFails, DataInv, DataType, IsData
<1>2. collector # AppGone /\ IsBuckets(b) /\ flush = TakenBy("exit", b)
  BY <1>0
<1> DEFINE lost == Merged(b, p)
<1>1. Ends(lost) /\ UNCHANGED <<minute, setting, blind, table, purged>>
  BY <1>0 DEF CommitFails
<1>3. IsCollector(collector) /\ IsBuckets(p) /\ IsBuckets(table)
  BY <1>2, CollectorUp DEF DataInv, DataType, IsData
<1>4. IsData(collector, TakenBy("exit", b), table)
  BY <1>2 DEF DataInv, DataType
<1>5. ASSUME NEW P PROVE Whole(P) = Plus(Plus(Inside(table, P), Inside(p, P)), Inside(b, P))
  <2>1. Total4(collector, TakenBy("exit", b), table, P)
          = Plus(Plus(Inside(table, P), Inside(p, P)), Inside(b, P))
    <3>1. collector # AppGone /\ IsBuckets(b)
      BY <1>2
    <3>2. Total4(collector, TakenBy("exit", b), table, P)
            = Plus(Plus(Inside(table, P), Inside(collector.pending, P)), Inside(b, P))
      BY <1>4, <3>1, TotalTakenExit
    <3> QED
      BY <3>2
  <2> QED
    BY <1>2, <2>1 DEF Whole
<1> HIDE DEF p
<1>6. IsBuckets(lost)
  BY <1>2, <1>3, MergedType
<1>7. ASSUME NEW P PROVE Whole(P) = Plus(Inside(table, P), Inside(lost, P))
  <2>1. Inside(lost, P) = Plus(Inside(b, P), Inside(p, P))
    BY <1>2, <1>3, MergedInside
  <2>2. Inside(table, P) \in Vec /\ Inside(p, P) \in Vec /\ Inside(b, P) \in Vec
    BY <1>2, <1>3, InsideType
  <2> HIDE DEF lost
  <2> QED
    BY <1>5, <2>1, <2>2, PlusAssociates, PlusCommutes
<1> HIDE DEF lost
<1>8. \A P : AtMost(Inside(table, P), Whole(P))
  BY <1>3, <1>6, <1>7, PlusMore, InsideType
<1>9. purged' \in Nat /\ purged' >= purged /\ Balanced(table') /\ IsBuckets(table')
  BY <1>1, <1>3 DEF DataInv, DataType, BalancedData
<1>10. \A m \in Nat : m >= purged' =>
         Whole(During(m)) = Plus(Inside(table', During(m)), Inside(lost, During(m)))
  BY <1>1, <1>7
<1>11. \A P : AtMost(Inside(table', P), Whole(P))
  BY <1>1, <1>8
<1> QED
  BY <1>1, <1>6, <1>9, <1>10, <1>11, EndsData

\* What a commit leaves in the table.
LEMMA CommitTable ==
  ASSUME DataInv, NEW by \in {"loop", "exit"}, Commit(by)
  PROVE  \E b :
    /\ collector # AppGone /\ IsBuckets(b) /\ flush = TakenBy(by, b)
    /\ IsBuckets(table') /\ Balanced(table') /\ purged' \in Nat /\ purged' >= purged
    /\ \A m \in Nat : m >= purged' =>
         Inside(table', During(m)) = Plus(Inside(table, During(m)), Inside(b, During(m)))
    /\ \A P : AtMost(Inside(table', P), Plus(Inside(table, P), Inside(b, P)))
<1>1. PICK b : collector # AppGone /\ IsBuckets(b) /\ flush = TakenBy(by, b) /\ flush[by][1] = b
  BY FlushedBy DEF Commit, DataInv, DataType, IsData
<1>2. setting.retention \in Nat /\ minute \in Nat
  <2>1. setting.retention \in Retentions
    BY DEF DataInv, DataType, SettingValues
  <2>2. minute \in 0 .. LastMinute
    BY DEF DataInv, DataType
  <2>3. Retentions \subseteq Nat /\ LastMinute \in Nat
    BY TrafficBounds
  <2>4. setting.retention \in Nat
    BY <2>1, <2>3
  <2>5. minute \in Nat
    BY <2>2, <2>3
  <2> QED
    BY <2>4, <2>5
<1>3. PICK cutoff \in Int :
        /\ table' = Recent(Merged(table, b), cutoff)
        /\ purged' = IF cutoff > purged THEN cutoff ELSE purged
  <2>1. PICK cutoff \in (IF setting.retention = 0 \/ b = NoBuckets THEN {0}
                         ELSE {minute - setting.retention, minute - setting.retention + 1}) :
          /\ table' = LET all == Merged(table, b)
                      IN  Restrict(all, {k \in DOMAIN all : k[1] >= cutoff})
          /\ purged' = IF cutoff > purged THEN cutoff ELSE purged
    BY <1>1 DEF Commit
  <2>2. cutoff \in Int
    BY <1>2
  <2>3. table' = Recent(Merged(table, b), cutoff)
    BY <2>1 DEF Recent
  <2> QED
    BY <2>1, <2>2, <2>3
<1> DEFINE all == Merged(table, b)
<1>4. IsBuckets(table) /\ Balanced(table) /\ Balanced(b)
  BY <1>1, TakenByType DEF DataInv, DataType, IsData, BalancedData
<1>5. IsBuckets(all) /\ Balanced(all)
  BY <1>1, <1>4, MergedType, MergedBalanced
<1>6. \A P : Inside(all, P) = Plus(Inside(table, P), Inside(b, P))
  BY <1>1, <1>4, MergedInside
<1>7. purged \in Nat /\ purged' \in Nat /\ purged' >= purged /\ purged' >= cutoff
  BY <1>3 DEF DataInv, DataType
<1> HIDE DEF all
<1>8. table' = Recent(all, cutoff)
  BY <1>3 DEF all
<1>9. IsBuckets(table') /\ Balanced(table')
  BY <1>5, <1>8, RecentKeeps
<1>10. \A m \in Nat : m >= purged' =>
         Inside(table', During(m)) = Plus(Inside(table, During(m)), Inside(b, During(m)))
  <2>1. \A m \in Nat : m >= purged' => m >= cutoff
    BY <1>7
  <2> QED
    BY <1>5, <1>6, <1>8, <2>1, RecentKeeps
<1>11. \A P : AtMost(Inside(table', P), Plus(Inside(table, P), Inside(b, P)))
  BY <1>5, <1>6, <1>8, RecentKeeps
<1> QED
  BY <1>1, <1>7, <1>9, <1>10, <1>11

\* A write on exit loses only what came since.
LEMMA CommitAtExit ==
  ASSUME DataInv, Commit("exit")
  PROVE  DataInv' /\ NoMore
<1> DEFINE p == collector.pending
<1>1. Ends(p) /\ UNCHANGED <<minute, setting, blind>>
  BY DEF Commit
<1>2. PICK b :
    /\ collector # AppGone /\ IsBuckets(b) /\ flush = TakenBy("exit", b)
    /\ IsBuckets(table') /\ Balanced(table') /\ purged' \in Nat /\ purged' >= purged
    /\ \A m \in Nat : m >= purged' =>
         Inside(table', During(m)) = Plus(Inside(table, During(m)), Inside(b, During(m)))
    /\ \A P : AtMost(Inside(table', P), Plus(Inside(table, P), Inside(b, P)))
  BY CommitTable
<1>3. IsBuckets(p) /\ IsBuckets(table)
  BY <1>2, CollectorUp DEF DataInv, DataType, IsData
<1>4. IsData(collector, TakenBy("exit", b), table)
  BY <1>2 DEF DataInv, DataType
<1>5. ASSUME NEW P
      PROVE  /\ Whole(P) = Plus(Plus(Inside(table, P), Inside(b, P)), Inside(p, P))
             /\ Plus(Inside(table, P), Inside(b, P)) \in Vec /\ Inside(p, P) \in Vec
             /\ Inside(table', P) \in Vec
  <2>1. Total4(collector, TakenBy("exit", b), table, P)
          = Plus(Plus(Inside(table, P), Inside(p, P)), Inside(b, P))
    <3>1. collector # AppGone /\ IsBuckets(b)
      BY <1>2
    <3>2. Total4(collector, TakenBy("exit", b), table, P)
            = Plus(Plus(Inside(table, P), Inside(collector.pending, P)), Inside(b, P))
      BY <1>4, <3>1, TotalTakenExit
    <3> QED
      BY <3>2
  <2>2. Inside(table, P) \in Vec /\ Inside(p, P) \in Vec /\ Inside(b, P) \in Vec
    BY <1>2, <1>3, InsideType
  <2>3. Inside(table', P) \in Vec
    BY <1>2, InsideType
  <2> HIDE DEF p
  <2>4. Plus(Plus(Inside(table, P), Inside(p, P)), Inside(b, P))
          = Plus(Plus(Inside(table, P), Inside(b, P)), Inside(p, P))
    BY <2>2, PlusAssociates, PlusCommutes
  <2> QED
    BY <1>2, <2>1, <2>2, <2>3, <2>4, PlusType DEF Whole
<1> HIDE DEF p
<1>6. \A m \in Nat : m >= purged' =>
        Whole(During(m)) = Plus(Inside(table', During(m)), Inside(p, During(m)))
  BY <1>2, <1>5
<1>7. ASSUME NEW P PROVE AtMost(Inside(table', P), Whole(P))
  <2>1. AtMost(Plus(Inside(table, P), Inside(b, P)), Whole(P)) /\ Whole(P) \in Vec
    BY <1>5, PlusMore, PlusType
  <2> QED
    BY <1>2, <1>5, <2>1, AtMostTrans
<1> QED
  BY <1>1, <1>2, <1>3, <1>6, <1>7, EndsData

\* A write moves what was taken into the table.
LEMMA CommitInLoop ==
  ASSUME DataInv, Commit("loop")
  PROVE  DataInv' /\ NoMore
<1> DEFINE p == collector.pending
<1>1. /\ collector' = collector /\ flush' = [flush EXCEPT !["loop"] = <<>>]
      /\ UNCHANGED <<minute, setting, blind, owed>>
  BY DEF Commit
<1>2. PICK b :
    /\ collector # AppGone /\ IsBuckets(b) /\ flush = TakenBy("loop", b)
    /\ IsBuckets(table') /\ Balanced(table') /\ purged' \in Nat /\ purged' >= purged
    /\ \A m \in Nat : m >= purged' =>
         Inside(table', During(m)) = Plus(Inside(table, During(m)), Inside(b, During(m)))
    /\ \A P : AtMost(Inside(table', P), Plus(Inside(table, P), Inside(b, P)))
  BY CommitTable
<1>3. IsCollector(collector) /\ IsBuckets(p) /\ IsBuckets(table)
  BY <1>2, CollectorUp DEF DataInv, DataType, IsData
<1>4. IsData(collector, TakenBy("loop", b), table)
  BY <1>2 DEF DataInv, DataType
<1>5. flush' = NoFlush
  BY <1>1, <1>2 DEF NoFlush, TakenBy
<1>6. IsData(collector, flush, table)'
  BY <1>1, <1>2, <1>3, <1>5, NothingTaken DEF IsData
<1>7. DataType'
  BY <1>1, <1>2, <1>6 DEF DataInv, DataType
<1>8. BalancedData(collector, flush, table)'
  BY <1>1, <1>2, <1>5, NothingTaken, NoneBalanced DEF BalancedData, DataInv
<1>9. ASSUME NEW P
      PROVE  /\ Whole(P) = Plus(Plus(Inside(table, P), Inside(b, P)), Inside(p, P))
             /\ Whole(P)' = Plus(Inside(table', P), Inside(p, P))
             /\ Plus(Inside(table, P), Inside(b, P)) \in Vec /\ Inside(p, P) \in Vec
             /\ Inside(table', P) \in Vec
  <2>1. Total4(collector, TakenBy("loop", b), table, P)
          = Plus(Plus(Inside(table, P), Inside(p, P)), Inside(b, P))
    <3>1. collector # AppGone /\ IsBuckets(b)
      BY <1>2
    <3>2. Total4(collector, TakenBy("loop", b), table, P)
            = Plus(Plus(Inside(table, P), Inside(collector.pending, P)), Inside(b, P))
      BY <1>4, <3>1, TotalTakenLoop
    <3> QED
      BY <3>2
  <2>2. Inside(table, P) \in Vec /\ Inside(p, P) \in Vec /\ Inside(b, P) \in Vec
    BY <1>2, <1>3, InsideType
  <2>3. Inside(table', P) \in Vec
    BY <1>2, InsideType
  <2>4. Total4(collector, NoFlush, table', P) = Plus(Inside(table', P), Inside(p, P))
    <3>1. IsData(collector, NoFlush, table')
      BY <1>1, <1>5, <1>6
    <3> QED
      BY <1>2, <3>1, TotalUntaken
  <2>5. Whole(P)' = Total4(collector, NoFlush, table', P)
    BY <1>1, <1>5 DEF Whole
  <2>6. Whole(P) = Total4(collector, TakenBy("loop", b), table, P)
    BY <1>2 DEF Whole
  <2> HIDE DEF p
  <2>7. Plus(Plus(Inside(table, P), Inside(p, P)), Inside(b, P))
          = Plus(Plus(Inside(table, P), Inside(b, P)), Inside(p, P))
    BY <2>2, PlusAssociates, PlusCommutes
  <2>8. Plus(Inside(table, P), Inside(b, P)) \in Vec
    BY <2>2, PlusType
  <2> QED
    BY <2>1, <2>2, <2>3, <2>4, <2>5, <2>6, <2>7, <2>8
<1> HIDE DEF p
<1>10. Recorded'
  <2>1. SUFFICES ASSUME ~blind', NEW m \in purged' .. LastMinute PROVE Whole(During(m))' = owed'[m]
    BY DEF Recorded
  <2>2. m \in purged .. LastMinute /\ m \in Nat /\ m >= purged'
    BY <1>2 DEF DataInv, DataType
  <2>3. Whole(During(m)) = owed[m]
    BY <1>1, <2>1, <2>2 DEF DataInv, Recorded
  <2> QED
    BY <1>1, <1>2, <1>9, <2>2, <2>3
<1>11. NoMore
  <2>1. ASSUME NEW P PROVE AtMost(Whole(P)', Whole(P))
    BY <1>2, <1>9, PlusAtMost, AtMostRefl
  <2> QED
    BY <2>1 DEF NoMore
<1> QED
  BY <1>7, <1>8, <1>10, <1>11 DEF DataInv

\* A step that leaves the buckets alone.
LEMMA OtherData ==
  ASSUME DataInv, UNCHANGED <<collector, flush, table, owed, purged, blind>>,
         minute' \in 0 .. LastMinute, setting' \in SettingValues
  PROVE  DataInv' /\ NoMore
<1>1. DataType'
  BY DEF DataInv, DataType
<1>2. \A P : Whole(P)' = Whole(P)
  BY DEF Whole
<1>3. Recorded'
  BY <1>2 DEF DataInv, Recorded
<1>4. BalancedData(collector, flush, table)'
  BY DEF DataInv
<1>5. NoMore
  BY <1>2, Total4Type, AtMostRefl DEF NoMore, Whole, DataInv, DataType
<1> QED
  BY <1>1, <1>3, <1>4, <1>5 DEF DataInv

(********************************* a sample **********************************)

IsReading(s) ==
  /\ s = [state |-> "reading", totals |-> s.totals, open |-> s.open, controller |-> s.controller]
  /\ s.totals \in Vec /\ s.open \in SUBSET Connections
Base      == For(collector, sample.controller)
Counters  == [c \in sample.open |-> moved[c]]
Entered   == IF Base.totals = NoSample THEN Zero ELSE Counted(Base, sample.totals)

\* The baseline is the collector's, or none when the controller is another.
LEMMA BaseIs ==
  ASSUME IsCollector(collector)
  PROVE  /\ IsCollector(Base) /\ Base.pending = collector.pending
         /\ \/ Base = collector
            \/ Base.totals = NoSample /\ Base.seen = <<>>
<1> DEFINE x == sample.controller
           acc == For(collector, x)
<1>1. PICK t, s, q, c :
        collector = [state |-> "up", totals |-> t, seen |-> s, pending |-> q, controller |-> c]
  BY DEF IsCollector
<1>2. CASE collector.controller = x
  BY <1>2 DEF Base, For
<1>3. CASE collector.controller # x
  <2>1. acc = [collector EXCEPT !.totals = NoSample, !.seen = <<>>, !.controller = x]
    BY <1>3 DEF For
  <2> HIDE DEF acc, x
  <2>2. acc = [state |-> "up", totals |-> NoSample, seen |-> <<>>, pending |-> q, controller |-> x]
    BY <1>1, <2>1
  <2>3. acc.totals = NoSample /\ acc.seen = <<>> /\ acc.pending = q /\ acc.controller = x
    BY <2>2
  <2>4. collector.pending = q /\ IsBuckets(q)
    BY <1>1 DEF IsCollector
  <2>5. IsCollector(acc)
    BY <2>2, <2>3, <2>4, NothingSeen DEF IsCollector
  <2>6. Base = acc
    BY DEF Base, acc, x
  <2> QED
    BY <2>3, <2>4, <2>5, <2>6
<1> QED
  BY <1>2, <1>3

LEMMA NothingAdded ==
  ASSUME NEW b, IsBuckets(b), NEW m
  PROVE  Adds(b, b, Zero, m)
<1>1. \A c : When(c, Zero) = Zero
  BY DEF When
<1>2. \A P : Plus(Inside(b, P), Zero) = Inside(b, P)
  BY InsideType, PlusZero
<1> QED
  BY <1>1, <1>2, ZeroType DEF Adds

\* What a sample adds to what is pending.
LEMMA Collected ==
  ASSUME IsCollector(collector), IsReading(sample), moved \in [Connections -> Vec],
         minute \in Nat, Collect
  PROVE  /\ IsCollector(collector') /\ collector'.totals = sample.totals
         /\ collector'.seen = Counters
         /\ Adds(collector.pending, collector'.pending, Entered, minute)
         /\ Base.totals = NoSample => collector'.pending = collector.pending
         /\ Base.totals # NoSample =>
              AddsShares(collector.pending, collector'.pending, Counters,
                         Known(Base, sample.totals), sample.open)
<1> DEFINE S == sample.open
           acc == Base
           new == collector'
<1>1. PICK order \in SetToSeqs(S) : new = Observe(acc, sample.totals, order, Counters, minute)
  BY DEF Collect, Base, Counters
<1>2. S \in SUBSET Connections /\ sample.totals \in Vec
  BY DEF IsReading
<1>3. Counters \in [S -> Vec]
  BY <1>2 DEF Counters
<1>4. IsCollector(acc) /\ acc.pending = collector.pending
  BY BaseIs
<1>5. /\ new = [state |-> "up", totals |-> sample.totals, seen |-> Counters,
                pending |-> new.pending, controller |-> acc.controller]
      /\ acc.totals = NoSample => new.pending = acc.pending
      /\ acc.totals # NoSample =>
           /\ Adds(acc.pending, new.pending, Counted(acc, sample.totals), minute)
           /\ AddsShares(acc.pending, new.pending, Counters, Known(acc, sample.totals), S)
  <2> HIDE DEF S, acc
  <2> QED
    BY <1>1, <1>2, <1>3, <1>4, Observed
<1>6. Adds(collector.pending, new.pending, Entered, minute)
  <2>1. CASE acc.totals = NoSample
    BY <1>4, <1>5, <2>1, NothingAdded DEF Entered, IsCollector
  <2>2. CASE acc.totals # NoSample
    BY <1>4, <1>5, <2>2 DEF Entered
  <2> QED
    BY <2>1, <2>2
<1>7. new.totals = sample.totals /\ new.seen = Counters /\ new.controller = acc.controller
  <2> DEFINE p == new.pending
             k == acc.controller
  <2>1. new = [state |-> "up", totals |-> sample.totals, seen |-> Counters,
               pending |-> p, controller |-> k]
    BY <1>5
  <2> HIDE DEF p, k, new
  <2>2. new.totals = sample.totals /\ new.seen = Counters /\ new.controller = k
    BY <2>1
  <2> QED
    BY <2>2 DEF k
<1>8. IsSeen(Counters)
  BY <1>2, <1>3 DEF IsSeen, OnVec
<1>9. IsCollector(new)
  <2>1. sample.totals # NoSample
    BY <1>2, NoSampleDiffers
  <2>2. IsBuckets(new.pending)
    BY <1>6 DEF Adds
  <2> QED
    BY <1>2, <1>5, <1>7, <1>8, <2>1, <2>2 DEF IsCollector
<1> QED
  BY <1>4, <1>5, <1>6, <1>7, <1>9

\* In all places together.
LEMMA CollectedAll ==
  ASSUME DataType, IsCollector(collector), IsCollector(collector'), UNCHANGED <<flush, table>>, NEW P,
         NEW n \in Vec, Inside(collector'.pending, P) = Plus(Inside(collector.pending, P), n)
  PROVE  Whole(P)' = Plus(Whole(P), n)
<1> DEFINE t == Inside(table, P)
           p == Inside(collector.pending, P)
           q == Inside(collector'.pending, P)
           l == Inside(TakenFrom(flush, "loop"), P)
           e == Inside(TakenFrom(flush, "exit"), P)
<1>1. collector # AppGone /\ collector' # AppGone
  BY CollectorUp
<1>2. Whole(P) = Plus(Plus(Plus(t, p), l), e)
  BY <1>1 DEF Whole, Total4
<1>3. Whole(P)' = Plus(Plus(Plus(t, q), l), e)
  BY <1>1 DEF Whole, Total4
<1>4. t \in Vec /\ p \in Vec /\ l \in Vec /\ e \in Vec
  BY CollectorUp, TakenType, InsideType DEF DataType, IsData
<1>5. q = Plus(p, n)
  OBVIOUS
<1> HIDE DEF t, p, q, l, e
<1>6. Plus(t, Plus(p, n)) = Plus(Plus(t, p), n) /\ Plus(t, p) \in Vec
  BY <1>4, PlusAssociates, PlusType
<1>7. Plus(Plus(Plus(t, p), n), l) = Plus(Plus(Plus(t, p), l), n) /\ Plus(Plus(t, p), l) \in Vec
  BY <1>4, <1>6, PlusAssociates, PlusCommutes, PlusType
<1>8. Plus(Plus(Plus(Plus(t, p), l), n), e) = Plus(Plus(Plus(Plus(t, p), l), e), n)
  BY <1>4, <1>7, PlusAssociates, PlusCommutes
<1> QED
  BY <1>2, <1>3, <1>5, <1>6, <1>7, <1>8

LEMMA CollectedAtMost ==
  ASSUME DataType, IsCollector(collector), IsCollector(collector'), UNCHANGED <<flush, table>>, NEW P,
         NEW n \in Vec,
         AtMost(Inside(collector'.pending, P), Plus(Inside(collector.pending, P), n))
  PROVE  AtMost(Whole(P)', Plus(Whole(P), n))
<1> DEFINE t == Inside(table, P)
           p == Inside(collector.pending, P)
           q == Inside(collector'.pending, P)
           l == Inside(TakenFrom(flush, "loop"), P)
           e == Inside(TakenFrom(flush, "exit"), P)
<1>1. collector # AppGone /\ collector' # AppGone
  BY CollectorUp
<1>2. Whole(P) = Plus(Plus(Plus(t, p), l), e)
  BY <1>1 DEF Whole, Total4
<1>3. Whole(P)' = Plus(Plus(Plus(t, q), l), e)
  BY <1>1 DEF Whole, Total4
<1>4. t \in Vec /\ p \in Vec /\ l \in Vec /\ e \in Vec /\ q \in Vec
  BY CollectorUp, TakenType, InsideType DEF DataType, IsData
<1>5. AtMost(q, Plus(p, n)) /\ Plus(p, n) \in Vec
  BY <1>4, PlusType
<1> HIDE DEF t, p, q, l, e
<1>6. ASSUME NEW d \in Directions
      PROVE  Plus(Plus(Plus(t, q), l), e)[d] <= Plus(Plus(Plus(Plus(t, p), l), e), n)[d]
  <2>1. Plus(Plus(Plus(t, q), l), e)[d] = t[d] + q[d] + l[d] + e[d]
    BY <1>4, FourType
  <2>2. Plus(Plus(Plus(t, p), l), e)[d] = t[d] + p[d] + l[d] + e[d]
        /\ Plus(Plus(Plus(t, p), l), e) \in Vec
    BY <1>4, FourType
  <2>3. Plus(Plus(Plus(Plus(t, p), l), e), n)[d] = Plus(Plus(Plus(t, p), l), e)[d] + n[d]
    BY <2>2, PlusType
  <2>4. q[d] <= p[d] + n[d]
    BY <1>4, <1>5, PlusType DEF AtMost
  <2>5. t[d] \in Nat /\ p[d] \in Nat /\ q[d] \in Nat /\ l[d] \in Nat /\ e[d] \in Nat /\ n[d] \in Nat
    BY <1>4 DEF Vec
  <2> QED
    BY <2>1, <2>2, <2>3, <2>4, <2>5
<1> QED
  BY <1>2, <1>3, <1>6 DEF AtMost

\* Without a restart the totals have not fallen since the last sample.
NotFallen ==
  collector # AppGone /\ collector.totals # NoSample /\ ~restarted /\ sample # NoSample =>
    AtMost(collector.totals, sample.totals)

LEMMA EnteredType ==
  ASSUME IsCollector(collector), IsReading(sample)
  PROVE  Entered \in Vec
<1>1. Base.totals \in Vec \cup {NoSample} /\ sample.totals \in Vec
  BY BaseIs DEF IsCollector, IsReading
<1> QED
  BY <1>1, ZeroType, LessType DEF Entered, Counted

\* The growth the core counted, unless a restart went unseen.
LEMMA EnteredIs ==
  ASSUME IsCollector(collector), IsReading(sample), NotFallen, sample # NoSample
  PROVE  LET acc    == For(collector, sample.controller)
             first  == acc.totals = NoSample
             growth == IF first THEN Zero ELSE IF restarted THEN sample.totals
                       ELSE Less(sample.totals, acc.totals)
         IN  growth = Entered \/ (~first /\ restarted
                                  /\ \A d \in {"up", "down"} : acc.totals[d] <= sample.totals[d]
                                  /\ acc.totals # Zero)
<1> DEFINE a == Base.totals
           s == sample.totals
<1>1. a \in Vec \cup {NoSample} /\ s \in Vec /\ Base = For(collector, sample.controller)
  BY BaseIs DEF IsCollector, IsReading, Base
<1>2. CASE a = NoSample
  BY <1>1, <1>2 DEF Entered
<1>3. CASE a # NoSample
  <2>1. a \in Vec /\ Entered = Counted(Base, s)
    BY <1>1, <1>3 DEF Entered
  <2>2. Falls(Base, s) <=> ~(\A d \in {"up", "down"} : a[d] <= s[d])
    <3>1. a["up"] \in Nat /\ a["down"] \in Nat /\ s["up"] \in Nat /\ s["down"] \in Nat
      BY <1>1, <2>1 DEF Vec, Directions
    <3>2. Falls(Base, s) <=> s["up"] < a["up"] \/ s["down"] < a["down"]
      BY DEF Falls
    <3> HIDE DEF a, s
    <3> QED
      BY <3>1, <3>2
  <2>3. CASE restarted /\ ~Falls(Base, s) /\ a = Zero
    <3>1. Less(s, Zero) = s
      <4>1. ASSUME NEW d \in Directions PROVE Less(s, Zero)[d] = s[d]
        <5>1. s[d] \in Nat /\ Zero[d] = 0
          BY <1>1, ZeroType DEF Vec
        <5> HIDE DEF s
        <5>2. Less(s, Zero)[d] = IF s[d] > Zero[d] THEN s[d] - Zero[d] ELSE 0
          BY <1>1, ZeroType, LessType
        <5> QED
          BY <5>1, <5>2
      <4> HIDE DEF s
      <4> QED
        BY <1>1, <4>1, ZeroType, LessType, SameVec
    <3> QED
      BY <1>1, <1>3, <2>1, <2>3, <3>1 DEF Counted
  <2>4. CASE restarted /\ Falls(Base, s)
    BY <1>1, <1>3, <2>1, <2>4 DEF Counted
  <2>5. CASE restarted /\ ~Falls(Base, s) /\ a # Zero
    BY <1>1, <1>3, <2>2, <2>5
  <2>6. CASE ~restarted
    <3>1. Base = collector /\ collector # AppGone
      BY <1>3, BaseIs, CollectorUp
    <3>2. AtMost(a, s)
      BY <1>3, <2>6, <3>1 DEF NotFallen
    <3>3. ~Falls(Base, s)
      BY <2>2, <3>2 DEF AtMost, Directions
    <3> QED
      BY <1>1, <1>3, <2>1, <2>6, <3>3 DEF Counted
  <2> QED
    BY <2>3, <2>4, <2>5, <2>6
<1> QED
  BY <1>2, <1>3

\* A sample is recorded in its minute, whatever its connections are.
LEMMA CollectData ==
  ASSUME DataInv, IsReading(sample), NotFallen, moved \in [Connections -> Vec], Collect
  PROVE  DataInv'
<1>1. collector # AppGone /\ sample # NoSample /\ UNCHANGED <<flush, table, minute, purged, setting>>
  BY DEF Collect, AppUp
<1>2. IsCollector(collector) /\ minute \in 0 .. LastMinute /\ minute \in Nat
  BY <1>1, TrafficBounds DEF DataInv, DataType, IsData
<1>3. IsCollector(collector') /\ Adds(collector.pending, collector'.pending, Entered, minute)
  BY <1>2, Collected
<1>4. Entered \in Vec
  BY <1>2, EnteredType
<1> DEFINE acc    == For(collector, sample.controller)
           first  == acc.totals = NoSample
           growth == IF first THEN Zero ELSE IF restarted THEN sample.totals
                     ELSE Less(sample.totals, acc.totals)
           unseen == ~first /\ restarted
                     /\ (\A d \in {"up", "down"} : acc.totals[d] <= sample.totals[d])
                     /\ acc.totals # Zero
<1>5. owed' = [owed EXCEPT ![minute] = Plus(@, growth)] /\ blind' = (blind \/ unseen)
  BY DEF Collect
<1>6. growth = Entered \/ unseen
  BY <1>1, <1>2, EnteredIs
<1>7. growth \in Vec
  <2>1. Base.totals \in Vec \cup {NoSample} /\ sample.totals \in Vec
    BY <1>2, BaseIs DEF IsCollector, IsReading
  <2> QED
    BY <2>1, ZeroType, LessType DEF Base
<1>8. unseen \in BOOLEAN
  OBVIOUS
<1> HIDE DEF growth, unseen, acc, first
<1>9. owed \in [0 .. LastMinute -> Vec] /\ blind \in BOOLEAN /\ purged \in Nat
  BY DEF DataInv, DataType
<1>10. owed' \in [0 .. LastMinute -> Vec]
  <2>1. owed[minute] \in Vec
    BY <1>2, <1>9
  <2>2. Plus(owed[minute], growth) \in Vec
    BY <1>7, <2>1, PlusType
  <2> QED
    BY <1>5, <1>9, <2>2
<1>11. IsData(collector, flush, table)'
  <2>1. IsFlush(collector', flush)
    BY <1>1, <1>3, CollectorUp DEF DataInv, DataType, IsData, IsFlush
  <2> QED
    BY <1>1, <1>3, <2>1 DEF DataInv, DataType, IsData
<1>12. DataType'
  BY <1>1, <1>5, <1>8, <1>9, <1>10, <1>11 DEF DataInv, DataType
<1>13. BalancedData(collector, flush, table)'
  BY <1>1, <1>3, CollectorUp DEF DataInv, BalancedData, Adds
<1>14. Recorded'
  <2>1. SUFFICES ASSUME ~blind', NEW m \in purged .. LastMinute PROVE Whole(During(m))' = owed'[m]
    BY <1>1 DEF Recorded
  <2>2. ~blind /\ growth = Entered
    BY <1>5, <1>6, <2>1
  <2>3. Whole(During(m)) = owed[m] /\ m \in 0 .. LastMinute /\ m \in Int
    BY <1>9, <2>1, <2>2, TrafficBounds DEF DataInv, Recorded
  <2>4. Whole(During(m))' = Plus(Whole(During(m)), When(minute = m, Entered))
    <3>1. When(minute = m, Entered) \in Vec
      BY <1>4, ZeroType DEF When
    <3>2. Inside(collector'.pending, During(m))
            = Plus(Inside(collector.pending, During(m)), When(minute = m, Entered))
      BY <1>3, <2>3 DEF Adds
    <3>3. DataType
      BY DEF DataInv
    <3> QED
      BY <1>1, <1>2, <1>3, <3>1, <3>2, <3>3, CollectedAll
  <2>5. owed[m] \in Vec
    BY <1>9, <2>3
  <2>6. CASE minute = m
    <3>1. owed'[m] = Plus(owed[m], Entered)
      BY <1>5, <1>9, <2>2, <2>3, <2>6
    <3> QED
      BY <2>3, <2>4, <2>6, <3>1 DEF When
  <2>7. CASE minute # m
    <3>1. owed'[m] = owed[m]
      BY <1>5, <1>9, <2>3, <2>7
    <3> QED
      BY <2>3, <2>4, <2>5, <2>7, <3>1, PlusZero DEF When
  <2> QED
    BY <2>6, <2>7
<1> QED
  BY <1>12, <1>13, <1>14 DEF DataInv

(******************************** the counters *******************************)

Running  == core # CoreOff
Reading  == sample # NoSample
Baseline == collector # AppGone /\ collector.totals # NoSample
Conns    == IF Running THEN core.conns ELSE {}
Open     == IF Running THEN core.open ELSE {}
Read     == IF Reading THEN sample.open ELSE {}

IsCore(c) ==
  /\ c = [state |-> "up", conns |-> c.conns, open |-> c.open]
  /\ c.conns \in SUBSET Connections /\ c.open \subseteq c.conns

CounterType ==
  /\ moved \in [Connections -> Vec]
  /\ Running => IsCore(core)
  /\ Reading => IsReading(sample) /\ collector # AppGone /\ Running /\ sample.open \subseteq core.conns
  /\ restarted \in BOOLEAN

\* What the connections in S carried.
Carried(S) == BytesOf(S, moved)
Before     == Carried(Connections \ Conns)

\* A sample and a baseline lag behind the counters, in this order.
Monotone ==
  /\ Reading => AtMost(sample.totals, Carried(Conns))
  /\ Baseline /\ ~restarted /\ Running => AtMost(collector.totals, Carried(Conns))
  /\ NotFallen

\* The total that is booked is at most what was carried before the sample.
Entries == Whole(From("total", 0))
TotalBounded ==
  /\ AtMost(Entries, Carried(Connections))
  /\ restarted => AtMost(Entries, Before)
  /\ Baseline /\ ~restarted /\ Running => AtMost(Entries, Plus(Before, collector.totals))
  /\ Reading => AtMost(Entries, Plus(Before, sample.totals))

\* What may have been booked for a connection.
Level(c) ==
  IF c \notin Conns THEN moved[c]
  ELSE IF restarted THEN Zero
  ELSE IF c \notin Open /\ c \notin Read THEN moved[c]
  ELSE IF Baseline THEN At(collector.seen, c)
  ELSE IF Reading /\ c \notin Read THEN Zero
  ELSE moved[c]
Levels == [c \in Connections |-> Level(c)]

\* What is known of a connection it has carried; one that is known and still open
\* is in the sample.
SeenBefore ==
  /\ \A c \in Conns : moved[c] # Zero
  /\ collector # AppGone =>
       \A c \in DOMAIN collector.seen :
         /\ moved[c] # Zero /\ AtMost(collector.seen[c], moved[c])
         /\ Reading /\ c \in Open => c \in Read

KeysBounded ==
  \A dim \in Dimensions, key \in Names \ {Unattributed} :
    AtMost(Whole(Of(dim, key)), BytesOf(Sharing(Connections, dim, key), Levels))

CounterInv == CounterType /\ Monotone /\ TotalBounded /\ SeenBefore /\ KeysBounded

LEMMA CarriedType ==
  ASSUME CounterType, NEW S \in SUBSET Connections
  PROVE  IsFiniteSet(S) /\ Carried(S) \in Vec
<1>1. IsFiniteSet(S)
  BY TrafficBounds, FS_Subset
<1>2. OnVec(moved, S)
  BY DEF CounterType, OnVec
<1> QED
  BY <1>1, <1>2, SumType DEF Carried

LEMMA ConnsType ==
  ASSUME CounterType
  PROVE  /\ Conns \in SUBSET Connections /\ Open \subseteq Conns /\ Read \subseteq Conns
         /\ Connections \ Conns \in SUBSET Connections /\ Connections \in SUBSET Connections
         /\ Before \in Vec /\ Carried(Conns) \in Vec
         /\ Running => Totals = Carried(Conns)
         /\ ~Running => Before = Carried(Connections)
<1>1. Conns \in SUBSET Connections /\ Open \subseteq Conns /\ Read \subseteq Conns
  BY DEF CounterType, Conns, Open, Read, IsCore
<1>2. Connections \ Conns \in SUBSET Connections /\ Connections \in SUBSET Connections
  OBVIOUS
<1>3. Running => Totals = Carried(Conns)
  BY DEF Totals, Carried, Conns
<1>4. ~Running => Connections \ Conns = Connections
  BY DEF Conns
<1> QED
  BY <1>1, <1>2, <1>3, <1>4, CarriedType DEF Before

\* The total is what earlier runs of the core and this one carried.
LEMMA BeforeAndNow ==
  ASSUME CounterType
  PROVE  Carried(Connections) = Plus(Before, Carried(Conns))
<1> DEFINE R == Connections \ Conns
<1>1. R \in SUBSET Connections /\ Conns \in SUBSET Connections /\ R \cup Conns = Connections
      /\ R \cap Conns = {}
  BY ConnsType
<1>2. IsFiniteSet(R) /\ IsFiniteSet(Conns)
  BY <1>1, CarriedType
<1>3. OnVec(moved, R \cup Conns)
  BY <1>1 DEF CounterType, OnVec
<1>4. BytesOf(R \cup Conns, moved) = Plus(BytesOf(R, moved), BytesOf(Conns, moved))
  BY <1>1, <1>2, <1>3, SumUnion
<1> QED
  BY <1>1, <1>4 DEF Carried, Before

NowIs == Carried(Connections) = Plus(Before, Carried(Conns)) /\ Carried(Conns) \in Vec
LEMMA BeforeAndNowAlways == CounterType => NowIs
  BY ConnsType, BeforeAndNow DEF NowIs

LEMMA EntriesType == ASSUME DataType PROVE Entries \in Vec
  BY Total4Type DEF Entries, Whole, DataType

Leveled ==
  \A c \in Connections : Level(c) \in Vec /\ moved[c] \in Vec /\ AtMost(Level(c), moved[c])

LEMMA LevelType == CounterType /\ SeenBefore /\ DataType => Leveled
<1> SUFFICES ASSUME CounterType, SeenBefore, DataType, NEW c \in Connections
             PROVE  Level(c) \in Vec /\ moved[c] \in Vec /\ AtMost(Level(c), moved[c])
  BY DEF Leveled
<1>0. collector = AppGone \/ IsCollector(collector)
  BY DEF DataType, IsData
<1>1. moved[c] \in Vec
  BY DEF CounterType
<1>2. AtMost(Zero, moved[c]) /\ AtMost(moved[c], moved[c]) /\ Zero \in Vec
  BY <1>1, ZeroType DEF AtMost, Vec
<1>3. ASSUME collector # AppGone
      PROVE  At(collector.seen, c) \in Vec /\ AtMost(At(collector.seen, c), moved[c])
  <2>1. At(collector.seen, c) \in Vec
    BY <1>0, <1>3, AtSeenType DEF IsCollector
  <2>2. AtMost(At(collector.seen, c), moved[c])
    BY <1>2, <1>3 DEF SeenBefore, At
  <2> QED
    BY <2>1, <2>2
<1> QED
  BY <1>1, <1>2, <1>3 DEF Level, Baseline

\* Levels that do not fall bound the keys that nothing was added to.
LEMMA KeysStay ==
  ASSUME DataType, DataType', CounterType, CounterType', SeenBefore, SeenBefore', KeysBounded, NoMore,
         \A c \in Connections : AtMost(Level(c), Level(c)')
  PROVE  KeysBounded'
<1>1. SUFFICES ASSUME NEW dim \in Dimensions, NEW key \in Names \ {Unattributed}
               PROVE  AtMost(Whole(Of(dim, key))', BytesOf(Sharing(Connections, dim, key), Levels'))
  BY DEF KeysBounded
<1> DEFINE S == Sharing(Connections, dim, key)
<1>2. S \in SUBSET Connections
  BY DEF Sharing
<1>3. IsFiniteSet(S)
  BY <1>2, CarriedType
<1>4. OnVec(Levels, S) /\ OnVec(Levels', S) /\ \A c \in S : AtMost(Levels[c], Levels'[c])
  <2>1. \A c \in Connections : Level(c) \in Vec
    BY LevelType DEF Leveled
  <2>2. \A c \in Connections : Level(c)' \in Vec
    <3>1. Leveled'
      BY LevelType, PTL
    <3> QED
      BY <3>1 DEF Leveled
  <2> QED
    BY <1>2, <2>1, <2>2 DEF OnVec, Levels
<1>5. AtMost(BytesOf(S, Levels), BytesOf(S, Levels')) /\ BytesOf(S, Levels) \in Vec
      /\ BytesOf(S, Levels') \in Vec
  BY <1>3, <1>4, SumAtMost, SumType
<1>6. Whole(Of(dim, key)) \in Vec /\ Whole(Of(dim, key))' \in Vec
  BY Total4Type DEF Whole, DataType
<1>7. AtMost(Whole(Of(dim, key))', Whole(Of(dim, key)))
  BY DEF NoMore
<1>8. AtMost(Whole(Of(dim, key)), BytesOf(S, Levels))
  BY DEF KeysBounded
<1> QED
  BY <1>5, <1>6, <1>7, <1>8, AtMostTrans

(*************************** steps on the counters ***************************)

LEMMA FewerEntries ==
  ASSUME DataInv, DataInv', NoMore, NEW n \in Vec, AtMost(Entries, n)
  PROVE  AtMost(Entries', n)
<1>1. Entries \in Vec /\ Entries' \in Vec
  BY EntriesType, Total4Type DEF DataInv, DataType, Entries, Whole
<1>2. AtMost(Entries', Entries)
  BY DEF NoMore, Entries
<1> QED
  BY <1>1, <1>2, AtMostTrans

LEMMA BoundsType ==
  ASSUME DataInv, CounterInv
  PROVE  /\ Carried(Connections) \in Vec /\ Before \in Vec /\ Carried(Conns) \in Vec
         /\ Reading => sample.totals \in Vec /\ Plus(Before, sample.totals) \in Vec
         /\ Baseline => collector.totals \in Vec /\ Plus(Before, collector.totals) \in Vec
         /\ Leveled
<1>1. Carried(Connections) \in Vec /\ Before \in Vec /\ Carried(Conns) \in Vec
  BY ConnsType, CarriedType DEF CounterInv
<1>2. Reading => sample.totals \in Vec
  BY DEF CounterInv, CounterType, IsReading
<1>3. Baseline => collector.totals \in Vec
  BY DEF DataInv, DataType, IsData, IsCollector, Baseline
<1>4. Leveled
  BY LevelType DEF CounterInv, DataInv
<1> QED
  BY <1>1, <1>2, <1>3, <1>4, PlusType

LEMMA LevelRefl == ASSUME Leveled PROVE \A c \in Connections : AtMost(Level(c), Level(c))
  BY AtMostRefl DEF Leveled

\* The counters, and what the collector knows of them, stay.
LEMMA QuietCounters ==
  ASSUME DataInv, DataInv', NoMore, CounterInv, UNCHANGED <<moved, core, sample, restarted>>,
         collector' # AppGone <=> collector # AppGone,
         collector # AppGone =>
           collector'.totals = collector.totals /\ collector'.seen = collector.seen
  PROVE  CounterInv'
<1>1. Conns' = Conns /\ Open' = Open /\ Read' = Read /\ Running' = Running /\ Reading' = Reading
      /\ Baseline' = Baseline
  BY DEF Conns, Open, Read, Running, Reading, Baseline
<1>2. CounterType'
  BY DEF CounterInv, CounterType, Running, Reading
<1>3. Before' = Before /\ (\A S : Carried(S)' = Carried(S))
  BY <1>1 DEF Before, Carried
<1>4. Monotone'
  BY <1>1, <1>3 DEF CounterInv, Monotone, Baseline, NotFallen
<1>5. TotalBounded'
  <2>1. AtMost(Entries', Carried(Connections))
    BY BoundsType, FewerEntries DEF CounterInv, TotalBounded
  <2>2. restarted => AtMost(Entries', Before)
    BY BoundsType, FewerEntries DEF CounterInv, TotalBounded
  <2>3. Baseline /\ ~restarted /\ Running => AtMost(Entries', Plus(Before, collector.totals))
    BY BoundsType, FewerEntries DEF CounterInv, TotalBounded
  <2>4. Reading => AtMost(Entries', Plus(Before, sample.totals))
    BY BoundsType, FewerEntries DEF CounterInv, TotalBounded
  <2> QED
    BY <1>1, <1>3, <2>1, <2>2, <2>3, <2>4 DEF TotalBounded, Baseline
<1>6. SeenBefore'
  BY <1>1 DEF CounterInv, SeenBefore
<1>7. \A c \in Connections : AtMost(Level(c), Level(c)')
  <2>1. \A c \in Connections : Level(c)' = Level(c)
    BY <1>1 DEF Level, Baseline
  <2> QED
    BY <2>1, BoundsType, LevelRefl
<1>8. KeysBounded'
  BY <1>2, <1>6, <1>7, KeysStay DEF DataInv, CounterInv
<1> QED
  BY <1>2, <1>4, <1>5, <1>6, <1>8 DEF CounterInv

\* The application is gone, and its poll with it.
LEMMA GoneCounters ==
  ASSUME DataInv, DataInv', NoMore, CounterInv, UNCHANGED <<moved, core, restarted>>,
         collector' = AppGone, sample' = NoSample
  PROVE  CounterInv'
<1>1. Conns' = Conns /\ Open' = Open /\ Read' = {} /\ Running' = Running /\ ~Reading' /\ ~Baseline'
  BY DEF Conns, Open, Read, Running, Reading, Baseline
<1>2. CounterType'
  BY <1>1 DEF CounterInv, CounterType, Running, Reading
<1>3. Before' = Before /\ (\A S : Carried(S)' = Carried(S))
  BY <1>1 DEF Before, Carried
<1>4. Monotone'
  BY <1>1 DEF Monotone, NotFallen
<1>5. TotalBounded'
  <2>1. AtMost(Entries', Carried(Connections))
    BY BoundsType, FewerEntries DEF CounterInv, TotalBounded
  <2>2. restarted => AtMost(Entries', Before)
    BY BoundsType, FewerEntries DEF CounterInv, TotalBounded
  <2> QED
    BY <1>1, <1>3, <2>1, <2>2 DEF TotalBounded
<1>6. SeenBefore'
  BY <1>1 DEF CounterInv, SeenBefore
<1>7. ASSUME NEW c \in Connections PROVE AtMost(Level(c), Level(c)')
  <2>1. Level(c) \in Vec /\ moved[c] \in Vec /\ AtMost(Level(c), moved[c])
    BY BoundsType DEF Leveled
  <2>2. Level(c)' = moved[c] \/ (Level(c)' = Level(c))
    BY <1>1 DEF Level
  <2> QED
    BY <2>1, <2>2, AtMostRefl
<1>8. KeysBounded'
  BY <1>2, <1>6, <1>7, KeysStay DEF DataInv, CounterInv
<1> QED
  BY <1>2, <1>4, <1>5, <1>6, <1>8 DEF CounterInv

\* A new process has no baseline.
LEMMA StartsCounters ==
  ASSUME DataInv, DataInv', NoMore, CounterInv, ApplicationStarts
  PROVE  CounterInv'
<1>0. collector = AppGone /\ collector' = Fresh /\ UNCHANGED <<moved, core, sample, restarted>>
  BY DEF ApplicationStarts, AppUp, Ghosts
<1>1. Conns' = Conns /\ Open' = Open /\ Read' = Read /\ Running' = Running /\ ~Reading /\ ~Reading'
      /\ ~Baseline /\ ~Baseline'
  <2>1. Fresh.totals = NoSample
    BY DEF Fresh
  <2> QED
    BY <1>0, <2>1 DEF Conns, Open, Read, Running, Reading, Baseline, CounterInv, CounterType
<1>2. CounterType'
  BY <1>0, <1>1 DEF CounterInv, CounterType, Running
<1>3. Before' = Before /\ (\A S : Carried(S)' = Carried(S))
  BY <1>0, <1>1 DEF Before, Carried
<1>4. Monotone'
  BY <1>1 DEF Monotone, NotFallen, Baseline, Reading
<1>5. TotalBounded'
  <2>1. AtMost(Entries', Carried(Connections))
    BY BoundsType, FewerEntries DEF CounterInv, TotalBounded
  <2>2. restarted => AtMost(Entries', Before)
    BY BoundsType, FewerEntries DEF CounterInv, TotalBounded
  <2> QED
    BY <1>0, <1>1, <1>3, <2>1, <2>2 DEF TotalBounded
<1>6. SeenBefore'
  <2>1. DOMAIN Fresh.seen = {}
    BY DEF Fresh
  <2> QED
    BY <1>0, <1>1, <2>1 DEF CounterInv, SeenBefore
<1>7. ASSUME NEW c \in Connections PROVE AtMost(Level(c), Level(c)')
  <2>1. Level(c)' = Level(c)
    BY <1>0, <1>1 DEF Level
  <2> QED
    BY <2>1, BoundsType, LevelRefl
<1>8. KeysBounded'
  BY <1>2, <1>6, <1>7, KeysStay DEF DataInv, CounterInv
<1> QED
  BY <1>2, <1>4, <1>5, <1>6, <1>8 DEF CounterInv

\* The totals of a sample are those of the core, and its connections those open.
LEMMA PollCounters ==
  ASSUME DataInv, DataInv', NoMore, CounterInv, Poll
  PROVE  CounterInv'
<1>0. /\ collector # AppGone /\ Running /\ ~Reading
      /\ sample' = [state |-> "reading", totals |-> Totals, open |-> core.open,
                    controller |-> setting.controller]
      /\ UNCHANGED <<moved, core, collector, restarted>>
  BY DEF Poll, AppUp, Running, Reading, Ghosts
<1> DEFINE s == sample'
<1>a. s.totals = Carried(Conns) /\ s.open = Open /\ s # NoSample /\ IsReading(s) /\ Open = core.open
  <2>1. Totals = Carried(Conns) /\ Carried(Conns) \in Vec /\ Open \subseteq Connections /\ Open = core.open
    BY <1>0, ConnsType DEF CounterInv, Open
  <2> DEFINE x == setting.controller
             t == Totals
             o == core.open
  <2>2. s = [state |-> "reading", totals |-> t, open |-> o, controller |-> x]
    BY <1>0
  <2>3. t = Carried(Conns) /\ o = Open
    BY <2>1
  <2> HIDE DEF x, t, o, s
  <2>4. s.totals = t /\ s.open = o /\ s.state = "reading" /\ s.controller = x
    BY <2>2
  <2>5. NoSample.state = "none"
    BY DEF NoSample
  <2>6. s # NoSample
    BY <2>4, <2>5
  <2>7. IsReading(s)
    BY <2>1, <2>2, <2>3, <2>4 DEF IsReading
  <2> QED
    BY <2>1, <2>3, <2>4, <2>6, <2>7
<1>1. Conns' = Conns /\ Open' = Open /\ Read' = Open /\ Read = {} /\ Running' /\ Reading'
      /\ Baseline' = Baseline
  BY <1>0, <1>a DEF Conns, Open, Read, Running, Reading, Baseline
<1>2. CounterType'
  BY <1>0, <1>1, <1>a DEF CounterInv, CounterType, Running, IsCore
<1>3. Before' = Before /\ (\A S : Carried(S)' = Carried(S)) /\ Carried(Conns)' = Carried(Conns)
  BY <1>0, <1>1 DEF Before, Carried
<1>4. Monotone'
  <2>1. AtMost(s.totals, Carried(Conns))
    BY <1>a, BoundsType, AtMostRefl
  <2>2. Baseline /\ ~restarted => AtMost(collector.totals, Carried(Conns))
    BY <1>0 DEF CounterInv, Monotone
  <2>3. NotFallen'
    BY <1>0, <1>a, <2>2 DEF NotFallen, Baseline
  <2> QED
    BY <1>0, <1>1, <1>3, <2>1, <2>2, <2>3 DEF Monotone, Baseline
<1>5. TotalBounded'
  <2>1. AtMost(Entries', Carried(Connections))
    BY BoundsType, FewerEntries DEF CounterInv, TotalBounded
  <2>2. restarted => AtMost(Entries', Before)
    BY BoundsType, FewerEntries DEF CounterInv, TotalBounded
  <2>3. Baseline /\ ~restarted /\ Running => AtMost(Entries', Plus(Before, collector.totals))
    BY BoundsType, FewerEntries DEF CounterInv, TotalBounded
  <2>4. AtMost(Entries', Plus(Before, s.totals))
    BY <1>a, <2>1, BeforeAndNow DEF CounterInv
  <2> QED
    BY <1>0, <1>1, <1>3, <2>1, <2>2, <2>3, <2>4 DEF TotalBounded, Baseline
<1>6. SeenBefore'
  BY <1>0, <1>1 DEF CounterInv, SeenBefore
<1>7. ASSUME NEW c \in Connections PROVE AtMost(Level(c), Level(c)')
  <2>1. Level(c)' = Level(c)
    BY <1>0, <1>1 DEF Level
  <2> QED
    BY <2>1, BoundsType, LevelRefl
<1>8. KeysBounded'
  BY <1>2, <1>6, <1>7, KeysStay DEF DataInv, CounterInv
<1> QED
  BY <1>2, <1>4, <1>5, <1>6, <1>8 DEF CounterInv

\* A poll comes to nothing.
LEMMA PollFailsCounters ==
  ASSUME DataInv, DataInv', NoMore, CounterInv, sample' = NoSample,
         UNCHANGED <<moved, core, collector, restarted>>
  PROVE  CounterInv'
<1>1. Conns' = Conns /\ Open' = Open /\ Read' = {} /\ Running' = Running /\ ~Reading'
      /\ Baseline' = Baseline
  BY DEF Conns, Open, Read, Running, Reading, Baseline
<1>2. CounterType'
  BY <1>1 DEF CounterInv, CounterType, Running
<1>3. Before' = Before /\ (\A S : Carried(S)' = Carried(S)) /\ Carried(Conns)' = Carried(Conns)
  BY <1>1 DEF Before, Carried
<1>4. Monotone'
  BY <1>1, <1>3 DEF CounterInv, Monotone, NotFallen, Baseline
<1>5. TotalBounded'
  <2>1. AtMost(Entries', Carried(Connections))
    BY BoundsType, FewerEntries DEF CounterInv, TotalBounded
  <2>2. restarted => AtMost(Entries', Before)
    BY BoundsType, FewerEntries DEF CounterInv, TotalBounded
  <2>3. Baseline /\ ~restarted /\ Running => AtMost(Entries', Plus(Before, collector.totals))
    BY BoundsType, FewerEntries DEF CounterInv, TotalBounded
  <2> QED
    BY <1>1, <1>3, <2>1, <2>2, <2>3 DEF TotalBounded, Baseline
<1>6. SeenBefore'
  BY <1>1 DEF CounterInv, SeenBefore
<1>7. ASSUME NEW c \in Connections PROVE AtMost(Level(c), Level(c)')
  <2>1. Level(c) \in Vec /\ moved[c] \in Vec /\ AtMost(Level(c), moved[c])
    BY BoundsType DEF Leveled
  <2>2. Level(c)' = moved[c] \/ (Level(c)' = Level(c))
    BY <1>1 DEF Level
  <2> QED
    BY <2>1, <2>2, AtMostRefl
<1>8. KeysBounded'
  BY <1>2, <1>6, <1>7, KeysStay DEF DataInv, CounterInv
<1> QED
  BY <1>2, <1>4, <1>5, <1>6, <1>8 DEF CounterInv

(**************************** steps of the core ******************************)

\* A core without connections, or none: what was carried is behind it.
LEMMA NoConnsCounters ==
  ASSUME DataInv, DataInv', NoMore, CounterInv, UNCHANGED <<moved, collector>>,
         CounterType', Conns' = {}, ~Reading', restarted' \/ ~Running'
  PROVE  CounterInv'
<1>1. Before' = Carried(Connections) /\ (\A S : Carried(S)' = Carried(S))
  <2>1. Connections \ Conns' = Connections
    OBVIOUS
  <2> QED
    BY <2>1 DEF Before, Carried
<1>2. Monotone'
  BY DEF Monotone, NotFallen, Reading
<1>3. TotalBounded'
  <2>1. AtMost(Entries', Carried(Connections))
    BY BoundsType, FewerEntries DEF CounterInv, TotalBounded
  <2> QED
    BY <1>1, <2>1 DEF TotalBounded
<1>4. SeenBefore'
  BY DEF CounterInv, SeenBefore
<1>5. ASSUME NEW c \in Connections PROVE AtMost(Level(c), Level(c)')
  <2>1. Level(c)' = moved[c]
    BY DEF Level
  <2> QED
    BY <2>1, BoundsType DEF Leveled
<1>6. KeysBounded'
  BY <1>4, <1>5, KeysStay DEF DataInv, CounterInv
<1> QED
  BY <1>2, <1>3, <1>4, <1>6 DEF CounterInv

\* The core starts with counters of zero.
LEMMA CoreStartsCounters ==
  ASSUME DataInv, DataInv', NoMore, CounterInv, CoreStarts
  PROVE  CounterInv'
<1>1. /\ core = CoreOff /\ core' = [state |-> "up", conns |-> {}, open |-> {}]
      /\ restarted' = TRUE /\ UNCHANGED <<moved, collector, sample>>
  BY DEF CoreStarts
<1>2. IsCore(core') /\ Conns' = {} /\ ~Reading'
  BY <1>1 DEF IsCore, Conns, Reading, CounterInv, CounterType, Running
<1>3. CounterType'
  BY <1>1, <1>2 DEF CounterInv, CounterType
<1> QED
  BY <1>1, <1>2, <1>3, NoConnsCounters

\* The core is gone, and the answer to a poll with it.
LEMMA CoreEndsCounters ==
  ASSUME DataInv, DataInv', NoMore, CounterInv, CoreEnds
  PROVE  CounterInv'
<1>1. core' = CoreOff /\ sample' = NoSample /\ UNCHANGED <<moved, collector, restarted>>
  BY DEF CoreEnds, Ghosts
<1>2. Conns' = {} /\ ~Reading' /\ ~Running'
  BY <1>1 DEF Conns, Reading, Running
<1>3. CounterType'
  BY <1>1, <1>2 DEF CounterInv, CounterType
<1> QED
  BY <1>1, <1>2, <1>3, NoConnsCounters

\* The core with other connections.
LEMMA CoreWith ==
  ASSUME IsCore(core), NEW n, NEW o, n \in SUBSET Connections, o \subseteq n,
         core' = [state |-> "up", conns |-> n, open |-> o]
  PROVE  IsCore(core') /\ Running /\ Running' /\ Conns' = n /\ Open' = o
         /\ Conns = core.conns /\ Open = core.open
<1>1. PICK a, b : core = [state |-> "up", conns |-> a, open |-> b]
  BY DEF IsCore
<1>2. core' = [state |-> "up", conns |-> n, open |-> o]
  OBVIOUS
<1>3. core'.conns = n /\ core'.open = o /\ core'.state = "up" /\ core.state = "up"
  BY <1>1, <1>2
<1>4. CoreOff.state = "off"
  BY DEF CoreOff
<1>5. core # CoreOff /\ core' # CoreOff
  BY <1>3, <1>4
<1> QED
  BY <1>2, <1>3, <1>5 DEF IsCore, Running, Conns, Open

\* A connection closes and keeps its last count.
LEMMA CloseCounters ==
  ASSUME DataInv, DataInv', NoMore, CounterInv, NEW x \in Connections, Close(x)
  PROVE  CounterInv'
<1>0. /\ Running /\ x \in core.open
      /\ core' = [core EXCEPT !.open = core.open \ {x}]
      /\ UNCHANGED <<moved, collector, sample, restarted>>
  BY DEF Close, Running, Ghosts
<1>a. IsCore(core)
  BY <1>0 DEF CounterInv, CounterType
<1>b. IsCore(core') /\ Running' /\ Conns' = Conns /\ Open' = Open \ {x}
      /\ Conns = core.conns /\ Open = core.open
  <2>1. PICK a, b : core = [state |-> "up", conns |-> a, open |-> b]
    BY <1>a DEF IsCore
  <2>2. core.conns = a /\ core.open = b
    BY <2>1
  <2>3. core' = [state |-> "up", conns |-> a, open |-> b \ {x}]
    BY <1>0, <2>1, <2>2
  <2>4. a \in SUBSET Connections /\ b \ {x} \subseteq a
    BY <1>a, <2>2 DEF IsCore
  <2> QED
    BY <1>a, <2>2, <2>3, <2>4, CoreWith
<1>1. Conns' = Conns /\ Open' = Open \ {x} /\ Read' = Read /\ Running' = Running
      /\ Reading' = Reading /\ Baseline' = Baseline
  BY <1>0, <1>b DEF Read, Reading, Baseline
<1>2. CounterType'
  BY <1>0, <1>1, <1>b DEF CounterInv, CounterType, Reading, Conns
<1>3. Before' = Before /\ (\A S : Carried(S)' = Carried(S)) /\ Carried(Conns)' = Carried(Conns)
  BY <1>0, <1>1 DEF Before, Carried
<1>4. Monotone'
  BY <1>0, <1>1, <1>3 DEF CounterInv, Monotone, Baseline, NotFallen
<1>5. TotalBounded'
  <2>1. AtMost(Entries', Carried(Connections))
    BY BoundsType, FewerEntries DEF CounterInv, TotalBounded
  <2>2. restarted => AtMost(Entries', Before)
    BY BoundsType, FewerEntries DEF CounterInv, TotalBounded
  <2>3. Baseline /\ ~restarted /\ Running => AtMost(Entries', Plus(Before, collector.totals))
    BY BoundsType, FewerEntries DEF CounterInv, TotalBounded
  <2>4. Reading => AtMost(Entries', Plus(Before, sample.totals))
    BY BoundsType, FewerEntries DEF CounterInv, TotalBounded
  <2> QED
    BY <1>0, <1>1, <1>3, <2>1, <2>2, <2>3, <2>4 DEF TotalBounded, Baseline
<1>6. SeenBefore'
  BY <1>0, <1>1 DEF CounterInv, SeenBefore
<1>7. ASSUME NEW c \in Connections PROVE AtMost(Level(c), Level(c)')
  <2>1. Level(c) \in Vec /\ moved[c] \in Vec /\ AtMost(Level(c), moved[c])
    BY BoundsType DEF Leveled
  <2>2. Level(c)' = moved[c] \/ (Level(c)' = Level(c))
    BY <1>0, <1>1 DEF Level
  <2> QED
    BY <2>1, <2>2, AtMostRefl
<1>8. KeysBounded'
  BY <1>2, <1>6, <1>7, KeysStay DEF DataInv, CounterInv
<1> QED
  BY <1>2, <1>4, <1>5, <1>6, <1>8 DEF CounterInv

\* A function that grows in one place.
LEMMA SumGrows ==
  ASSUME NEW S \in SUBSET Connections, moved \in [Connections -> Vec], moved' \in [Connections -> Vec],
         \A c \in Connections : AtMost(moved[c], moved'[c])
  PROVE  AtMost(Carried(S), Carried(S)') /\ Carried(S)' \in Vec
<1>1. IsFiniteSet(S)
  BY TrafficBounds, FS_Subset
<1>2. OnVec(moved, S) /\ OnVec(moved', S)
  BY DEF OnVec
<1>3. \A c \in S : AtMost(moved[c], moved'[c])
  OBVIOUS
<1> QED
  BY <1>1, <1>2, <1>3, SumAtMost, SumType DEF Carried

\* A connection carries more.
LEMMA CarryCounters ==
  ASSUME DataInv, DataInv', NoMore, CounterInv, NEW x \in Connections, NEW bytes \in OneByte, Carry(x, bytes)
  PROVE  CounterInv'
<1>0. /\ Running /\ (x \in core.open \/ moved[x] = Zero)
      /\ moved' = [moved EXCEPT ![x] = Plus(moved[x], bytes)]
      /\ core' = [core EXCEPT !.conns = core.conns \cup {x}, !.open = core.open \cup {x}]
      /\ UNCHANGED <<collector, sample, restarted>>
  BY DEF Carry, Running, Ghosts
<1>a. IsCore(core) /\ moved \in [Connections -> Vec]
  BY <1>0 DEF CounterInv, CounterType
<1>b. IsCore(core') /\ Running' /\ Conns' = Conns \cup {x} /\ Open' = Open \cup {x}
      /\ Conns = core.conns /\ Open = core.open
  <2>1. PICK a, b : core = [state |-> "up", conns |-> a, open |-> b]
    BY <1>a DEF IsCore
  <2>2. core.conns = a /\ core.open = b
    BY <2>1
  <2>3. core' = [state |-> "up", conns |-> a \cup {x}, open |-> b \cup {x}]
    BY <1>0, <2>1, <2>2
  <2>4. a \cup {x} \in SUBSET Connections /\ b \cup {x} \subseteq a \cup {x}
    BY <1>a, <2>2 DEF IsCore
  <2> QED
    BY <1>a, <2>2, <2>3, <2>4, CoreWith
<1>c. bytes \in Vec /\ bytes # Zero
  <2>1. ASSUME bytes = [up |-> 1, down |-> 0] PROVE bytes \in Vec /\ bytes["up"] = 1
    BY <2>1 DEF Vec, Directions
  <2>2. ASSUME bytes = [up |-> 0, down |-> 1] PROVE bytes \in Vec /\ bytes["down"] = 1
    BY <2>2 DEF Vec, Directions
  <2>3. Zero["up"] = 0 /\ Zero["down"] = 0
    BY ZeroType DEF Directions
  <2> QED
    BY <2>1, <2>2, <2>3 DEF OneByte
<1>d. /\ moved' \in [Connections -> Vec] /\ moved'[x] # Zero
      /\ \A c \in Connections : AtMost(moved[c], moved'[c])
      /\ \A c \in Connections : c # x => moved'[c] = moved[c]
  <2>1. moved[x] \in Vec
    BY <1>a
  <2>2. Plus(moved[x], bytes) \in Vec /\ AtMost(moved[x], Plus(moved[x], bytes))
        /\ AtMost(bytes, Plus(moved[x], bytes))
    BY <1>c, <2>1, PlusType, PlusMore
  <2>3. moved'[x] = Plus(moved[x], bytes) /\ moved' \in [Connections -> Vec]
        /\ \A c \in Connections : c # x => moved'[c] = moved[c]
    BY <1>0, <1>a, <2>2
  <2>4. Plus(moved[x], bytes) # Zero
    <3>1. ASSUME Plus(moved[x], bytes) = Zero PROVE bytes = Zero
      <4>1. ASSUME NEW d \in Directions PROVE bytes[d] = Zero[d]
        <5>1. bytes[d] <= Zero[d] /\ Zero[d] = 0 /\ bytes[d] \in Nat
          BY <1>c, <2>2, <3>1, ZeroType DEF AtMost, Vec
        <5> QED
          BY <5>1
      <4> QED
        BY <1>c, <4>1, ZeroType, SameVec
    <3> QED
      BY <1>c, <3>1
  <2>5. ASSUME NEW c \in Connections PROVE AtMost(moved[c], moved'[c])
    <3>1. moved[c] \in Vec
      BY <1>a
    <3> QED
      BY <2>2, <2>3, <3>1, AtMostRefl
  <2> QED
    BY <2>2, <2>3, <2>4, <2>5
<1>e. x \in Open \/ x \notin Conns
  <2>1. \A c \in Conns : moved[c] # Zero
    BY DEF CounterInv, SeenBefore
  <2> QED
    BY <1>0, <1>b, <2>1
<1>1. Conns' = Conns \cup {x} /\ Open' = Open \cup {x} /\ Read' = Read /\ Running /\ Running'
      /\ Reading' = Reading /\ Baseline' = Baseline
  BY <1>0, <1>b DEF Read, Reading, Baseline
<1>2. CounterType'
  BY <1>0, <1>1, <1>b, <1>d DEF CounterInv, CounterType, Reading, Conns
<1>3. Before' = Before
  <2> DEFINE R == Connections \ Conns
             Q == R \ {x}
  <2>1. IsFiniteSet(R) /\ IsFiniteSet(Q) /\ Q \in SUBSET Connections /\ Connections \ Conns' = Q
    BY <1>1, TrafficBounds, FS_Subset
  <2>2. BytesOf(Q, moved') = BytesOf(Q, moved)
    BY <1>d, <2>1, SumSame
  <2>3. BytesOf(Q, moved) = BytesOf(R, moved)
    <3>1. CASE x \in R
      <4>1. moved[x] = Zero /\ moved[x] \in Vec
        BY <1>0, <1>1, <1>a, <1>b, <3>1 DEF IsCore
      <4>2. OnVec(moved, R) /\ OnVec(moved, Q)
        BY <1>a DEF OnVec
      <4> HIDE DEF R
      <4>3. BytesOf(R, moved) = Plus(moved[x], BytesOf(R \ {x}, moved))
        BY <2>1, <3>1, <4>2, SumRemove
      <4>4. BytesOf(Q, moved) \in Vec
        BY <2>1, <4>2, SumType
      <4> QED
        BY <4>1, <4>3, <4>4, PlusZero
    <3>2. CASE x \notin R
      BY <3>2
    <3> QED
      BY <3>1, <3>2
  <2> QED
    BY <2>1, <2>2, <2>3 DEF Before, Carried
<1>f. /\ AtMost(Carried(Connections), Carried(Connections)')
      /\ Carried(Connections) \in Vec /\ Carried(Connections)' \in Vec
      /\ Before \in Vec /\ Carried(Conns) \in Vec
  <2>1. Connections \in SUBSET Connections
    OBVIOUS
  <2>2. AtMost(Carried(Connections), Carried(Connections)') /\ Carried(Connections)' \in Vec
    BY <1>a, <1>d, <2>1, SumGrows
  <2> QED
    BY <2>2, BoundsType
<1>g. Carried(Conns)' \in Vec /\ AtMost(Carried(Conns), Carried(Conns)')
  <2>1. NowIs'
    BY <1>2, BeforeAndNowAlways, PTL
  <2>2. Carried(Connections) = Plus(Before, Carried(Conns))
    BY BeforeAndNow DEF CounterInv
  <2> DEFINE b == Before
             n == Carried(Conns)
             n2 == Carried(Conns)'
             t == Carried(Connections)
             t2 == Carried(Connections)'
  <2>3. t = Plus(b, n) /\ t2 = Plus(b, n2) /\ n2 \in Vec /\ b \in Vec /\ n \in Vec /\ AtMost(t, t2)
    BY <1>3, <1>f, <2>1, <2>2 DEF NowIs
  <2> HIDE DEF b, n, n2, t, t2
  <2>4. ASSUME NEW d \in Directions PROVE n[d] <= n2[d]
    <3>1. t[d] = b[d] + n[d] /\ t2[d] = b[d] + n2[d] /\ t[d] <= t2[d]
      BY <2>3, PlusType DEF AtMost
    <3>2. b[d] \in Nat /\ n[d] \in Nat /\ n2[d] \in Nat
      BY <2>3 DEF Vec
    <3> QED
      BY <3>1, <3>2
  <2> QED
    BY <2>3, <2>4 DEF n, n2, AtMost
<1>4. Monotone'
  <2>1. Reading => AtMost(sample.totals, Carried(Conns)')
    BY <1>f, <1>g, AtMostTrans, BoundsType DEF CounterInv, Monotone
  <2>2. Baseline /\ ~restarted => AtMost(collector.totals, Carried(Conns)')
    BY <1>0, <1>f, <1>g, AtMostTrans, BoundsType DEF CounterInv, Monotone
  <2>3. NotFallen'
    BY <1>0 DEF CounterInv, Monotone, NotFallen
  <2> QED
    BY <1>0, <1>1, <2>1, <2>2, <2>3 DEF Monotone, Baseline
<1>5. TotalBounded'
  <2>1. AtMost(Entries', Carried(Connections)')
    <3>1. AtMost(Entries, Carried(Connections)')
      BY <1>f, EntriesType, AtMostTrans DEF CounterInv, TotalBounded, DataInv
    <3> QED
      BY <1>f, <3>1, FewerEntries
  <2>2. restarted => AtMost(Entries', Before)
    BY BoundsType, FewerEntries DEF CounterInv, TotalBounded
  <2>3. Baseline /\ ~restarted /\ Running => AtMost(Entries', Plus(Before, collector.totals))
    BY BoundsType, FewerEntries DEF CounterInv, TotalBounded
  <2>4. Reading => AtMost(Entries', Plus(Before, sample.totals))
    BY BoundsType, FewerEntries DEF CounterInv, TotalBounded
  <2> QED
    BY <1>0, <1>1, <1>3, <2>1, <2>2, <2>3, <2>4 DEF TotalBounded, Baseline
<1>6. SeenBefore'
  <2>1. \A c \in Conns' : moved'[c] # Zero
    <3>1. \A c \in Conns : moved[c] # Zero /\ c \in Connections
      BY ConnsType DEF CounterInv, SeenBefore
    <3> QED
      BY <1>1, <1>d, <3>1
  <2>2. ASSUME collector # AppGone, NEW c \in DOMAIN collector.seen
        PROVE  moved'[c] # Zero /\ AtMost(collector.seen[c], moved'[c]) /\ (Reading /\ c \in Open' => c \in Read)
    <3>1. moved[c] # Zero /\ AtMost(collector.seen[c], moved[c]) /\ (Reading /\ c \in Open => c \in Read)
      BY <2>2 DEF CounterInv, SeenBefore
    <3>2. c \in Connections /\ collector.seen[c] \in Vec
      BY <2>2 DEF DataInv, DataType, IsData, IsCollector, IsSeen, OnVec
    <3>3. moved[c] \in Vec /\ moved'[c] \in Vec
      BY <1>a, <1>d, <3>2
    <3>4. AtMost(collector.seen[c], moved'[c])
      BY <1>d, <3>1, <3>2, <3>3, AtMostTrans
    <3>5. moved'[c] # Zero
      BY <1>d, <3>1, <3>2
    <3>6. c \in Open' => c \in Open
      BY <1>0, <1>1, <1>b, <3>1
    <3> QED
      BY <3>1, <3>4, <3>5, <3>6
  <2> QED
    BY <1>0, <1>1, <2>1, <2>2 DEF SeenBefore
<1>7. ASSUME NEW c \in Connections PROVE AtMost(Level(c), Level(c)')
  <2>1. Level(c) \in Vec /\ moved[c] \in Vec /\ AtMost(Level(c), moved[c]) /\ moved'[c] \in Vec
        /\ AtMost(moved[c], moved'[c])
    BY <1>d, BoundsType DEF Leveled
  <2>2. AtMost(Level(c), moved'[c])
    BY <2>1, AtMostTrans
  <2>3. CASE c # x
    <3>1. Level(c)' = Level(c)
      BY <1>0, <1>1, <1>d, <2>3 DEF Level
    <3> QED
      BY <2>1, <3>1, AtMostRefl
  <2>4. CASE c = x /\ x \notin Conns
    <3>1. Level(c) = Zero
      BY <1>0, <1>a, <1>b, <2>4 DEF Level, IsCore
    <3>2. Level(c)' \in Vec
      <4>1. Leveled'
        BY <1>2, <1>6, LevelType, PTL DEF DataInv
      <4> QED
        BY <4>1 DEF Leveled
    <3> QED
      BY <3>1, <3>2, ZeroType DEF AtMost, Vec
  <2>5. CASE c = x /\ x \in Conns
    <3>1. Level(c)' = Level(c) \/ Level(c)' = moved'[c]
      BY <1>0, <1>1, <1>e, <2>5 DEF Level
    <3> QED
      BY <2>1, <2>2, <3>1, AtMostRefl
  <2> QED
    BY <2>3, <2>4, <2>5
<1>8. KeysBounded'
  BY <1>2, <1>6, <1>7, KeysStay DEF DataInv, CounterInv
<1> QED
  BY <1>2, <1>4, <1>5, <1>6, <1>8 DEF CounterInv

(********************************* collecting ********************************)

\* A sum over a larger set, of which the rest is zero.
LEMMA SumPadded ==
  ASSUME NEW T, IsFiniteSet(T), NEW S, S \subseteq T, NEW f, OnVec(f, S),
         NEW g, \A c \in S : g[c] = f[c], \A c \in T \ S : g[c] = Zero
  PROVE  BytesOf(S, f) = BytesOf(T, g)
<1> DEFINE R == T \ S
<1>1. IsFiniteSet(S) /\ IsFiniteSet(R) /\ S \cap R = {} /\ S \cup R = T
  BY FS_Subset
<1>2. OnVec(g, S \cup R)
  BY ZeroType DEF OnVec
<1>3. BytesOf(R, g) = Zero
  BY <1>1, SumZero
<1>4. BytesOf(S, g) = BytesOf(S, f)
  BY <1>1, SumSame
<1> HIDE DEF R
<1>5. BytesOf(S \cup R, g) = Plus(BytesOf(S, g), BytesOf(R, g))
  BY <1>1, <1>2, SumUnion
<1>6. BytesOf(S, f) \in Vec
  BY <1>1, SumType
<1> QED
  BY <1>1, <1>3, <1>4, <1>5, <1>6, PlusZero

\* What a sample adds to a connection: what its counter grew by.
Gain(c) ==
  IF c \in Read /\ Base.totals # NoSample
  THEN Grows(Counters, Known(Base, sample.totals), c) ELSE Zero
Gains == [c \in Connections |-> Gain(c)]

\* What Collect does, in the terms of the lemmas.
LEMMA CollectIs ==
  ASSUME DataInv, CounterInv, Collect
  PROVE  /\ Reading /\ Running /\ IsReading(sample) /\ IsCollector(collector) /\ IsCollector(collector')
         /\ IsCollector(Base) /\ (Base = collector \/ Base.totals = NoSample)
         /\ collector # AppGone /\ moved \in [Connections -> Vec]
         /\ restarted' = FALSE /\ sample' = NoSample
         /\ UNCHANGED <<moved, core, flush, table, minute>> /\ minute \in Nat
         /\ collector'.totals = sample.totals /\ collector'.seen = Counters
         /\ Adds(collector.pending, collector'.pending, Entered, minute)
         /\ Base.totals = NoSample => collector'.pending = collector.pending
         /\ Base.totals # NoSample =>
              AddsShares(collector.pending, collector'.pending, Counters,
                         Known(Base, sample.totals), sample.open)
         /\ Read = sample.open /\ DOMAIN Counters = Read /\ \A c \in Read : Counters[c] = moved[c]
<1>1. /\ Reading /\ collector # AppGone /\ restarted' = FALSE /\ sample' = NoSample
      /\ UNCHANGED <<moved, core, flush, table, minute>>
  BY DEF Collect, AppUp, Reading
<1>2. IsCollector(collector) /\ minute \in Nat
  BY <1>1, TrafficBounds DEF DataInv, DataType, IsData
<1>3. Running /\ IsReading(sample) /\ moved \in [Connections -> Vec]
  BY <1>1 DEF CounterInv, CounterType
<1>4. Read = sample.open /\ DOMAIN Counters = Read /\ \A c \in Read : Counters[c] = moved[c]
  BY <1>1 DEF Read, Counters
<1> QED
  BY <1>1, <1>2, <1>3, <1>4, BaseIs, Collected

\* A key is booked at most what its connections gained.
LEMMA CollectKeys ==
  ASSUME DataInv, CounterInv, Collect, NEW dim \in Dimensions, NEW key \in Names \ {Unattributed}
  PROVE  /\ \A c \in Connections : Gain(c) \in Vec
         /\ AtMost(Whole(Of(dim, key))',
                   Plus(Whole(Of(dim, key)), BytesOf(Sharing(Connections, dim, key), Gains)))
<1> DEFINE S == Sharing(sample.open, dim, key)
           T == Sharing(Connections, dim, key)
           known == Known(Base, sample.totals)
           G == Growth(Counters, known, sample.open)
           P == Of(dim, key)
           n == BytesOf(T, Gains)
<1>1. /\ IsReading(sample) /\ IsCollector(collector) /\ IsCollector(collector')
      /\ IsCollector(Base) /\ moved \in [Connections -> Vec] /\ UNCHANGED <<flush, table>>
      /\ Base.totals = NoSample => collector'.pending = collector.pending
      /\ Base.totals # NoSample =>
           AddsShares(collector.pending, collector'.pending, Counters, known, sample.open)
      /\ Read = sample.open /\ DOMAIN Counters = Read /\ \A c \in Read : Counters[c] = moved[c]
  BY CollectIs
<1>2. sample.open \in SUBSET Connections
  BY <1>1 DEF IsReading
<1>3. IsSeen(known)
  BY <1>1, NothingSeen DEF Known, IsCollector
<1>4. ASSUME NEW c \in Connections PROVE Gain(c) \in Vec
  <2>1. ASSUME c \in Read PROVE Grows(Counters, known, c) \in Vec
    <3>1. Counters[c] \in Vec /\ At(known, c) \in Vec
      BY <1>1, <1>3, <2>1, AtSeenType
    <3> HIDE DEF known
    <3> QED
      BY <3>1, LessType DEF Grows
  <2> QED
    BY <2>1, ZeroType DEF Gain
<1>5. IsFiniteSet(T) /\ S \subseteq T /\ OnVec(Gains, T) /\ T \in SUBSET Connections
  <2>1. T \in SUBSET Connections /\ S \subseteq T
    BY <1>2 DEF Sharing
  <2> QED
    BY <1>4, <2>1, TrafficBounds, FS_Subset DEF OnVec, Gains
<1>6. n \in Vec
  BY <1>5, SumType
<1>7. Inside(collector.pending, P) \in Vec
  BY <1>1, InsideType, CollectorUp
<1>8. AtMost(Inside(collector'.pending, P), Plus(Inside(collector.pending, P), n))
  <2>1. CASE Base.totals = NoSample
    <3> HIDE DEF n, P
    <3> QED
      BY <1>1, <1>6, <1>7, <2>1, PlusMore
  <2>2. CASE Base.totals # NoSample
    <3>1. AtMost(Inside(collector'.pending, P), Plus(Inside(collector.pending, P), BytesOf(S, G)))
      BY <1>1, <2>2 DEF AddsShares
    <3>2. OnVec(G, S) /\ (\A c \in S : Gains[c] = G[c]) /\ (\A c \in T \ S : Gains[c] = Zero)
      <4>1. \A c \in S : Gains[c] = G[c] /\ c \in Connections
        BY <1>1, <1>2, <2>2 DEF Sharing, Gains, Gain, Growth
      <4>2. \A c \in T \ S : Gains[c] = Zero
        BY <1>1, <1>2 DEF Sharing, Gains, Gain
      <4> HIDE DEF S, T, G
      <4> QED
        BY <1>4, <4>1, <4>2 DEF OnVec, Gains
    <3>3. BytesOf(S, G) = n
      <4> HIDE DEF S, T, G
      <4> QED
        BY <1>5, <3>2, SumPadded
    <3> QED
      BY <3>1, <3>3
  <2> QED
    BY <2>1, <2>2
<1>9. AtMost(Whole(P)', Plus(Whole(P), n))
  <2> HIDE DEF n, P
  <2>1. DataType
    BY DEF DataInv
  <2> QED
    BY <1>1, <1>6, <1>8, <2>1, CollectedAtMost
<1> QED
  BY <1>4, <1>9

\* What was booked for a connection and what is added is at most what it carried then.
LEMMA CollectLevel ==
  ASSUME DataInv, CounterInv, Collect, NEW c \in Connections
  PROVE  AtMost(Plus(Level(c), Gain(c)), Level(c)')
<1>1. /\ Reading /\ Running /\ IsReading(sample) /\ IsCollector(collector) /\ IsCollector(collector')
      /\ IsCollector(Base) /\ (Base = collector \/ Base.totals = NoSample)
      /\ collector # AppGone /\ moved \in [Connections -> Vec]
      /\ restarted' = FALSE /\ sample' = NoSample
      /\ UNCHANGED <<moved, core>>
      /\ collector'.totals = sample.totals /\ collector'.seen = Counters
      /\ Read = sample.open /\ DOMAIN Counters = Read /\ \A x \in Read : Counters[x] = moved[x]
  BY CollectIs
<1>2. Conns' = Conns /\ Open' = Open /\ Read' = {} /\ Read \subseteq Conns /\ Open \subseteq Conns /\ Baseline'
  <2>1. Read \subseteq Conns /\ Open \subseteq Conns
    BY ConnsType DEF CounterInv
  <2>2. sample.totals # NoSample /\ collector' # AppGone
    BY <1>1, NoSampleDiffers, CollectorUp DEF IsReading
  <2> QED
    BY <1>1, <2>1, <2>2 DEF Conns, Open, Read, Running, Reading, Baseline
<1>3. Level(c) \in Vec /\ moved[c] \in Vec /\ AtMost(Level(c), moved[c])
  BY BoundsType DEF Leveled
<1>4. Level(c)' = IF c \in Open /\ c \notin Read THEN Zero ELSE moved[c]
  BY <1>1, <1>2 DEF Level, At
<1>5. CASE c \notin Read
  <2>1. Gain(c) = Zero /\ Plus(Level(c), Zero) = Level(c)
    BY <1>3, <1>5, PlusZero DEF Gain
  <2>2. CASE c \in Open
    <3>1. Level(c) = Zero
      <4>1. CASE restarted
        BY <1>2, <2>2, <4>1 DEF Level
      <4>2. CASE ~restarted /\ Baseline
        <5>1. c \notin DOMAIN collector.seen
          BY <1>1, <1>5, <2>2 DEF CounterInv, SeenBefore
        <5> QED
          BY <1>2, <2>2, <4>2, <5>1 DEF Level, At
      <4>3. CASE ~restarted /\ ~Baseline
        BY <1>1, <1>2, <1>5, <2>2, <4>3 DEF Level
      <4> QED
        BY <4>1, <4>2, <4>3
    <3> QED
      BY <1>4, <1>5, <2>1, <2>2, <3>1, ZeroType, AtMostRefl
  <2>3. CASE c \notin Open
    BY <1>3, <1>4, <2>1, <2>3
  <2> QED
    BY <2>2, <2>3
<1>6. CASE c \in Read
  <2>1. Level(c)' = moved[c] /\ Counters[c] = moved[c] /\ c \in Conns
    BY <1>1, <1>2, <1>4, <1>6
  <2>2. CASE Base.totals = NoSample
    BY <1>3, <2>1, <2>2, PlusZero DEF Gain
  <2>3. CASE Base.totals # NoSample
    <3> DEFINE known == Known(Base, sample.totals)
    <3>1. Base = collector /\ Baseline /\ Gain(c) = Less(moved[c], At(known, c))
      BY <1>1, <1>6, <2>1, <2>3 DEF Gain, Grows, Baseline
    <3>2. At(known, c) \in Vec
      <4>1. IsSeen(known)
        BY <1>1, NothingSeen DEF Known, IsCollector
      <4> QED
        BY <4>1, AtSeenType
    <3>3. Gain(c) \in Vec /\ AtMost(Gain(c), moved[c])
      <4> DEFINE v == At(known, c)
      <4>1. v \in Vec
        BY <3>2
      <4>2. Gain(c) = Less(moved[c], v)
        BY <3>1
      <4> HIDE DEF v
      <4>3. \A d \in Directions : v[d] \in Nat /\ moved[c][d] \in Nat
        BY <1>3, <4>1 DEF Vec
      <4> QED
        BY <1>3, <4>1, <4>2, <4>3, LessType DEF AtMost
    <3>4. CASE restarted
      <4>1. Level(c) = Zero
        BY <2>1, <3>4 DEF Level
      <4> QED
        BY <2>1, <3>3, <4>1, PlusZero
    <3>5. CASE ~restarted
      <4>1. AtMost(collector.totals, sample.totals)
        BY <1>1, <2>3, <3>1, <3>5 DEF CounterInv, Monotone, NotFallen, Reading
      <4>2. ~Falls(Base, sample.totals)
        <5> DEFINE a == collector.totals
                   s == sample.totals
        <5>1. a \in Vec /\ s \in Vec /\ AtMost(a, s)
          BY <1>1, <2>3, <3>1, <4>1 DEF IsCollector, IsReading
        <5>2. a["up"] \in Nat /\ a["down"] \in Nat /\ s["up"] \in Nat /\ s["down"] \in Nat
              /\ a["up"] <= s["up"] /\ a["down"] <= s["down"]
          BY <5>1 DEF Vec, Directions, AtMost
        <5>3. Falls(Base, s) <=> s["up"] < a["up"] \/ s["down"] < a["down"]
          BY <3>1 DEF Falls
        <5> HIDE DEF a, s
        <5>4. ~Falls(Base, s)
          BY <5>2, <5>3
        <5> QED
          BY <5>4 DEF s
      <4>3. known = collector.seen
        BY <3>1, <4>2 DEF Known
      <4>4. Level(c) = At(known, c)
        BY <1>6, <2>1, <3>1, <3>5, <4>3 DEF Level
      <4>5. Plus(Level(c), Gain(c)) = moved[c]
        BY <1>3, <3>1, <4>4, LessRest
      <4> QED
        BY <1>3, <2>1, <4>5, AtMostRefl
    <3> QED
      BY <3>4, <3>5
  <2> QED
    BY <2>2, <2>3
<1> QED
  BY <1>5, <1>6

\* The total that is booked is at most what had gone through the core at the sample.
LEMMA CollectBounded ==
  ASSUME DataInv, CounterInv, Collect
  PROVE  AtMost(Entries', Plus(Before, sample.totals))
<1> DEFINE P == From("total", 0)
           b == Before
           s == sample.totals
           n == Entered
           e == Entries
<1>1. /\ Reading /\ Running /\ IsReading(sample) /\ IsCollector(collector) /\ IsCollector(collector')
      /\ IsCollector(Base) /\ (Base = collector \/ Base.totals = NoSample)
      /\ collector # AppGone /\ UNCHANGED <<flush, table>> /\ minute \in Nat
      /\ Adds(collector.pending, collector'.pending, Entered, minute)
  BY CollectIs
<1>2. n \in Vec /\ b \in Vec /\ s \in Vec /\ e \in Vec
  BY <1>1, EnteredType, BoundsType, EntriesType DEF DataInv
<1>3. Entries' = Plus(e, n)
  <2>1. Inside(collector'.pending, P) = Plus(Inside(collector.pending, P), When(minute >= 0, n))
    BY <1>1 DEF Adds
  <2>2. When(minute >= 0, n) = n
    BY <1>1 DEF When
  <2>3. Inside(collector'.pending, P) = Plus(Inside(collector.pending, P), n)
    BY <2>1, <2>2
  <2> HIDE DEF n, P
  <2>4. DataType
    BY DEF DataInv
  <2>5. Whole(P)' = Plus(Whole(P), n)
    BY <1>1, <1>2, <2>3, <2>4, CollectedAll
  <2> QED
    BY <2>5 DEF P, Entries
<1>4. AtMost(e, Plus(b, s))
  BY <1>1 DEF CounterInv, TotalBounded
<1>5. CASE Base.totals = NoSample
  <2>1. n = Zero
    BY <1>5 DEF Entered
  <2> QED
    BY <1>2, <1>3, <1>4, <2>1, PlusZero
<1>6. CASE Base.totals # NoSample
  <2> DEFINE t == collector.totals
  <2>1. Base = collector /\ Baseline /\ t \in Vec
    BY <1>1, <1>6 DEF Baseline, IsCollector
  <2>2. n = s \/ n = Less(s, t)
    BY <1>6, <2>1 DEF Entered, Counted
  <2>3. CASE restarted
    <3>1. AtMost(e, b)
      BY <2>3 DEF CounterInv, TotalBounded
    <3>2. AtMost(n, s)
      <4>1. \A d \in Directions : s[d] \in Nat /\ t[d] \in Nat
        BY <1>2, <2>1 DEF Vec
      <4> HIDE DEF n, s, t
      <4> QED
        BY <1>2, <2>1, <2>2, <4>1, LessType DEF AtMost
    <3> QED
      BY <1>2, <1>3, <3>1, <3>2, PlusAtMost
  <2>4. CASE ~restarted
    <3>1. AtMost(e, Plus(b, t)) /\ AtMost(t, s)
      BY <1>1, <2>1, <2>4 DEF CounterInv, TotalBounded, Monotone, NotFallen, Baseline, Reading
    <3>2. n = Less(s, t)
      <4>1. t["up"] \in Nat /\ t["down"] \in Nat /\ s["up"] \in Nat /\ s["down"] \in Nat
            /\ t["up"] <= s["up"] /\ t["down"] <= s["down"]
        BY <1>2, <2>1, <3>1 DEF Vec, Directions, AtMost
      <4>2. Falls(Base, s) <=> s["up"] < t["up"] \/ s["down"] < t["down"]
        BY <2>1 DEF Falls
      <4> HIDE DEF t, s
      <4>3. ~Falls(Base, s)
        BY <4>1, <4>2
      <4> QED
        BY <1>6, <2>1, <4>3 DEF Entered, Counted, t, s
    <3> HIDE DEF e, b, t, s, n
    <3>3. Plus(n, t) = s
      BY <1>2, <2>1, <3>1, <3>2, LessRest
    <3>4. AtMost(Plus(e, n), Plus(Plus(b, t), n))
      BY <1>2, <2>1, <3>1, AtMostRefl, PlusAtMost, PlusType
    <3>5. Plus(Plus(b, t), n) = Plus(b, s)
      BY <1>2, <2>1, <3>3, PlusAssociates, PlusCommutes
    <3> QED
      BY <1>3, <3>4, <3>5 DEF b, s
  <2> QED
    BY <2>3, <2>4
<1> QED
  BY <1>5, <1>6

\* A sample keeps the bounds.
LEMMA CollectCounters ==
  ASSUME DataInv, DataInv', CounterInv, Collect
  PROVE  CounterInv'
<1>1. /\ Reading /\ Running /\ IsReading(sample) /\ IsCollector(collector) /\ IsCollector(collector')
      /\ collector # AppGone /\ moved \in [Connections -> Vec]
      /\ restarted' = FALSE /\ sample' = NoSample
      /\ UNCHANGED <<moved, core>>
      /\ collector'.totals = sample.totals /\ collector'.seen = Counters
      /\ Read = sample.open /\ DOMAIN Counters = Read /\ \A x \in Read : Counters[x] = moved[x]
  BY CollectIs
<1>2. Conns' = Conns /\ Open' = Open /\ ~Reading' /\ Running' /\ Read \subseteq Conns
  BY <1>1, ConnsType DEF Conns, Open, Running, Reading, CounterInv
<1>3. Before' = Before /\ (\A S : Carried(S)' = Carried(S)) /\ Carried(Conns)' = Carried(Conns)
  BY <1>1, <1>2 DEF Before, Carried
<1>4. CounterType'
  BY <1>1, <1>2 DEF CounterInv, CounterType, Running
<1>5. AtMost(sample.totals, Carried(Conns))
  BY <1>1 DEF CounterInv, Monotone
<1>6. Monotone'
  BY <1>1, <1>2, <1>3, <1>5 DEF Monotone, NotFallen, Reading
<1>7. TotalBounded'
  <2>1. AtMost(Entries', Plus(Before, sample.totals))
    BY CollectBounded
  <2>2. AtMost(Plus(Before, sample.totals), Carried(Connections))
    <3>1. Carried(Connections) = Plus(Before, Carried(Conns))
      BY BeforeAndNow DEF CounterInv
    <3> QED
      BY <1>1, <1>5, <3>1, BoundsType, PlusAtMost, AtMostRefl
  <2>3. Entries' \in Vec
    BY Total4Type DEF DataInv, DataType, Entries, Whole
  <2>4. AtMost(Entries', Carried(Connections))
    BY <1>1, <2>1, <2>2, <2>3, BoundsType, AtMostTrans
  <2> QED
    BY <1>1, <1>2, <1>3, <2>1, <2>4 DEF TotalBounded
<1>8. SeenBefore'
  <2>1. \A c \in Conns : moved[c] # Zero /\ moved[c] \in Vec
    BY <1>1, ConnsType DEF CounterInv, SeenBefore
  <2>2. \A c \in Read : moved[c] # Zero /\ AtMost(Counters[c], moved[c])
    BY <1>1, <1>2, <2>1, AtMostRefl
  <2> QED
    BY <1>1, <1>2, <2>1, <2>2 DEF SeenBefore
<1>9. KeysBounded'
  <2>1. SUFFICES ASSUME NEW dim \in Dimensions, NEW key \in Names \ {Unattributed}
                 PROVE  AtMost(Whole(Of(dim, key))', BytesOf(Sharing(Connections, dim, key), Levels'))
    BY DEF KeysBounded
  <2> DEFINE T == Sharing(Connections, dim, key)
             Sums == [c \in Connections |-> Plus(Level(c), Gain(c))]
             w == Whole(Of(dim, key))
             w2 == Whole(Of(dim, key))'
             l == BytesOf(T, Levels)
             g == BytesOf(T, Gains)
             l2 == BytesOf(T, Levels')
             s == BytesOf(T, Sums)
  <2>2. AtMost(w2, Plus(w, g)) /\ \A c \in Connections : Gain(c) \in Vec
    BY CollectKeys
  <2>3. AtMost(w, l)
    BY DEF CounterInv, KeysBounded
  <2>4. \A c \in Connections : Level(c) \in Vec
    BY BoundsType DEF Leveled
  <2>5. \A c \in Connections : Level(c)' \in Vec
    <3>1. Leveled'
      BY <1>4, <1>8, LevelType, PTL DEF DataInv
    <3> QED
      BY <3>1 DEF Leveled
  <2>6. \A c \in Connections : AtMost(Plus(Level(c), Gain(c)), Level(c)')
    BY CollectLevel
  <2>7. IsFiniteSet(T) /\ T \in SUBSET Connections
    BY TrafficBounds, FS_Subset DEF Sharing
  <2>8. OnVec(Levels, T) /\ OnVec(Gains, T) /\ OnVec(Sums, T) /\ OnVec(Levels', T)
    <3>1. \A c \in Connections : Plus(Level(c), Gain(c)) \in Vec
      BY <2>2, <2>4, PlusType
    <3> HIDE DEF T
    <3> QED
      BY <2>2, <2>4, <2>5, <2>7, <3>1 DEF OnVec, Levels, Gains
  <2>9. /\ \A c \in T : Sums[c] = Plus(Levels[c], Gains[c])
        /\ \A c \in T : AtMost(Sums[c], Levels'[c])
    <3> HIDE DEF T
    <3> QED
      BY <2>6, <2>7 DEF Levels, Gains
  <2> HIDE DEF T, Sums
  <2>10. s = Plus(l, g) /\ AtMost(s, l2) /\ l \in Vec /\ g \in Vec /\ l2 \in Vec /\ s \in Vec
    BY <2>7, <2>8, <2>9, SumPlus, SumAtMost, SumType
  <2>11. w \in Vec /\ w2 \in Vec
    BY Total4Type DEF Whole, DataInv, DataType
  <2> HIDE DEF w, w2, l, g, l2, s
  <2>12. AtMost(Plus(w, g), s)
    BY <2>3, <2>10, <2>11, PlusAtMost, AtMostRefl
  <2>13. AtMost(w2, s)
    BY <2>2, <2>10, <2>11, <2>12, PlusType, AtMostTrans DEF w, w2, g, T
  <2>14. AtMost(w2, l2)
    BY <2>10, <2>11, <2>13, AtMostTrans
  <2> QED
    BY <2>14 DEF w2, l2, T
<1> QED
  BY <1>4, <1>6, <1>7, <1>8, <1>9 DEF CounterInv

(******************************* the invariant *******************************)

TrafficInv == DataInv /\ CounterInv

\* The invariant holds in the beginning, and every step keeps it.
LEMMA TrafficBegins == TrafficInit => TrafficInv
<1> SUFFICES ASSUME NEW s \in SettingValues, TrafficStarts(s) PROVE TrafficInv
  BY DEF TrafficInit
<1>1. /\ moved = [c \in Connections |-> Zero] /\ core = CoreOff /\ setting = s /\ minute = 0
      /\ collector = Fresh /\ sample = NoSample /\ flush = NoFlush
      /\ table = NoBuckets /\ restarted = FALSE
      /\ owed = [m \in 0 .. LastMinute |-> Zero]
      /\ blind = FALSE /\ purged = 0
  BY DEF TrafficStarts
<1>2. IsCollector(Fresh) /\ Fresh.pending = NoBuckets /\ Fresh.totals = NoSample
      /\ DOMAIN Fresh.seen = {}
  BY NoBucketsInside, NothingSeen DEF IsCollector, Fresh
<1>3. Fresh # AppGone
  BY <1>2, CollectorUp
<1>4. IsData(collector, flush, table)
  BY <1>1, <1>2, NothingTaken, NoBucketsInside DEF IsData
<1>5. ASSUME NEW P PROVE Whole(P) = Zero
  <2>1. Total4(Fresh, NoFlush, NoBuckets, P) = Plus(Inside(NoBuckets, P), Inside(Fresh.pending, P))
    <3>1. IsData(Fresh, NoFlush, NoBuckets)
      BY <1>1, <1>4
    <3> QED
      BY <1>3, <3>1, TotalUntaken
  <2> QED
    BY <1>1, <1>2, <2>1, ZeroType, PlusZero, NoBucketsInside DEF Whole
<1>6. DataInv
  <2>1. LastMinute \in Nat
    BY TrafficBounds
  <2>2. DataType
    <3>1. owed \in [0 .. LastMinute -> Vec]
      BY <1>1, ZeroType
    <3>2. minute \in 0 .. LastMinute /\ purged \in Nat /\ blind \in BOOLEAN
      <4>1. minute = 0 /\ purged = 0 /\ blind = FALSE
        BY <1>1
      <4>2. 0 \in 0 .. LastMinute
        BY <2>1
      <4> QED
        BY <4>1, <4>2
    <3>3. setting \in SettingValues
      BY <1>1
    <3> QED
      BY <1>4, <3>1, <3>2, <3>3 DEF DataType
  <2>3. BalancedData(collector, flush, table)
    BY <1>1, <1>2, NothingTaken, NoneBalanced DEF BalancedData
  <2>4. Recorded
    BY <1>1, <1>5, <2>1 DEF Recorded
  <2> QED
    BY <2>2, <2>3, <2>4 DEF DataInv
<1>7. Conns = {} /\ ~Running /\ ~Reading /\ ~Baseline
  BY <1>1, <1>2 DEF Conns, Running, Reading, Baseline
<1>8. CounterType
  BY <1>1, <1>7, ZeroType DEF CounterType
<1>9. ASSUME NEW v \in Vec PROVE AtMost(Zero, v)
  BY ZeroType DEF AtMost, Vec
<1>10. Monotone
  BY <1>7 DEF Monotone, NotFallen, Reading
<1>11. TotalBounded
  <2>1. Carried(Connections) \in Vec
    BY <1>8, CarriedType
  <2> QED
    BY <1>1, <1>5, <1>7, <1>9, <2>1 DEF TotalBounded, Entries
<1>12. SeenBefore
  BY <1>1, <1>2, <1>7 DEF SeenBefore
<1>13. KeysBounded
  <2>1. Leveled
    BY <1>6, <1>8, <1>12, LevelType DEF DataInv
  <2>2. ASSUME NEW dim \in Dimensions, NEW key \in Names \ {Unattributed}
        PROVE  AtMost(Whole(Of(dim, key)), BytesOf(Sharing(Connections, dim, key), Levels))
    <3> DEFINE T == Sharing(Connections, dim, key)
    <3>1. IsFiniteSet(T) /\ T \in SUBSET Connections
      BY TrafficBounds, FS_Subset DEF Sharing
    <3>2. OnVec(Levels, T)
      BY <2>1, <3>1 DEF OnVec, Levels, Leveled
    <3> QED
      BY <1>5, <1>9, <3>1, <3>2, SumType
  <2> QED
    BY <2>2 DEF KeysBounded
<1> QED
  BY <1>6, <1>8, <1>10, <1>11, <1>12, <1>13 DEF TrafficInv, CounterInv

LEMMA TrafficStep == TrafficInv /\ [TrafficNext]_trafficVars => TrafficInv'
<1> SUFFICES ASSUME DataInv, CounterInv, [TrafficNext]_trafficVars PROVE DataInv' /\ CounterInv'
  BY DEF TrafficInv
<1>0. minute \in 0 .. LastMinute /\ setting \in SettingValues
  BY DEF DataInv, DataType
<1>1. CASE Poll
  <2>1. DataInv' /\ NoMore
    BY <1>0, <1>1, OtherData DEF Poll, Ghosts
  <2> QED
    BY <1>1, <2>1, PollCounters
<1>2. CASE Collect
  <2>1. IsReading(sample) /\ NotFallen /\ moved \in [Connections -> Vec]
    BY <1>2 DEF CounterInv, CounterType, Monotone, Collect, Reading
  <2>2. DataInv'
    BY <1>2, <2>1, CollectData
  <2> QED
    BY <1>2, <2>2, CollectCounters
<1>3. CASE PollFails
  <2>1. DataInv' /\ NoMore
    BY <1>0, <1>3, OtherData DEF PollFails, Ghosts
  <2> QED
    BY <1>3, <2>1, PollFailsCounters DEF PollFails, Ghosts
<1>4. ASSUME NEW by \in {"loop", "exit"}, Take(by) PROVE DataInv' /\ CounterInv'
  <2>1. DataInv' /\ NoMore
    BY <1>4, TakeData
  <2>2. collector # AppGone /\ UNCHANGED <<moved, core, sample, restarted>>
        /\ collector' = [collector EXCEPT !.pending = NoBuckets]
    BY <1>4 DEF Take, AppUp, Ghosts
  <2>3. IsCollector(collector)
    BY <2>2 DEF DataInv, DataType, IsData
  <2>4. collector'.totals = collector.totals /\ collector'.seen = collector.seen /\ collector' # AppGone
    BY <2>2, <2>3, NoBucketsInside, PendingChanged, CollectorUp
  <2> QED
    BY <2>1, <2>2, <2>4, QuietCounters
<1>5. CASE Commit("loop")
  <2>1. DataInv' /\ NoMore
    BY <1>5, CommitInLoop
  <2> QED
    BY <1>5, <2>1, QuietCounters DEF Commit
<1>6. CASE Commit("exit")
  <2>1. DataInv' /\ NoMore
    BY <1>6, CommitAtExit
  <2> QED
    BY <1>6, <2>1, GoneCounters DEF Commit, Ends
<1>7. CASE CommitFails("loop")
  <2>1. DataInv' /\ NoMore
    BY <1>7, FailsInLoop
  <2> DEFINE back == Merged(flush["loop"][1], collector.pending)
  <2>2. UNCHANGED <<moved, core, sample, restarted>> /\ flush["loop"] # <<>>
        /\ collector' = [collector EXCEPT !.pending = back]
    BY <1>7 DEF CommitFails
  <2>3. collector # AppGone /\ IsBuckets(flush["loop"][1])
    BY <2>2, FlushedBy DEF DataInv, DataType, IsData
  <2>4. IsCollector(collector) /\ IsBuckets(collector.pending)
    BY <2>3, CollectorUp DEF DataInv, DataType, IsData
  <2>5. IsBuckets(back)
    BY <2>3, <2>4, MergedType
  <2> HIDE DEF back
  <2>6. collector'.totals = collector.totals /\ collector'.seen = collector.seen /\ collector' # AppGone
    BY <2>2, <2>4, <2>5, PendingChanged, CollectorUp
  <2> QED
    BY <2>1, <2>2, <2>3, <2>6, QuietCounters
<1>8. CASE CommitFails("exit")
  <2>1. DataInv' /\ NoMore
    BY <1>8, FailsAtExit
  <2> QED
    BY <1>8, <2>1, GoneCounters DEF CommitFails, Ends
<1>9. CASE ApplicationStarts
  BY <1>9, StartsData, StartsCounters
<1>10. CASE ApplicationCrashes
  <2>1. DataInv' /\ NoMore
    BY <1>10, CrashData
  <2> QED
    BY <1>10, <2>1, GoneCounters DEF ApplicationCrashes, Ends
<1>11. CASE Tick
  <2>1. minute' \in 0 .. LastMinute
    BY <1>0, <1>11, TrafficBounds DEF Tick
  <2>2. DataInv' /\ NoMore
    BY <1>0, <1>11, <2>1, OtherData DEF Tick, Ghosts
  <2> QED
    BY <1>11, <2>2, QuietCounters DEF Tick, Ghosts
<1>12. ASSUME NEW s \in SettingValues, Settings(s) PROVE DataInv' /\ CounterInv'
  <2>1. DataInv' /\ NoMore
    BY <1>0, <1>12, OtherData DEF Settings, Ghosts
  <2> QED
    BY <1>12, <2>1, QuietCounters DEF Settings, Ghosts
<1>13. CASE CoreStarts
  <2>1. DataInv' /\ NoMore
    BY <1>0, <1>13, OtherData DEF CoreStarts
  <2> QED
    BY <1>13, <2>1, CoreStartsCounters
<1>14. CASE CoreEnds
  <2>1. DataInv' /\ NoMore
    BY <1>0, <1>14, OtherData DEF CoreEnds, Ghosts
  <2> QED
    BY <1>14, <2>1, CoreEndsCounters
<1>15. ASSUME NEW c \in Connections, NEW bytes \in OneByte, Carry(c, bytes) PROVE DataInv' /\ CounterInv'
  <2>1. DataInv' /\ NoMore
    BY <1>0, <1>15, OtherData DEF Carry, Ghosts
  <2> QED
    BY <1>15, <2>1, CarryCounters
<1>16. ASSUME NEW c \in Connections, Close(c) PROVE DataInv' /\ CounterInv'
  <2>1. DataInv' /\ NoMore
    BY <1>0, <1>16, OtherData DEF Close, Ghosts
  <2> QED
    BY <1>16, <2>1, CloseCounters
<1>17. CASE UNCHANGED trafficVars
  <2>1. DataInv' /\ NoMore
    BY <1>0, <1>17, OtherData DEF trafficVars
  <2> QED
    BY <1>17, <2>1, QuietCounters DEF trafficVars
<1> QED
  BY <1>1, <1>2, <1>3, <1>4, <1>5, <1>6, <1>7, <1>8, <1>9, <1>10, <1>11, <1>12, <1>13, <1>14,
     <1>15, <1>16, <1>17 DEF TrafficNext, CollectorStep, TrafficEnvironment

\* Where the bytes are and how far they can have been counted (stats.rs:92-287).
THEOREM TrafficInvariant == TrafficSpec => []TrafficInv
<1> QED
  BY TrafficBegins, TrafficStep, PTL DEF TrafficSpec

(******************************* the properties ******************************)

\* What the rows of some keys add up to, of all keys, and of two groups of them.
LEMMA SumOfAre ==
  ASSUME IsBuckets(table), NEW dim, NEW since
  PROVE  /\ \A keys : SumOf(dim, since, keys) \in Vec
         /\ \A keys : KeysIn(dim, since) \subseteq keys =>
              SumOf(dim, since, keys) = Inside(table, From(dim, since))
         /\ \A a, b : a \cap b = {} =>
              SumOf(dim, since, a \cup b) = Plus(SumOf(dim, since, a), SumOf(dim, since, b))
<1> DEFINE part(keys) == {k \in From(dim, since) : k[3] \in keys}
<1>1. Rows(dim, since) = DOMAIN table \cap From(dim, since)
  BY DEF Rows, From, IsBuckets
<1>2. ASSUME NEW keys PROVE SumOf(dim, since, keys) = Inside(table, part(keys))
  <2>1. {k \in Rows(dim, since) : k[3] \in keys} = DOMAIN table \cap part(keys)
    BY <1>1
  <2> QED
    BY <2>1 DEF SumOf, Inside
<1>3. ASSUME NEW keys PROVE SumOf(dim, since, keys) \in Vec
  <2> DEFINE P == part(keys)
  <2>1. SumOf(dim, since, keys) = Inside(table, P)
    BY <1>2
  <2> HIDE DEF P
  <2> QED
    BY <2>1, InsideType
<1>4. ASSUME NEW keys, KeysIn(dim, since) \subseteq keys
      PROVE  SumOf(dim, since, keys) = Inside(table, From(dim, since))
  <2>1. {k \in Rows(dim, since) : k[3] \in keys} = DOMAIN table \cap From(dim, since)
    BY <1>1, <1>4 DEF KeysIn
  <2> QED
    BY <2>1 DEF SumOf, Inside
<1>5. ASSUME NEW a, NEW b, a \cap b = {}
      PROVE  SumOf(dim, since, a \cup b) = Plus(SumOf(dim, since, a), SumOf(dim, since, b))
  <2>1. part(a \cup b) = part(a) \cup part(b) /\ part(a) \cap part(b) = {}
    BY <1>5
  <2> HIDE DEF part
  <2>2. Inside(table, part(a) \cup part(b)) = Plus(Inside(table, part(a)), Inside(table, part(b)))
    BY <2>1, InsideUnion
  <2> QED
    BY <1>2, <2>1, <2>2
<1> QED
  BY <1>3, <1>4, <1>5

LEMMA BothPlus ==
  ASSUME NEW a \in Vec, NEW b \in Vec
  PROVE  Both(Plus(a, b)) = Both(a) + Both(b) /\ Both(a) \in Nat
<1>1. Plus(a, b)["up"] = a["up"] + b["up"] /\ Plus(a, b)["down"] = a["down"] + b["down"]
  BY PlusType DEF Directions
<1>2. a["up"] \in Nat /\ a["down"] \in Nat /\ b["up"] \in Nat /\ b["down"] \in Nat
  BY DEF Vec, Directions
<1>3. /\ Both(a) = a["up"] + a["down"] /\ Both(b) = b["up"] + b["down"]
      /\ Both(Plus(a, b)) = Plus(a, b)["up"] + Plus(a, b)["down"]
  BY DEF Both
<1> QED
  BY <1>1, <1>2, <1>3

\* Three disjoint groups of proxies make up them all.
LEMMA SummaryAddsUp ==
  ASSUME IsBuckets(table), NEW since, NEW s, s = Summary(since)
  PROVE  /\ s.total = Inside(table, From("total", since))
         /\ s.direct + s.proxy + s.unattributed = Both(Inside(table, From("proxy", since)))
<1> DEFINE d == {"DIRECT"}
           u == {Unattributed}
           o == KeysIn("proxy", since) \ {"DIRECT", Unattributed}
           D == SumOf("proxy", since, d)
           U == SumOf("proxy", since, u)
           O == SumOf("proxy", since, o)
           B == SumOf("proxy", since, d \cup o)
           W == Inside(table, From("proxy", since))
<1>1. s = [total |-> SeriesSum(since), direct |-> Both(D),
           unattributed |-> Both(U), proxy |-> Both(O)]
  BY DEF Summary
<1>2. /\ d \cap o = {} /\ (d \cup o) \cap u = {}
      /\ KeysIn("proxy", since) \subseteq (d \cup o) \cup u
  BY DEF Unattributed
<1> HIDE DEF d, u, o
<1>3. B = Plus(D, O) /\ W = Plus(B, U) /\ D \in Vec /\ O \in Vec /\ U \in Vec /\ B \in Vec
  <2>1. B = Plus(D, O)
    BY <1>2, SumOfAre
  <2> DEFINE e == d \cup o
  <2>2. e \cap u = {} /\ KeysIn("proxy", since) \subseteq e \cup u
    BY <1>2
  <2> HIDE DEF e
  <2>3. SumOf("proxy", since, e \cup u) = Plus(SumOf("proxy", since, e), U)
    BY <2>2, SumOfAre
  <2>4. SumOf("proxy", since, e \cup u) = W
    BY <2>2, SumOfAre
  <2>5. D \in Vec /\ O \in Vec /\ U \in Vec /\ B \in Vec
    BY SumOfAre
  <2> QED
    BY <2>1, <2>3, <2>4, <2>5 DEF e
<1> HIDE DEF D, U, O, B, W
<1>4. Both(W) = (Both(D) + Both(O)) + Both(U) /\ Both(D) \in Nat /\ Both(O) \in Nat /\ Both(U) \in Nat
  BY <1>3, BothPlus
<1>5. SeriesSum(since) = Inside(table, From("total", since))
  <2>1. Rows("total", since) = DOMAIN table \cap From("total", since)
    BY DEF Rows, From, IsBuckets
  <2> QED
    BY <2>1 DEF SeriesSum, Inside
<1>6. s.direct = Both(D) /\ s.unattributed = Both(U) /\ s.proxy = Both(O) /\ s.total = SeriesSum(since)
  BY <1>1
<1> QED
  BY <1>4, <1>5, <1>6 DEF W

\* A ranking of no more keys than the limit lists them all.
LEMMA FewAreListed ==
  ASSUME IsBuckets(table), NEW dim, NEW since, NEW top \in Rankings(dim, since),
         Cardinality(KeysIn(dim, since)) <= RankLimit
  PROVE  top = KeysIn(dim, since)
<1> DEFINE all == KeysIn(dim, since)
<1>1. IsFiniteSet(all)
  <2>1. IsFiniteSet(Rows(dim, since))
    BY FS_Subset DEF Rows, IsBuckets
  <2> DEFINE f == [k \in Rows(dim, since) |-> k[3]]
  <2>2. f \in Surjection(Rows(dim, since), all)
    BY DEF Surjection, KeysIn
  <2> QED
    BY <2>1, <2>2, FS_Surjection
<1>2. top \subseteq all /\ (top # all => Cardinality(top) = RankLimit)
  BY DEF Rankings
<1> HIDE DEF all
<1>3. Cardinality(top) <= Cardinality(all) /\ (Cardinality(top) = Cardinality(all) => top = all)
  BY <1>1, <1>2, FS_Subset
<1>4. Cardinality(top) \in Nat /\ Cardinality(all) \in Nat
  BY <1>1, <1>2, FS_Subset, FS_CardinalityType
<1> QED
  BY <1>2, <1>3, <1>4 DEF all

\* The pages agree with each other, for any numbers of connections, keys, minutes and
\* bytes and any limit: every write, and what it puts back, keeps each dimension equal
\* to the total, of which a ranking leaves out just what is beyond its limit
\* (stats.rs:117-146, 221-253, 274, 337-383).
THEOREM TrafficPagesAgree == TrafficSpec => []PagesAgree
<1>1. TrafficInv => PagesAgree
  <2> SUFFICES ASSUME TrafficInv, NEW since \in 0 .. LastMinute
               PROVE  LET s == Summary(since) IN
                      /\ s.direct + s.proxy + s.unattributed = Both(s.total)
                      /\ \A dim \in Dimensions : \A top \in Rankings(dim, since) :
                           LET all    == KeysIn(dim, since)
                               listed == SumOf(dim, since, top)
                           IN  /\ Plus(listed, SumOf(dim, since, all \ top)) = s.total
                               /\ Cardinality(all) <= RankLimit => listed = s.total
    BY DEF PagesAgree
  <2> DEFINE s == Summary(since)
  <2>1. IsBuckets(table) /\ Balanced(table)
    BY DEF TrafficInv, DataInv, DataType, IsData, BalancedData
  <2>2. s.total = Inside(table, From("total", since))
        /\ s.direct + s.proxy + s.unattributed = Both(Inside(table, From("proxy", since)))
    BY <2>1, SummaryAddsUp
  <2> HIDE DEF s
  <2>3. \A dim \in Dimensions : Inside(table, From(dim, since)) = s.total
    BY <2>1, <2>2 DEF Balanced
  <2>4. "proxy" \in Dimensions
    BY DEF Dimensions
  <2>5. ASSUME NEW dim \in Dimensions, NEW top \in Rankings(dim, since)
        PROVE  /\ Plus(SumOf(dim, since, top), SumOf(dim, since, KeysIn(dim, since) \ top)) = s.total
               /\ Cardinality(KeysIn(dim, since)) <= RankLimit => SumOf(dim, since, top) = s.total
    <3> DEFINE all  == KeysIn(dim, since)
               rest == all \ top
    <3>1. top \cup rest = all /\ top \cap rest = {}
      BY DEF Rankings
    <3> HIDE DEF rest
    <3>2. SumOf(dim, since, all) = s.total
      BY <2>1, <2>3, SumOfAre
    <3>3. SumOf(dim, since, top \cup rest) = Plus(SumOf(dim, since, top), SumOf(dim, since, rest))
      BY <2>1, <3>1, SumOfAre
    <3>4. Cardinality(all) <= RankLimit => top = all
      BY <2>1, FewAreListed
    <3> QED
      BY <3>1, <3>2, <3>3, <3>4 DEF rest
  <2> QED
    BY <2>2, <2>3, <2>4, <2>5 DEF s
<1> QED
  BY <1>1, TrafficInvariant, PTL

\* Everything that is stored or still to be stored.
LEMMA AllIsWhole ==
  ASSUME TrafficInv
  PROVE  /\ IsBuckets(All) /\ \A P : Inside(All, P) = Whole(P)
         /\ \A dim \in Dimensions : Whole(From(dim, 0)) = Entries
<1>1. All = AllFrom(collector, flush, table)
  BY DEF All, AllFrom, AppUp, Taken, TakenFrom
<1>2. IsData(collector, flush, table) /\ BalancedData(collector, flush, table)
  BY DEF TrafficInv, DataInv, DataType
<1>3. IsBuckets(All) /\ \A P : Inside(All, P) = Whole(P)
  BY <1>1, <1>2, AllIs DEF Whole
<1>4. ASSUME NEW dim \in Dimensions PROVE Whole(From(dim, 0)) = Whole(From("total", 0))
  BY <1>2 DEF Whole, Total4, BalancedData, Balanced
<1> QED
  BY <1>3, <1>4 DEF Entries

LEMMA LeastIs ==
  ASSUME NEW a \in Vec, NEW b \in Vec, AtMost(a, b) PROVE Least(a, b) = a
<1>1. ASSUME NEW d \in Directions PROVE Least(a, b)[d] = a[d]
  <2>1. a[d] \in Nat /\ b[d] \in Nat /\ a[d] <= b[d]
    BY DEF Vec, AtMost
  <2>2. Least(a, b)[d] = IF a[d] < b[d] THEN a[d] ELSE b[d]
    BY DEF Least, Directions
  <2> QED
    BY <2>1, <2>2
<1> QED
  BY <1>1, LeastType, SameVec

\* A key has at most what its connections carried; what is unattributed at most all.
LEMMA NothingIsTwice == TrafficInv => NothingTwice
<1> SUFFICES ASSUME TrafficInv, NEW dim \in Dimensions, NEW key \in Names
             PROVE  LET booked == BytesOf({k \in DOMAIN All : k[2] = dim /\ k[3] = key}, All)
                        real == BytesOf({c \in Connections : Key(c)[dim] = key \/ key = Unattributed}, moved)
                    IN  Least(booked, real) = booked
  <2>1. ASSUME TrafficInv, NEW x \in DOMAIN All PROVE x[3] \in Names
    BY <2>1, AllIsWhole DEF IsBuckets, Keys
  <2> QED
    BY <2>1 DEF NothingTwice
<1> DEFINE C == {c \in Connections : Key(c)[dim] = key \/ key = Unattributed}
           booked == BytesOf({k \in DOMAIN All : k[2] = dim /\ k[3] = key}, All)
           real == BytesOf(C, moved)
<1>1. IsBuckets(All) /\ (\A P : Inside(All, P) = Whole(P)) /\ Whole(From(dim, 0)) = Entries
  BY AllIsWhole
<1>2. booked = Whole(Of(dim, key))
  <2>1. {k \in DOMAIN All : k[2] = dim /\ k[3] = key} = DOMAIN All \cap Of(dim, key)
    BY <1>1 DEF IsBuckets, Of
  <2> QED
    BY <1>1, <2>1 DEF Inside
<1>3. CounterType /\ Leveled /\ KeysBounded /\ AtMost(Entries, Carried(Connections))
  BY BoundsType DEF TrafficInv, CounterInv, TotalBounded
<1>4. C \in SUBSET Connections /\ IsFiniteSet(C) /\ real \in Vec
  BY <1>3, CarriedType DEF Carried
<1>5. booked \in Vec
  BY <1>1, <1>2, InsideType
<1>6. CASE key = Unattributed
  <2>1. C = Connections
    BY <1>6
  <2>2. AtMost(booked, Entries)
    <3>1. Of(dim, key) \subseteq From(dim, 0)
      BY DEF Of, From, Keys
    <3> QED
      BY <1>1, <1>2, <3>1, InsideMore
  <2>3. Entries \in Vec
    BY EntriesType DEF TrafficInv, DataInv
  <2>4. AtMost(booked, real)
    <3> HIDE DEF booked, C
    <3> QED
      BY <1>3, <1>4, <1>5, <2>1, <2>2, <2>3, AtMostTrans DEF Carried
  <2> HIDE DEF booked, real
  <2> QED
    BY <1>4, <1>5, <2>4, LeastIs DEF booked, real
<1>7. CASE key # Unattributed
  <2>1. C = Sharing(Connections, dim, key)
    BY <1>7 DEF Sharing
  <2>2. AtMost(booked, BytesOf(C, Levels))
    BY <1>2, <1>3, <1>7, <2>1 DEF KeysBounded
  <2> HIDE DEF C
  <2>3. OnVec(Levels, C) /\ OnVec(moved, C) /\ \A c \in C : AtMost(Levels[c], moved[c])
    BY <1>3, <1>4 DEF OnVec, Levels, Leveled
  <2>4. BytesOf(C, Levels) \in Vec /\ AtMost(BytesOf(C, Levels), real)
    BY <1>4, <2>3, SumType, SumAtMost
  <2>5. AtMost(booked, real)
    <3> HIDE DEF booked, real
    <3> QED
      BY <1>4, <1>5, <2>2, <2>4, AtMostTrans
  <2> HIDE DEF booked, real
  <2> QED
    BY <1>4, <1>5, <2>5, LeastIs DEF booked, real, C
<1> QED
  BY <1>6, <1>7

LEMMA EachIsRecorded == TrafficInv => RecordedOnce
<1> SUFFICES ASSUME TrafficInv, ~blind, NEW m \in purged .. LastMinute
             PROVE  SumOver(All, m, "total") = owed[m]
  BY DEF RecordedOnce
<1>1. SumOver(All, m, "total") = Whole(During(m))
  BY AllIsWhole, SumOverIs
<1> QED
  BY <1>1 DEF TrafficInv, DataInv, Recorded

\* Traffic is counted once: nothing that is booked under a key was not carried with it,
\* and what the core counted between two samples is in its minute, through restarts,
\* crashes, retries and late samples of any number (stats.rs:92-287).
THEOREM TrafficCountedOnce == TrafficSpec => []CountedOnce
<1>1. TrafficInv => CountedOnce
  BY NothingIsTwice, EachIsRecorded DEF CountedOnce
<1> QED
  BY <1>1, TrafficInvariant, PTL
=============================================================================
