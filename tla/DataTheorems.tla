------------------------------ MODULE DataTheorems ------------------------------
(***************************************************************************)
(* What proofs about caches keep needing of the data they are made of.     *)
(* SumFunctionOnSet adds a function up over a finite set, one chosen       *)
(* element after the other: the order does not matter, and adding or       *)
(* removing elements does to the sum what it should.  Without takes keys   *)
(* out of the order of an OrderedDict: the others stay, once each, in the  *)
(* order they had.                                                         *)
(*                                                                         *)
(* The induction theorems of the library take a predicate as a parameter.  *)
(* Here induction is over sets: the set of all sizes, or of all subsets,   *)
(* of which a fact holds.                                                  *)
(***************************************************************************)
EXTENDS OrderedDict, Functions, FiniteSetsExt, FiniteSetTheorems, WellFoundedInduction, TLAPS

(* Induction over the numbers of a set, from the well-foundedness of <. *)
LEMMA SetInduction ==
    ASSUME NEW T, 0 \in T, \A n \in Nat : n \in T => n + 1 \in T
    PROVE  \A n \in Nat : n \in T
<1> DEFINE bad == Nat \ T
<1> SUFFICES ASSUME bad # {} PROVE FALSE
  OBVIOUS
<1>1. PICK m \in bad : \A y \in bad : ~(<<y, m>> \in OpToRel(<, Nat))
  BY NatLessThanWellFounded, WFMin
<1>2. m # 0 /\ m - 1 \in Nat /\ m - 1 \notin bad
  <2>1. m # 0 /\ m - 1 \in Nat
    OBVIOUS
  <2>2. m - 1 \in bad => <<m - 1, m>> \in OpToRel(<, Nat)
    BY <2>1 DEF OpToRel
  <2> QED BY <1>1, <2>1, <2>2
<1> QED
  BY <1>2

First(s) == CHOOSE x \in s : TRUE

(* g adds f up over every set of D, whichever element is taken first. *)
AddsUp(g, f, D) ==
    /\ {} \in D => g[{}] = 0
    /\ \A s \in D : \A y \in s : g[s] = f[y] + g[s \ {y}]

(* The subsets of S of at most n elements. *)
Small(S, n) == {s \in SUBSET S : Cardinality(s) <= n}

(* What CHOOSE is asked for in the definition of SumFunctionOnSet. *)
IsFold(h, f, S) ==
    h = [s \in SUBSET S |-> IF s = {} THEN 0 ELSE f[First(s)] + h[s \ {First(s)}]]

(* The elements of a finite set are removed one at a time. *)
LEMMA Fewer ==
    ASSUME NEW S, IsFiniteSet(S), NEW s \in SUBSET S
    PROVE  /\ IsFiniteSet(s) /\ Cardinality(s) \in Nat
           /\ (s = {}) <=> (Cardinality(s) = 0)
           /\ \A y \in s : s \ {y} \in SUBSET S /\ Cardinality(s \ {y}) = Cardinality(s) - 1
<1>1. IsFiniteSet(s)
  BY FS_Subset
<1>2. Cardinality(s) \in Nat /\ ((s = {}) <=> (Cardinality(s) = 0))
  BY <1>1, FS_CardinalityType, FS_EmptySet
<1>3. ASSUME NEW y \in s PROVE s \ {y} \in SUBSET S /\ Cardinality(s \ {y}) = Cardinality(s) - 1
  BY <1>1, FS_RemoveElement
<1> QED
  BY <1>1, <1>2, <1>3

(* Induction over the subsets of a finite set: all of them are in P if one  *)
(* is whenever the sets that lack one of its elements are.                  *)
LEMMA SubsetInduction ==
    ASSUME NEW S, IsFiniteSet(S), NEW P,
           \A s \in SUBSET S : (\A y \in s : s \ {y} \in P) => s \in P
    PROVE  SUBSET S \subseteq P
<1> DEFINE T == {n \in Nat : \A s \in SUBSET S : Cardinality(s) = n => s \in P}
<1>1. 0 \in T
  BY Fewer
<1>2. ASSUME NEW n \in Nat, n \in T PROVE n + 1 \in T
  <2>1. ASSUME NEW s \in SUBSET S, Cardinality(s) = n + 1 PROVE s \in P
    <3>1. ASSUME NEW y \in s PROVE s \ {y} \in P
      <4>1. s \ {y} \in SUBSET S /\ Cardinality(s \ {y}) = n
        BY <2>1, <3>1, Fewer
      <4> QED BY <1>2, <4>1
    <3> QED BY <3>1
  <2> QED BY <2>1
<1>3. \A n \in Nat : n \in T
  <2> HIDE DEF T
  <2> QED BY <1>1, <1>2, SetInduction
<1> QED
  BY <1>3, Fewer

(* A sum over sets of n elements extends to sets of n + 1. *)
LEMMA OneMore ==
    ASSUME NEW S, IsFiniteSet(S), NEW f, \A x \in S : f[x] \in Int, NEW n \in Nat,
           NEW g \in [Small(S, n) -> Int], AddsUp(g, f, Small(S, n))
    PROVE  \E h \in [Small(S, n + 1) -> Int] : AddsUp(h, f, Small(S, n + 1))
<1> DEFINE D == Small(S, n)
           E == Small(S, n + 1)
           h == [s \in E |-> IF s \in D THEN g[s] ELSE f[First(s)] + g[s \ {First(s)}]]
<1>1. ASSUME NEW s \in E PROVE s \in SUBSET S /\ \A y \in s : s \ {y} \in D /\ s \ {y} \in E
  BY <1>1, Fewer DEF Small
<1>2. ASSUME NEW s \in E, s \notin D PROVE First(s) \in s
  <2>1. s # {}
    BY <1>2, Fewer DEF Small
  <2> QED BY <2>1 DEF First
<1>3. h \in [E -> Int]
  <2>1. ASSUME NEW s \in E PROVE h[s] \in Int
    <3>1. CASE s \in D
      BY <3>1
    <3>2. CASE s \notin D
      BY <3>2, <1>1, <1>2
    <3> QED BY <3>1, <3>2
  <2> QED BY <2>1
<1>4. {} \in E => h[{}] = 0
  <2>1. {} \in D
    BY FS_EmptySet DEF Small
  <2> QED BY <2>1 DEF AddsUp
<1>5. ASSUME NEW s \in E, NEW y \in s PROVE h[s] = f[y] + h[s \ {y}]
  <2>1. s \ {y} \in D /\ s \ {y} \in E /\ h[s \ {y}] = g[s \ {y}]
    BY <1>1
  <2>2. CASE s \in D
    BY <2>1, <2>2 DEF AddsUp
  <2>3. CASE s \notin D
    <3> DEFINE x == First(s)
    <3>1. x \in s /\ h[s] = f[x] + g[s \ {x}] /\ s \ {x} \in D
      BY <2>3, <1>1, <1>2
    <3> HIDE DEF x, h
    <3>2. CASE x = y
      BY <3>1, <3>2, <2>1
    <3>3. CASE x # y
      <4>1. g[s \ {x}] = f[y] + g[(s \ {x}) \ {y}]
        BY <3>1, <3>3 DEF AddsUp
      <4>2. g[s \ {y}] = f[x] + g[(s \ {y}) \ {x}]
        BY <3>1, <3>3, <2>1 DEF AddsUp
      <4>3. (s \ {x}) \ {y} = (s \ {y}) \ {x} /\ (s \ {y}) \ {x} \in D
        <5>1. s \ {y} \in E /\ x \in s \ {y}
          BY <2>1, <3>1, <3>3
        <5> QED BY <5>1, <1>1
      <4>4. f[x] \in Int /\ f[y] \in Int /\ g[(s \ {y}) \ {x}] \in Int
        BY <4>3, <3>1, <1>1
      <4>5. f[x] + (f[y] + g[(s \ {y}) \ {x}]) = f[y] + (f[x] + g[(s \ {y}) \ {x}])
        BY <4>4
      <4> QED BY <4>1, <4>2, <4>3, <4>5, <3>1, <2>1, Zenon
    <3> QED BY <3>2, <3>3
  <2> QED BY <2>2, <2>3
<1> HIDE DEF h
<1> QED
  BY <1>3, <1>4, <1>5 DEF AddsUp

(* There is a sum over all subsets of a finite set. *)
LEMMA SumExists ==
    ASSUME NEW S, IsFiniteSet(S), NEW f, \A x \in S : f[x] \in Int
    PROVE  \E g \in [SUBSET S -> Int] : AddsUp(g, f, SUBSET S)
<1> DEFINE T == {n \in Nat : \E g \in [Small(S, n) -> Int] : AddsUp(g, f, Small(S, n))}
<1>1. 0 \in T
  <2> DEFINE z == [s \in Small(S, 0) |-> 0]
  <2>1. Small(S, 0) = {{}}
    BY Fewer, FS_EmptySet DEF Small
  <2>2. z \in [Small(S, 0) -> Int] /\ AddsUp(z, f, Small(S, 0))
    BY <2>1 DEF AddsUp
  <2> QED BY <2>2
<1>2. ASSUME NEW n \in Nat, n \in T PROVE n + 1 \in T
  <2>1. PICK g \in [Small(S, n) -> Int] : AddsUp(g, f, Small(S, n))
    BY <1>2
  <2> QED BY <2>1, OneMore
<1>3. Cardinality(S) \in T
  <2> HIDE DEF T
  <2>1. \A n \in Nat : n \in T
    BY <1>1, <1>2, SetInduction
  <2> QED BY <2>1, FS_CardinalityType
<1>4. Small(S, Cardinality(S)) = SUBSET S
  BY FS_Subset, FS_CardinalityType DEF Small
<1> QED
  BY <1>3, <1>4

(* The definition of the library, with its local function made explicit. *)
LEMMA SumUnfolds ==
    ASSUME NEW f, NEW S
    PROVE  SumFunctionOnSet(f, S) = (CHOOSE h : IsFold(h, f, S))[S]
BY Zenon DEF SumFunctionOnSet, FoldFunctionOnSet, MapThenFoldSet, First, IsFold

(* Whatever folds f over the subsets of S agrees with the sum over them. *)
LEMMA FoldIsSum ==
    ASSUME NEW S, IsFiniteSet(S), NEW f, \A x \in S : f[x] \in Int,
           NEW g \in [SUBSET S -> Int], AddsUp(g, f, SUBSET S),
           NEW t \in SUBSET S, NEW h, IsFold(h, f, t)
    PROVE  h[t] = g[t]
<1> DEFINE P == {s \in SUBSET t : h[s] = g[s]}
<1>1. ASSUME NEW s \in SUBSET t
      PROVE  h[s] = IF s = {} THEN 0 ELSE f[First(s)] + h[s \ {First(s)}]
  BY DEF IsFold
<1>2. ASSUME NEW s \in SUBSET t, \A y \in s : s \ {y} \in P
      PROVE  s \in P
  <2>1. CASE s = {}
    BY <2>1, <1>1 DEF AddsUp
  <2>2. CASE s # {}
    <3>1. First(s) \in s
      BY <2>2 DEF First
    <3>2. h[s \ {First(s)}] = g[s \ {First(s)}] /\ h[s] = f[First(s)] + h[s \ {First(s)}]
      BY <1>1, <1>2, <2>2, <3>1
    <3>3. g[s] = f[First(s)] + g[s \ {First(s)}]
      BY <3>1 DEF AddsUp
    <3> QED BY <3>2, <3>3
  <2> QED BY <2>1, <2>2
<1>3. SUBSET t \subseteq P
  <2> HIDE DEF P
  <2>1. IsFiniteSet(t)
    BY FS_Subset
  <2> QED BY <1>2, <2>1, SubsetInduction
<1> QED
  BY <1>3

(* The library's sums over the subsets of S, as one function. *)
Sums(f, S) == [t \in SUBSET S |-> SumFunctionOnSet(f, t)]

(* They add up whichever element is taken first. *)
LEMMA SumIsSum ==
    ASSUME NEW S, IsFiniteSet(S), NEW f, \A x \in S : f[x] \in Int
    PROVE  /\ Sums(f, S) \in [SUBSET S -> Int]
           /\ AddsUp(Sums(f, S), f, SUBSET S)
           /\ \A t \in SUBSET S : SumFunctionOnSet(f, t) = Sums(f, S)[t]
<1>1. PICK g \in [SUBSET S -> Int] : AddsUp(g, f, SUBSET S)
  BY SumExists
<1>2. ASSUME NEW t \in SUBSET S PROVE SumFunctionOnSet(f, t) = g[t]
  <2> DEFINE r == [s \in SUBSET t |-> g[s]]
  <2>1. IsFold(r, f, t)
    <3>1. ASSUME NEW s \in SUBSET t
          PROVE  r[s] = IF s = {} THEN 0 ELSE f[First(s)] + r[s \ {First(s)}]
      <4>1. CASE s = {}
        BY <1>1, <4>1 DEF AddsUp
      <4>2. CASE s # {}
        <5>1. First(s) \in s
          BY <4>2 DEF First
        <5> QED BY <1>1, <4>2, <5>1 DEF AddsUp
      <4> QED BY <4>1, <4>2
    <3>2. r = [s \in SUBSET t |-> IF s = {} THEN 0 ELSE f[First(s)] + r[s \ {First(s)}]]
      BY <3>1
    <3> QED BY <3>2 DEF IsFold
  <2> HIDE DEF r
  <2> DEFINE h == CHOOSE h : IsFold(h, f, t)
  <2>2. IsFold(h, f, t)
    BY <2>1
  <2>3. SumFunctionOnSet(f, t) = h[t]
    BY SumUnfolds
  <2> HIDE DEF h
  <2>4. h[t] = g[t]
    BY <1>1, <2>2, FoldIsSum
  <2> QED BY <2>3, <2>4
<1>3. Sums(f, S) = g
  BY <1>2 DEF Sums
<1> QED
  BY <1>1, <1>2, <1>3

(* Sums of integers are integers, and the sum over nothing is 0. *)
LEMMA SumType ==
    ASSUME NEW S, IsFiniteSet(S), NEW f, \A x \in S : f[x] \in Int
    PROVE  SumFunctionOnSet(f, S) \in Int /\ SumFunctionOnSet(f, {}) = 0
<1> DEFINE g == Sums(f, S)
<1>1. /\ g \in [SUBSET S -> Int] /\ AddsUp(g, f, SUBSET S)
      /\ \A t \in SUBSET S : SumFunctionOnSet(f, t) = g[t]
  BY SumIsSum
<1> HIDE DEF g
<1> QED
  BY <1>1 DEF AddsUp

(* Any element may be taken out first. *)
LEMMA SumRemove ==
    ASSUME NEW S, IsFiniteSet(S), NEW f, \A x \in S : f[x] \in Int, NEW y \in S
    PROVE  SumFunctionOnSet(f, S) = f[y] + SumFunctionOnSet(f, S \ {y})
<1> DEFINE g == Sums(f, S)
<1>1. /\ g \in [SUBSET S -> Int] /\ AddsUp(g, f, SUBSET S)
      /\ \A t \in SUBSET S : SumFunctionOnSet(f, t) = g[t]
  BY SumIsSum
<1> HIDE DEF g
<1> QED
  BY <1>1 DEF AddsUp

(* What is taken out and what is left make up the whole. *)
LEMMA SumSplit ==
    ASSUME NEW S, IsFiniteSet(S), NEW f, \A x \in S : f[x] \in Int, NEW T \in SUBSET S
    PROVE  SumFunctionOnSet(f, S) = SumFunctionOnSet(f, T) + SumFunctionOnSet(f, S \ T)
<1> DEFINE g == Sums(f, S)
<1>1. /\ g \in [SUBSET S -> Int] /\ AddsUp(g, f, SUBSET S)
      /\ \A t \in SUBSET S : SumFunctionOnSet(f, t) = g[t]
  BY SumIsSum
<1> HIDE DEF g
<1> DEFINE P == {t \in SUBSET S : g[S] = g[t] + g[S \ t]}
<1>2. ASSUME NEW t \in SUBSET S, \A y \in t : t \ {y} \in P
      PROVE  t \in P
  <2>1. CASE t = {}
    BY <1>1, <2>1 DEF AddsUp
  <2>2. CASE t # {}
    <3>1. PICK y \in t : TRUE
      BY <2>2
    <3>2. g[S] = g[t \ {y}] + g[S \ (t \ {y})]
      BY <1>2, <3>1
    <3>3. g[t] = f[y] + g[t \ {y}]
      BY <1>1, <3>1 DEF AddsUp
    <3>4. g[S \ (t \ {y})] = f[y] + g[S \ t]
      <4>1. (S \ (t \ {y})) \ {y} = S \ t
        BY <3>1
      <4> QED BY <1>1, <3>1, <4>1 DEF AddsUp
    <3>5. f[y] \in Int /\ g[t \ {y}] \in Int /\ g[S \ t] \in Int
      BY <1>1, <3>1
    <3>6. g[S] = g[t] + g[S \ t]
      BY <3>2, <3>3, <3>4, <3>5
    <3> QED BY <3>6
  <2> QED BY <2>1, <2>2
<1>3. SUBSET S \subseteq P
  <2> HIDE DEF P
  <2>1. \A t \in SUBSET S : (\A y \in t : t \ {y} \in P) => t \in P
    BY <1>2
  <2> QED BY <2>1, SubsetInduction, Zenon
<1> QED
  BY <1>1, <1>3

(* A sum depends only on the values of the elements it runs over. *)
LEMMA SumCongruence ==
    ASSUME NEW S, IsFiniteSet(S), NEW f, \A x \in S : f[x] \in Int,
           NEW e, \A x \in S : e[x] = f[x]
    PROVE  SumFunctionOnSet(e, S) = SumFunctionOnSet(f, S)
<1> DEFINE g == Sums(f, S)
<1>1. /\ g \in [SUBSET S -> Int] /\ AddsUp(g, f, SUBSET S)
      /\ \A t \in SUBSET S : SumFunctionOnSet(f, t) = g[t]
  BY SumIsSum
<1> HIDE DEF g
<1>2. AddsUp(g, e, SUBSET S)
  BY <1>1 DEF AddsUp
<1> DEFINE d == Sums(e, S)
<1>3. /\ d \in [SUBSET S -> Int] /\ AddsUp(d, e, SUBSET S)
      /\ \A t \in SUBSET S : SumFunctionOnSet(e, t) = d[t]
  <2>1. \A x \in S : e[x] \in Int
    OBVIOUS
  <2> QED BY <2>1, SumIsSum
<1> HIDE DEF d
<1> DEFINE P == {t \in SUBSET S : d[t] = g[t]}
<1>4. ASSUME NEW t \in SUBSET S, \A y \in t : t \ {y} \in P
      PROVE  t \in P
  <2>1. CASE t = {}
    BY <1>2, <1>3, <2>1 DEF AddsUp
  <2>2. CASE t # {}
    <3>1. PICK y \in t : TRUE
      BY <2>2
    <3>2. d[t \ {y}] = g[t \ {y}]
      BY <1>4, <3>1
    <3>3. d[t] = e[y] + d[t \ {y}] /\ g[t] = e[y] + g[t \ {y}]
      BY <1>2, <1>3, <3>1 DEF AddsUp
    <3> QED BY <3>2, <3>3
  <2> QED BY <2>1, <2>2
<1>5. SUBSET S \subseteq P
  <2> HIDE DEF P
  <2>1. \A t \in SUBSET S : (\A y \in t : t \ {y} \in P) => t \in P
    BY <1>4
  <2> QED BY <2>1, SubsetInduction, Zenon
<1> QED
  BY <1>1, <1>3, <1>5

(* Sums of natural numbers are natural numbers, and grow with the set. *)
LEMMA SumNat ==
    ASSUME NEW S, IsFiniteSet(S), NEW f, \A x \in S : f[x] \in Nat
    PROVE  /\ SumFunctionOnSet(f, S) \in Nat
           /\ \A T \in SUBSET S : SumFunctionOnSet(f, T) \in Nat
                               /\ SumFunctionOnSet(f, T) <= SumFunctionOnSet(f, S)
<1> DEFINE g == Sums(f, S)
<1>1. /\ g \in [SUBSET S -> Int] /\ AddsUp(g, f, SUBSET S)
      /\ \A t \in SUBSET S : SumFunctionOnSet(f, t) = g[t]
  <2>1. \A x \in S : f[x] \in Int
    OBVIOUS
  <2> QED BY <2>1, SumIsSum
<1> HIDE DEF g
<1> DEFINE P == {t \in SUBSET S : g[t] \in Nat}
<1>2. ASSUME NEW t \in SUBSET S, \A y \in t : t \ {y} \in P
      PROVE  t \in P
  <2>1. CASE t = {}
    BY <1>1, <2>1 DEF AddsUp
  <2>2. CASE t # {}
    <3>1. PICK y \in t : TRUE
      BY <2>2
    <3>2. g[t \ {y}] \in Nat /\ f[y] \in Nat /\ g[t] = f[y] + g[t \ {y}]
      BY <1>1, <1>2, <3>1 DEF AddsUp
    <3> QED BY <3>2
  <2> QED BY <2>1, <2>2
<1>3. SUBSET S \subseteq P
  <2> HIDE DEF P
  <2>1. \A t \in SUBSET S : (\A y \in t : t \ {y} \in P) => t \in P
    BY <1>2
  <2> QED BY <2>1, SubsetInduction, Zenon
<1>4. ASSUME NEW T \in SUBSET S PROVE SumFunctionOnSet(f, T) <= SumFunctionOnSet(f, S)
  <2>1. SumFunctionOnSet(f, S) = SumFunctionOnSet(f, T) + SumFunctionOnSet(f, S \ T)
    BY SumSplit
  <2>2. SumFunctionOnSet(f, T) \in Nat /\ SumFunctionOnSet(f, S \ T) \in Nat
    BY <1>1, <1>3
  <2> QED BY <2>1, <2>2
<1> QED
  BY <1>1, <1>3, <1>4
--------------------------------------------------------------------------------
(* A finite set of integers, if it has elements, has a least and a greatest *)
(* one.                                                                     *)
LEMMA Extremes ==
    ASSUME NEW S \in SUBSET Int, IsFiniteSet(S), S # {}
    PROVE  /\ \E m \in S : \A x \in S : x <= m
           /\ \E m \in S : \A x \in S : m <= x
<1> DEFINE Top == {s \in SUBSET S : s # {} => \E m \in s : \A x \in s : x <= m}
           Bottom == {s \in SUBSET S : s # {} => \E m \in s : \A x \in s : m <= x}
<1>1. SUBSET S \subseteq Top
  <2>1. ASSUME NEW s \in SUBSET S, \A y \in s : s \ {y} \in Top PROVE s \in Top
    <3>1. ASSUME NEW y \in s PROVE \E m \in s : \A x \in s : x <= m
      <4>1. CASE s \ {y} = {}
        <5>1. \A x \in s : x <= y
          BY <3>1, <4>1
        <5> QED BY <3>1, <5>1
      <4>2. CASE s \ {y} # {}
        <5>1. PICK m \in s \ {y} : \A x \in s \ {y} : x <= m
          BY <2>1, <3>1, <4>2
        <5>2. CASE y <= m
          BY <5>1, <5>2
        <5>3. CASE m <= y
          <6>1. \A x \in s : x <= y
            BY <5>1, <5>3, <3>1
          <6> QED BY <3>1, <6>1
        <5> QED BY <5>1, <5>2, <5>3, <3>1
      <4> QED BY <4>1, <4>2
    <3> QED BY <3>1
  <2> HIDE DEF Top
  <2> QED BY <2>1, SubsetInduction
<1>2. SUBSET S \subseteq Bottom
  <2>1. ASSUME NEW s \in SUBSET S, \A y \in s : s \ {y} \in Bottom PROVE s \in Bottom
    <3>1. ASSUME NEW y \in s PROVE \E m \in s : \A x \in s : m <= x
      <4>1. CASE s \ {y} = {}
        <5>1. \A x \in s : y <= x
          BY <3>1, <4>1
        <5> QED BY <3>1, <5>1
      <4>2. CASE s \ {y} # {}
        <5>1. PICK m \in s \ {y} : \A x \in s \ {y} : m <= x
          BY <2>1, <3>1, <4>2
        <5>2. CASE m <= y
          BY <5>1, <5>2
        <5>3. CASE y <= m
          <6>1. \A x \in s : y <= x
            BY <5>1, <5>3, <3>1
          <6> QED BY <3>1, <6>1
        <5> QED BY <5>1, <5>2, <5>3, <3>1
      <4> QED BY <4>1, <4>2
    <3> QED BY <3>1
  <2> HIDE DEF Bottom
  <2> QED BY <2>1, SubsetInduction
<1> QED
  BY <1>1, <1>2

(* Min of a finite set of integers is its least element. *)
LEMMA MinIsLeast ==
    ASSUME NEW S \in SUBSET Int, IsFiniteSet(S), S # {}
    PROVE  Min(S) \in S /\ \A x \in S : Min(S) <= x
<1>1. \E m \in S : \A x \in S : m =< x
  BY Extremes
<1> QED
  BY <1>1 DEF Min

(* The same of a set of numbers up to n that holds n. *)
LEMMA MinInRange ==
    ASSUME NEW n \in Nat, NEW W \in SUBSET (0..n), n \in W
    PROVE  Min(W) \in W /\ Min(W) \in 0..n /\ \A x \in W : Min(W) <= x
<1>1. IsFiniteSet(0..n)
  BY FS_Interval
<1>2. IsFiniteSet(W)
  BY <1>1, FS_Subset
<1>3. W \in SUBSET Int /\ W # {}
  OBVIOUS
<1>4. Min(W) \in W /\ \A x \in W : Min(W) <= x
  BY <1>2, <1>3, MinIsLeast
<1> QED
  BY <1>4

(* Every finite set of integers can be listed in ascending order. *)
LEMMA AscendingExists ==
    ASSUME NEW S \in SUBSET Int, IsFiniteSet(S)
    PROVE  \E p : Ascending(p, S)
<1> DEFINE P == {s \in SUBSET S : \E p : Ascending(p, s)}
<1>1. ASSUME NEW s \in SUBSET S, \A y \in s : s \ {y} \in P PROVE s \in P
  <2>0. IsFiniteSet(s)
    BY FS_Subset
  <2>1. CASE s = {}
    <3> DEFINE p == [i \in 1..0 |-> 0]
    <3>1. Cardinality(s) = 0
      BY <2>1, FS_EmptySet
    <3>2. Ascending(p, s)
      BY <3>1 DEF Ascending
    <3> QED BY <3>2
  <2>2. CASE s # {}
    <3>1. PICK m \in s : \A x \in s : x <= m
      BY <2>0, <2>2, Extremes
    <3>2. PICK p : Ascending(p, s \ {m})
      BY <1>1, <3>1
    <3> DEFINE n == Cardinality(s)
               q == [i \in 1..n |-> IF i = n THEN m ELSE p[i]]
    <3>3. n \in Nat /\ n # 0 /\ Cardinality(s \ {m}) = n - 1
      BY <3>1, Fewer
    <3>4. p \in [1..(n - 1) -> s \ {m}]
      BY <3>2, <3>3 DEF Ascending
    <3> HIDE DEF n
    <3>5. q \in [1..n -> s]
      BY <3>1, <3>3, <3>4
    <3>6. ASSUME NEW i \in 1..n, NEW j \in 1..n, i < j PROVE q[i] < q[j]
      <4>1. i \in 1..(n - 1) /\ q[i] = p[i] /\ p[i] \in s /\ p[i] # m
        BY <3>3, <3>4, <3>6
      <4>2. CASE j = n
        <5>1. q[j] = m /\ p[i] <= m /\ p[i] \in Int /\ m \in Int
          BY <4>1, <4>2, <3>1
        <5> QED BY <4>1, <5>1
      <4>3. CASE j # n
        <5>1. j \in 1..(n - 1) /\ q[j] = p[j]
          BY <4>3, <3>3
        <5> QED BY <4>1, <5>1, <3>2, <3>4, <3>6 DEF Ascending
      <4> QED BY <4>2, <4>3
    <3>7. Ascending(q, s)
      <4> HIDE DEF q
      <4> QED BY <3>5, <3>6 DEF Ascending, n
    <3> QED BY <3>7
  <2> QED BY <2>1, <2>2
<1>2. SUBSET S \subseteq P
  <2> HIDE DEF P
  <2> QED BY <1>1, SubsetInduction
<1> QED
  BY <1>2

(* s lists the elements of K, each of them once. *)
OnceEach(s, K) ==
    /\ s \in Seq(K)
    /\ {s[i] : i \in DOMAIN s} = K
    /\ \A i, j \in DOMAIN s : s[i] = s[j] => i = j

(* That is the case if, besides, the list is as long as K is large. *)
LEMMA OnceByLength ==
    ASSUME NEW K, IsFiniteSet(K), NEW s \in Seq(K), {s[i] : i \in DOMAIN s} = K
    PROVE  OnceEach(s, K) <=> Len(s) = Cardinality(K)
<1>1. s \in [1..Len(s) -> K] /\ DOMAIN s = 1..Len(s) /\ Len(s) \in Nat
  OBVIOUS
<1>2. s \in Surjection(1..Len(s), K)
  BY <1>1 DEF Surjection
<1>3. IsFiniteSet(1..Len(s)) /\ Cardinality(1..Len(s)) = Len(s)
  <2>1. 1 \in Int /\ Len(s) \in Int
    BY <1>1
  <2>2. IsFiniteSet(1..Len(s)) /\ Cardinality(1..Len(s)) = IF 1 > Len(s) THEN 0 ELSE Len(s) - 1 + 1
    BY <2>1, FS_Interval, Zenon
  <2> QED BY <1>1, <2>2
<1>4. Cardinality(K) = Len(s) <=> s \in Injection(1..Len(s), K)
  BY <1>2, <1>3, FS_Surjection
<1> QED
  BY <1>1, <1>4 DEF OnceEach, Injection, IsInjective

(* A list of different things is a list of a finite set. *)
LEMMA OnceFinite ==
    ASSUME NEW K, NEW s, OnceEach(s, K)
    PROVE  IsFiniteSet(K) /\ Len(s) = Cardinality(K) /\ Len(s) \in Nat
<1>1. s \in [1..Len(s) -> K] /\ DOMAIN s = 1..Len(s) /\ Len(s) \in Nat
  BY DEF OnceEach
<1>2. s \in Surjection(1..Len(s), K)
  BY <1>1 DEF Surjection, OnceEach
<1>3. IsFiniteSet(1..Len(s))
  BY <1>1, FS_Interval
<1>4. IsFiniteSet(K)
  BY <1>2, <1>3, FS_Surjection
<1> QED
  BY <1>1, <1>4, OnceByLength DEF OnceEach

(* Taking keys out leaves the others, once each, and in their order. *)
LEMMA WithoutKeepsOrder ==
    ASSUME NEW K, NEW s, OnceEach(s, K), NEW S
    PROVE  /\ OnceEach(Without(s, S), K \ S)
           /\ \A i, j : Precedes(Without(s, S), j, i) => Precedes(s, j, i)
<1> DEFINE kept == {i \in DOMAIN s : s[i] \notin S}
           c == Cardinality(kept)
           place == CHOOSE p \in [1..c -> kept] : Ascending(p, kept)
           t == [n \in 1..c |-> s[place[n]]]
<1>1. s \in [1..Len(s) -> K] /\ DOMAIN s = 1..Len(s) /\ Len(s) \in Nat
  BY DEF OnceEach
<1>2. kept \in SUBSET Int /\ IsFiniteSet(kept) /\ c \in Nat
  <2>1. kept \in SUBSET (1..Len(s)) /\ kept \in SUBSET Int
    BY <1>1
  <2> HIDE DEF kept
  <2>2. IsFiniteSet(1..Len(s))
    BY <1>1, FS_Interval
  <2>3. IsFiniteSet(kept)
    BY <2>1, <2>2, FS_Subset
  <2> QED BY <2>1, <2>3, FS_CardinalityType
<1>3. Ascending(place, kept)
  <2>1. \E p \in [1..c -> kept] : Ascending(p, kept)
    BY <1>2, AscendingExists DEF Ascending
  <2> QED BY <2>1
<1>4. t = Without(s, S)
  BY DEF Without
<1> HIDE DEF place, kept, c
<1>5. place \in [1..c -> kept] /\ \A m, n \in 1..c : m < n => place[m] < place[n]
  BY <1>3 DEF Ascending, c
<1>6. ASSUME NEW m \in 1..c, NEW n \in 1..c, place[m] = place[n] PROVE m = n
  <2>1. place[m] \in Int
    BY <1>2, <1>5
  <2>2. ~(m < n) /\ ~(n < m)
    BY <1>5, <1>6, <2>1
  <2> QED BY <1>2, <2>2
<1>7. \A i \in kept : \E m \in 1..c : place[m] = i
  <2>1. place \in Injection(1..c, kept)
    BY <1>5, <1>6 DEF Injection, IsInjective
  <2>2. Cardinality(1..c) = Cardinality(kept)
    BY <1>2, FS_Interval DEF c
  <2>3. place \in Surjection(1..c, kept)
    BY <2>1, <2>2, <1>2, FS_Injection
  <2> QED BY <2>3 DEF Surjection
<1>8. kept \subseteq DOMAIN s /\ \A i \in kept : s[i] \in K \ S
  BY <1>1 DEF kept
<1>9. t \in Seq(K \ S) /\ DOMAIN t = 1..c
  <2>1. t \in [1..c -> K \ S]
    BY <1>5, <1>8
  <2>2. c \in Nat
    BY <1>2
  <2> HIDE DEF t
  <2> QED BY <2>1, <2>2
<1>10. {t[n] : n \in DOMAIN t} = K \ S
  <2>1. ASSUME NEW x \in K \ S PROVE \E n \in DOMAIN t : t[n] = x
    <3>1. PICK i \in DOMAIN s : s[i] = x
      BY DEF OnceEach
    <3>2. i \in kept
      BY <3>1 DEF kept
    <3> QED BY <3>1, <3>2, <1>7, <1>9
  <2>2. ASSUME NEW n \in DOMAIN t PROVE t[n] \in K \ S
    BY <1>9, <1>5, <1>8
  <2> HIDE DEF t
  <2> QED BY <2>1, <2>2
<1>11. ASSUME NEW m \in DOMAIN t, NEW n \in DOMAIN t, t[m] = t[n] PROVE m = n
  <2>1. m \in 1..c /\ n \in 1..c /\ s[place[m]] = s[place[n]]
    BY <1>9, <1>11
  <2>2. place[m] \in DOMAIN s /\ place[n] \in DOMAIN s
    BY <1>5, <1>8, <2>1
  <2>3. place[m] = place[n]
    BY <2>1, <2>2 DEF OnceEach
  <2> QED BY <1>6, <2>1, <2>3
<1>12. ASSUME NEW i, NEW j, Precedes(t, j, i) PROVE Precedes(s, j, i)
  <2>1. PICK m, n \in 1..c : m < n /\ t[m] = j /\ t[n] = i
    BY <1>9, <1>12 DEF Precedes
  <2>2. place[m] < place[n] /\ s[place[m]] = j /\ s[place[n]] = i
    BY <1>5, <2>1
  <2>3. place[m] \in DOMAIN s /\ place[n] \in DOMAIN s
    BY <1>5, <1>8, <2>1
  <2> QED BY <2>2, <2>3 DEF Precedes
<1> HIDE DEF t
<1> QED
  BY <1>4, <1>9, <1>10, <1>11, <1>12 DEF OnceEach

(* A new key at the end. *)
LEMMA AppendOnce ==
    ASSUME NEW K, NEW s, OnceEach(s, K), NEW k, k \notin K
    PROVE  OnceEach(Append(s, k), K \cup {k})
<1>1. s \in [1..Len(s) -> K] /\ DOMAIN s = 1..Len(s) /\ Len(s) \in Nat /\ s \in Seq(K \cup {k})
  BY DEF OnceEach
<1> DEFINE t == Append(s, k)
<1>2. /\ t \in Seq(K \cup {k}) /\ DOMAIN t = 1..(Len(s) + 1)
      /\ t[Len(s) + 1] = k /\ \A i \in 1..Len(s) : t[i] = s[i]
  BY <1>1
<1> HIDE DEF t
<1>3. {t[i] : i \in DOMAIN t} = K \cup {k}
  <2>1. ASSUME NEW x \in K PROVE \E i \in DOMAIN t : t[i] = x
    <3>1. PICK i \in DOMAIN s : s[i] = x
      BY DEF OnceEach
    <3> QED BY <3>1, <1>1, <1>2
  <2>2. k \in {t[i] : i \in DOMAIN t}
    BY <1>1, <1>2
  <2>3. \A i \in DOMAIN t : t[i] \in K \cup {k}
    BY <1>1, <1>2
  <2> QED BY <2>1, <2>2, <2>3
<1>4. ASSUME NEW i \in DOMAIN t, NEW j \in DOMAIN t, t[i] = t[j] PROVE i = j
  <2>1. \A n \in 1..Len(s) : t[n] \in K
    BY <1>1, <1>2
  <2> QED BY <1>1, <1>2, <1>4, <2>1 DEF OnceEach
<1>5. OnceEach(t, K \cup {k})
  BY <1>2, <1>3, <1>4 DEF OnceEach
<1> QED
  BY <1>5 DEF t

(* The last key stays last if it is not taken out. *)
LEMMA LastStays ==
    ASSUME NEW K, NEW s, OnceEach(s, K), NEW S, Len(s) # 0, s[Len(s)] \notin S
    PROVE  /\ Len(Without(s, S)) # 0
           /\ Without(s, S)[Len(Without(s, S))] = s[Len(s)]
<1> DEFINE t == Without(s, S)
           k == s[Len(s)]
<1>1. /\ OnceEach(t, K \ S)
      /\ \A i, j : Precedes(t, j, i) => Precedes(s, j, i)
  BY WithoutKeepsOrder
<1> HIDE DEF t
<1>2. DOMAIN s = 1..Len(s) /\ Len(s) \in Nat /\ DOMAIN t = 1..Len(t) /\ Len(t) \in Nat
  BY <1>1 DEF OnceEach
<1>3. k \in K \ S
  BY <1>2 DEF OnceEach
<1>4. PICK m \in DOMAIN t : t[m] = k
  BY <1>1, <1>3 DEF OnceEach
<1>5. ASSUME m < Len(t) PROVE FALSE
  <2>1. Len(t) \in DOMAIN t
    BY <1>2, <1>4
  <2>2. PICK i, j \in DOMAIN s : i < j /\ s[i] = k /\ s[j] = t[Len(t)]
    <3>1. Precedes(t, k, t[Len(t)])
      BY <1>4, <1>5, <2>1 DEF Precedes
    <3> QED BY <1>1, <3>1 DEF Precedes
  <2>3. i = Len(s)
    BY <1>2, <2>2 DEF OnceEach
  <2> QED BY <1>2, <2>2, <2>3
<1>6. m = Len(t)
  BY <1>2, <1>4, <1>5
<1> QED
  BY <1>2, <1>4, <1>6 DEF t

(* A key moved to the end is listed once, and last. *)
LEMMA MoveOnce ==
    ASSUME NEW K, NEW s, OnceEach(s, K), NEW k \in K
    PROVE  /\ OnceEach(MoveToEnd(s, k), K)
           /\ Len(MoveToEnd(s, k)) # 0 /\ MoveToEnd(s, k)[Len(MoveToEnd(s, k))] = k
<1> DEFINE t == Without(s, {k})
<1>1. OnceEach(t, K \ {k})
  BY WithoutKeepsOrder
<1> HIDE DEF t
<1>2. OnceEach(Append(t, k), (K \ {k}) \cup {k})
  BY <1>1, AppendOnce
<1>3. (K \ {k}) \cup {k} = K
  OBVIOUS
<1>4. Len(Append(t, k)) # 0 /\ Append(t, k)[Len(Append(t, k))] = k
  <2>1. t \in Seq(K) /\ Len(t) \in Nat
    BY <1>1 DEF OnceEach
  <2> QED BY <2>1
<1> QED
  BY <1>2, <1>3, <1>4 DEF MoveToEnd, t

(* What is left of a list without its first n keys came after them. *)
LEMMA OldestFirst ==
    ASSUME NEW K, NEW s, OnceEach(s, K), NEW n \in 0..Len(s),
           NEW i \in K \ {s[m] : m \in 1..n}, NEW j \in {s[m] : m \in 1..n}
    PROVE  Precedes(s, j, i)
<1>1. DOMAIN s = 1..Len(s) /\ Len(s) \in Nat
  BY DEF OnceEach
<1>2. PICK p \in 1..n : s[p] = j
  OBVIOUS
<1>3. PICK q \in DOMAIN s : s[q] = i
  BY DEF OnceEach
<1>4. ~(q \in 1..n) /\ p \in DOMAIN s
  BY <1>1, <1>2, <1>3
<1> QED
  BY <1>1, <1>2, <1>3, <1>4 DEF Precedes

(* Taking the first keys of a list, but not all, leaves the last. *)
LEMMA AllButLast ==
    ASSUME NEW K, NEW s, OnceEach(s, K), Len(s) # 0
    PROVE  /\ {s[m] : m \in 1..(Len(s) - 1)} = K \ {s[Len(s)]}
           /\ \A v \in 0..(Len(s) - 1) : s[Len(s)] \notin {s[m] : m \in 1..v}
<1>1. DOMAIN s = 1..Len(s) /\ Len(s) \in Nat /\ s \in [1..Len(s) -> K]
  BY DEF OnceEach
<1>2. ASSUME NEW x \in K, x # s[Len(s)] PROVE \E m \in 1..(Len(s) - 1) : s[m] = x
  <2>1. PICK m \in DOMAIN s : s[m] = x
    BY DEF OnceEach
  <2>2. m \in 1..(Len(s) - 1)
    BY <1>1, <1>2, <2>1
  <2> QED BY <2>1, <2>2
<1>3. ASSUME NEW m \in 1..(Len(s) - 1) PROVE s[m] \in K /\ s[m] # s[Len(s)]
  <2>1. \A n \in Nat \ {0} : \A i \in 1..(n - 1) : i \in 1..n /\ n \in 1..n /\ i # n
    OBVIOUS
  <2>2. m \in DOMAIN s /\ Len(s) \in DOMAIN s /\ m # Len(s)
    BY <1>1, <2>1
  <2> QED BY <1>1, <2>2 DEF OnceEach
<1>4. {s[m] : m \in 1..(Len(s) - 1)} = K \ {s[Len(s)]}
  BY <1>2, <1>3
<1>5. ASSUME NEW v \in 0..(Len(s) - 1), NEW m \in 1..v PROVE s[Len(s)] # s[m]
  <2>1. m \in 1..(Len(s) - 1)
    BY <1>1
  <2> QED BY <1>3, <2>1
<1> QED
  BY <1>4, <1>5
================================================================================
