-------------------------------- MODULE Sums ---------------------------------
(***************************************************************************)
(* What a sum of natural numbers is, over the elements of a finite set and *)
(* over a row of numbers, and how many of a set come before one of them:   *)
(* lemmas for the proofs about counted things.                             *)
(*                                                                         *)
(* Each is an induction, put as the search for a least counterexample.     *)
(***************************************************************************)
EXTENDS Functions, FiniteSetTheorems, WellFoundedInduction, TLAPS

\* Every set of naturals with a member has a least one.
LEMMA LeastNumber ==
  ASSUME NEW T, T \subseteq Nat, T # {}
  PROVE  \E n \in T : \A m \in T : n <= m
<1> DEFINE R == OpToRel(<, Nat)
<1>1. PICK n \in T : \A m \in T : ~ (<<m, n>> \in R)
  <2>1. IsWellFoundedOn(R, Nat)
    BY NatLessThanWellFounded
  <2> HIDE DEF R
  <2> QED
    BY <2>1, WFMin
<1>2. \A m \in Nat : m < n => <<m, n>> \in R
  BY DEF OpToRel
<1>3. \A m \in T : m \in Nat /\ n \in Nat
  OBVIOUS
<1> HIDE DEF R
<1>4. \A m \in T : ~ (m < n)
  BY <1>1, <1>2, <1>3, Zenon
<1> QED
  BY <1>3, <1>4

\* Among subsets of a finite set there is one that contains no other.
LEMMA LeastSubset ==
  ASSUME NEW S, IsFiniteSet(S), NEW T, T \subseteq SUBSET S, T # {}
  PROVE  \E t \in T : \A u \in T : u \subseteq t => u = t
<1> DEFINE C == {Cardinality(t) : t \in T}
<1>1. \A t \in T : IsFiniteSet(t) /\ Cardinality(t) \in Nat
  BY FS_Subset, FS_CardinalityType
<1>2. PICK n \in C : \A m \in C : n <= m
  <2>1. C \subseteq Nat /\ C # {}
    BY <1>1
  <2> HIDE DEF C
  <2> QED
    BY <2>1, LeastNumber
<1>3. PICK t \in T : Cardinality(t) = n
  BY <1>2
<1>4. \A u \in T : u \subseteq t => u = t
  <2> SUFFICES ASSUME NEW u \in T, u \subseteq t
               PROVE  u = t
    OBVIOUS
  <2>1. Cardinality(u) <= Cardinality(t) /\ (Cardinality(u) = Cardinality(t) => u = t)
    BY <1>1, FS_Subset
  <2>2. Cardinality(t) <= Cardinality(u)
    BY <1>2, <1>3
  <2> QED
    BY <1>1, <2>1, <2>2
<1> QED
  BY <1>3, <1>4

\* How many of a set of numbers come before one.
Rank(T, w) == Cardinality({v \in T : v < w})

LEMMA RankGrows ==
  ASSUME NEW T, \A x \in T : x \in Nat, IsFiniteSet(T), NEW v \in T, NEW w \in T, v < w
  PROVE  Rank(T, v) < Rank(T, w)
<1> DEFINE R == {x \in T : x < v}
           S == {x \in T : x < w}
<1>1. R \cup {v} \in SUBSET S /\ v \notin R /\ S \in SUBSET T /\ R \in SUBSET T
  <2>1. \A x \in T : x < v => x < w
    OBVIOUS
  <2>2. ~ (v < v)
    OBVIOUS
  <2> QED
    BY <2>1, <2>2
<1>2. IsFiniteSet(R) /\ IsFiniteSet(S)
  BY <1>1, FS_Subset, Zenon
<1>3. Cardinality(R \cup {v}) = Cardinality(R) + 1
  BY <1>1, <1>2, FS_AddElement
<1>4. Cardinality(R \cup {v}) <= Cardinality(S)
  BY <1>1, <1>2, FS_Subset, Zenon
<1>5. Cardinality(R) \in Nat /\ Cardinality(S) \in Nat
  BY <1>2, FS_CardinalityType
<1>6. Rank(T, v) = Cardinality(R) /\ Rank(T, w) = Cardinality(S)
  BY DEF Rank
<1> HIDE DEF R, S
<1> QED
  BY <1>3, <1>4, <1>5, <1>6

\* Every rank below the size of the set is some member's.
LEMMA RanksTaken ==
  ASSUME NEW T, \A x \in T : x \in Nat, IsFiniteSet(T), NEW n, n = Cardinality(T)
  PROVE  n \in Nat /\ \A k \in 0 .. n - 1 : \E w \in T : Rank(T, w) = k
<1>0. n \in Nat
  BY FS_CardinalityType
<1> DEFINE Free == {k \in 0 .. n - 1 : \A w \in T : Rank(T, w) # k}
<1> SUFFICES ASSUME Free # {}
             PROVE  FALSE
  BY <1>0
<1>1. PICK k \in Free : \A j \in Free : k <= j
  <2>1. Free \subseteq Nat
    BY <1>0
  <2> HIDE DEF Free
  <2> QED
    BY <2>1, LeastNumber
<1>2. k \in 0 .. n - 1 /\ \A w \in T : Rank(T, w) # k
  OBVIOUS
<1>3. \A w : {v \in T : v < w} \in SUBSET T
  OBVIOUS
<1>4. CASE k = 0
  <2>1. T # {}
    BY <1>0, <1>2, <1>4, FS_EmptySet
  <2>2. PICK w \in T : \A v \in T : w <= v
    <3>1. T \subseteq Nat
      OBVIOUS
    <3> QED
      BY <2>1, <3>1, LeastNumber
  <2>3. {v \in T : v < w} = {}
    BY <2>2
  <2>4. Rank(T, w) = 0
    BY <2>3, FS_EmptySet DEF Rank
  <2> QED
    BY <1>2, <1>4, <2>4
<1>5. CASE k # 0
  <2>1. k - 1 \in 0 .. n - 1 /\ k - 1 \notin Free
    BY <1>0, <1>1, <1>2, <1>5
  <2>2. PICK w \in T : Rank(T, w) = k - 1
    BY <2>1
  <2> DEFINE R == {v \in T : v < w}
             A == {v \in T : w < v}
  <2>3. IsFiniteSet(R) /\ Cardinality(R) = k - 1 /\ w \notin R
    BY <1>3, <2>2, FS_Subset DEF Rank
  <2>4. Cardinality(R \cup {w}) = k
    <3>1. Cardinality(R \cup {w}) = (k - 1) + 1
      BY <2>3, FS_AddElement
    <3> QED
      BY <1>0, <1>2, <3>1
  <2>5. A # {}
    <3>1. R \cup {w} # T
      <4>1. k # n
        BY <1>0, <1>2
      <4> QED
        BY <2>4, <4>1, Zenon
    <3> QED
      BY <3>1
  <2>6. PICK v \in A : \A x \in A : v <= x
    <3>1. A \subseteq Nat
      OBVIOUS
    <3> HIDE DEF A
    <3> QED
      BY <2>5, <3>1, LeastNumber
  <2>7. {x \in T : x < v} = R \cup {w}
    BY <2>6
  <2>8. v \in T /\ Rank(T, v) = k
    BY <2>4, <2>7 DEF Rank
  <2> QED
    BY <1>2, <2>8
<1> QED
  BY <1>4, <1>5

\* Those before whom there are fewer than n are n at least, where there are as many.
LEMMA FirstFew ==
  ASSUME NEW S, IsFiniteSet(S), NEW key, \A x \in S : key[x] \in Nat,
         NEW n \in Nat, n <= Cardinality(S)
  PROVE  /\ IsFiniteSet({x \in S : Cardinality({y \in S : key[y] < key[x]}) < n})
         /\ Cardinality({x \in S : Cardinality({y \in S : key[y] < key[x]}) < n}) >= n
<1> DEFINE Before(x) == {y \in S : key[y] < key[x]}
           F == {x \in S : Cardinality(Before(x)) < n}
<1>1. /\ F \subseteq S /\ IsFiniteSet(F) /\ Cardinality(F) \in Nat /\ Cardinality(S) \in Nat
  <2>1. F \subseteq S
    OBVIOUS
  <2> HIDE DEF F
  <2> QED  BY <2>1, FS_Subset, FS_CardinalityType
<1>2. Cardinality(F) >= n
  <2> SUFFICES ASSUME Cardinality(F) < n
               PROVE  FALSE
    BY <1>1
  <2> DEFINE T == {key[x] : x \in S \ F}
  <2>1. T \subseteq Nat /\ T # {}
    <3>1. F # S
      <4> HIDE DEF F
      <4> QED  BY <1>1
    <3> QED  BY <1>1, <3>1
  <2>2. PICK k \in T : \A m \in T : k <= m
    <3> HIDE DEF T
    <3> QED  BY <2>1, LeastNumber
  <2>3. PICK x \in S \ F : key[x] = k
    BY <2>2
  <2>4. Before(x) \subseteq F
    <3> SUFFICES ASSUME NEW y \in S, key[y] < key[x], y \notin F
                 PROVE  FALSE
      OBVIOUS
    <3>1. key[y] \in T
      OBVIOUS
    <3>2. k <= key[y]
      BY <2>2, <3>1
    <3> QED  BY <2>3, <3>2
  <2> HIDE DEF F
  <2>5. Cardinality(Before(x)) <= Cardinality(F) /\ Cardinality(Before(x)) \in Nat
    <3> HIDE DEF Before
    <3> QED  BY <1>1, <2>4, FS_Subset, FS_CardinalityType
  <2>6. Cardinality(Before(x)) < n
    BY <1>1, <2>5
  <2> QED  BY <2>3, <2>6 DEF F
<1> QED  BY <1>1, <1>2

\* The fold takes one element out after the other.
AnyOf(s) == CHOOSE x \in s : TRUE
Unfolds(g, f, D) ==
    \A s \in D : g[s] = IF s = {} THEN 0 ELSE f[AnyOf(s)] + g[s \ {AnyOf(s)}]

\* A sum over the subsets of a finite set: it is what its definition says.
LEMMA SumDefined ==
  ASSUME NEW S, IsFiniteSet(S), NEW f, \A x \in S : f[x] \in Nat
  PROVE  \E g \in [SUBSET S -> Nat] : Unfolds(g, f, SUBSET S)
<1> DEFINE Upto(n) == {s \in SUBSET S : Cardinality(s) <= n}
           Good == {n \in Nat : \E g \in [Upto(n) -> Nat] : Unfolds(g, f, Upto(n))}
<1>0. \A s \in SUBSET S : IsFiniteSet(s) /\ Cardinality(s) \in Nat /\ Cardinality(s) <= Cardinality(S)
  BY FS_Subset, FS_CardinalityType
<1>1. \A s \in SUBSET S : s # {} =>
        /\ AnyOf(s) \in s /\ s \ {AnyOf(s)} \in SUBSET S
        /\ Cardinality(s \ {AnyOf(s)}) = Cardinality(s) - 1
  BY <1>0, FS_RemoveElement DEF AnyOf
<1>2. 0 \in Good
  <2>1. Upto(0) = {{}}
    BY <1>0, FS_EmptySet
  <2> DEFINE g == [s \in Upto(0) |-> 0]
  <2>2. g \in [Upto(0) -> Nat] /\ Unfolds(g, f, Upto(0))
    BY <2>1 DEF Unfolds
  <2> QED
    BY <2>2
<1>3. ASSUME NEW n \in Good
      PROVE  n + 1 \in Good
  <2>1. PICK h \in [Upto(n) -> Nat] : Unfolds(h, f, Upto(n))
    OBVIOUS
  <2> DEFINE g == [s \in Upto(n + 1) |-> IF s = {} THEN 0 ELSE f[AnyOf(s)] + h[s \ {AnyOf(s)}]]
  <2>2. \A s \in Upto(n + 1) : s # {} => AnyOf(s) \in S /\ s \ {AnyOf(s)} \in Upto(n)
    BY <1>0, <1>1
  <2>3. g \in [Upto(n + 1) -> Nat]
    BY <2>2
  <2>4. \A s \in Upto(n) : s \in Upto(n + 1) /\ g[s] = h[s]
    BY <1>0, <2>1 DEF Unfolds
  <2>5. Unfolds(g, f, Upto(n + 1))
    BY <2>2, <2>4 DEF Unfolds
  <2>6. \E k \in [Upto(n + 1) -> Nat] : Unfolds(k, f, Upto(n + 1))
    <3> HIDE DEF g, Upto
    <3> QED
      BY <2>3, <2>5
  <2>7. n + 1 \in Nat
    OBVIOUS
  <2> QED
    BY <2>6, <2>7
<1>4. Good = Nat
  <2> SUFFICES ASSUME Nat \ Good # {}
               PROVE  FALSE
    OBVIOUS
  <2>1. PICK n \in Nat \ Good : \A m \in Nat \ Good : n <= m
    <3> HIDE DEF Good
    <3> QED
      BY LeastNumber
  <2> HIDE DEF Good
  <2>2. n # 0 /\ n - 1 \in Nat /\ n - 1 \notin Nat \ Good
    BY <1>2, <2>1
  <2>3. n - 1 \in Good /\ (n - 1) + 1 = n /\ n \notin Good
    BY <2>1, <2>2
  <2>4. (n - 1) + 1 \in Good
    BY <1>3, <2>3
  <2> QED
    BY <2>3, <2>4
<1>5. Upto(Cardinality(S)) = SUBSET S
  BY <1>0
<1>6. Cardinality(S) \in Good
  BY <1>0, <1>4
<1> QED
  BY <1>5, <1>6

\* The sum of a function, taken apart at any of its arguments.
LEMMA SumTakenApart ==
  ASSUME NEW S, IsFiniteSet(S), NEW f, \A x \in S : f[x] \in Nat
  PROVE  \E g \in [SUBSET S -> Nat] :
            /\ g[{}] = 0
            /\ \A s \in SUBSET S : \A x \in s : g[s] = f[x] + g[s \ {x}]
            /\ FoldFunctionOnSet(+, 0, f, S) = g[S]
<1> DEFINE iter[s \in SUBSET S] ==
        IF s = {} THEN 0 ELSE f[CHOOSE x \in s : TRUE] + iter[s \ {CHOOSE x \in s : TRUE}]
<1>1. FoldFunctionOnSet(+, 0, f, S) = iter[S]
  BY DEF FoldFunctionOnSet, MapThenFoldSet
<1>2. iter = [s \in SUBSET S |->
        IF s = {} THEN 0 ELSE f[CHOOSE x \in s : TRUE] + iter[s \ {CHOOSE x \in s : TRUE}]]
  <2>1. PICK g \in [SUBSET S -> Nat] : Unfolds(g, f, SUBSET S)
    BY SumDefined
  <2>2. g = [s \in SUBSET S |->
        IF s = {} THEN 0 ELSE f[CHOOSE x \in s : TRUE] + g[s \ {CHOOSE x \in s : TRUE}]]
    BY <2>1 DEF Unfolds, AnyOf
  <2> QED
    BY <2>2
<1> HIDE DEF iter
<1>3. Unfolds(iter, f, SUBSET S) /\ DOMAIN iter = SUBSET S
  BY <1>2 DEF Unfolds, AnyOf
<1>4. \A s \in SUBSET S : s # {} => AnyOf(s) \in s
  BY DEF AnyOf
<1>5. \A s \in SUBSET S : iter[s] \in Nat
  <2> DEFINE T == {s \in SUBSET S : iter[s] \notin Nat}
  <2> SUFFICES ASSUME T # {}
               PROVE  FALSE
    OBVIOUS
  <2>1. PICK t \in T : \A u \in T : u \subseteq t => u = t
    <3>1. T \subseteq SUBSET S
      OBVIOUS
    <3> HIDE DEF T
    <3> QED
      BY <3>1, LeastSubset
  <2>2. t # {}
    BY <1>3 DEF Unfolds
  <2>3. AnyOf(t) \in t /\ t \ {AnyOf(t)} \notin T
    BY <1>4, <2>1, <2>2
  <2> QED
    BY <1>3, <2>2, <2>3 DEF Unfolds
<1>6. \A s \in SUBSET S : \A x \in s : iter[s] = f[x] + iter[s \ {x}]
  <2> DEFINE T == {s \in SUBSET S : \E x \in s : iter[s] # f[x] + iter[s \ {x}]}
  <2> SUFFICES ASSUME T # {}
               PROVE  FALSE
    OBVIOUS
  <2>1. PICK t \in T : \A u \in T : u \subseteq t => u = t
    <3>1. T \subseteq SUBSET S
      OBVIOUS
    <3> HIDE DEF T
    <3> QED
      BY <3>1, LeastSubset
  <2>2. PICK x \in t : iter[t] # f[x] + iter[t \ {x}]
    OBVIOUS
  <2> DEFINE y == AnyOf(t)
  <2>3. y \in t /\ iter[t] = f[y] + iter[t \ {y}]
    BY <1>3, <1>4 DEF Unfolds
  <2>4. x # y
    BY <2>2, <2>3
  <2>5. t \ {y} \notin T /\ t \ {x} \notin T
    BY <2>1, <2>3
  <2>6. iter[t \ {y}] = f[x] + iter[(t \ {y}) \ {x}] /\ iter[t \ {x}] = f[y] + iter[(t \ {x}) \ {y}]
    BY <2>3, <2>4, <2>5
  <2>7. (t \ {y}) \ {x} = (t \ {x}) \ {y}
    OBVIOUS
  <2>8. f[x] \in Nat /\ f[y] \in Nat /\ iter[(t \ {x}) \ {y}] \in Nat
    BY <1>5, <2>3
  <2>9. \A a, b, c \in Nat : a + (b + c) = b + (a + c)
    OBVIOUS
  <2>10. iter[t] = f[y] + (f[x] + iter[(t \ {x}) \ {y}])
    BY <2>3, <2>6, <2>7, Zenon
  <2>11. f[x] + iter[t \ {x}] = f[x] + (f[y] + iter[(t \ {x}) \ {y}])
    BY <2>6, Zenon
  <2> QED
    BY <2>2, <2>8, <2>9, <2>10, <2>11, Zenon
<1>7. iter \in [SUBSET S -> Nat] /\ iter[{}] = 0
  BY <1>2, <1>3, <1>5 DEF Unfolds
<1> QED
  BY <1>1, <1>6, <1>7

\* The sums of what a function holds over two sets, one inside the other.
LEMMA SumsNest ==
  ASSUME NEW S, IsFiniteSet(S), NEW f, \A x \in S : f[x] \in Nat, NEW R \in SUBSET S
  PROVE  /\ SumFunctionOnSet(f, S) \in Nat /\ SumFunctionOnSet(f, R) \in Nat
         /\ SumFunctionOnSet(f, R) <= SumFunctionOnSet(f, S)
<1>0. IsFiniteSet(R) /\ \A x \in R : f[x] \in Nat
  BY FS_Subset
<1>1. PICK g \in [SUBSET S -> Nat] :
        /\ g[{}] = 0
        /\ \A s \in SUBSET S : \A x \in s : g[s] = f[x] + g[s \ {x}]
        /\ FoldFunctionOnSet(+, 0, f, S) = g[S]
  BY SumTakenApart
<1>2. PICK h \in [SUBSET R -> Nat] :
        /\ h[{}] = 0
        /\ \A s \in SUBSET R : \A x \in s : h[s] = f[x] + h[s \ {x}]
        /\ FoldFunctionOnSet(+, 0, f, R) = h[R]
  BY <1>0, SumTakenApart
<1>3. h[R] = g[R]
  <2> DEFINE T == {s \in SUBSET R : h[s] # g[s]}
  <2> SUFFICES ASSUME T # {}
               PROVE  FALSE
    OBVIOUS
  <2>1. PICK t \in T : \A u \in T : u \subseteq t => u = t
    <3>1. T \subseteq SUBSET R
      OBVIOUS
    <3> HIDE DEF T
    <3> QED
      BY <1>0, <3>1, LeastSubset
  <2>2. t # {}
    BY <1>1, <1>2
  <2>3. PICK x \in t : t \ {x} \notin T
    BY <2>1, <2>2
  <2>4. h[t] = f[x] + h[t \ {x}] /\ g[t] = f[x] + g[t \ {x}]
    BY <1>1, <1>2
  <2> QED
    BY <2>3, <2>4
<1>4. g[R] <= g[S]
  <2> DEFINE T == {s \in SUBSET S : R \subseteq s /\ ~ (g[R] <= g[s])}
  <2> SUFFICES ASSUME T # {}
               PROVE  FALSE
    OBVIOUS
  <2>1. PICK t \in T : \A u \in T : u \subseteq t => u = t
    <3>1. T \subseteq SUBSET S
      OBVIOUS
    <3> HIDE DEF T
    <3> QED
      BY <3>1, LeastSubset
  <2>2. PICK x \in t : x \notin R
    <3>1. g[R] \in Nat
      BY <1>1
    <3>2. t # R
      BY <3>1
    <3>3. R \subseteq t
      OBVIOUS
    <3> QED
      BY <3>2, <3>3, Zenon
  <2>3. t \ {x} \notin T /\ t \ {x} \in SUBSET S /\ R \subseteq t \ {x}
    BY <2>1, <2>2
  <2>4. g[t] = f[x] + g[t \ {x}] /\ f[x] \in Nat
    BY <1>1
  <2>5. g[R] \in Nat /\ g[t \ {x}] \in Nat
    BY <1>1, <2>3
  <2> QED
    BY <2>3, <2>4, <2>5
<1>5. SumFunctionOnSet(f, S) = g[S] /\ SumFunctionOnSet(f, R) = g[R]
  BY <1>1, <1>2, <1>3, Zenon DEF SumFunctionOnSet
<1>6. g[S] \in Nat /\ g[R] \in Nat
  BY <1>1
<1> QED
  BY <1>4, <1>5, <1>6, Zenon

\* What two functions agree on adds up alike.
LEMMA SumsAgree ==
  ASSUME NEW S, IsFiniteSet(S), NEW f, NEW h, \A x \in S : f[x] \in Nat /\ h[x] = f[x]
  PROVE  SumFunctionOnSet(f, S) = SumFunctionOnSet(h, S)
<1>1. PICK g \in [SUBSET S -> Nat] :
        /\ g[{}] = 0
        /\ \A s \in SUBSET S : \A x \in s : g[s] = f[x] + g[s \ {x}]
        /\ FoldFunctionOnSet(+, 0, f, S) = g[S]
  BY SumTakenApart
<1>2. PICK k \in [SUBSET S -> Nat] :
        /\ k[{}] = 0
        /\ \A s \in SUBSET S : \A x \in s : k[s] = h[x] + k[s \ {x}]
        /\ FoldFunctionOnSet(+, 0, h, S) = k[S]
  <2>1. \A x \in S : h[x] \in Nat
    OBVIOUS
  <2> QED  BY <2>1, SumTakenApart
<1>3. k[S] = g[S]
  <2> DEFINE T == {s \in SUBSET S : k[s] # g[s]}
  <2> SUFFICES ASSUME T # {}
               PROVE  FALSE
    OBVIOUS
  <2>1. PICK t \in T : \A u \in T : u \subseteq t => u = t
    <3>1. T \subseteq SUBSET S
      OBVIOUS
    <3> HIDE DEF T
    <3> QED
      BY <3>1, LeastSubset
  <2>2. t # {}
    BY <1>1, <1>2
  <2>3. PICK x \in t : t \ {x} \notin T
    BY <2>1, <2>2
  <2>4. k[t] = h[x] + k[t \ {x}] /\ g[t] = f[x] + g[t \ {x}] /\ h[x] = f[x]
    BY <1>1, <1>2
  <2> QED
    BY <2>3, <2>4
<1> QED
  BY <1>1, <1>2, <1>3, Zenon DEF SumFunctionOnSet

\* One thing is taken out of a sum.
LEMMA SumsPeel ==
  ASSUME NEW S, IsFiniteSet(S), NEW f, \A x \in S : f[x] \in Nat, NEW x \in S
  PROVE  /\ SumFunctionOnSet(f, S \ {x}) \in Nat
         /\ SumFunctionOnSet(f, S) = f[x] + SumFunctionOnSet(f, S \ {x})
<1> DEFINE R == S \ {x}
<1>0. IsFiniteSet(R) /\ (\A y \in R : f[y] \in Nat) /\ R \in SUBSET S
  BY FS_Subset
<1> HIDE DEF R
<1>1. PICK g \in [SUBSET S -> Nat] :
        /\ g[{}] = 0
        /\ \A s \in SUBSET S : \A y \in s : g[s] = f[y] + g[s \ {y}]
        /\ FoldFunctionOnSet(+, 0, f, S) = g[S]
  BY SumTakenApart
<1>2. PICK h \in [SUBSET R -> Nat] :
        /\ h[{}] = 0
        /\ \A s \in SUBSET R : \A y \in s : h[s] = f[y] + h[s \ {y}]
        /\ FoldFunctionOnSet(+, 0, f, R) = h[R]
  BY <1>0, SumTakenApart
<1>3. h[R] = g[R]
  <2> DEFINE T == {s \in SUBSET R : h[s] # g[s]}
  <2> SUFFICES ASSUME T # {}
               PROVE  FALSE
    OBVIOUS
  <2>1. PICK t \in T : \A u \in T : u \subseteq t => u = t
    <3>1. T \subseteq SUBSET R
      OBVIOUS
    <3> HIDE DEF T
    <3> QED
      BY <1>0, <3>1, LeastSubset
  <2>2. t # {}
    BY <1>1, <1>2
  <2>3. PICK y \in t : t \ {y} \notin T
    BY <2>1, <2>2
  <2>4. h[t] = f[y] + h[t \ {y}] /\ g[t] = f[y] + g[t \ {y}]
    BY <1>0, <1>1, <1>2
  <2> QED
    BY <2>3, <2>4
<1>4. g[S] = f[x] + g[R] /\ g[R] \in Nat
  BY <1>0, <1>1 DEF R
<1>5. SumFunctionOnSet(f, S) = g[S] /\ SumFunctionOnSet(f, R) = g[R]
  BY <1>1, <1>2, <1>3, Zenon DEF SumFunctionOnSet
<1> QED
  BY <1>4, <1>5 DEF R

\* Where every share is at most its part of the whole, so is the sum of the shares.
LEMMA SumsOfShares ==
  ASSUME NEW S, IsFiniteSet(S), NEW f, NEW w, \A x \in S : f[x] \in Nat /\ w[x] \in Nat,
         NEW V \in Nat, NEW W \in Nat, \A x \in S : f[x] * W <= V * w[x]
  PROVE  SumFunctionOnSet(f, S) * W <= V * SumFunctionOnSet(w, S)
<1>1. PICK g \in [SUBSET S -> Nat] :
        /\ g[{}] = 0
        /\ \A s \in SUBSET S : \A x \in s : g[s] = f[x] + g[s \ {x}]
        /\ FoldFunctionOnSet(+, 0, f, S) = g[S]
  BY SumTakenApart
<1>2. PICK k \in [SUBSET S -> Nat] :
        /\ k[{}] = 0
        /\ \A s \in SUBSET S : \A x \in s : k[s] = w[x] + k[s \ {x}]
        /\ FoldFunctionOnSet(+, 0, w, S) = k[S]
  BY SumTakenApart
<1>3. g[S] * W <= V * k[S]
  <2> DEFINE T == {s \in SUBSET S : ~ (g[s] * W <= V * k[s])}
  <2> SUFFICES ASSUME T # {}
               PROVE  FALSE
    OBVIOUS
  <2>1. PICK t \in T : \A u \in T : u \subseteq t => u = t
    <3>1. T \subseteq SUBSET S
      OBVIOUS
    <3> HIDE DEF T
    <3> QED
      BY <3>1, LeastSubset
  <2>2. t # {}
    <3>1. g[{}] * W = 0 /\ V * k[{}] = 0
      <4>1. 0 * W = 0 /\ V * 0 = 0
        OBVIOUS
      <4>2. g[{}] = 0 /\ k[{}] = 0
        BY <1>1, <1>2
      <4> QED  BY <4>1, <4>2, Zenon
    <3>2. g[{}] * W <= V * k[{}]
      BY <3>1
    <3> QED  BY <3>2
  <2>3. PICK x \in t : t \ {x} \notin T
    BY <2>1, <2>2
  <2>4. /\ k[t] = w[x] + k[t \ {x}] /\ g[t] = f[x] + g[t \ {x}]
        /\ g[t \ {x}] * W <= V * k[t \ {x}]
        /\ k[t \ {x}] \in Nat /\ g[t \ {x}] \in Nat /\ f[x] \in Nat /\ w[x] \in Nat
        /\ f[x] * W <= V * w[x]
    BY <1>1, <1>2, <2>3
  <2>5. ASSUME NEW a \in Nat, NEW b \in Nat, NEW c \in Nat, NEW d \in Nat,
               a * W <= V * c, b * W <= V * d
        PROVE  (a + b) * W <= V * (c + d)
    <3>1. (a + b) * W = a * W + b * W /\ V * (c + d) = V * c + V * d
      OBVIOUS
    <3>2. a * W \in Nat /\ b * W \in Nat /\ V * c \in Nat /\ V * d \in Nat
      OBVIOUS
    <3> DEFINE p == a * W  q == b * W  r == V * c  s == V * d
    <3>3. p \in Nat /\ q \in Nat /\ r \in Nat /\ s \in Nat /\ p <= r /\ q <= s
      BY <2>5, <3>2
    <3> HIDE DEF p, q, r, s
    <3>4. p + q <= r + s
      BY <3>3
    <3> QED  BY <3>1, <3>4 DEF p, q, r, s
  <2>6. g[t] * W <= V * k[t]
    BY <2>4, <2>5
  <2> QED
    BY <2>6
<1> QED
  BY <1>1, <1>2, <1>3, Zenon DEF SumFunctionOnSet

\* One more somewhere is one more in the sum.
LEMMA SumsOneMore ==
  ASSUME NEW S, IsFiniteSet(S), NEW f, NEW h, NEW x \in S,
         \A y \in S : f[y] \in Nat, h[x] = f[x] + 1, \A y \in S \ {x} : h[y] = f[y]
  PROVE  SumFunctionOnSet(h, S) = SumFunctionOnSet(f, S) + 1 /\ SumFunctionOnSet(f, S) \in Nat
<1>1. \A y \in S : h[y] \in Nat
  OBVIOUS
<1>2. /\ SumFunctionOnSet(f, S \ {x}) \in Nat
      /\ SumFunctionOnSet(f, S) = f[x] + SumFunctionOnSet(f, S \ {x})
  BY SumsPeel
<1>3. SumFunctionOnSet(h, S) = h[x] + SumFunctionOnSet(h, S \ {x})
  BY <1>1, SumsPeel
<1>4. SumFunctionOnSet(f, S \ {x}) = SumFunctionOnSet(h, S \ {x})
  <2> DEFINE R == S \ {x}
  <2>1. IsFiniteSet(R) /\ \A y \in R : f[y] \in Nat /\ h[y] = f[y]
    BY FS_Subset
  <2> HIDE DEF R
  <2>2. SumFunctionOnSet(f, R) = SumFunctionOnSet(h, R)
    BY <2>1, SumsAgree
  <2> QED  BY <2>2 DEF R
<1> QED
  BY <1>2, <1>3, <1>4

\* One more everywhere is as many more as there are elements.
LEMMA SumsSpread ==
  ASSUME NEW S, IsFiniteSet(S), NEW f, NEW h, \A x \in S : f[x] \in Nat /\ h[x] = f[x] + 1
  PROVE  SumFunctionOnSet(h, S) = SumFunctionOnSet(f, S) + Cardinality(S)
<1>1. PICK g \in [SUBSET S -> Nat] :
        /\ g[{}] = 0
        /\ \A s \in SUBSET S : \A x \in s : g[s] = f[x] + g[s \ {x}]
        /\ FoldFunctionOnSet(+, 0, f, S) = g[S]
  BY SumTakenApart
<1>2. PICK k \in [SUBSET S -> Nat] :
        /\ k[{}] = 0
        /\ \A s \in SUBSET S : \A x \in s : k[s] = h[x] + k[s \ {x}]
        /\ FoldFunctionOnSet(+, 0, h, S) = k[S]
  <2>1. \A x \in S : h[x] \in Nat
    OBVIOUS
  <2> QED  BY <2>1, SumTakenApart
<1>3. k[S] = g[S] + Cardinality(S)
  <2> DEFINE T == {s \in SUBSET S : k[s] # g[s] + Cardinality(s)}
  <2> SUFFICES ASSUME T # {}
               PROVE  FALSE
    OBVIOUS
  <2>1. PICK t \in T : \A u \in T : u \subseteq t => u = t
    <3>1. T \subseteq SUBSET S
      OBVIOUS
    <3> HIDE DEF T
    <3> QED
      BY <3>1, LeastSubset
  <2>2. t # {}
    <3>1. k[{}] = g[{}] + Cardinality({})
      <4>1. Cardinality({}) = 0 /\ 0 = 0 + 0
        BY FS_EmptySet
      <4> QED  BY <1>1, <1>2, <4>1, Zenon
    <3> QED  BY <3>1
  <2>3. PICK x \in t : t \ {x} \notin T
    BY <2>1, <2>2
  <2>4. /\ k[t] = h[x] + k[t \ {x}] /\ g[t] = f[x] + g[t \ {x}] /\ h[x] = f[x] + 1
        /\ k[t \ {x}] = g[t \ {x}] + Cardinality(t \ {x})
        /\ g[t \ {x}] \in Nat /\ f[x] \in Nat
    BY <1>1, <1>2, <2>3
  <2>5. Cardinality(t \ {x}) = Cardinality(t) - 1 /\ Cardinality(t) \in Nat
    <3>1. IsFiniteSet(t)
      BY FS_Subset
    <3> QED  BY <3>1, FS_RemoveElement, FS_CardinalityType
  <2>6. k[t] = g[t] + Cardinality(t)
    BY <2>4, <2>5
  <2> QED
    BY <2>6
<1> QED
  BY <1>1, <1>2, <1>3, Zenon DEF SumFunctionOnSet

\* What is nothing everywhere adds up to nothing.
LEMMA SumsOfZeros ==
  ASSUME NEW S, IsFiniteSet(S), NEW f, \A x \in S : f[x] = 0
  PROVE  SumFunctionOnSet(f, S) = 0
<1>1. \A x \in S : f[x] \in Nat /\ f[x] * 1 <= 0 * f[x]
  OBVIOUS
<1>2. SumFunctionOnSet(f, S) * 1 <= 0 * SumFunctionOnSet(f, S)
  <2>1. 0 \in Nat /\ 1 \in Nat
    OBVIOUS
  <2> QED  BY <1>1, <2>1, SumsOfShares
<1>3. SumFunctionOnSet(f, S) \in Nat
  <2>1. S \in SUBSET S
    OBVIOUS
  <2> QED  BY <1>1, <2>1, SumsNest
<1> QED
  BY <1>2, <1>3

\* A division with the rest left out.
LEMMA Divided ==
  ASSUME NEW x \in Nat, NEW n \in Nat \ {0}
  PROVE  x \div n \in Nat /\ (x \div n) * n <= x /\ x < (x \div n + 1) * n
  OBVIOUS

LEMMA DividedGrows ==
  ASSUME NEW x \in Nat, NEW y \in Nat, NEW n \in Nat \ {0}, x <= y
  PROVE  x \div n <= y \div n
<1> DEFINE p == x \div n  q == y \div n
<1>1. p \in Nat /\ q \in Nat /\ p * n <= x /\ y < (q + 1) * n
  BY Divided
<1> HIDE DEF p, q
<1>2. p * n < (q + 1) * n
  BY <1>1
<1>3. p < q + 1
  <2> SUFFICES ASSUME q + 1 <= p
               PROVE  FALSE
    BY <1>1
  <2>1. (q + 1) * n <= p * n
    BY <1>1
  <2> QED  BY <1>1, <1>2, <2>1
<1> QED
  BY <1>1, <1>3 DEF p, q

\* Nothing adds up to nothing, and one thing to itself.
LEMMA SumsOfFew ==
  ASSUME NEW f
  PROVE  /\ SumFunctionOnSet(f, {}) = 0
         /\ \A x : f[x] \in Nat => SumFunctionOnSet(f, {x}) = f[x]
<1>1. SumFunctionOnSet(f, {}) = 0
  <2>1. PICK g \in [SUBSET {} -> Nat] : g[{}] = 0 /\ FoldFunctionOnSet(+, 0, f, {}) = g[{}]
    BY FS_EmptySet, SumTakenApart
  <2> QED
    BY <2>1, Zenon DEF SumFunctionOnSet
<1>2. ASSUME NEW x, f[x] \in Nat
      PROVE  SumFunctionOnSet(f, {x}) = f[x]
  <2>1. IsFiniteSet({x}) /\ \A y \in {x} : f[y] \in Nat
    BY <1>2, FS_Singleton
  <2>2. PICK g \in [SUBSET {x} -> Nat] :
          /\ g[{}] = 0
          /\ \A s \in SUBSET {x} : \A y \in s : g[s] = f[y] + g[s \ {y}]
          /\ FoldFunctionOnSet(+, 0, f, {x}) = g[{x}]
    BY <2>1, SumTakenApart
  <2>3. g[{x}] = f[x]
    <3>1. {x} \ {x} = {} /\ g[{x}] = f[x] + g[{x} \ {x}]
      BY <2>2
    <3>2. g[{x}] = f[x] + 0
      BY <2>2, <3>1, Zenon
    <3> QED
      BY <1>2, <3>2
  <2> QED
    BY <2>2, <2>3, Zenon DEF SumFunctionOnSet
<1> QED
  BY <1>1, <1>2

\* Partial sums of the first numbers of a row of numbers.
Sums(p, f, n) ==
    /\ p \in [0 .. n -> Nat] /\ p[0] = 0
    /\ \A k \in 0 .. n - 1 : p[k + 1] = p[k] + f[k]

Partial(f, n) == CHOOSE p : Sums(p, f, n)

LEMMA SumsExist ==
  ASSUME NEW n \in Nat, NEW f \in [0 .. n - 1 -> Nat]
  PROVE  \E p : Sums(p, f, n) /\ p[n] = FoldFunction(+, 0, f)
<1>1. IsFiniteSet(0 .. n - 1)
  BY FS_Interval
<1>2. PICK g \in [SUBSET (0 .. n - 1) -> Nat] :
        /\ g[{}] = 0
        /\ \A s \in SUBSET (0 .. n - 1) : \A x \in s : g[s] = f[x] + g[s \ {x}]
        /\ FoldFunctionOnSet(+, 0, f, 0 .. n - 1) = g[0 .. n - 1]
  BY <1>1, SumTakenApart
<1> DEFINE p == [k \in 0 .. n |-> g[0 .. k - 1]]
<1>3. p \in [0 .. n -> Nat] /\ p[0] = 0
  <2>1. 0 .. 0 - 1 = {}
    OBVIOUS
  <2>2. \A k \in 0 .. n : 0 .. k - 1 \in SUBSET (0 .. n - 1)
    OBVIOUS
  <2>3. p[0] = g[0 .. 0 - 1]
    OBVIOUS
  <2>4. p \in [0 .. n -> Nat]
    BY <2>2
  <2> QED
    BY <1>2, <2>1, <2>3, <2>4, Zenon
<1>4. ASSUME NEW k \in 0 .. n - 1
      PROVE  p[k + 1] = p[k] + f[k]
  <2>1. (0 .. (k + 1) - 1) \ {k} = 0 .. k - 1
    OBVIOUS
  <2>2. 0 .. (k + 1) - 1 \in SUBSET (0 .. n - 1) /\ k \in 0 .. (k + 1) - 1
    OBVIOUS
  <2>3. g[0 .. (k + 1) - 1] = f[k] + g[(0 .. (k + 1) - 1) \ {k}]
    BY <1>2, <2>2
  <2>4. f[k] \in Nat /\ p[k] \in Nat /\ p[k] = g[0 .. k - 1] /\ p[k + 1] = g[0 .. (k + 1) - 1]
    BY <1>3
  <2> HIDE DEF p
  <2>5. p[k + 1] = f[k] + p[k]
    BY <2>1, <2>3, <2>4, Zenon
  <2> QED
    BY <2>4, <2>5
<1>5. FoldFunction(+, 0, f) = FoldFunctionOnSet(+, 0, f, 0 .. n - 1)
  BY DEF FoldFunction
<1>6. p[n] = FoldFunction(+, 0, f)
  <2>1. p[n] = g[0 .. n - 1]
    OBVIOUS
  <2> QED
    BY <1>2, <1>5, <2>1, Zenon
<1> HIDE DEF p
<1> QED
  BY <1>3, <1>4, <1>6, Zenon DEF Sums

\* Partial sums are one function.
LEMMA OneSum ==
  ASSUME NEW n \in Nat, NEW f, NEW p, NEW q, Sums(p, f, n), Sums(q, f, n)
  PROVE  p = q
<1> SUFFICES \A k \in 0 .. n : q[k] = p[k]
  BY DEF Sums
<1> DEFINE T == {k \in 0 .. n : q[k] # p[k]}
<1> SUFFICES ASSUME T # {}
             PROVE  FALSE
  OBVIOUS
<1>1. PICK k \in T : \A j \in T : k <= j
  <2>1. T \subseteq Nat
    OBVIOUS
  <2> HIDE DEF T
  <2> QED
    BY <2>1, LeastNumber
<1>2. k # 0
  BY DEF Sums
<1>3. k - 1 \in 0 .. n - 1 /\ k - 1 \notin T /\ k \in 0 .. n
  BY <1>1, <1>2
<1>4. p[(k - 1) + 1] = p[k - 1] + f[k - 1] /\ q[(k - 1) + 1] = q[k - 1] + f[k - 1]
  BY <1>3 DEF Sums
<1> QED
  BY <1>3, <1>4

\* The last partial sum of a row is what the row comes to.
LEMMA PartialSums ==
  ASSUME NEW n \in Nat, NEW f \in [0 .. n - 1 -> Nat]
  PROVE  Sums(Partial(f, n), f, n) /\ Partial(f, n)[n] = FoldFunction(+, 0, f)
<1>1. PICK p : Sums(p, f, n) /\ p[n] = FoldFunction(+, 0, f)
  BY SumsExist
<1>2. Sums(Partial(f, n), f, n)
  BY <1>1 DEF Partial
<1>3. Partial(f, n) = p
  BY <1>1, <1>2, OneSum
<1> QED
  BY <1>1, <1>2, <1>3, Zenon

\* What an older row adds up to, moved on by one.
LEMMA SumsShifted ==
  ASSUME NEW n \in Nat, NEW f \in [0 .. n - 1 -> Nat], NEW g \in [0 .. n - 1 -> Nat],
         g[0] = 0, \A k \in 1 .. n - 1 : g[k] = f[k - 1]
  PROVE  \A k \in 0 .. n - 1 : Partial(g, n)[k + 1] = Partial(f, n)[k]
<1> DEFINE p == Partial(f, n)
           q == Partial(g, n)
<1>0. Sums(p, f, n) /\ Sums(q, g, n)
  BY PartialSums
<1> HIDE DEF p, q
<1> SUFFICES \A k \in 0 .. n - 1 : q[k + 1] = p[k]
  BY DEF p, q
<1> DEFINE T == {k \in 0 .. n - 1 : q[k + 1] # p[k]}
<1> SUFFICES ASSUME T # {}
             PROVE  FALSE
  OBVIOUS
<1>1. PICK k \in T : \A j \in T : k <= j
  <2>1. T \subseteq Nat
    OBVIOUS
  <2> HIDE DEF T
  <2> QED
    BY <2>1, LeastNumber
<1>2. k # 0
  BY <1>0 DEF Sums
<1>3. k - 1 \in 0 .. n - 1 /\ k \in 1 .. n - 1 /\ k - 1 \notin T
  BY <1>1, <1>2
<1>4. q[k] = p[k - 1]
  BY <1>3
<1>5. q[k + 1] = q[k] + g[k] /\ g[k] = f[k - 1]
  BY <1>0, <1>3 DEF Sums
<1>6. p[(k - 1) + 1] = p[k - 1] + f[k - 1]
  BY <1>0, <1>3 DEF Sums
<1> QED
  BY <1>4, <1>5, <1>6, <1>3

\* One more at the front is one more in every sum that is not empty.
LEMMA SumsRaised ==
  ASSUME NEW n \in Nat \ {0}, NEW f \in [0 .. n - 1 -> Nat]
  PROVE  \A k \in 1 .. n : Partial([f EXCEPT ![0] = @ + 1], n)[k] = Partial(f, n)[k] + 1
<1> DEFINE g == [f EXCEPT ![0] = @ + 1]
           p == Partial(f, n)
           q == Partial(g, n)
<1>7. f \in [0 .. n - 1 -> Nat] /\ g \in [0 .. n - 1 -> Nat] /\ n \in Nat
  OBVIOUS
<1>8. g[0] = f[0] + 1 /\ \A k \in 1 .. n - 1 : g[k] = f[k]
  OBVIOUS
<1> HIDE DEF g
<1>9. Sums(p, f, n) /\ Sums(q, g, n)
  BY <1>7, PartialSums
<1> HIDE DEF p, q
<1>0. q[0] = 0 /\ p[0] = 0
  BY <1>9 DEF Sums
<1> SUFFICES \A k \in 1 .. n : q[k] = p[k] + 1
  BY DEF p, q, g
<1> DEFINE T == {k \in 1 .. n : q[k] # p[k] + 1}
<1> SUFFICES ASSUME T # {}
             PROVE  FALSE
  OBVIOUS
<1>1. PICK k \in T : \A j \in T : k <= j
  <2>1. T \subseteq Nat
    OBVIOUS
  <2> HIDE DEF T
  <2> QED
    BY <2>1, LeastNumber
<1>2. k - 1 \in 0 .. n - 1 /\ k \in 1 .. n /\ k - 1 \notin T
  BY <1>1
<1>3. p[(k - 1) + 1] = p[k - 1] + f[k - 1]
      /\ q[(k - 1) + 1] = q[k - 1] + g[k - 1]
  BY <1>2, <1>9 DEF Sums
<1>4. f[k - 1] \in Nat /\ p[k - 1] \in Nat
  BY <1>2, <1>9 DEF Sums
<1>5. CASE k = 1
  BY <1>0, <1>3, <1>4, <1>5, <1>8
<1>6. CASE k # 1
  <2>1. q[k - 1] = p[k - 1] + 1
    BY <1>2, <1>6
  <2> QED
    BY <1>2, <1>3, <1>4, <1>6, <1>8, <2>1
<1> QED
  BY <1>5, <1>6

\* More numbers never come to less, and they start from nothing.
LEMMA SumsGrow ==
  ASSUME NEW n \in Nat, NEW f \in [0 .. n - 1 -> Nat],
         NEW p, p = Partial(f, n)
  PROVE  /\ p[0] = 0 /\ \A k \in 0 .. n : p[k] \in Nat
         /\ \A j, k \in 0 .. n : j <= k => p[j] <= p[k]
<1>0. Sums(p, f, n)
  BY PartialSums
<1> SUFFICES ASSUME NEW j \in 0 .. n
             PROVE  \A k \in 0 .. n : j <= k => p[j] <= p[k]
  BY <1>0 DEF Sums
<1> DEFINE T == {k \in j .. n : ~ (p[j] <= p[k])}
<1> SUFFICES ASSUME T # {}
             PROVE  FALSE
  OBVIOUS
<1>1. PICK k \in T : \A i \in T : k <= i
  <2>1. T \subseteq Nat
    OBVIOUS
  <2> HIDE DEF T
  <2> QED
    BY <2>1, LeastNumber
<1>2. p[j] \in Nat /\ \A i \in 0 .. n : p[i] \in Nat
  BY <1>0 DEF Sums
<1>3. k # j
  BY <1>2
<1>4. k - 1 \in 0 .. n - 1 /\ k - 1 \in j .. n /\ k - 1 \notin T
  BY <1>1, <1>3
<1>5. p[(k - 1) + 1] = p[k - 1] + f[k - 1] /\ f[k - 1] \in Nat
  BY <1>0, <1>4 DEF Sums
<1> QED
  BY <1>2, <1>4, <1>5

\* Nothing adds up to nothing.
LEMMA SumsOfNothing ==
  ASSUME NEW n \in Nat, NEW f \in [0 .. n - 1 -> Nat], \A k \in 0 .. n - 1 : f[k] = 0
  PROVE  \A k \in 0 .. n : Partial(f, n)[k] = 0
<1> DEFINE p == [k \in 0 .. n |-> 0]
<1>1. Sums(p, f, n)
  BY DEF Sums
<1>2. Sums(Partial(f, n), f, n)
  BY PartialSums
<1> HIDE DEF p
<1>3. Partial(f, n) = p
  BY <1>1, <1>2, OneSum
<1> QED
  BY <1>3 DEF p
=============================================================================
