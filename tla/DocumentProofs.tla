--------------------------- MODULE DocumentProofs ---------------------------
(***************************************************************************)
(* Proofs about documents on their way in and on their way out: how they   *)
(* are cut into chunks, for every document and all budgets, and how they   *)
(* are retrieved and cached, for every set of companies, users, documents  *)
(* and versions, every payload, every change of the people and the grants, *)
(* and every number of turns and of entries.                               *)
(***************************************************************************)
EXTENDS Chunker, Retrieval, Sums

-----------------------------------------------------------------------------
(* Tokens and spans.                                                       *)

Docs == Seq(Words)

\* A wider span has no fewer tokens, a word its own, and no word none.
LEMMA TokensNest ==
  ASSUME NEW d \in Docs, NEW a \in Nat \ {0}, NEW b \in Nat, b <= Len(d)
  PROVE  /\ TokensOf(d, a, b) \in Nat
         /\ \A i \in Nat, j \in Nat : a <= i /\ j <= b =>
                TokensOf(d, i, j) \in Nat /\ TokensOf(d, i, j) <= TokensOf(d, a, b)
         /\ a > b => TokensOf(d, a, b) = 0
         /\ a <= b => TokensOf(d, a, a) = d[a].tokens
<1> DEFINE f == [w \in DOMAIN d |-> d[w].tokens]
<1>1. \A w \in DOMAIN d : f[w] \in Nat
  <2>1. \A w \in DOMAIN d : d[w] \in Words
    BY DEF Docs
  <2>2. \A w \in Words : w.tokens \in Nat
    BY ConfigAssumption DEF ConfigAssumption, Words
  <2> QED
    BY <2>1, <2>2
<1>2. DOMAIN d = 1 .. Len(d) /\ Len(d) \in Nat
  BY DEF Docs
<1>3. \A i, j : TokensOf(d, i, j) = SumFunctionOnSet(f, i .. j)
  BY Zenon DEF TokensOf
<1>4. \A w \in DOMAIN d : f[w] = d[w].tokens
  OBVIOUS
<1> HIDE DEF f
<1>5. IsFiniteSet(a .. b) /\ \A w \in a .. b : f[w] \in Nat
  <2>1. a \in Int /\ b \in Int
    OBVIOUS
  <2>2. \A w \in a .. b : w \in DOMAIN d
    BY <1>2
  <2> QED
    BY <1>1, <2>1, <2>2, FS_Interval
<1>6. \A i \in Nat, j \in Nat : a <= i /\ j <= b =>
        TokensOf(d, i, j) \in Nat /\ TokensOf(d, i, j) <= TokensOf(d, a, b)
  <2> SUFFICES ASSUME NEW i \in Nat, NEW j \in Nat, a <= i, j <= b
               PROVE  TokensOf(d, i, j) \in Nat /\ TokensOf(d, i, j) <= TokensOf(d, a, b)
    OBVIOUS
  <2>1. i .. j \in SUBSET (a .. b)
    OBVIOUS
  <2>2. SumFunctionOnSet(f, i .. j) \in Nat /\ SumFunctionOnSet(f, i .. j) <= SumFunctionOnSet(f, a .. b)
    BY <1>5, <2>1, SumsNest
  <2> QED
    BY <1>3, <2>2, Zenon
<1>7. a > b => TokensOf(d, a, b) = 0
  <2>1. a > b => a .. b = {}
    OBVIOUS
  <2> QED
    BY <1>3, <2>1, SumsOfFew, Zenon
<1>8. a <= b => TokensOf(d, a, a) = d[a].tokens
  <2>1. a .. a = {a}
    OBVIOUS
  <2>2. a <= b => a \in DOMAIN d /\ a \in a .. b
    BY <1>2
  <2>3. a <= b => f[a] \in Nat /\ f[a] = d[a].tokens
    BY <1>4, <1>5, <2>2
  <2>4. f[a] \in Nat => SumFunctionOnSet(f, {a}) = f[a]
    BY SumsOfFew
  <2>5. TokensOf(d, a, a) = SumFunctionOnSet(f, {a})
    BY <1>3, <2>1, Zenon
  <2> QED
    BY <2>3, <2>4, <2>5, Zenon
<1> QED
  BY <1>6, <1>7, <1>8

\* Spans that follow each other without a gap.
Following(S, T, first, last) ==
    /\ S \in Seq(Nat \X Nat) /\ Len(S) >= 1
    /\ S[1][1] = first /\ S[Len(S)][2] = last
    /\ \A k \in 1 .. Len(S) :
           S[k][1] \in T /\ first <= S[k][1] /\ S[k][1] <= S[k][2] /\ S[k][2] <= last
    /\ \A k \in 1 .. Len(S) - 1 : S[k + 1][1] = S[k][2] + 1
    /\ \A j, k \in 1 .. Len(S) : j < k => S[j][2] < S[k][1]

LEMMA SpansFollow ==
  ASSUME NEW T, NEW first \in Nat, NEW last \in Nat, T \subseteq first .. last, first \in T,
         NEW S, S = Spans(T, last)
  PROVE  Following(S, T, first, last)
<1> DEFINE n == Cardinality(T)
           start(k) == CHOOSE w \in T : Cardinality({v \in T : v < w}) = k - 1
<1>0. \A w \in T : w \in Nat /\ first <= w /\ w <= last
  OBVIOUS
<1>1. (\A w \in T : w \in Nat) /\ IsFiniteSet(T) /\ T # {}
  <2>1. IsFiniteSet(first .. last) /\ T \in SUBSET (first .. last)
    BY FS_Interval
  <2>2. IsFiniteSet(T)
    BY <2>1, FS_Subset
  <2> QED
    BY <1>0, <2>2
<1>2. n \in Nat /\ n >= 1
  BY <1>1, FS_CardinalityType, FS_EmptySet
<1>3. \A k \in 1 .. n : start(k) \in T /\ Rank(T, start(k)) = k - 1
  <2> TAKE k \in 1 .. n
  <2>1. k - 1 \in 0 .. n - 1
    BY <1>2
  <2>2. \E w \in T : Rank(T, w) = k - 1
    BY <1>1, <2>1, RanksTaken
  <2> QED
    BY <2>2, Zenon DEF Rank
<1>4. S = [k \in 1 .. n |-> <<start(k), IF k = n THEN last ELSE start(k + 1) - 1>>]
  BY Zenon DEF Spans
<1> HIDE DEF n, start
<1>5. \A j, k \in 1 .. n : j < k => start(j) < start(k)
  <2> TAKE j, k \in 1 .. n
  <2> SUFFICES ASSUME j < k, ~ (start(j) < start(k))
               PROVE  FALSE
    OBVIOUS
  <2>1. start(j) \in T /\ start(k) \in T /\ Rank(T, start(j)) = j - 1 /\ Rank(T, start(k)) = k - 1
    BY <1>3
  <2>2. start(k) < start(j) \/ start(k) = start(j)
    <3>1. start(j) \in Nat /\ start(k) \in Nat
      BY <1>0, <2>1
    <3> QED
      BY <3>1
  <2>3. start(k) < start(j) => Rank(T, start(k)) < Rank(T, start(j))
    BY <1>1, <2>1, RankGrows
  <2> QED
    BY <1>2, <2>1, <2>2, <2>3
<1>6. start(1) = first
  <2> SUFFICES ASSUME start(1) # first
               PROVE  FALSE
    OBVIOUS
  <2>1. start(1) \in T /\ Rank(T, start(1)) = 0
    BY <1>2, <1>3
  <2>2. first < start(1)
    <3>1. start(1) \in Nat /\ first <= start(1)
      BY <1>0, <2>1
    <3> QED
      BY <3>1
  <2>3. Rank(T, first) < Rank(T, start(1))
    BY <1>1, <2>1, <2>2, RankGrows
  <2>4. Rank(T, first) \in Nat
    <3>1. {v \in T : v < first} \in SUBSET T
      OBVIOUS
    <3> QED
      BY <1>1, <3>1, FS_Subset, FS_CardinalityType DEF Rank
  <2> QED
    BY <2>1, <2>3, <2>4
<1>7. \A k \in 1 .. n : start(k) \in Nat /\ first <= start(k) /\ start(k) <= last
  BY <1>0, <1>3
<1>8. \A k \in 1 .. n : S[k] = <<start(k), IF k = n THEN last ELSE start(k + 1) - 1>>
  BY <1>4
<1>9. \A k \in 1 .. n : S[k][1] = start(k) /\ S[k][2] = IF k = n THEN last ELSE start(k + 1) - 1
  BY <1>8
<1>10. \A k \in 1 .. n : k # n => k + 1 \in 1 .. n /\ start(k) < start(k + 1)
  BY <1>2, <1>5
<1>11. \A k \in 1 .. n : S[k] \in Nat \X Nat /\ S[k][1] <= S[k][2] /\ S[k][2] <= last
  <2> TAKE k \in 1 .. n
  <2>1. start(k) \in Nat /\ start(k) <= last
    BY <1>7
  <2>2. CASE k = n
    <3>1. S[k] = <<start(k), last>>
      BY <1>8, <2>2
    <3> QED
      BY <2>1, <3>1
  <2>3. CASE k # n
    <3>1. start(k + 1) \in Nat /\ start(k + 1) <= last /\ start(k) < start(k + 1)
      BY <1>7, <1>10, <2>3
    <3>2. S[k] = <<start(k), start(k + 1) - 1>>
      BY <1>8, <2>3
    <3> QED
      BY <2>1, <3>1, <3>2
  <2> QED
    BY <2>2, <2>3
<1>12. S \in Seq(Nat \X Nat) /\ Len(S) = n
  BY <1>2, <1>4, <1>11
<1>13. \A j, k \in 1 .. n : j < k => S[j][2] < S[k][1]
  <2> TAKE j, k \in 1 .. n
  <2> SUFFICES ASSUME j < k
               PROVE  S[j][2] < S[k][1]
    OBVIOUS
  <2>1. j # n /\ j + 1 \in 1 .. n /\ S[j][2] = start(j + 1) - 1
    BY <1>2, <1>9
  <2>2. start(j + 1) <= start(k)
    BY <1>2, <1>5, <1>7, <2>1
  <2> QED
    BY <1>7, <1>9, <2>1, <2>2
<1>14. \A k \in 1 .. n - 1 : S[k + 1][1] = S[k][2] + 1
  BY <1>2, <1>7, <1>9, <1>10
<1>15. S[1][1] = first /\ S[n][2] = last
  BY <1>2, <1>6, <1>9
<1> QED
  BY <1>2, <1>3, <1>7, <1>9, <1>11, <1>12, <1>13, <1>14, <1>15 DEF Following

\* The sentences of a document in order: within a section and from one section
\* to the next they follow without a gap, and they begin and end with it.
RowLaid(d, R) ==
    /\ Len(R) \in Nat \ {0} /\ DOMAIN R = 1 .. Len(R)
    /\ \A i \in 1 .. Len(R) :
        R[i][1] \in Nat \ {0} /\ R[i][2] \in Nat /\ R[i][1] <= R[i][2] /\ R[i][2] <= Len(d)
    /\ \A i, j \in 1 .. Len(R) : i < j => R[i][2] < R[j][1]
    /\ \A i \in 1 .. Len(R) - 1 : R[i + 1][1] = R[i][2] + 1

Before(R, Q) == \A i \in 1 .. Len(R), j \in 1 .. Len(Q) : R[i][2] < Q[j][1]

Laid(d, L) ==
    /\ Len(L) \in Nat /\ DOMAIN L = 1 .. Len(L)
    /\ \A s \in 1 .. Len(L) : RowLaid(d, L[s])
    /\ \A s, t \in 1 .. Len(L) : s < t => Before(L[s], L[t])
    /\ \A s \in 1 .. Len(L) - 1 : L[s + 1][1][1] = L[s][Len(L[s])][2] + 1
    /\ Len(L) = 0 => Len(d) = 0
    /\ Len(L) # 0 => L[1][1][1] = 1 /\ L[Len(L)][Len(L[Len(L)])][2] = Len(d)

Fills(R, first, last) ==
    /\ R[1][1] = first /\ R[Len(R)][2] = last
    /\ \A k \in 1 .. Len(R) : first <= R[k][1] /\ R[k][2] <= last

LEMMA RowFollows ==
  ASSUME NEW d \in Docs, NEW R, NEW U, NEW first \in Nat \ {0}, NEW last \in Nat,
         last <= Len(d), Following(R, U, first, last)
  PROVE  RowLaid(d, R) /\ Fills(R, first, last)
<1>0. Len(d) \in Nat
  BY DEF Docs
<1>1. R \in Seq(Nat \X Nat) /\ Len(R) >= 1
  BY DEF Following
<1>2. Len(R) \in Nat \ {0} /\ DOMAIN R = 1 .. Len(R)
  BY <1>1
<1>3. \A k \in 1 .. Len(R) : R[k] \in Nat \X Nat
  BY <1>1, <1>2
<1>4. \A k \in 1 .. Len(R) : R[k][1] \in Nat /\ R[k][2] \in Nat
  BY <1>3
<1>5. \A k \in 1 .. Len(R) : first <= R[k][1] /\ R[k][1] <= R[k][2] /\ R[k][2] <= last
  BY DEF Following
<1>6. \A i \in 1 .. Len(R) :
        R[i][1] \in Nat \ {0} /\ R[i][2] \in Nat /\ R[i][1] <= R[i][2] /\ R[i][2] <= Len(d)
  BY <1>0, <1>4, <1>5
<1>7. RowLaid(d, R)
  BY <1>2, <1>6 DEF RowLaid, Following
<1> QED
  BY <1>5, <1>7 DEF Following, Fills

LEMMA LayoutLaid ==
  ASSUME NEW d \in Docs, NEW L, L = [k \in DOMAIN SectionsOf(d) |-> SentencesOf(d, SectionsOf(d)[k])]
  PROVE  Laid(d, L)
<1> DEFINE S == SectionsOf(d)
           T == {w \in DOMAIN d : w = 1 \/ d[w].heading}
<1>0. Len(d) \in Nat /\ DOMAIN d = 1 .. Len(d)
  BY DEF Docs
<1>1. S = Spans(T, Len(d))
  BY DEF SectionsOf
<1>2. L = [k \in DOMAIN S |-> SentencesOf(d, S[k])]
  OBVIOUS
<1>3. CASE Len(d) = 0
  <2>1. T = {}
    BY <1>0, <1>3
  <2> HIDE DEF T
  <2>2. DOMAIN S = 1 .. 0
    BY <1>1, <2>1, FS_EmptySet DEF Spans
  <2> HIDE DEF S
  <2>3. Len(L) = 0 /\ DOMAIN L = 1 .. 0
    BY <1>2, <2>2
  <2> QED
    BY <1>3, <2>3 DEF Laid
<1>4. CASE Len(d) # 0
  <2>1. T \subseteq 1 .. Len(d) /\ 1 \in T
    BY <1>0, <1>4
  <2> HIDE DEF T, S
  <2>2. Following(S, T, 1, Len(d))
    BY <1>0, <1>1, <2>1, SpansFollow
  <2>3. RowLaid(d, S) /\ Fills(S, 1, Len(d))
    <3>1. 1 \in Nat \ {0} /\ Len(d) <= Len(d)
      BY <1>0
    <3> QED
      BY <1>0, <2>2, <3>1, RowFollows, Zenon
  <2>4. Len(S) \in Nat \ {0} /\ DOMAIN S = 1 .. Len(S)
    BY <2>3 DEF RowLaid
  <2>5. Len(L) = Len(S) /\ DOMAIN L = 1 .. Len(S)
    BY <1>2, <2>4
  <2>6. \A s \in 1 .. Len(S) :
          S[s][1] \in Nat \ {0} /\ S[s][2] \in Nat /\ S[s][1] <= S[s][2] /\ S[s][2] <= Len(d)
    BY <2>3 DEF RowLaid
  <2>7. \A s \in 1 .. Len(S) :
          /\ RowLaid(d, L[s])
          /\ L[s][1][1] = S[s][1] /\ L[s][Len(L[s])][2] = S[s][2]
          /\ \A k \in 1 .. Len(L[s]) : S[s][1] <= L[s][k][1] /\ L[s][k][2] <= S[s][2]
    <3> TAKE s \in 1 .. Len(S)
    <3> DEFINE U == {w \in S[s][1] .. S[s][2] :
                        w = S[s][1] \/ d[w - 1].after \in {"sentence", "paragraph"}}
               R == L[s]
    <3>1. R = Spans(U, S[s][2])
      BY <1>2, <2>4 DEF SentencesOf
    <3>2. U \subseteq S[s][1] .. S[s][2] /\ S[s][1] \in U /\ S[s][1] \in Nat \ {0} /\ S[s][2] \in Nat
      BY <2>6
    <3>3. \A n \in Nat \ {0} : n \in Nat
      OBVIOUS
    <3> HIDE DEF U, R
    <3>4. Following(R, U, S[s][1], S[s][2])
      BY <3>1, <3>2, <3>3, SpansFollow, Zenon
    <3>5. RowLaid(d, R) /\ Fills(R, S[s][1], S[s][2])
      <4>1. S[s][1] \in Nat \ {0} /\ S[s][2] \in Nat /\ S[s][2] <= Len(d)
        BY <2>6
      <4> QED
        BY <3>4, <4>1, RowFollows, Zenon
    <3> QED
      BY <3>5 DEF R, Fills
  <2>8. \A s \in 1 .. Len(S) : \A k \in 1 .. Len(L[s]) : L[s][k][1] \in Nat /\ L[s][k][2] \in Nat
    BY <2>7 DEF RowLaid
  <2>9. \A s, t \in 1 .. Len(S) : s < t => Before(L[s], L[t])
    <3> TAKE s, t \in 1 .. Len(S)
    <3> SUFFICES ASSUME s < t, NEW i \in 1 .. Len(L[s]), NEW j \in 1 .. Len(L[t])
                 PROVE  L[s][i][2] < L[t][j][1]
      BY DEF Before
    <3>0. S[s][2] < S[t][1]
      BY <2>3 DEF RowLaid
    <3>1. L[s][i][2] <= S[s][2] /\ S[t][1] <= L[t][j][1]
      BY <2>7
    <3>2. L[s][i][2] \in Nat /\ L[t][j][1] \in Nat /\ S[s][2] \in Nat /\ S[t][1] \in Nat
      BY <2>6, <2>8
    <3>3. \A v, w, x, y \in Nat : v <= w /\ w < x /\ x <= y => v < y
      OBVIOUS
    <3> QED
      BY <3>0, <3>1, <3>2, <3>3, Zenon
  <2>10. \A s \in 1 .. Len(S) - 1 : L[s + 1][1][1] = L[s][Len(L[s])][2] + 1
    <3> TAKE s \in 1 .. Len(S) - 1
    <3>1. s \in 1 .. Len(S) /\ s + 1 \in 1 .. Len(S)
      BY <2>4
    <3>2. L[s + 1][1][1] = S[s + 1][1] /\ L[s][Len(L[s])][2] = S[s][2]
      BY <2>7, <3>1
    <3>3. S[s + 1][1] = S[s][2] + 1
      BY <2>3 DEF RowLaid
    <3> QED
      BY <3>2, <3>3
  <2>11. L[1][1][1] = 1 /\ L[Len(S)][Len(L[Len(S)])][2] = Len(d)
    <3>1. 1 \in 1 .. Len(S) /\ Len(S) \in 1 .. Len(S)
      BY <2>4
    <3> QED
      BY <2>3, <2>7, <3>1 DEF Fills
  <2>12. \A s \in 1 .. Len(S) : RowLaid(d, L[s])
    BY <2>7
  <2>13. Len(L) \in Nat /\ Len(L) # 0
    BY <2>4, <2>5
  <2> QED
    BY <2>5, <2>9, <2>10, <2>11, <2>12, <2>13, Zenon DEF Laid
<1> QED
  BY <1>3, <1>4

\* Sentences begin and end one after the other.
LEMMA RowOrder ==
  ASSUME NEW d, NEW R, RowLaid(d, R), NEW i \in 1 .. Len(R), NEW j \in 1 .. Len(R)
  PROVE  /\ i <= j => R[i][1] <= R[j][1] /\ R[i][2] <= R[j][2]
         /\ i < j => R[i][1] < R[j][1] /\ R[i][2] < R[j][2] /\ R[i][2] < R[j][1]
<1>1. R[i][1] \in Nat /\ R[i][2] \in Nat /\ R[i][1] <= R[i][2]
  BY DEF RowLaid
<1>2. R[j][1] \in Nat /\ R[j][2] \in Nat /\ R[j][1] <= R[j][2]
  BY DEF RowLaid
<1>3. i < j => R[i][2] < R[j][1]
  BY DEF RowLaid
<1>4. i \in Nat /\ j \in Nat
  BY DEF RowLaid
<1>5. CASE i = j
  BY <1>1, <1>4, <1>5
<1>6. CASE i # j
  BY <1>1, <1>2, <1>3, <1>4, <1>6
<1> QED
  BY <1>5, <1>6

\* The least and the greatest of a few numbers.
LEMMA Extremes ==
  ASSUME NEW n \in Nat, NEW T, \A x \in T : x \in 0 .. n, T # {}
  PROVE  /\ Max(T) \in T /\ \A x \in T : x <= Max(T)
         /\ Min(T) \in T /\ \A x \in T : Min(T) <= x
<1>1. \E m \in T : \A x \in T : m <= x
  <2>1. T \subseteq Nat
    OBVIOUS
  <2> QED
    BY <2>1, LeastNumber
<1>2. \E m \in T : \A x \in T : m >= x
  <2> DEFINE U == {n - x : x \in T}
  <2>1. U \subseteq Nat /\ U # {}
    OBVIOUS
  <2>2. PICK u \in U : \A v \in U : u <= v
    <3> HIDE DEF U
    <3> QED
      BY <2>1, LeastNumber
  <2>3. PICK m \in T : u = n - m
    OBVIOUS
  <2>4. \A x \in T : n - m <= n - x
    BY <2>2, <2>3
  <2>5. \A x \in T : x \in Nat /\ m \in Nat
    OBVIOUS
  <2>6. \A x \in T : m >= x
    BY <2>4, <2>5
  <2> QED
    BY <2>6
<1>3. Min(T) \in T /\ \A x \in T : Min(T) <= x
  BY <1>1, Zenon DEF Min
<1>4. Max(T) \in T /\ \A x \in T : Max(T) >= x
  BY <1>2, Zenon DEF Max
<1>5. \A x \in T : x <= Max(T)
  <2> TAKE x \in T
  <2>1. x \in Nat /\ Max(T) \in Nat /\ Max(T) >= x
    BY <1>4
  <2> QED
    BY <2>1
<1> QED
  BY <1>3, <1>4, <1>5

-----------------------------------------------------------------------------
(* Chunks: each is well cut, and moves on from the one before it.          *)

Typed(d, c) == c \in Nat \X Nat /\ 1 <= c[1] /\ c[1] <= c[2] /\ c[2] <= Len(d)

WellCut(d, L, c) ==
    /\ \E s \in 1 .. Len(L) : L[s][1][1] <= c[1] /\ c[2] <= L[s][Len(L[s])][2]
    /\ TokensOf(d, c[1], c[2]) > MaxTokens => d[c[1]].tokens > MaxTokens
    /\ \A t \in 1 .. Len(L) : \A j \in 1 .. Len(L[t]) :
        \/ Inside(L[t][j], c)
        \/ L[t][j][2] < c[1] \/ c[2] < L[t][j][1]
        \/ TokensOf(d, L[t][j][1], L[t][j][2]) > MaxTokens /\ Inside(c, L[t][j])

MovedOn(d, L, a, b) ==
    /\ a[1] < b[1] /\ a[2] <= b[2]
    /\ TokensOf(d, Max({a[1], b[1]}), Min({a[2], b[2]})) <= OverlapTokens
    /\ Inside(b, a) => \E t \in 1 .. Len(L) : \E j \in 1 .. Len(L[t]) :
        L[t][j][1] = a[2] + 1 /\ TokensOf(d, b[1], L[t][j][2]) > MaxTokens

\* Chunks that hold every word up to n.
Kept(d, L, cs, n) ==
    /\ cs \in Seq(Nat \X Nat)
    /\ \A k \in 1 .. Len(cs) : Typed(d, cs[k]) /\ WellCut(d, L, cs[k])
    /\ \A k \in 1 .. Len(cs) - 1 : MovedOn(d, L, cs[k], cs[k + 1])
    /\ \A w \in 1 .. n : \E k \in 1 .. Len(cs) : cs[k][1] <= w /\ w <= cs[k][2]

LEMMA KeptOn ==
  ASSUME NEW d, NEW L, NEW cs, NEW n \in Nat, Kept(d, L, cs, n),
         NEW c, Typed(d, c), WellCut(d, L, c), c[1] <= n + 1,
         cs # << >> => MovedOn(d, L, cs[Len(cs)], c),
         NEW m \in Nat, m <= c[2]
  PROVE  /\ Kept(d, L, Append(cs, c), m)
         /\ Append(cs, c) # << >> /\ Append(cs, c)[Len(Append(cs, c))] = c
<1> DEFINE ds == Append(cs, c)
<1>1. cs \in Seq(Nat \X Nat) /\ c \in Nat \X Nat
  BY DEF Kept, Typed
<1>2. /\ ds \in Seq(Nat \X Nat) /\ Len(ds) = Len(cs) + 1 /\ Len(cs) \in Nat
      /\ \A k \in 1 .. Len(cs) : ds[k] = cs[k]
      /\ ds[Len(ds)] = c
  BY <1>1
<1> HIDE DEF ds
<1>3. \A k \in 1 .. Len(ds) : k \in 1 .. Len(cs) \/ k = Len(ds)
  BY <1>2
<1>4. \A k \in 1 .. Len(ds) : Typed(d, ds[k]) /\ WellCut(d, L, ds[k])
  BY <1>2, <1>3 DEF Kept
<1>5. \A k \in 1 .. Len(ds) - 1 : MovedOn(d, L, ds[k], ds[k + 1])
  <2> TAKE k \in 1 .. Len(ds) - 1
  <2>1. CASE k = Len(cs)
    <3>1. cs # << >> /\ ds[k] = cs[Len(cs)] /\ ds[k + 1] = c
      BY <1>1, <1>2, <2>1
    <3> QED
      BY <3>1
  <2>2. CASE k # Len(cs)
    <3>0. k \in 1 .. Len(cs) - 1 /\ k \in 1 .. Len(cs) /\ k + 1 \in 1 .. Len(cs)
      BY <1>2, <2>2
    <3>1. k \in 1 .. Len(cs) - 1 /\ ds[k] = cs[k] /\ ds[k + 1] = cs[k + 1]
      BY <1>2, <3>0
    <3> QED
      BY <3>1 DEF Kept
  <2> QED
    BY <2>1, <2>2
<1>6. \A w \in 1 .. m : \E k \in 1 .. Len(ds) : ds[k][1] <= w /\ w <= ds[k][2]
  <2> TAKE w \in 1 .. m
  <2>0. c[1] \in Nat /\ c[2] \in Nat
    BY <1>1
  <2>1. CASE c[1] <= w
    <3>1. Len(ds) \in 1 .. Len(ds) /\ ds[Len(ds)] = c
      BY <1>2
    <3>2. w <= c[2]
      BY <2>0
    <3> QED
      BY <2>1, <3>1, <3>2, Zenon
  <2>2. CASE ~ (c[1] <= w)
    <3>1. w \in 1 .. n
      BY <2>0, <2>2
    <3>2. PICK k \in 1 .. Len(cs) : cs[k][1] <= w /\ w <= cs[k][2]
      BY <3>1 DEF Kept
    <3>3. k \in 1 .. Len(ds) /\ ds[k] = cs[k]
      <4>1. Len(ds) = Len(cs) + 1 /\ Len(cs) \in Nat
        BY <1>2
      <4>2. ds[k] = cs[k]
        BY <1>2, Zenon
      <4> QED
        BY <4>1, <4>2
    <3> QED
      BY <3>2, <3>3, Zenon
  <2> QED
    BY <2>1, <2>2
<1>7. ds # << >>
  BY <1>2
<1> QED
  BY <1>2, <1>4, <1>5, <1>6, <1>7 DEF Kept, ds

\* Whole sentences within the budget are well cut, and so is a piece of one
\* sentence over the budget.
LEMMA PackedWellCut ==
  ASSUME NEW d \in Docs, NEW L, Laid(d, L), NEW s \in 1 .. Len(L),
         NEW i \in 1 .. Len(L[s]), NEW l \in 1 .. Len(L[s]), i <= l,
         NEW c, c = <<L[s][i][1], L[s][l][2]>>,
         TokensOf(d, c[1], c[2]) <= MaxTokens
  PROVE  Typed(d, c) /\ WellCut(d, L, c)
<1>0. RowLaid(d, L[s]) /\ Len(L[s]) \in 1 .. Len(L[s]) /\ 1 \in 1 .. Len(L[s])
  BY DEF Laid, RowLaid
<1>1. /\ L[s][i][1] \in Nat \ {0} /\ L[s][l][2] \in Nat /\ L[s][i][1] <= L[s][i][2]
      /\ L[s][i][2] \in Nat /\ L[s][l][2] <= Len(d)
  BY <1>0 DEF RowLaid
<1>2. c[1] = L[s][i][1] /\ c[2] = L[s][l][2] /\ c \in Nat \X Nat
  BY <1>1
<1>3. L[s][i][2] <= L[s][l][2]
  BY <1>0, RowOrder
<1>4. Typed(d, c)
  BY <1>1, <1>2, <1>3 DEF Typed, Docs
<1>5. L[s][1][1] <= c[1] /\ c[2] <= L[s][Len(L[s])][2]
  <2>1. 1 <= i /\ l <= Len(L[s])
    BY <1>0
  <2> QED
    BY <1>0, <1>2, <2>1, RowOrder
<1>6. TokensOf(d, c[1], c[2]) \in Nat
  <2>1. c[1] \in Nat \ {0} /\ c[2] \in Nat /\ c[2] <= Len(d)
    BY <1>1, <1>2
  <2> QED
    BY <2>1, TokensNest
<1>7. ~ (TokensOf(d, c[1], c[2]) > MaxTokens)
  BY <1>6, ConfigAssumption DEF ConfigAssumption
<1>8. ASSUME NEW t \in 1 .. Len(L), NEW j \in 1 .. Len(L[t])
      PROVE  Inside(L[t][j], c) \/ L[t][j][2] < c[1] \/ c[2] < L[t][j][1]
  <2>1. CASE t < s
    BY <1>2, <2>1 DEF Laid, Before
  <2>2. CASE s < t
    BY <1>2, <2>2 DEF Laid, Before
  <2>3. CASE t = s
    <3>0. j \in 1 .. Len(L[s])
      BY <2>3
    <3>1. CASE j < i
      BY <1>0, <1>2, <2>3, <3>0, <3>1, RowOrder
    <3>2. CASE l < j
      BY <1>0, <1>2, <2>3, <3>0, <3>2, RowOrder
    <3>3. CASE i <= j /\ j <= l
      <4>1. L[s][i][1] <= L[s][j][1] /\ L[s][j][2] <= L[s][l][2]
        BY <1>0, <3>0, <3>3, RowOrder
      <4> QED
        BY <1>2, <2>3, <4>1 DEF Inside
    <3>4. i \in Nat /\ j \in Nat /\ l \in Nat
      BY <3>0
    <3> QED
      BY <3>1, <3>2, <3>3, <3>4
  <2>4. s \in Nat /\ t \in Nat
    OBVIOUS
  <2> QED
    BY <2>1, <2>2, <2>3, <2>4
<1> QED
  BY <1>4, <1>5, <1>7, <1>8 DEF WellCut

LEMMA PieceWellCut ==
  ASSUME NEW d \in Docs, NEW L, Laid(d, L), NEW s \in 1 .. Len(L),
         NEW i \in 1 .. Len(L[s]), TokensOf(d, L[s][i][1], L[s][i][2]) > MaxTokens,
         NEW first \in Nat, NEW last \in Nat, L[s][i][1] <= first, first <= last, last <= L[s][i][2],
         NEW c, c = <<first, last>>,
         TokensOf(d, first, last) > MaxTokens => d[first].tokens > MaxTokens
  PROVE  Typed(d, c) /\ WellCut(d, L, c)
<1>0. RowLaid(d, L[s]) /\ Len(L[s]) \in 1 .. Len(L[s]) /\ 1 \in 1 .. Len(L[s]) /\ Len(d) \in Nat
  BY DEF Laid, RowLaid, Docs
<1>1. L[s][i][1] \in Nat \ {0} /\ L[s][i][2] \in Nat /\ L[s][i][2] <= Len(d)
  BY <1>0 DEF RowLaid
<1>2. c[1] = first /\ c[2] = last /\ c \in Nat \X Nat
  OBVIOUS
<1>3. Typed(d, c)
  BY <1>0, <1>1, <1>2 DEF Typed
<1>4. L[s][1][1] <= c[1] /\ c[2] <= L[s][Len(L[s])][2]
  <2>1. 1 <= i /\ i <= Len(L[s])
    BY <1>0
  <2>2. L[s][1][1] <= L[s][i][1] /\ L[s][i][2] <= L[s][Len(L[s])][2]
    BY <1>0, <2>1, RowOrder
  <2>3. L[s][1][1] \in Nat /\ L[s][Len(L[s])][2] \in Nat
    BY <1>0 DEF RowLaid
  <2> QED
    BY <1>1, <1>2, <2>2, <2>3
<1>5. ASSUME NEW t \in 1 .. Len(L), NEW j \in 1 .. Len(L[t])
      PROVE  \/ L[t][j][2] < c[1] \/ c[2] < L[t][j][1]
             \/ TokensOf(d, L[t][j][1], L[t][j][2]) > MaxTokens /\ Inside(c, L[t][j])
  <2>0. L[t][j][1] \in Nat /\ L[t][j][2] \in Nat
    BY DEF Laid, RowLaid
  <2>1. CASE t < s
    <3>1. L[t][j][2] < L[s][i][1]
      BY <2>1 DEF Laid, Before
    <3>2. L[t][j][2] < c[1]
      BY <1>1, <1>2, <2>0, <3>1
    <3> QED
      BY <3>2, Zenon
  <2>2. CASE s < t
    <3>1. L[s][i][2] < L[t][j][1]
      BY <2>2 DEF Laid, Before
    <3>2. c[2] < L[t][j][1]
      BY <1>1, <1>2, <2>0, <3>1
    <3> QED
      BY <3>2, Zenon
  <2>3. CASE t = s
    <3>0. j \in 1 .. Len(L[s])
      BY <2>3
    <3>1. CASE j < i
      <4>1. L[s][j][2] < L[s][i][1]
        BY <1>0, <3>0, <3>1, RowOrder
      <4> QED
        BY <1>1, <1>2, <2>0, <2>3, <4>1
    <3>2. CASE i < j
      <4>1. L[s][i][2] < L[s][j][1]
        BY <1>0, <3>0, <3>2, RowOrder
      <4> QED
        BY <1>1, <1>2, <2>0, <2>3, <4>1
    <3>3. CASE i = j
      BY <1>2, <2>3, <3>3 DEF Inside
    <3>4. i \in Nat /\ j \in Nat
      BY <3>0
    <3> QED
      BY <3>1, <3>2, <3>3, <3>4
  <2>4. s \in Nat /\ t \in Nat
    OBVIOUS
  <2> QED
    BY <2>1, <2>2, <2>3, <2>4
<1> QED
  BY <1>2, <1>3, <1>4, <1>5 DEF WellCut

\* A chunk behind the last word of another has nothing in common with it.
LEMMA BehindMovedOn ==
  ASSUME NEW d \in Docs, NEW L, NEW a, NEW b, Typed(d, a), Typed(d, b), a[2] < b[1]
  PROVE  MovedOn(d, L, a, b)
<1>0. Len(d) \in Nat
  BY DEF Docs
<1>1. /\ a[1] \in Nat /\ a[2] \in Nat /\ b[1] \in Nat \ {0} /\ b[2] \in Nat
      /\ a[1] <= a[2] /\ b[1] <= b[2] /\ b[2] <= Len(d) /\ a[2] <= Len(d)
  BY DEF Typed
<1>2. Max({a[1], b[1]}) = b[1]
  <2>1. Max({a[1], b[1]}) \in {a[1], b[1]} /\ \A x \in {a[1], b[1]} : x <= Max({a[1], b[1]})
    <3>1. \A x \in {a[1], b[1]} : x \in 0 .. Len(d)
      BY <1>0, <1>1
    <3> QED
      BY <1>0, <3>1, Extremes
  <2> QED
    BY <1>1, <2>1
<1>3. Min({a[2], b[2]}) = a[2]
  <2>1. Min({a[2], b[2]}) \in {a[2], b[2]} /\ \A x \in {a[2], b[2]} : Min({a[2], b[2]}) <= x
    <3>1. \A x \in {a[2], b[2]} : x \in 0 .. Len(d)
      BY <1>0, <1>1
    <3> QED
      BY <1>0, <3>1, Extremes
  <2> QED
    BY <1>1, <2>1
<1>4. TokensOf(d, b[1], a[2]) = 0
  <2>1. b[1] > a[2]
    BY <1>1
  <2> QED
    BY <1>1, <2>1, TokensNest
<1>5. ~ Inside(b, a)
  BY <1>1 DEF Inside
<1>6. a[1] < b[1] /\ a[2] <= b[2]
  BY <1>1
<1>7. 0 <= OverlapTokens
  BY ConfigAssumption DEF ConfigAssumption
<1> QED
  BY <1>2, <1>3, <1>4, <1>5, <1>6, <1>7 DEF MovedOn

-----------------------------------------------------------------------------
(* The invariant.                                                          *)

\* The word the next chunk or piece starts with, and how far the text is done.
NextWord == IF rest # 0 THEN rest ELSE sentences[index][1]
Reached == IF More THEN NextWord - 1 ELSE Len(doc)

Position ==
    /\ section \in 1 .. Len(layout) + 1
    /\ rest \in Nat
    /\ More => index \in 1 .. Len(sentences)
    /\ rest # 0 => /\ More
                   /\ sentences[index][1] <= rest /\ rest <= sentences[index][2]
                   /\ Oversized(sentences[index])

\* The sentences behind the last chunk are shared as far as the overlap allows.
Shared(c) ==
    /\ rest = 0 /\ c[1] < sentences[index][1]
    /\ \E l \in index .. Len(sentences) - 1 :
        /\ c[2] = sentences[l][2]
        /\ Count(sentences[index][1], sentences[l][2]) <= OverlapTokens

Ahead ==
    More /\ chunks # << >> => NextWord > chunks[Len(chunks)][2] \/ Shared(chunks[Len(chunks)])

ChunkInv ==
    /\ doc \in Docs /\ Laid(doc, layout)
    /\ Position
    /\ Kept(doc, layout, chunks, Reached)
    /\ Ahead

LEMMA InvHolds == ChunkInv => Sound
<1> SUFFICES ASSUME ChunkInv
             PROVE  Sound
  OBVIOUS
<1>0. /\ DOMAIN doc = 1 .. Len(doc) /\ DOMAIN chunks = 1 .. Len(chunks)
      /\ DOMAIN layout = 1 .. Len(layout)
      /\ \A t \in 1 .. Len(layout) : DOMAIN layout[t] = 1 .. Len(layout[t])
  BY DEF ChunkInv, Docs, Kept, Laid, RowLaid
<1>1. \A k \in 1 .. Len(chunks) : Typed(doc, chunks[k]) /\ WellCut(doc, layout, chunks[k])
  BY DEF ChunkInv, Kept
<1>2. \A k \in 1 .. Len(chunks) - 1 : MovedOn(doc, layout, chunks[k], chunks[k + 1])
  BY DEF ChunkInv, Kept
<1>3. ChunkTypeOK
  <2>1. \A w \in DOMAIN doc : doc[w] \in Words
    BY DEF ChunkInv, Docs
  <2>2. rest # 0 => More /\ rest \in sentences[index][1] .. sentences[index][2]
    <3>1. More => RowLaid(doc, sentences) /\ index \in 1 .. Len(sentences)
      BY DEF ChunkInv, Position, More, sentences, Laid
    <3>2. More => sentences[index][1] \in Nat /\ sentences[index][2] \in Nat
      BY <3>1 DEF RowLaid
    <3> QED
      BY <3>2 DEF ChunkInv, Position
  <2>3. \A k \in DOMAIN chunks :
          1 <= chunks[k][1] /\ chunks[k][1] <= chunks[k][2] /\ chunks[k][2] <= Len(doc)
    BY <1>0, <1>1 DEF Typed
  <2> QED
    BY <2>1, <2>2, <2>3 DEF ChunkTypeOK, ChunkInv, Position
<1>4. \A x : x \in AllSentences <=> \E t \in 1 .. Len(layout) : \E j \in 1 .. Len(layout[t]) : x = layout[t][j]
  BY <1>0 DEF AllSentences, Range
<1>5. WithinBudget
  <2> SUFFICES ASSUME NEW k \in 1 .. Len(chunks)
               PROVE  /\ \E s \in DOMAIN layout :
                          Inside(chunks[k], <<layout[s][1][1], layout[s][Len(layout[s])][2]>>)
                      /\ Oversized(chunks[k]) => doc[chunks[k][1]].tokens > MaxTokens
                      /\ \A s \in AllSentences :
                          \/ Inside(s, chunks[k])
                          \/ s[2] < chunks[k][1] \/ chunks[k][2] < s[1]
                          \/ Oversized(s) /\ Inside(chunks[k], s)
    BY <1>0 DEF WithinBudget
  <2>1. WellCut(doc, layout, chunks[k])
    BY <1>1
  <2>2. \E s \in DOMAIN layout :
          Inside(chunks[k], <<layout[s][1][1], layout[s][Len(layout[s])][2]>>)
    BY <1>0, <2>1 DEF WellCut, Inside
  <2>3. Oversized(chunks[k]) => doc[chunks[k][1]].tokens > MaxTokens
    BY <2>1 DEF WellCut, Oversized, Tokens, Count
  <2>4. \A s \in AllSentences :
          \/ Inside(s, chunks[k])
          \/ s[2] < chunks[k][1] \/ chunks[k][2] < s[1]
          \/ Oversized(s) /\ Inside(chunks[k], s)
    <3> TAKE s \in AllSentences
    <3>1. PICK t \in 1 .. Len(layout) : \E j \in 1 .. Len(layout[t]) : s = layout[t][j]
      BY <1>4
    <3>2. PICK j \in 1 .. Len(layout[t]) : s = layout[t][j]
      BY <3>1
    <3>3. \/ Inside(s, chunks[k])
          \/ s[2] < chunks[k][1] \/ chunks[k][2] < s[1]
          \/ TokensOf(doc, s[1], s[2]) > MaxTokens /\ Inside(chunks[k], s)
      BY <2>1, <3>2, Zenon DEF WellCut
    <3> QED
      BY <3>3, Zenon DEF Oversized, Tokens, Count
  <2> QED
    BY <2>2, <2>3, <2>4
<1>6. ChunksProgress
  <2> SUFFICES ASSUME NEW k \in 1 .. Len(chunks) - 1
               PROVE  /\ chunks[k][1] < chunks[k + 1][1]
                      /\ chunks[k][2] <= chunks[k + 1][2]
                      /\ Common(chunks[k], chunks[k + 1]) <= OverlapTokens
                      /\ Inside(chunks[k + 1], chunks[k]) =>
                          \E s \in AllSentences :
                              /\ s[1] = chunks[k][2] + 1
                              /\ Count(chunks[k + 1][1], s[2]) > MaxTokens
    BY DEF ChunksProgress
  <2>1. MovedOn(doc, layout, chunks[k], chunks[k + 1])
    BY <1>2
  <2> QED
    BY <1>4, <2>1, Zenon DEF MovedOn, Common, Count
<1> QED
  BY <1>3, <1>5, <1>6 DEF Sound

LEMMA InitKept == ChunkInit => ChunkInv
<1> SUFFICES ASSUME ChunkInit
             PROVE  ChunkInv
  OBVIOUS
<1>1. doc \in Docs
  <2>1. PICK n \in 0 .. MaxWords : \E size \in [1 .. n -> Sizes], mark \in [1 .. n -> Marks] :
          \E headings \in SUBSET Leads(mark) : doc = DocumentOf(size, mark, headings)
    BY Zenon DEF ChunkInit
  <2>2. PICK size \in [1 .. n -> Sizes], mark \in [1 .. n -> Marks] :
          \E headings \in SUBSET Leads(mark) : doc = DocumentOf(size, mark, headings)
    BY <2>1
  <2>3. PICK headings \in SUBSET Leads(mark) : doc = DocumentOf(size, mark, headings)
    BY <2>2
  <2>4. doc = [w \in 1 .. n |-> [tokens |-> size[w], after |-> mark[w], heading |-> w \in headings]]
    BY <2>3 DEF DocumentOf
  <2>5. \A w \in 1 .. n : [tokens |-> size[w], after |-> mark[w], heading |-> w \in headings] \in Words
    BY DEF Words
  <2>6. n \in Nat
    BY ConfigAssumption DEF ConfigAssumption
  <2>7. doc \in [1 .. n -> Words]
    BY <2>4, <2>5
  <2> QED
    BY <2>6, <2>7 DEF Docs
<1>2. Laid(doc, layout)
  BY <1>1, LayoutLaid DEF ChunkInit
<1>3. section = 1 /\ index = 1 /\ rest = 0 /\ chunks = << >> /\ Len(layout) \in Nat
  BY <1>2 DEF ChunkInit, Laid
<1>4. Position
  <2>1. More => RowLaid(doc, sentences)
    BY <1>2, <1>3 DEF More, sentences, Laid
  <2> QED
    BY <1>3, <2>1 DEF Position, RowLaid
<1>5. Reached = 0
  <2>1. CASE More
    BY <1>2, <1>3, <2>1 DEF More, Reached, NextWord, sentences, Laid
  <2>2. CASE ~ More
    BY <1>2, <1>3, <2>2 DEF More, Reached, Laid
  <2> QED
    BY <2>1, <2>2
<1>6. Kept(doc, layout, chunks, Reached)
  BY <1>3, <1>5 DEF Kept
<1> QED
  BY <1>1, <1>2, <1>3, <1>4, <1>6 DEF ChunkInv, Ahead

\* What the invariant says of the sentence in hand.
LEMMA InHand ==
  ASSUME ChunkInv, More
  PROVE  /\ section \in 1 .. Len(layout) /\ RowLaid(doc, sentences) /\ sentences = layout[section]
         /\ index \in 1 .. Len(sentences) /\ Len(sentences) \in Nat \ {0}
         /\ sentences[index][1] \in Nat \ {0} /\ sentences[index][2] \in Nat
         /\ sentences[index][1] <= sentences[index][2] /\ sentences[index][2] <= Len(doc)
         /\ Len(doc) \in Nat /\ rest \in Nat
<1>1. section \in 1 .. Len(layout)
  BY DEF ChunkInv, Position, More, Laid
<1>2. RowLaid(doc, sentences) /\ sentences = layout[section]
  BY <1>1 DEF ChunkInv, sentences, Laid
<1>3. index \in 1 .. Len(sentences) /\ rest \in Nat
  BY DEF ChunkInv, Position
<1>4. Len(doc) \in Nat
  BY DEF ChunkInv, Docs
<1> QED
  BY <1>1, <1>2, <1>3, <1>4 DEF RowLaid

\* Behind a sentence of the section comes the next one, or the next section.
LEMMA SteppedPast ==
  ASSUME ChunkInv, More, NEW i \in 1 .. Len(sentences),
         \/ i = Len(sentences) /\ NextSection
         \/ i # Len(sentences) /\ index' = i + 1 /\ section' = section,
         rest' = 0, UNCHANGED text
  PROVE  Position' /\ Reached' = sentences[i][2] /\ (More' => NextWord' = sentences[i][2] + 1)
<1>1. /\ section \in 1 .. Len(layout) /\ RowLaid(doc, sentences) /\ sentences = layout[section]
      /\ Len(sentences) \in Nat \ {0} /\ Len(doc) \in Nat
  BY InHand
<1>2. doc' = doc /\ layout' = layout
  BY DEF text
<1>3. Laid(doc, layout) /\ Len(layout) \in Nat
  BY DEF ChunkInv, Laid
<1>4. sentences[i][2] \in Nat
  BY <1>1 DEF RowLaid
<1>5. CASE i # Len(sentences) /\ index' = i + 1 /\ section' = section
  <2>1. More' /\ sentences' = sentences /\ index' \in 1 .. Len(sentences) /\ i \in 1 .. Len(sentences) - 1
    BY <1>1, <1>2, <1>5 DEF More, sentences
  <2>2. sentences[i + 1][1] = sentences[i][2] + 1
    BY <1>1, <2>1 DEF RowLaid
  <2>3. NextWord' = sentences[i][2] + 1
    BY <1>5, <2>1, <2>2 DEF NextWord
  <2>4. Reached' = sentences[i][2]
    BY <1>4, <2>1, <2>3 DEF Reached
  <2>5. Position'
    BY <1>1, <1>2, <1>3, <1>5, <2>1 DEF Position
  <2> QED
    BY <2>3, <2>4, <2>5
<1>6. CASE i = Len(sentences) /\ NextSection /\ section # Len(layout)
  <2>1. section' = section + 1 /\ index' = 1 /\ section \in 1 .. Len(layout) - 1
        /\ section + 1 \in 1 .. Len(layout)
    BY <1>1, <1>3, <1>6 DEF NextSection
  <2>2. More' /\ sentences' = layout[section + 1] /\ RowLaid(doc, layout[section + 1])
    BY <1>2, <1>3, <2>1 DEF More, sentences, Laid
  <2>3. layout[section + 1][1][1] = layout[section][Len(layout[section])][2] + 1
    BY <1>3, <2>1 DEF Laid
  <2>4. layout[section + 1][1][1] = sentences[i][2] + 1
    BY <1>1, <1>6, <2>3
  <2>5. NextWord' = sentences[i][2] + 1
    BY <2>1, <2>2, <2>4 DEF NextWord
  <2>6. Reached' = sentences[i][2]
    BY <1>4, <2>2, <2>5 DEF Reached
  <2>7. Position'
    BY <1>2, <1>3, <2>1, <2>2 DEF Position, RowLaid
  <2> QED
    BY <2>5, <2>6, <2>7
<1>7. CASE i = Len(sentences) /\ NextSection /\ section = Len(layout)
  <2>1. section' = section + 1 /\ index' = 1
    BY <1>7 DEF NextSection
  <2>2. ~ More'
    BY <1>1, <1>2, <1>3, <1>7, <2>1 DEF More
  <2>3. Len(layout) # 0
    BY <1>1, <1>3
  <2>4. layout[Len(layout)][Len(layout[Len(layout)])][2] = Len(doc)
    BY <1>3, <2>3 DEF Laid
  <2>5. sentences[i][2] = Len(doc)
    BY <1>1, <1>7, <2>4
  <2>6. Reached' = sentences[i][2]
    BY <1>2, <2>2, <2>5 DEF Reached
  <2>7. Position'
    BY <1>1, <1>2, <1>3, <1>7, <2>1, <2>2 DEF Position
  <2> QED
    BY <2>2, <2>6, <2>7
<1> QED
  BY <1>5, <1>6, <1>7

\* An oversized sentence is none that the last chunk shares.
LEMMA OversizedAhead ==
  ASSUME ChunkInv, More, chunks # << >>, Oversized(sentences[index])
  PROVE  NextWord > chunks[Len(chunks)][2]
<1> SUFFICES ASSUME Shared(chunks[Len(chunks)])
             PROVE  FALSE
  BY DEF ChunkInv, Ahead
<1>0. RowLaid(doc, sentences) /\ index \in 1 .. Len(sentences) /\ doc \in Docs
  BY InHand DEF ChunkInv
<1>1. PICK l \in index .. Len(sentences) - 1 :
        Count(sentences[index][1], sentences[l][2]) <= OverlapTokens
  BY DEF Shared
<1>2. l \in 1 .. Len(sentences) /\ index <= l
  BY <1>0 DEF RowLaid
<1>3. /\ sentences[index][1] \in Nat \ {0} /\ sentences[index][2] \in Nat
      /\ sentences[l][2] \in Nat /\ sentences[l][2] <= Len(doc)
      /\ sentences[index][2] <= sentences[l][2]
  BY <1>0, <1>2, RowOrder DEF RowLaid
<1> DEFINE a == sentences[index][1]
           b == sentences[index][2]
           e == sentences[l][2]
<1>4. a \in Nat \ {0} /\ a \in Nat /\ a <= a /\ b \in Nat /\ e \in Nat /\ e <= Len(doc) /\ b <= e
  BY <1>3
<1> HIDE DEF a, b, e
<1>5. TokensOf(doc, a, b) \in Nat /\ TokensOf(doc, a, e) \in Nat
      /\ TokensOf(doc, a, b) <= TokensOf(doc, a, e)
  BY <1>0, <1>4, TokensNest
<1>6. TokensOf(doc, a, b) > MaxTokens /\ TokensOf(doc, a, e) <= OverlapTokens
  BY <1>1 DEF Oversized, Tokens, Count, a, b, e
<1> QED
  BY <1>5, <1>6, ConfigAssumption DEF ConfigAssumption

\* Where an oversized sentence is cut, and why where it is not.
LEMMA CutWithin ==
  ASSUME ChunkInv, rest # 0, NEW last, last = sentences[index][2]
  PROVE  /\ Cut(rest, last) # 0 =>
                Cut(rest, last) \in rest .. last - 1 /\ Count(rest, Cut(rest, last)) <= MaxTokens
         /\ Cut(rest, last) = 0 => Count(rest, last) <= MaxTokens \/ doc[rest].tokens > MaxTokens
<1>0. More /\ sentences[index][1] <= rest /\ rest <= last /\ doc \in Docs
  BY DEF ChunkInv, Position
<1>1. /\ rest \in Nat \ {0} /\ last \in Nat /\ last <= Len(doc) /\ rest <= last
      /\ Len(doc) \in Nat /\ sentences[index][1] \in Nat \ {0}
  BY <1>0, InHand
<1> DEFINE within == {w \in rest .. last - 1 : Count(rest, w) <= MaxTokens}
           clauses == {w \in within : doc[w].after = "clause"}
           leading == IF rest = sentences[index][1] THEN {} ELSE {rest - 1}
           b == Boundary(rest, last)
<1>2. b = IF clauses # {} THEN clauses ELSE within \cup leading
  BY DEF Boundary
<1>3. \A x \in b : x \in 0 .. Len(doc)
  <2>1. \A x \in within : x \in 0 .. Len(doc)
    BY <1>1
  <2>2. \A x \in leading : x \in 0 .. Len(doc)
    BY <1>1
  <2> QED
    BY <1>2, <2>1, <2>2
<1>4. \A x \in b : x \in within \/ x = rest - 1
  BY <1>2
<1>5. b # {} => Max(b) \in b /\ \A x \in b : x <= Max(b)
  <2> HIDE DEF b
  <2> QED
    BY <1>1, <1>3, Extremes
<1>6. Cut(rest, last) = IF b = {} \/ Max(b) < rest THEN 0 ELSE Max(b)
  BY DEF Cut
<1>7. ASSUME Cut(rest, last) # 0
      PROVE  Cut(rest, last) \in rest .. last - 1 /\ Count(rest, Cut(rest, last)) <= MaxTokens
  <2>1. Cut(rest, last) = Max(b) /\ Max(b) \in b /\ ~ (Max(b) < rest)
    BY <1>5, <1>6, <1>7
  <2>2. Max(b) # rest - 1
    BY <1>1, <2>1
  <2>3. Max(b) \in within
    BY <1>4, <2>1, <2>2
  <2> QED
    BY <2>1, <2>3
<1>8. ASSUME Cut(rest, last) = 0, ~ (doc[rest].tokens > MaxTokens)
      PROVE  Count(rest, last) <= MaxTokens
  <2>1. TokensOf(doc, rest, rest) = doc[rest].tokens /\ TokensOf(doc, rest, rest) \in Nat
    BY <1>0, <1>1, TokensNest
  <2>2. Count(rest, rest) <= MaxTokens
    BY <1>8, <2>1, ConfigAssumption DEF ConfigAssumption, Count
  <2>3. CASE rest = last
    BY <2>2, <2>3
  <2>4. CASE rest # last
    <3>1. rest \in within
      BY <1>1, <2>2, <2>4
    <3>2. b # {} /\ b \cap within # {}
      BY <1>2, <3>1
    <3>3. PICK x \in b : x \in within
      BY <3>2
    <3>4. x \in Nat /\ rest <= x /\ x <= Max(b) /\ Max(b) \in Nat
      <4>1. Max(b) \in b /\ x <= Max(b)
        BY <1>5, <3>2
      <4>2. Max(b) \in 0 .. Len(doc) /\ x \in 0 .. Len(doc)
        BY <1>3, <4>1
      <4> QED
        BY <1>1, <3>3, <4>1, <4>2
    <3>5. ~ (Max(b) < rest) /\ Max(b) # 0
      BY <1>1, <3>4
    <3> QED
      BY <1>6, <1>8, <3>2, <3>5
  <2> QED
    BY <2>3, <2>4
<1> QED
  BY <1>7, <1>8

\* How far sentences are packed: as many as fit, and no fewer.
LEMMA PackedWithin ==
  ASSUME ChunkInv, More, ~ Oversized(sentences[index])
  PROVE  /\ LastPacked \in index .. Len(sentences)
         /\ Count(sentences[index][1], sentences[LastPacked][2]) <= MaxTokens
         /\ \/ LastPacked = Len(sentences)
            \/ Count(sentences[index][1], sentences[LastPacked + 1][2]) > MaxTokens
<1> DEFINE n == Len(sentences)
           fits(l) == Count(sentences[index][1], sentences[l][2]) <= MaxTokens
           over(l) == Count(sentences[index][1], sentences[l][2]) > MaxTokens
           T == {l \in index .. n : l = n \/ over(l + 1)}
<1>0. index \in 1 .. n /\ n \in Nat \ {0} /\ RowLaid(doc, sentences) /\ doc \in Docs
  BY InHand DEF ChunkInv
<1>1. \A l \in index .. n : fits(l) \/ over(l)
  <2> TAKE l \in index .. n
  <2>1. l \in 1 .. Len(sentences)
    BY <1>0
  <2>2. sentences[index][1] \in Nat \ {0} /\ sentences[l][2] \in Nat /\ sentences[l][2] <= Len(doc)
    BY <1>0, <2>1 DEF RowLaid
  <2>3. Count(sentences[index][1], sentences[l][2]) \in Nat
    BY <1>0, <2>2, TokensNest DEF Count
  <2> QED
    BY <2>3, ConfigAssumption DEF ConfigAssumption
<1>2. fits(index)
  <2>1. ~ over(index)
    BY DEF Oversized, Tokens
  <2>2. index \in index .. n
    BY <1>0
  <2> QED
    BY <1>1, <2>1, <2>2
<1> HIDE DEF fits, over
<1>3. PICK l \in T : \A m \in T : l <= m
  <2>1. T \subseteq Nat /\ T # {}
    BY <1>0
  <2> HIDE DEF T
  <2> QED
    BY <2>1, LeastNumber
<1>4. l \in index .. n /\ (l = n \/ over(l + 1))
  OBVIOUS
<1>5. \A s \in index + 1 .. l : fits(s)
  <2> TAKE s \in index + 1 .. l
  <2>1. s - 1 \in index .. n /\ s - 1 # n /\ s \in index .. n /\ ~ (l <= s - 1)
    BY <1>0, <1>4
  <2>2. s - 1 \notin T
    BY <1>3, <2>1
  <2>3. ~ over((s - 1) + 1) /\ (s - 1) + 1 = s
    BY <2>1, <2>2
  <2> QED
    BY <1>1, <2>1, <2>3
<1>6. /\ LastPacked \in index .. n
      /\ \A s \in index + 1 .. LastPacked : fits(s)
      /\ LastPacked = n \/ over(LastPacked + 1)
  <2>1. \E last \in index .. n :
          /\ \A s \in index + 1 .. last : fits(s)
          /\ last = n \/ over(last + 1)
    BY <1>4, <1>5
  <2> QED
    BY <2>1, Zenon DEF LastPacked, fits, over
<1>7. fits(LastPacked)
  <2>1. CASE LastPacked = index
    BY <1>2, <2>1
  <2>2. CASE LastPacked # index
    <3>1. LastPacked \in index + 1 .. LastPacked
      BY <1>0, <1>6, <2>2
    <3> QED
      BY <1>6, <3>1
  <2> QED
    BY <2>1, <2>2
<1> QED
  BY <1>6, <1>7 DEF fits, over

\* Where the overlap starts: at a sentence behind which everything fits it.
LEMMA OverlapWithin ==
  ASSUME ChunkInv, More, NEW last \in 1 .. Len(sentences)
  PROVE  /\ OverlapStart(last) \in 1 .. last + 1
         /\ OverlapStart(last) # last + 1 =>
                Count(sentences[OverlapStart(last)][1], sentences[last][2]) <= OverlapTokens
<1> DEFINE fits == {s \in 1 .. last :
                      Count(sentences[s][1], sentences[last][2]) <= OverlapTokens}
           o == OverlapStart(last)
<1>0. last \in Nat /\ last >= 1
  BY InHand
<1>1. o = IF OverlapTokens = 0 \/ fits = {} THEN last + 1 ELSE Min(fits)
  BY DEF OverlapStart
<1>2. fits # {} => Min(fits) \in fits
  <2>1. \A x \in fits : x \in 0 .. last
    BY <1>0
  <2> HIDE DEF fits
  <2> QED
    BY <1>0, <2>1, Extremes
<1> HIDE DEF o
<1>3. o = last + 1 \/ o \in fits
  BY <1>1, <1>2
<1>4. o \in 1 .. last + 1 /\ (o # last + 1 => Count(sentences[o][1], sentences[last][2]) <= OverlapTokens)
  BY <1>0, <1>3
<1> QED
  BY <1>4 DEF o

-----------------------------------------------------------------------------
(* The steps.                                                              *)

LEMMA TakeOversizedKept ==
  ASSUME ChunkInv, TakeOversized
  PROVE  ChunkInv'
<1>1. doc' = doc /\ layout' = layout /\ section' = section /\ index' = index /\ chunks' = chunks
      /\ rest = 0 /\ rest' = sentences[index][1] /\ More /\ Oversized(sentences[index])
  BY DEF TakeOversized, text
<1>2. More' /\ sentences' = sentences /\ Oversized(sentences[index])'
  BY <1>1 DEF More, sentences, Oversized, Tokens, Count
<1>3. /\ sentences[index][1] \in Nat \ {0} /\ sentences[index][1] <= sentences[index][2]
      /\ section \in 1 .. Len(layout) /\ index \in 1 .. Len(sentences)
  BY <1>1, InHand
<1>4. Position'
  <2>1. (section \in 1 .. Len(layout) + 1)' /\ (rest \in Nat)' /\ (index \in 1 .. Len(sentences))'
    BY <1>1, <1>2, <1>3 DEF ChunkInv, Position
  <2>2. (sentences[index][1] <= rest)' /\ (rest <= sentences[index][2])'
    BY <1>1, <1>2, <1>3
  <2> QED
    BY <1>2, <2>1, <2>2 DEF Position
<1>5. NextWord' = NextWord
  BY <1>1, <1>2, <1>3 DEF NextWord
<1>6. Reached' = Reached
  BY <1>1, <1>2, <1>5 DEF Reached
<1>7. Ahead'
  <2>1. chunks # << >> => NextWord > chunks[Len(chunks)][2]
    BY <1>1, OversizedAhead
  <2> QED
    BY <1>1, <1>5, <2>1 DEF Ahead
<1> QED
  BY <1>1, <1>4, <1>6, <1>7 DEF ChunkInv

\* What is left of a sentence is behind the last chunk.
LEMMA RestAhead ==
  ASSUME ChunkInv, rest # 0, NEW c, Typed(doc, c), c[1] = rest
  PROVE  chunks # << >> => MovedOn(doc, layout, chunks[Len(chunks)], c)
<1> SUFFICES ASSUME chunks # << >>
             PROVE  MovedOn(doc, layout, chunks[Len(chunks)], c)
  OBVIOUS
<1>1. NextWord > chunks[Len(chunks)][2] /\ NextWord = rest /\ rest \in Nat
  BY DEF ChunkInv, Ahead, Position, Shared, NextWord
<1>2. Len(chunks) \in 1 .. Len(chunks) /\ doc \in Docs
  BY DEF ChunkInv, Kept
<1>3. Typed(doc, chunks[Len(chunks)])
  BY <1>2 DEF ChunkInv, Kept
<1>4. chunks[Len(chunks)][2] \in Nat
  BY <1>3 DEF Typed
<1>5. chunks[Len(chunks)][2] < c[1]
  BY <1>1, <1>4
<1> QED
  BY <1>2, <1>3, <1>5, BehindMovedOn

\* A new chunk from what is left of a sentence.
LEMMA PieceKept ==
  ASSUME ChunkInv, rest # 0, NEW last \in Nat, rest <= last, last <= sentences[index][2],
         Count(rest, last) > MaxTokens => doc[rest].tokens > MaxTokens
  PROVE  /\ Kept(doc, layout, Append(chunks, <<rest, last>>), last)
         /\ Append(chunks, <<rest, last>>) # << >>
         /\ Append(chunks, <<rest, last>>)[Len(Append(chunks, <<rest, last>>))] = <<rest, last>>
<1> DEFINE c == <<rest, last>>
<1>1. More /\ sentences[index][1] <= rest /\ Oversized(sentences[index]) /\ rest \in Nat
  BY DEF ChunkInv, Position
<1>2. /\ section \in 1 .. Len(layout) /\ sentences = layout[section] /\ index \in 1 .. Len(layout[section])
      /\ doc \in Docs /\ Laid(doc, layout)
  BY <1>1, InHand DEF ChunkInv
<1>3. TokensOf(doc, layout[section][index][1], layout[section][index][2]) > MaxTokens
  BY <1>1, <1>2 DEF Oversized, Tokens, Count
<1>4. TokensOf(doc, rest, last) > MaxTokens => doc[rest].tokens > MaxTokens
  BY DEF Count
<1>5. layout[section][index][1] <= rest /\ last <= layout[section][index][2]
  BY <1>1, <1>2
<1>6. c[1] = rest /\ c[2] = last
  OBVIOUS
<1>7. c = <<rest, last>>
  OBVIOUS
<1> HIDE DEF c
<1>8. Typed(doc, c) /\ WellCut(doc, layout, c)
  BY <1>1, <1>2, <1>3, <1>4, <1>5, <1>7, PieceWellCut
<1>9. chunks # << >> => MovedOn(doc, layout, chunks[Len(chunks)], c)
  BY <1>6, <1>8, RestAhead
<1>10. Kept(doc, layout, chunks, Reached) /\ Reached = rest - 1 /\ Reached \in Nat /\ c[1] <= Reached + 1
  BY <1>1, <1>6 DEF ChunkInv, Reached, NextWord
<1>11. last <= c[2]
  BY <1>6
<1>12. /\ Kept(doc, layout, Append(chunks, c), last)
       /\ Append(chunks, c) # << >> /\ Append(chunks, c)[Len(Append(chunks, c))] = c
  BY <1>8, <1>9, <1>10, <1>11, KeptOn
<1> QED
  BY <1>7, <1>12

LEMMA CutPieceKept ==
  ASSUME ChunkInv, CutPiece
  PROVE  ChunkInv'
<1> DEFINE last == sentences[index][2]
           cut == Cut(rest, last)
<1>1. doc' = doc /\ layout' = layout /\ section' = section /\ index' = index
      /\ rest # 0 /\ cut # 0 /\ rest' = cut + 1
      /\ IF cut < rest THEN UNCHANGED chunks ELSE Emit(rest, cut)
  BY DEF CutPiece, text
<1>2. More /\ sentences[index][1] <= rest /\ rest <= last /\ Oversized(sentences[index]) /\ rest \in Nat
  BY <1>1 DEF ChunkInv, Position
<1>3. /\ sentences[index][1] \in Nat \ {0} /\ last \in Nat /\ last <= Len(doc)
      /\ section \in 1 .. Len(layout) /\ index \in 1 .. Len(sentences)
  BY <1>2, InHand
<1>4. cut \in rest .. last - 1 /\ Count(rest, cut) <= MaxTokens
  BY <1>1, CutWithin
<1> HIDE DEF cut
<1>5. chunks' = Append(chunks, <<rest, cut>>) /\ cut \in Nat /\ rest <= cut /\ cut <= last
  BY <1>1, <1>2, <1>3, <1>4 DEF Emit
<1>6. ~ (Count(rest, cut) > MaxTokens)
  <2>1. TokensOf(doc, rest, cut) \in Nat
    <3>1. rest \in Nat \ {0} /\ cut <= Len(doc) /\ doc \in Docs
      BY <1>1, <1>2, <1>3, <1>5, InHand DEF ChunkInv
    <3> QED
      BY <1>5, <3>1, TokensNest
  <2> QED
    BY <1>4, <2>1, ConfigAssumption DEF ConfigAssumption, Count
<1>7. /\ Kept(doc, layout, chunks', cut)
      /\ chunks' # << >> /\ chunks'[Len(chunks')] = <<rest, cut>>
  BY <1>1, <1>5, <1>6, PieceKept
<1>8. More' /\ sentences' = sentences /\ Oversized(sentences[index])'
  BY <1>1, <1>2 DEF More, sentences, Oversized, Tokens, Count
<1>9. Position'
  <2>1. (section \in 1 .. Len(layout) + 1)' /\ (rest \in Nat)' /\ (index \in 1 .. Len(sentences))'
    BY <1>1, <1>3, <1>5, <1>8 DEF ChunkInv, Position
  <2>2. (sentences[index][1] <= rest)' /\ (rest <= sentences[index][2])'
    BY <1>1, <1>2, <1>3, <1>4, <1>8
  <2> QED
    BY <1>8, <2>1, <2>2 DEF Position
<1>10. NextWord' = cut + 1 /\ Reached' = cut
  BY <1>1, <1>5, <1>8 DEF NextWord, Reached
<1>11. Ahead'
  <2>1. NextWord' > chunks'[Len(chunks')][2]
    BY <1>5, <1>7, <1>10
  <2> QED
    BY <2>1 DEF Ahead
<1> QED
  BY <1>1, <1>7, <1>9, <1>10, <1>11 DEF ChunkInv

LEMMA EmitTailKept ==
  ASSUME ChunkInv, EmitTail
  PROVE  ChunkInv'
<1> DEFINE last == sentences[index][2]
<1>1. doc' = doc /\ layout' = layout /\ rest # 0 /\ rest' = 0 /\ Advance
      /\ (Count(rest, last) <= MaxTokens \/ Cut(rest, last) = 0)
      /\ chunks' = Append(chunks, <<rest, last>>)
  BY DEF EmitTail, Emit, text
<1>2. More /\ rest <= last /\ rest \in Nat
  BY <1>1 DEF ChunkInv, Position
<1>3. last \in Nat /\ last <= Len(doc) /\ index \in 1 .. Len(sentences) /\ doc \in Docs
  BY <1>2, InHand DEF ChunkInv
<1>4. Count(rest, last) <= MaxTokens \/ doc[rest].tokens > MaxTokens
  BY <1>1, CutWithin
<1>5. Count(rest, last) > MaxTokens => doc[rest].tokens > MaxTokens
  <2>1. TokensOf(doc, rest, last) \in Nat
    <3>1. rest \in Nat \ {0}
      BY <1>1, <1>2
    <3> QED
      BY <1>3, <3>1, TokensNest
  <2> QED
    BY <1>4, <2>1, ConfigAssumption DEF ConfigAssumption, Count
<1>6. /\ Kept(doc, layout, chunks', last)
      /\ chunks' # << >> /\ chunks'[Len(chunks')] = <<rest, last>>
  <2>1. last <= sentences[index][2]
    BY <1>3
  <2> QED
    BY <1>1, <1>2, <1>3, <1>5, <2>1, PieceKept
<1>7. Position' /\ Reached' = last /\ (More' => NextWord' = last + 1)
  <2>1. \/ index = Len(sentences) /\ NextSection
        \/ index # Len(sentences) /\ index' = index + 1 /\ section' = section
    BY <1>1 DEF Advance
  <2> QED
    BY <1>1, <1>2, <1>3, <2>1, SteppedPast DEF text
<1>8. Ahead'
  <2>1. More' => NextWord' > chunks'[Len(chunks')][2]
    BY <1>3, <1>6, <1>7
  <2> QED
    BY <2>1 DEF Ahead
<1> QED
  BY <1>1, <1>6, <1>7, <1>8 DEF ChunkInv

\* Packed sentences move on from the chunk they share the first of with.
LEMMA PackedMovedOn ==
  ASSUME ChunkInv, More, ~ Oversized(sentences[index]), chunks # << >>,
         NEW c, c = <<sentences[index][1], sentences[LastPacked][2]>>, Typed(doc, c)
  PROVE  MovedOn(doc, layout, chunks[Len(chunks)], c)
<1> DEFINE a == chunks[Len(chunks)]
           R == sentences
           last == LastPacked
<1>0. doc \in Docs /\ Typed(doc, a)
  <2>1. Len(chunks) \in 1 .. Len(chunks)
    BY DEF ChunkInv, Kept
  <2> QED
    BY <2>1 DEF ChunkInv, Kept
<1>1. /\ section \in 1 .. Len(layout) /\ RowLaid(doc, R) /\ R = layout[section]
      /\ index \in 1 .. Len(R) /\ Len(R) \in Nat \ {0} /\ R[index][1] \in Nat \ {0} /\ rest \in Nat
  BY InHand
<1>2. /\ last \in index .. Len(R)
      /\ last = Len(R) \/ Count(R[index][1], R[last + 1][2]) > MaxTokens
  BY PackedWithin
<1> HIDE DEF last
<1>3. c[1] = R[index][1] /\ c[2] = R[last][2]
  BY DEF last
<1>4. last \in 1 .. Len(R)
  BY <1>1, <1>2
<1>5. CASE NextWord > a[2]
  <2>1. rest # 0 => Oversized(sentences[index])
    BY DEF ChunkInv, Position
  <2>2. NextWord = R[index][1]
    BY <2>1 DEF NextWord
  <2>3. a[2] < c[1]
    BY <1>0, <1>1, <1>3, <1>5, <2>2 DEF Typed
  <2> HIDE DEF a
  <2>4. MovedOn(doc, layout, a, c)
    BY <1>0, <2>3, BehindMovedOn
  <2> QED
    BY <2>4 DEF a
<1>6. CASE Shared(a)
  <2>1. PICK l \in index .. Len(R) - 1 :
          a[2] = R[l][2] /\ Count(R[index][1], R[l][2]) <= OverlapTokens
    BY <1>6 DEF Shared
  <2>2. a[1] < c[1]
    BY <1>3, <1>6 DEF Shared
  <2> HIDE DEF a
  <2>3. l \in 1 .. Len(R) /\ l + 1 \in 1 .. Len(R) /\ l \in Nat /\ last \in Nat /\ index <= l
    BY <1>1, <1>4, <2>1
  <2>4. /\ R[l][2] \in Nat /\ R[l][2] <= Len(doc) /\ R[last][2] \in Nat
        /\ R[last][2] <= Len(doc) /\ Len(doc) \in Nat
    BY <1>0, <1>1, <1>4, <2>3 DEF RowLaid, Docs
  <2>5. TokensOf(doc, c[1], a[2]) <= OverlapTokens
    BY <1>3, <2>1 DEF Count
  <2>6. ~ (last < l)
    <3> SUFFICES ASSUME last < l
                 PROVE  FALSE
      OBVIOUS
    <3>1. last # Len(R) /\ last + 1 \in 1 .. Len(R) /\ last + 1 <= l
      BY <1>1, <1>4, <2>3
    <3>2. R[last + 1][2] \in Nat /\ R[last + 1][2] <= R[l][2]
      BY <1>1, <2>3, <3>1, RowOrder DEF RowLaid
    <3>3. TokensOf(doc, R[index][1], R[last + 1][2]) > MaxTokens
      BY <1>2, <3>1 DEF Count
    <3> DEFINE x == R[index][1]
               y == R[last + 1][2]
               z == R[l][2]
    <3>4. x \in Nat \ {0} /\ x \in Nat /\ x <= x /\ y \in Nat /\ z \in Nat /\ z <= Len(doc) /\ y <= z
      BY <1>1, <2>4, <3>2
    <3>5. TokensOf(doc, x, z) <= OverlapTokens /\ TokensOf(doc, x, y) > MaxTokens
      BY <2>1, <3>3 DEF Count
    <3> HIDE DEF x, y, z
    <3>6. TokensOf(doc, x, y) \in Nat /\ TokensOf(doc, x, z) \in Nat
          /\ TokensOf(doc, x, y) <= TokensOf(doc, x, z)
      BY <1>0, <3>4, TokensNest
    <3> QED
      BY <3>5, <3>6, ConfigAssumption DEF ConfigAssumption
  <2>7. a[2] <= c[2]
    <3>1. l <= last
      BY <2>3, <2>6
    <3>2. R[l][2] <= R[last][2]
      BY <1>1, <1>4, <2>3, <3>1, RowOrder
    <3> QED
      BY <1>3, <2>1, <3>2
  <2>8. /\ a[1] \in Nat /\ a[2] \in Nat /\ c[1] \in Nat /\ c[2] \in Nat
        /\ a[1] <= Len(doc) /\ a[2] <= Len(doc) /\ c[1] <= Len(doc) /\ c[2] <= Len(doc)
    BY <1>0, <2>4 DEF Typed
  <2>9. Max({a[1], c[1]}) = c[1]
    <3>1. \A x \in {a[1], c[1]} : x \in 0 .. Len(doc)
      BY <2>4, <2>8
    <3>2. Max({a[1], c[1]}) \in {a[1], c[1]} /\ \A x \in {a[1], c[1]} : x <= Max({a[1], c[1]})
      BY <2>4, <3>1, Extremes
    <3> QED
      BY <2>2, <2>8, <3>2
  <2>10. Min({a[2], c[2]}) = a[2]
    <3>1. \A x \in {a[2], c[2]} : x \in 0 .. Len(doc)
      BY <2>4, <2>8
    <3>2. Min({a[2], c[2]}) \in {a[2], c[2]} /\ \A x \in {a[2], c[2]} : Min({a[2], c[2]}) <= x
      BY <2>4, <3>1, Extremes
    <3> QED
      BY <2>7, <2>8, <3>2
  <2>11. ASSUME Inside(c, a)
         PROVE  \E t \in 1 .. Len(layout) : \E j \in 1 .. Len(layout[t]) :
                    layout[t][j][1] = a[2] + 1 /\ TokensOf(doc, c[1], layout[t][j][2]) > MaxTokens
    <3>1. c[2] <= a[2]
      BY <2>11 DEF Inside
    <3>2. l < last => R[l][2] < R[last][2]
      BY <1>1, <1>4, <2>3, RowOrder
    <3>3. last = l
      BY <1>3, <2>1, <2>3, <2>4, <2>6, <3>1, <3>2
    <3>4. R[l + 1][1] = a[2] + 1
      BY <1>1, <2>1, <2>3 DEF RowLaid
    <3>5. last # Len(R)
      BY <1>1, <2>1, <3>3
    <3>6. TokensOf(doc, c[1], R[l + 1][2]) > MaxTokens
      BY <1>2, <1>3, <3>3, <3>5 DEF Count
    <3> QED
      BY <1>1, <2>3, <3>4, <3>6
  <2>12. MovedOn(doc, layout, a, c)
    BY <2>2, <2>5, <2>7, <2>9, <2>10, <2>11 DEF MovedOn
  <2> QED
    BY <2>12 DEF a
<1> QED
  BY <1>5, <1>6 DEF ChunkInv, Ahead

LEMMA PackKept ==
  ASSUME ChunkInv, Pack
  PROVE  ChunkInv'
<1> DEFINE R == sentences
           last == LastPacked
           start == OverlapStart(last)
           c == <<R[index][1], R[last][2]>>
<1>1. /\ doc' = doc /\ layout' = layout /\ rest = 0 /\ rest' = 0 /\ More
      /\ ~ Oversized(sentences[index]) /\ chunks' = Append(chunks, c)
      /\ IF last = Len(R) THEN NextSection
         ELSE index' = (IF start > index THEN start ELSE last + 1) /\ section' = section
  BY DEF Pack, Emit, text
<1>2. /\ section \in 1 .. Len(layout) /\ RowLaid(doc, R) /\ R = layout[section]
      /\ index \in 1 .. Len(R) /\ Len(R) \in Nat \ {0} /\ R[index][1] \in Nat \ {0}
      /\ doc \in Docs /\ Laid(doc, layout) /\ Len(doc) \in Nat
  BY <1>1, InHand DEF ChunkInv
<1>3. last \in index .. Len(R) /\ Count(R[index][1], R[last][2]) <= MaxTokens
  BY <1>1, PackedWithin
<1>4. last \in 1 .. Len(R) /\ index <= last /\ last \in Nat
  BY <1>2, <1>3
<1>5. start \in 1 .. last + 1 /\ (start # last + 1 => Count(R[start][1], R[last][2]) <= OverlapTokens)
  BY <1>1, <1>4, OverlapWithin
<1>6. c = <<layout[section][index][1], layout[section][last][2]>>
      /\ c[1] = R[index][1] /\ c[2] = R[last][2]
      /\ c = <<sentences[index][1], sentences[LastPacked][2]>>
  BY <1>2
<1> HIDE DEF last, start, c
<1>7. Typed(doc, c) /\ WellCut(doc, layout, c)
  <2>1. TokensOf(doc, c[1], c[2]) <= MaxTokens
    BY <1>3, <1>6 DEF Count
  <2>2. index \in 1 .. Len(layout[section]) /\ last \in 1 .. Len(layout[section])
    BY <1>2, <1>4
  <2> QED
    BY <1>2, <1>4, <1>6, <2>1, <2>2, PackedWellCut
<1>8. chunks # << >> => MovedOn(doc, layout, chunks[Len(chunks)], c)
  BY <1>1, <1>6, <1>7, PackedMovedOn
<1>9. Kept(doc, layout, chunks, Reached) /\ Reached \in Nat /\ c[1] <= Reached + 1
  <2>1. Reached = R[index][1] - 1
    BY <1>1 DEF Reached, NextWord
  <2> QED
    BY <1>2, <1>6, <2>1 DEF ChunkInv
<1>10. \A m \in Nat : m <= c[2] =>
         /\ Kept(doc, layout, chunks', m)
         /\ chunks' # << >> /\ chunks'[Len(chunks')] = c
  BY <1>1, <1>7, <1>8, <1>9, KeptOn
<1>11. c[2] \in Nat /\ c[2] <= c[2] /\ R[last][2] \in Nat
  BY <1>2, <1>4, <1>6 DEF RowLaid
<1>12. CASE \/ last = Len(R) /\ NextSection
            \/ last # Len(R) /\ index' = last + 1 /\ section' = section
  <2>1. Position' /\ Reached' = R[last][2] /\ (More' => NextWord' = R[last][2] + 1)
    <3> HIDE DEF R
    <3>1. last \in 1 .. Len(sentences)
          /\ \/ last = Len(sentences) /\ NextSection
             \/ last # Len(sentences) /\ index' = last + 1 /\ section' = section
      BY <1>4, <1>12 DEF R
    <3> QED
      BY <1>1, <3>1, SteppedPast DEF text, R
  <2>2. Kept(doc, layout, chunks, Reached)'
    BY <1>1, <1>6, <1>10, <1>11, <2>1
  <2>3. Ahead'
    <3>1. More' => NextWord' > chunks'[Len(chunks')][2]
      BY <1>6, <1>10, <1>11, <2>1
    <3> QED
      BY <3>1 DEF Ahead
  <2> QED
    BY <1>1, <1>2, <2>1, <2>2, <2>3 DEF ChunkInv
<1>13. CASE last # Len(R) /\ index' = start /\ section' = section /\ start > index /\ start # last + 1
  <2>1. start \in 1 .. Len(R) /\ start <= last /\ start \in Nat /\ index < start
        /\ last \in start .. Len(R) - 1
    BY <1>2, <1>4, <1>5, <1>13
  <2>2. /\ R[start][1] \in Nat \ {0} /\ R[start][2] \in Nat /\ R[start][1] <= R[start][2]
        /\ R[start][2] <= R[last][2] /\ R[index][1] < R[start][1]
    BY <1>2, <1>4, <2>1, RowOrder DEF RowLaid
  <2>3. More' /\ sentences' = sentences
    BY <1>1, <1>13 DEF More, sentences
  <2>4. NextWord' = R[start][1] /\ Reached' = R[start][1] - 1
    BY <1>1, <1>13, <2>3 DEF NextWord, Reached
  <2>5. R[start][1] - 1 \in Nat /\ R[start][1] - 1 <= c[2]
    BY <1>6, <1>11, <2>2
  <2>6. Kept(doc, layout, chunks, Reached)'
    BY <1>1, <1>10, <2>4, <2>5
  <2>7. Position'
    BY <1>1, <1>2, <1>13, <2>1, <2>3 DEF Position
  <2>8. Shared(chunks[Len(chunks)])'
    <3>1. chunks'[Len(chunks')] = c
      BY <1>10, <1>11
    <3>2. (rest = 0)' /\ c[1] < R[start][1] /\ c[2] = R[last][2]
      BY <1>1, <1>6, <2>2
    <3>3. TokensOf(doc, R[start][1], R[last][2]) <= OverlapTokens
      BY <1>5, <1>13 DEF Count
    <3> QED
      BY <1>1, <1>13, <2>1, <2>3, <3>1, <3>2, <3>3 DEF Shared, Count
  <2>9. Ahead'
    BY <2>8 DEF Ahead
  <2> QED
    BY <1>1, <1>2, <2>6, <2>7, <2>9 DEF ChunkInv
<1> QED
  BY <1>1, <1>12, <1>13

LEMMA ChunkStep ==
  ASSUME ChunkInv, [ChunkNext]_chunkVars
  PROVE  ChunkInv'
<1>1. CASE TakeOversized
  BY <1>1, TakeOversizedKept
<1>2. CASE CutPiece
  BY <1>2, CutPieceKept
<1>3. CASE EmitTail
  BY <1>3, EmitTailKept
<1>4. CASE Pack
  BY <1>4, PackKept
<1>5. CASE UNCHANGED chunkVars
  BY <1>5 DEF chunkVars, ChunkInv, Position, Kept, Ahead, Shared, NextWord, Reached, More, sentences,
              Oversized, Tokens, Count
<1> QED
  BY <1>1, <1>2, <1>3, <1>4, <1>5 DEF ChunkNext

\* Whatever the document and the budgets, a chunk is whole sentences of one
\* section within the budget or a piece of one sentence over it, and chunks
\* move on and share no more than the overlap (chunk_document).
THEOREM ChunksSound == ChunkSpec => []Sound
<1>1. ChunkInit => ChunkInv
  BY InitKept
<1>2. ChunkInv /\ [ChunkNext]_chunkVars => ChunkInv'
  BY ChunkStep
<1>3. ChunkInv => Sound
  BY InvHolds
<1> QED
  BY <1>1, <1>2, <1>3, PTL DEF ChunkSpec

\* Once the loops have ended every word of the document is in a chunk: nothing
\* of it is lost (chunk_document, FR-007).
THEOREM NothingLost ==
  ChunkSpec => [](~ More =>
      \A w \in DOMAIN doc : \E k \in DOMAIN chunks : w \in chunks[k][1] .. chunks[k][2])
<1> DEFINE Whole == ~ More =>
      \A w \in DOMAIN doc : \E k \in DOMAIN chunks : w \in chunks[k][1] .. chunks[k][2]
<1>1. ChunkInit => ChunkInv
  BY InitKept
<1>2. ChunkInv /\ [ChunkNext]_chunkVars => ChunkInv'
  BY ChunkStep
<1>3. ChunkInv => Whole
  <2> SUFFICES ASSUME ChunkInv, ~ More, NEW w \in DOMAIN doc
               PROVE  \E k \in DOMAIN chunks : w \in chunks[k][1] .. chunks[k][2]
    OBVIOUS
  <2>1. DOMAIN doc = 1 .. Len(doc) /\ DOMAIN chunks = 1 .. Len(chunks) /\ w \in 1 .. Reached
    BY DEF ChunkInv, Docs, Kept, Reached
  <2>2. PICK k \in 1 .. Len(chunks) : chunks[k][1] <= w /\ w <= chunks[k][2]
    BY <2>1 DEF ChunkInv, Kept
  <2>3. Typed(doc, chunks[k])
    BY DEF ChunkInv, Kept
  <2>4. w \in Nat /\ chunks[k][1] \in Nat /\ chunks[k][2] \in Nat
    BY <2>1, <2>3 DEF Typed, ChunkInv, Docs
  <2> QED
    BY <2>1, <2>2, <2>4
<1> HIDE DEF Whole
<1>4. ChunkSpec => []Whole
  BY <1>1, <1>2, <1>3, PTL DEF ChunkSpec
<1> QED
  BY <1>4 DEF Whole

-----------------------------------------------------------------------------
(* The loops end: what is left of them gets less with every turn.          *)

\* Two for each word behind Reached: to take a sentence and to cut a piece of it.
Togo == 2 * (Len(doc) - Reached) - (IF rest # 0 THEN 1 ELSE 0)

\* Either a sentence is taken to be cut up, or a chunk is made and the text is
\* done further than before.
LEMMA MovesOn ==
  ASSUME ChunkInv, ChunkNext
  PROVE  /\ doc' = doc /\ More
         /\ \/ Reached' = Reached /\ rest = 0 /\ rest' # 0 /\ chunks' = chunks
            \/ Reached' > Reached /\ \E c : chunks' = Append(chunks, c)
<1>1. rest # 0 => More /\ sentences[index][1] <= rest /\ rest <= sentences[index][2]
  BY DEF ChunkInv, Position
<1>2. CASE TakeOversized
  <2>1. /\ More /\ rest = 0 /\ rest' = sentences[index][1] /\ chunks' = chunks
        /\ doc' = doc /\ layout' = layout /\ section' = section /\ index' = index
    BY <1>2 DEF TakeOversized, text
  <2>2. More' /\ sentences' = sentences
    BY <2>1 DEF More, sentences
  <2>3. sentences[index][1] \in Nat \ {0}
    BY <2>1, InHand
  <2>4. Reached' = Reached /\ rest' # 0
    BY <2>1, <2>2, <2>3 DEF Reached, NextWord
  <2> QED
    BY <2>1, <2>4
<1>3. CASE CutPiece
  <2> DEFINE cut == Cut(rest, sentences[index][2])
  <2>1. /\ rest # 0 /\ cut # 0 /\ rest' = cut + 1
        /\ doc' = doc /\ layout' = layout /\ section' = section /\ index' = index
        /\ IF cut < rest THEN UNCHANGED chunks ELSE Emit(rest, cut)
    BY <1>3 DEF CutPiece, text
  <2>2. cut \in rest .. sentences[index][2] - 1 /\ rest \in Nat /\ sentences[index][2] \in Nat
    BY <1>1, <2>1, CutWithin, InHand
  <2> HIDE DEF cut
  <2>3. More' /\ rest' # 0
    BY <1>1, <2>1, <2>2 DEF More
  <2>4. Reached = rest - 1 /\ Reached' = cut
    BY <1>1, <2>1, <2>2, <2>3 DEF Reached, NextWord
  <2>5. chunks' = Append(chunks, <<rest, cut>>)
    BY <2>1, <2>2 DEF Emit
  <2>6. Reached' > Reached
    BY <2>2, <2>4
  <2> QED
    BY <1>1, <2>1, <2>5, <2>6
<1>4. CASE EmitTail
  <2> DEFINE last == sentences[index][2]
  <2>1. doc' = doc /\ layout' = layout /\ rest # 0 /\ rest' = 0 /\ Advance
        /\ chunks' = Append(chunks, <<rest, last>>)
    BY <1>4 DEF EmitTail, Emit, text
  <2>2. rest \in Nat /\ last \in Nat /\ rest <= last /\ index \in 1 .. Len(sentences)
    BY <1>1, <2>1, InHand
  <2>3. Reached' = last
    <3>1. \/ index = Len(sentences) /\ NextSection
          \/ index # Len(sentences) /\ index' = index + 1 /\ section' = section
      BY <2>1 DEF Advance
    <3> QED
      BY <1>1, <2>1, <2>2, <3>1, SteppedPast DEF text
  <2>4. Reached = rest - 1
    BY <1>1, <2>1 DEF Reached, NextWord
  <2>5. Reached' > Reached
    BY <2>2, <2>3, <2>4
  <2> QED
    BY <1>1, <2>1, <2>5
<1>5. CASE Pack
  <2> DEFINE R == sentences
             last == LastPacked
             start == OverlapStart(last)
  <2>1. /\ doc' = doc /\ layout' = layout /\ rest = 0 /\ rest' = 0 /\ More
        /\ ~ Oversized(sentences[index]) /\ chunks' = Append(chunks, <<R[index][1], R[last][2]>>)
        /\ IF last = Len(R) THEN NextSection
           ELSE index' = (IF start > index THEN start ELSE last + 1) /\ section' = section
    BY <1>5 DEF Pack, Emit, text
  <2>2. /\ section \in 1 .. Len(layout) /\ RowLaid(doc, R)
        /\ index \in 1 .. Len(R) /\ Len(R) \in Nat \ {0} /\ R[index][1] \in Nat \ {0}
    BY <2>1, InHand DEF ChunkInv
  <2>3. last \in index .. Len(R)
    BY <2>1, PackedWithin
  <2>4. last \in 1 .. Len(R) /\ index <= last /\ last \in Nat
    BY <2>2, <2>3
  <2>5. start \in 1 .. last + 1
    BY <2>1, <2>4, OverlapWithin
  <2>6. Reached = R[index][1] - 1
    BY <2>1 DEF Reached, NextWord
  <2> HIDE DEF last, start
  <2>7. CASE \/ last = Len(R) /\ NextSection
             \/ last # Len(R) /\ index' = last + 1 /\ section' = section
    <3>1. Reached' = R[last][2]
      <4> HIDE DEF R
      <4>1. last \in 1 .. Len(sentences)
            /\ \/ last = Len(sentences) /\ NextSection
               \/ last # Len(sentences) /\ index' = last + 1 /\ section' = section
        BY <2>4, <2>7 DEF R
      <4> QED
        BY <2>1, <4>1, SteppedPast DEF text, R
    <3>2. R[index][1] <= R[index][2] /\ R[index][2] <= R[last][2]
          /\ R[index][1] \in Nat /\ R[index][2] \in Nat /\ R[last][2] \in Nat
      BY <2>2, <2>4, RowOrder DEF RowLaid
    <3>3. Reached' > Reached
      BY <2>6, <3>1, <3>2
    <3> QED
      BY <2>1, <3>3
  <2>8. CASE last # Len(R) /\ index' = start /\ section' = section /\ start > index /\ start # last + 1
    <3>1. start \in 1 .. Len(R) /\ start \in Nat /\ index < start
      BY <2>2, <2>4, <2>5, <2>8
    <3>2. R[start][1] \in Nat /\ R[index][1] < R[start][1]
      BY <2>2, <3>1, RowOrder DEF RowLaid
    <3>3. More' /\ sentences' = sentences
      BY <2>1, <2>8 DEF More, sentences
    <3>4. Reached' = R[start][1] - 1
      BY <2>1, <2>8, <3>3 DEF Reached, NextWord
    <3>5. Reached' > Reached
      BY <2>2, <2>6, <3>2, <3>4
    <3> QED
      BY <2>1, <3>5
  <2>9. \/ last = Len(R) /\ NextSection
        \/ last # Len(R) /\ index' = last + 1 /\ section' = section
        \/ last # Len(R) /\ index' = start /\ section' = section /\ start > index /\ start # last + 1
    BY <2>1
  <2> QED
    BY <2>7, <2>8, <2>9
<1> QED
  BY <1>2, <1>3, <1>4, <1>5 DEF ChunkNext

\* Nothing is left exactly where the loops have ended.
LEMMA TogoCounts ==
  ASSUME ChunkInv
  PROVE  /\ Togo \in Nat /\ (Togo > 0 <=> More)
         /\ Reached \in Nat /\ Reached <= Len(doc) /\ Len(doc) \in Nat
<1>1. Len(doc) \in Nat
  BY DEF ChunkInv, Docs
<1>2. CASE More
  <2>1. /\ sentences[index][1] \in Nat \ {0} /\ sentences[index][2] \in Nat /\ rest \in Nat
        /\ sentences[index][1] <= sentences[index][2] /\ sentences[index][2] <= Len(doc)
    BY <1>2, InHand
  <2>2. rest # 0 => sentences[index][1] <= rest /\ rest <= sentences[index][2]
    BY DEF ChunkInv, Position
  <2>3. NextWord \in Nat \ {0} /\ NextWord <= Len(doc)
    BY <1>1, <2>1, <2>2 DEF NextWord
  <2>4. Reached = NextWord - 1
    BY <1>2 DEF Reached
  <2> HIDE DEF NextWord
  <2> QED
    BY <1>1, <1>2, <2>3, <2>4 DEF Togo
<1>3. CASE ~ More
  <2>1. rest = 0 /\ Reached = Len(doc)
    BY <1>3 DEF ChunkInv, Position, Reached
  <2> QED
    BY <1>1, <1>3, <2>1 DEF Togo
<1> QED
  BY <1>2, <1>3

LEMMA ReachedTyped == ChunkInv => Reached \in Nat
  BY TogoCounts

\* The loops of chunk_document end, whatever the document: something is left to
\* do, a number that is twice the words to begin with, exactly while there are
\* sentences left, and every turn of a loop leaves less of it.
THEOREM LoopsEnd ==
  ChunkSpec => /\ [](Togo \in Nat /\ Togo <= 2 * Len(doc) /\ (Togo > 0 <=> More))
               /\ [][Togo' < Togo]_chunkVars
<1>0. ChunkInv' => (Reached \in Nat)'
  BY ReachedTyped, PTL
<1>1. ChunkInit => ChunkInv
  BY InitKept
<1>2. ChunkInv /\ [ChunkNext]_chunkVars => ChunkInv'
  BY ChunkStep
<1>3. ChunkInv => Togo \in Nat /\ Togo <= 2 * Len(doc) /\ (Togo > 0 <=> More)
  <2> SUFFICES ASSUME ChunkInv
               PROVE  Togo <= 2 * Len(doc)
    BY TogoCounts
  <2> QED
    BY TogoCounts DEF Togo
<1>4. ChunkInv /\ ChunkInv' /\ [ChunkNext]_chunkVars => [Togo' < Togo]_chunkVars
  <2> SUFFICES ASSUME ChunkInv, ChunkInv', ChunkNext
               PROVE  Togo' < Togo
    OBVIOUS
  <2>1. Reached \in Nat /\ Reached' \in Nat /\ Len(doc) \in Nat /\ doc' = doc
    <3>1. Reached \in Nat /\ Len(doc) \in Nat
      BY TogoCounts
    <3>2. Reached' \in Nat
      BY <1>0
    <3> QED
      BY <3>1, <3>2, MovesOn
  <2>2. \/ Reached' = Reached /\ rest = 0 /\ rest' # 0
        \/ Reached' > Reached
    BY MovesOn
  <2>3. Togo' = 2 * (Len(doc) - Reached') - (IF rest' # 0 THEN 1 ELSE 0)
    BY <2>1 DEF Togo
  <2> HIDE DEF Reached
  <2> QED
    BY <2>1, <2>2, <2>3 DEF Togo
<1> QED
  BY <1>1, <1>2, <1>3, <1>4, PTL DEF ChunkSpec

\* A document has never more chunks than words: each takes the text further.
THEOREM ChunksFew == ChunkSpec => [](Len(chunks) <= Len(doc))
<1> DEFINE Few == Len(chunks) <= Reached
<1>0. ChunkInv' => (Reached \in Nat)'
  BY ReachedTyped, PTL
<1>1. ChunkInit => ChunkInv /\ Few
  <2> SUFFICES ASSUME ChunkInit
               PROVE  Few
    BY InitKept
  <2>1. Len(chunks) = 0
    BY DEF ChunkInit
  <2>2. Reached \in Nat
    BY InitKept, TogoCounts
  <2> QED
    BY <2>1, <2>2
<1>2. ChunkInv /\ Few /\ [ChunkNext]_chunkVars => ChunkInv' /\ Few'
  <2> SUFFICES ASSUME ChunkInv, Few, [ChunkNext]_chunkVars
               PROVE  Few'
    BY ChunkStep
  <2>1. CASE ChunkNext
    <3>1. Reached \in Nat /\ Len(chunks) \in Nat /\ chunks \in Seq(Nat \X Nat)
      <4>1. chunks \in Seq(Nat \X Nat)
        BY DEF ChunkInv, Kept
      <4> QED
        BY <4>1, TogoCounts
    <3>2. Reached' \in Nat
      <4>1. ChunkInv'
        BY ChunkStep
      <4> QED
        BY <1>0, <4>1
    <3>3. CASE Reached' = Reached /\ chunks' = chunks
      BY <3>3
    <3>4. CASE Reached' > Reached /\ \E c : chunks' = Append(chunks, c)
      <4>1. Len(chunks') = Len(chunks) + 1
        BY <3>1, <3>4
      <4> QED
        BY <3>1, <3>2, <3>4, <4>1
    <3> QED
      BY <2>1, <3>3, <3>4, MovesOn
  <2>2. CASE UNCHANGED chunkVars
    <3>1. Reached' = Reached /\ chunks' = chunks
      BY <2>2 DEF chunkVars, Reached, More, NextWord, sentences
    <3> QED
      BY <3>1
  <2> QED
    BY <2>1, <2>2
<1>3. ChunkInv /\ Few => Len(chunks) <= Len(doc)
  <2> SUFFICES ASSUME ChunkInv, Few
               PROVE  Len(chunks) <= Len(doc)
    OBVIOUS
  <2>1. Len(chunks) \in Nat
    BY DEF ChunkInv, Kept
  <2> QED
    BY <2>1, TogoCounts
<1> HIDE DEF Few
<1> QED
  BY <1>1, <1>2, <1>3, PTL DEF ChunkSpec

-----------------------------------------------------------------------------
(* Answers from the cache, and the filter (Retrieval).                     *)

\* None is no attribute, no level and no reason to refuse.
LEMMA NoneIsApart ==
  /\ \A d \in Denials : d # None
  /\ \A l \in Levels : l # None
  BY PolicyAssumption DEF Levels, PUBLIC, RESTRICTED

-----------------------------------------------------------------------------
(* Retrieval and its cache: the types.                                     *)

\* A key is typed whatever turn it is derived for.
LEMMA KeysTyped ==
  ASSUME TypeOK, NEW turn \in Turns, turn.who \in Contexts, turn.question \in Question
  PROVE  key_for(turn) \in Keys
<1>1. turn.who.company \in Company /\ active[turn.who.company] \in Version
  BY DEF TypeOK, Contexts
<1>2. permission_fingerprint(turn.who) \in
        [company : Company, department : Department \cup {None},
         country : Country \cup {None}, codes : SUBSET Codes]
  BY DEF permission_fingerprint, Contexts
<1> QED
  BY <1>1, <1>2 DEF key_for, Keys

LEMMA IdleTyped == Idle \in Turns
  BY DEF Idle, Turns, Answers, NoAnswer

\* A turn as Ask starts it.
Started(u, q) ==
    [Idle EXCEPT !.phase = "searching", !.who = people[u], !.question = q,
                 !.version = active[people[u].company]]

LEMMA StartedTyped ==
  ASSUME TypeOK, NEW u \in User, NEW q \in Question
  PROVE  /\ Started(u, q) \in Turns
         /\ Started(u, q).phase = "searching" /\ Started(u, q).who = people[u]
         /\ Started(u, q).question = q /\ Started(u, q).answer = NoAnswer
         /\ Started(u, q).version = active[people[u].company]
<1>1. people[u] \in Contexts /\ active[people[u].company] \in Version
  BY DEF TypeOK, Contexts
<1>2. Idle.answer = NoAnswer
  BY DEF Idle
<1> QED
  BY <1>1, <1>2, IdleTyped DEF Started, Turns

\* A turn that is served an answer is otherwise as it was.
Hit(turn, e) == [turn EXCEPT !.phase = "answered", !.answer = e.answer,
                             !.overtaken = e.overtaken]

LEMMA HitTyped ==
  ASSUME NEW turn \in Turns, NEW e \in Entries
  PROVE  /\ Hit(turn, e) \in Turns
         /\ Hit(turn, e).phase = "answered"
         /\ Hit(turn, e).who = turn.who /\ Hit(turn, e).question = turn.question
         /\ Hit(turn, e).version = turn.version
         /\ Hit(turn, e).answer = e.answer /\ Hit(turn, e).overtaken = e.overtaken
<1>1. e.answer \in Answers /\ e.overtaken \in BOOLEAN
  BY DEF Entries
<1> QED
  BY <1>1 DEF Hit, Turns

\* The entry a turn is served from, if it is served one.
ServedFrom(turn, e) ==
    /\ e.key = key_for(turn)
    /\ turn.phase = "answered"
    /\ turn.answer = e.answer /\ turn.overtaken = e.overtaken

\* What Ask makes of a turn: a search, or a hit.
LEMMA AskEither ==
  ASSUME TypeOK, NEW t \in Turn, NEW u \in User, NEW q \in Question, Ask(t, u, q)
  PROVE  \E turn \in Turns :
            /\ turns' = [turns EXCEPT ![t] = turn]
            /\ turn.who = people[u] /\ turn.question = q
            /\ turn.version = active[people[u].company]
            /\ \/ turn.phase = "searching" /\ turn.answer = NoAnswer
               \/ \E e \in cache : ServedFrom(turn, e)
<1>1. CASE turns' = [turns EXCEPT ![t] = Started(u, q)]
  BY <1>1, StartedTyped
<1>2. ASSUME NEW e \in cache, e.key = key_for(Started(u, q)),
             turns' = [turns EXCEPT ![t] =
                [Started(u, q) EXCEPT !.phase = "answered", !.answer = e.answer,
                                      !.overtaken = e.overtaken]]
      PROVE  \E turn \in Turns :
                /\ turns' = [turns EXCEPT ![t] = turn]
                /\ turn.who = people[u] /\ turn.question = q
                /\ turn.version = active[people[u].company]
                /\ ServedFrom(turn, e)
  <2>1. e \in Entries
    BY DEF TypeOK
  <2>2. turns' = [turns EXCEPT ![t] = Hit(Started(u, q), e)]
    BY <1>2 DEF Hit
  <2>3. key_for(Hit(Started(u, q), e)) = key_for(Started(u, q))
    BY <2>1, StartedTyped, HitTyped DEF key_for
  <2>4. /\ Hit(Started(u, q), e) \in Turns
        /\ Hit(Started(u, q), e).who = people[u] /\ Hit(Started(u, q), e).question = q
        /\ Hit(Started(u, q), e).version = active[people[u].company]
    BY <2>1, StartedTyped, HitTyped
  <2>5. ServedFrom(Hit(Started(u, q), e), e)
    BY <1>2, <2>1, <2>3, StartedTyped, HitTyped DEF ServedFrom
  <2> QED
    BY <2>2, <2>4, <2>5
<1> QED
  BY <1>1, <1>2 DEF Ask, Started

\* What Search makes of a turn.
Hits(s) == {d \in Indexed : Admits(FilterOf(s), d)}
Found(s) == [docs |-> Hits(s), from |-> active[s.company],
             beyond |-> {d \in Hits(s) : Beyond(FilterOf(s), d)}]

LEMMA SearchFinds ==
  ASSUME TypeOK, NEW t \in Turn, Search(t)
  PROVE  \E turn \in Turns :
            /\ turns' = [turns EXCEPT ![t] = turn]
            /\ turn.who = turns[t].who /\ turn.who \in Contexts
            /\ turn.question = turns[t].question /\ turn.question \in Question
            /\ turn.phase = "found" /\ turn.answer = Found(turn.who)
<1> DEFINE s == turns[t].who
           turn == [turns[t] EXCEPT !.phase = "found", !.overtaken = FALSE,
                                    !.version = active[s.company], !.answer = Found(s)]
<1>1. turns[t] \in Turns /\ s \in Contexts /\ turns[t].question \in Question
  BY DEF TypeOK, Search
<1>2. active[s.company] \in Version
  BY <1>1 DEF TypeOK, Contexts
<1>3. Found(s) \in Answers
  BY <1>2 DEF Found, Hits, Indexed, Answers
<1>4. /\ turn \in Turns
      /\ turn.who = turns[t].who /\ turn.question = turns[t].question
      /\ turn.phase = "found" /\ turn.answer = Found(s)
  BY <1>1, <1>2, <1>3 DEF Turns
<1>5. turns' = [turns EXCEPT ![t] = turn]
  BY DEF Search, Found, Hits
<1> HIDE DEF turn
<1> QED
  BY <1>1, <1>4, <1>5

\* Users, grants, versions, turns and entries keep their types.
THEOREM TypeCorrect == Spec => []TypeOK
<1>1. Init => TypeOK
  <2> SUFFICES ASSUME Init
               PROVE  TypeOK
    OBVIOUS
  <2>1. people \in [User -> Contexts] /\ \A u \in User : people[u] \in Staff[u]
    BY RetrievalAssumption DEF Init
  <2>2. \A d \in Document : Shares[d] \subseteq SUBSET Grants
    BY RetrievalAssumption
  <2>3. grants \in [Document -> SUBSET Grants] /\ \A d \in Document : grants[d] \in Shares[d]
    BY <2>2 DEF Init
  <2>4. turns \in [Turn -> Turns] /\ \A t \in Turn : turns[t].phase = "idle"
    BY IdleTyped DEF Init, Idle
  <2> QED
    BY <2>1, <2>3, <2>4 DEF Init, TypeOK
<1>2. TypeOK /\ [Next]_vars => TypeOK'
  <2> SUFFICES ASSUME TypeOK, [Next]_vars
               PROVE  TypeOK'
    OBVIOUS
  <2>0. ASSUME NEW t \in Turn, NEW turn \in Turns,
               turn.phase # "idle" => turn.who \in Contexts /\ turn.question \in Question,
               turns' = [turns EXCEPT ![t] = turn],
               UNCHANGED <<people, grants, active, cache>>
        PROVE  TypeOK'
    <3>1. turns' \in [Turn -> Turns]
      BY <2>0 DEF TypeOK
    <3>2. \A v \in Turn : turns'[v].phase # "idle" =>
            turns'[v].who \in Contexts /\ turns'[v].question \in Question
      BY <2>0 DEF TypeOK
    <3> QED
      BY <2>0, <3>1, <3>2 DEF TypeOK
  <2>1. ASSUME NEW t \in Turn, NEW u \in User, NEW q \in Question, Ask(t, u, q)
        PROVE  TypeOK'
    <3>1. UNCHANGED <<people, grants, active, cache>>
      BY <2>1 DEF Ask
    <3>2. people[u] \in Contexts
      BY DEF TypeOK
    <3> QED
      BY <2>0, <2>1, <3>1, <3>2, AskEither
  <2>2. ASSUME NEW t \in Turn, Search(t)
        PROVE  TypeOK'
    <3>1. UNCHANGED <<people, grants, active, cache>>
      BY <2>2 DEF Search
    <3> QED
      BY <2>0, <2>2, <3>1, SearchFinds
  <2>3. ASSUME NEW t \in Turn, turns' = [turns EXCEPT ![t] = Idle],
               UNCHANGED <<people, grants, active>>, cache' \subseteq Entries,
               \A e, f \in cache' : e.key = f.key => e = f
        PROVE  TypeOK'
    <3>1. turns' \in [Turn -> Turns]
      BY <2>3, IdleTyped DEF TypeOK
    <3>2. \A v \in Turn : turns'[v].phase # "idle" =>
            turns'[v].who \in Contexts /\ turns'[v].question \in Question
      BY <2>3 DEF TypeOK, Idle
    <3> QED
      BY <2>3, <3>1, <3>2 DEF TypeOK
  <2>4. ASSUME NEW t \in Turn, NEW body \in Bodies, Store(t, body)
        PROVE  TypeOK'
    <3> DEFINE key == key_for(turns[t])
               entry == [key |-> key, answer |-> turns[t].answer,
                         overtaken |-> turns[t].overtaken]
    <3>1. turns[t] \in Turns /\ turns[t].who \in Contexts /\ turns[t].question \in Question
      BY <2>4 DEF TypeOK, Store
    <3>2. key \in Keys
      BY <3>1, KeysTyped
    <3>3. entry \in Entries
      BY <3>1, <3>2 DEF Entries, Turns
    <3>4. cache' = {e \in cache : e.key # key} \cup {entry}
      BY <2>4 DEF Store
    <3>5. entry.key = key
      OBVIOUS
    <3> HIDE DEF key, entry
    <3>6. cache' \subseteq Entries /\ \A e, f \in cache' : e.key = f.key => e = f
      BY <3>3, <3>4, <3>5 DEF TypeOK
    <3> QED
      BY <2>3, <2>4, <3>6 DEF Store
  <2>5. ASSUME NEW t \in Turn, NEW body \in Bodies, RefuseStore(t, body)
        PROVE  TypeOK'
    BY <2>3, <2>5 DEF RefuseStore, TypeOK
  <2>6. ASSUME NEW t \in Turn, Leave(t)
        PROVE  TypeOK'
    BY <2>3, <2>6 DEF Leave, TypeOK
  <2>7. ASSUME NEW u \in User, NEW s \in Staff[u], Reassign(u, s)
        PROVE  TypeOK'
    <3>1. s \in Contexts
      BY RetrievalAssumption
    <3> QED
      BY <2>7, <3>1 DEF Reassign, TypeOK
  <2>8. ASSUME NEW d \in Document, NEW gs \in Shares[d], Share(d, gs)
        PROVE  TypeOK'
    <3>1. gs \in SUBSET Grants
      BY RetrievalAssumption
    <3> QED
      BY <2>8, <3>1 DEF Share, TypeOK
  <2>9. ASSUME NEW c \in Company, NEW v \in Version, Publish(c, v)
        PROVE  TypeOK'
    <3>1. active' \in [Company -> Version]
      BY <2>9 DEF Publish, TypeOK
    <3>2. \A t \in Turn : /\ turns'[t] \in Turns
                          /\ turns'[t].phase = turns[t].phase
                          /\ turns'[t].who = turns[t].who
                          /\ turns'[t].question = turns[t].question
      BY <2>9 DEF Publish, TypeOK, Turns
    <3>3. turns' \in [Turn -> Turns]
      BY <2>9, <3>2 DEF Publish
    <3> QED
      BY <2>9, <3>1, <3>2, <3>3 DEF Publish, TypeOK
  <2>10. ASSUME NEW e \in cache, Expire(e)
         PROVE  TypeOK'
    BY <2>10 DEF Expire, TypeOK
  <2>11. CASE UNCHANGED vars
    BY <2>11 DEF vars, TypeOK
  <2> QED
    BY <2>1, <2>2, <2>4, <2>5, <2>6, <2>7, <2>8, <2>9, <2>10, <2>11 DEF Next
<1> QED
  BY <1>1, <1>2, PTL DEF Spec

-----------------------------------------------------------------------------
(* What an answer holds, from the search through the cache to a reader who *)
(* need not be the one it was searched for: what the key keeps apart is    *)
(* what the filter let through by attributes.                              *)

Within(company, department, country, a) ==
    \A d \in a.docs :
        /\ Meta[d].company = company
        /\ Meta[d].classification <= INTERNAL
        /\ d \notin a.beyond => /\ Meta[d].department \in {None, department}
                                /\ Meta[d].country \in {None, country}

TurnHolds(turn) ==
    /\ turn.phase \in {"idle", "searching"} => turn.answer = NoAnswer
    /\ turn.phase \in {"found", "answered"} =>
         Within(turn.who.company, turn.who.department, turn.who.country, turn.answer)
    /\ turn.phase = "found" /\ ~turn.overtaken =>
         turn.answer.from = active[turn.who.company]
    /\ turn.phase = "answered" /\ ~turn.overtaken => turn.answer.from = turn.version

EntryHolds(e) ==
    /\ Within(e.key.company, e.key.fingerprint.department, e.key.fingerprint.country, e.answer)
    /\ ~e.overtaken => e.answer.from = e.key.version

CacheHolds ==
    /\ \A t \in Turn : TurnHolds(turns[t])
    /\ \A e \in cache : EntryHolds(e)

\* The search finds nothing that the filter's own clauses do not admit.
LEMMA FoundWithin ==
  ASSUME NEW s PROVE Within(s.company, s.department, s.country, Found(s))
<1> SUFFICES ASSUME NEW d \in Hits(s)
             PROVE  /\ Meta[d].company = s.company
                    /\ Meta[d].classification <= INTERNAL
                    /\ d \notin Found(s).beyond => /\ Meta[d].department \in {None, s.department}
                                                   /\ Meta[d].country \in {None, s.country}
  BY DEF Within, Found
<1>1. Admits(FilterOf(s), d)
  BY DEF Hits
<1>2. /\ FilterOf(s).company = {s.company}
      /\ FilterOf(s).levels = {l \in Levels : l <= INTERNAL}
      /\ FilterOf(s).department = {None, s.department}
      /\ FilterOf(s).country = {None, s.country}
  BY DEF FilterOf, qdrant_filter, attribute_clause, MAX_ANONYMOUS_CLASSIFICATION
<1>3. d \notin Found(s).beyond => ByAttributes(FilterOf(s), d)
  BY <1>1 DEF Found, Admits
<1> QED
  BY <1>1, <1>2, <1>3 DEF Admits, ByAttributes

\* What a key says of its company, department, country and version.
LEMMA KeysTell ==
  ASSUME NEW turn
  PROVE  /\ key_for(turn).company = turn.who.company
         /\ key_for(turn).fingerprint.department = turn.who.department
         /\ key_for(turn).fingerprint.country = turn.who.country
         /\ key_for(turn).version = active[turn.who.company]
  BY DEF key_for, permission_fingerprint

LEMMA CacheHoldsInvariant == Spec => []CacheHolds
<1>1. Init => CacheHolds
  BY DEF Init, CacheHolds, TurnHolds, Idle
<1>2. TypeOK /\ CacheHolds /\ [Next]_vars => CacheHolds'
  <2> SUFFICES ASSUME TypeOK, CacheHolds, [Next]_vars
               PROVE  CacheHolds'
    OBVIOUS
  <2>0. ASSUME NEW t \in Turn, NEW turn, TurnHolds(turn),
               turns' = [turns EXCEPT ![t] = turn], UNCHANGED active,
               \A e \in cache' : EntryHolds(e)
        PROVE  CacheHolds'
    <3>1. \A v \in Turn : turns'[v] = turn \/ turns'[v] = turns[v]
      BY <2>0 DEF TypeOK
    <3>2. \A v \in Turn : TurnHolds(turns'[v])
      BY <2>0, <3>1 DEF CacheHolds
    <3>3. \A v \in Turn : TurnHolds(turns[v])'
      BY <2>0, <3>2 DEF TurnHolds
    <3> QED
      BY <2>0, <3>3 DEF CacheHolds, EntryHolds
  <2>1. ASSUME NEW t \in Turn, NEW u \in User, NEW q \in Question, Ask(t, u, q)
        PROVE  CacheHolds'
    <3>1. PICK turn \in Turns :
            /\ turns' = [turns EXCEPT ![t] = turn]
            /\ turn.who = people[u] /\ turn.question = q
            /\ turn.version = active[people[u].company]
            /\ \/ turn.phase = "searching" /\ turn.answer = NoAnswer
               \/ \E e \in cache : ServedFrom(turn, e)
      BY <2>1, AskEither
    <3>2. ASSUME turn.phase = "searching", turn.answer = NoAnswer
          PROVE  TurnHolds(turn)
      BY <3>2 DEF TurnHolds
    <3>3. ASSUME NEW e \in cache, ServedFrom(turn, e)
          PROVE  TurnHolds(turn)
      <4>1. EntryHolds(e)
        BY DEF CacheHolds
      <4>2. /\ e.key.company = turn.who.company /\ e.key.version = turn.version
            /\ e.key.fingerprint.department = turn.who.department
            /\ e.key.fingerprint.country = turn.who.country
        BY <3>1, <3>3, KeysTell DEF ServedFrom
      <4> QED
        BY <3>3, <4>1, <4>2 DEF TurnHolds, EntryHolds, ServedFrom
    <3>4. TurnHolds(turn)
      BY <3>1, <3>2, <3>3
    <3>5. UNCHANGED <<active, cache>>
      BY <2>1 DEF Ask
    <3> QED
      BY <2>0, <3>1, <3>4, <3>5 DEF CacheHolds
  <2>2. ASSUME NEW t \in Turn, Search(t)
        PROVE  CacheHolds'
    <3>1. PICK turn \in Turns :
            /\ turns' = [turns EXCEPT ![t] = turn]
            /\ turn.phase = "found" /\ turn.answer = Found(turn.who)
      BY <2>2, SearchFinds
    <3>2. TurnHolds(turn)
      <4>1. Within(turn.who.company, turn.who.department, turn.who.country, turn.answer)
        BY <3>1, FoundWithin
      <4>2. turn.answer.from = active[turn.who.company]
        BY <3>1 DEF Found
      <4> QED
        BY <3>1, <4>1, <4>2 DEF TurnHolds
    <3>3. UNCHANGED <<active, cache>>
      BY <2>2 DEF Search
    <3> QED
      BY <2>0, <3>1, <3>2, <3>3 DEF CacheHolds
  <2>3. TurnHolds(Idle)
    BY DEF TurnHolds, Idle
  <2>4. ASSUME NEW t \in Turn, NEW body \in Bodies, Store(t, body)
        PROVE  CacheHolds'
    <3> DEFINE key == key_for(turns[t])
               entry == [key |-> key, answer |-> turns[t].answer,
                         overtaken |-> turns[t].overtaken]
    <3>1. TurnHolds(turns[t]) /\ turns[t].phase = "found"
      BY <2>4 DEF CacheHolds, Store
    <3>2. EntryHolds(entry)
      BY <3>1, KeysTell DEF TurnHolds, EntryHolds
    <3>3. cache' = {e \in cache : e.key # key} \cup {entry}
      BY <2>4 DEF Store
    <3> HIDE DEF key, entry
    <3>4. \A e \in cache' : EntryHolds(e)
      BY <3>2, <3>3 DEF CacheHolds
    <3>5. turns' = [turns EXCEPT ![t] = Idle] /\ UNCHANGED active
      BY <2>4 DEF Store
    <3> QED
      BY <2>0, <2>3, <3>4, <3>5
  <2>5. ASSUME NEW t \in Turn, NEW body \in Bodies, RefuseStore(t, body)
        PROVE  CacheHolds'
    BY <2>0, <2>3, <2>5 DEF RefuseStore, CacheHolds
  <2>6. ASSUME NEW t \in Turn, Leave(t)
        PROVE  CacheHolds'
    BY <2>0, <2>3, <2>6 DEF Leave, CacheHolds
  <2>7. ASSUME UNCHANGED <<active, turns>>, cache' \subseteq cache
        PROVE  CacheHolds'
    BY <2>7 DEF CacheHolds, TurnHolds, EntryHolds
  <2>8. ASSUME NEW c \in Company, NEW v \in Version, Publish(c, v)
        PROVE  CacheHolds'
    <3>1. UNCHANGED cache /\ active' = [active EXCEPT ![c] = v]
      BY <2>8 DEF Publish
    <3>2. ASSUME NEW t \in Turn
          PROVE  TurnHolds(turns[t])'
      <4>1. turns[t] \in Turns /\ TurnHolds(turns[t])
        BY DEF TypeOK, CacheHolds
      <4>2. CASE turns[t].phase = "found" /\ turns[t].who.company = c
        <5>1. turns'[t] = [turns[t] EXCEPT !.overtaken = TRUE]
          BY <2>8, <4>2 DEF Publish
        <5>2. /\ turns'[t].overtaken /\ turns'[t].phase = turns[t].phase
              /\ turns'[t].who = turns[t].who /\ turns'[t].answer = turns[t].answer
          BY <4>1, <5>1 DEF Turns
        <5> QED
          BY <4>1, <4>2, <5>2 DEF TurnHolds
      <4>3. CASE ~(turns[t].phase = "found" /\ turns[t].who.company = c)
        <5>1. turns'[t] = turns[t]
          BY <2>8, <4>3 DEF Publish
        <5>2. turns[t].phase = "found" =>
                active'[turns[t].who.company] = active[turns[t].who.company]
          BY <3>1, <4>3 DEF TypeOK, Contexts
        <5> QED
          BY <4>1, <5>1, <5>2 DEF TurnHolds
      <4> QED
        BY <4>2, <4>3
    <3> QED
      BY <3>1, <3>2 DEF CacheHolds, EntryHolds
  <2> QED
    BY <2>1, <2>2, <2>4, <2>5, <2>6, <2>7, <2>8
       DEF Next, Reassign, Share, Expire, vars
<1> QED
  BY <1>1, <1>2, TypeCorrect, PTL DEF Spec

\* What is served from the cache is of the reader's own tenant, department and
\* country, but for what reached the first asker otherwise, and of the version
\* the reader asks for, unless it was overtaken on its way into the cache.
THEOREM AnswersHoldAlways == Spec => []AnswersHold
<1>1. TypeOK /\ CacheHolds => AnswersHold
  <2> SUFFICES ASSUME TypeOK, CacheHolds
               PROVE  AnswersHold
    OBVIOUS
  <2>1. \A t \in Turn : TurnHolds(turns[t]) /\ turns[t] \in Turns
    BY DEF CacheHolds, TypeOK
  <2>2. AttributesHold
    <3> SUFFICES ASSUME NEW t \in Turn, turns[t].phase # "idle",
                        NEW d \in turns[t].answer.docs \ turns[t].answer.beyond
                 PROVE  /\ Meta[d].company = turns[t].who.company
                        /\ Meta[d].department \in {None, turns[t].who.department}
                        /\ Meta[d].country \in {None, turns[t].who.country}
      BY DEF AttributesHold
    <3>1. turns[t].answer # NoAnswer
      BY DEF NoAnswer
    <3>2. turns[t].phase \in {"found", "answered"}
      BY <2>1, <3>1 DEF TurnHolds, Turns
    <3> QED
      BY <2>1, <3>2 DEF TurnHolds, Within
  <2>3. ServedCurrent
    BY <2>1 DEF ServedCurrent, TurnHolds
  <2> QED
    BY <2>2, <2>3 DEF AnswersHold
<1> QED
  BY <1>1, TypeCorrect, CacheHoldsInvariant, PTL

\* The filter and the engine never part: nothing anybody is served is of
\* another tenant or above the ceiling, and the search misses no document of an
\* ordinary level that a grant opens to its reader.
THEOREM FilterAgrees == Spec => []FilterAgreesWithEngine
<1>1. TypeOK /\ CacheHolds => FilterAgreesWithEngine
  <2> SUFFICES ASSUME TypeOK, CacheHolds
               PROVE  FilterAgreesWithEngine
    OBVIOUS
  <2>1. ASSUME NEW t \in Turn, NEW d \in turns[t].answer.docs
        PROVE  /\ TenantLayer(turns[t].who, AsResource(d)) = None
               /\ ClassificationLayer(turns[t].who, AsResource(d), Gates) = None
    <3>1. TurnHolds(turns[t]) /\ turns[t] \in Turns
      BY DEF CacheHolds, TypeOK
    <3>2. turns[t].answer # NoAnswer /\ d \in Document
      BY <3>1 DEF NoAnswer, Turns, Answers
    <3>3. Meta[d].company = turns[t].who.company /\ Meta[d].classification <= INTERNAL
      BY <3>1, <3>2 DEF TurnHolds, Turns, Within
    <3>4. Meta[d].company \in Company /\ Meta[d].classification \in Levels
      BY <3>2, RetrievalAssumption
    <3>5. Meta[d].company # None /\ Meta[d].classification # None
      BY <3>4, NoneIsApart, RetrievalAssumption
    <3>6. Meta[d].classification # RESTRICTED
      BY <3>3 DEF INTERNAL, RESTRICTED
    <3>7. TenantLayer(turns[t].who, AsResource(d)) = None
      BY <3>3, <3>5 DEF TenantLayer, AsResource
    <3>8. ClassificationLayer(turns[t].who, AsResource(d), Gates) = None
      BY <3>5, <3>6 DEF ClassificationLayer, AsResource, Gates
    <3> QED
      BY <3>7, <3>8
  <2>2. ASSUME NEW u \in User, NEW d \in Document,
               TenantLayer(people[u], AsResource(d)) = None,
               Meta[d].classification <= INTERNAL,
               AclLayer(people[u], AsResource(d), [Gates EXCEPT !.acl_gated = TRUE]) = None
        PROVE  Admits(FilterOf(people[u]), d)
    <3>1. Meta[d].company = people[u].company
      BY <2>2, NoneIsApart DEF TenantLayer, AsResource, Denials
    <3>2. [Gates EXCEPT !.acl_gated = TRUE].acl_gated
      BY DEF Gates
    <3>3. AclMatches(people[u], grants[d])
      BY <2>2, <3>2, NoneIsApart DEF AclLayer, AsResource, Denials
    <3>4. d \in FilterOf(people[u]).document
      BY <3>3 DEF FilterOf, qdrant_filter, Resolved
    <3>5. Meta[d].classification \in FilterOf(people[u]).levels
      BY <2>2, RetrievalAssumption
         DEF FilterOf, qdrant_filter, MAX_ANONYMOUS_CLASSIFICATION
    <3>6. Meta[d].company \in FilterOf(people[u]).company
      BY <3>1 DEF FilterOf, qdrant_filter
    <3> QED
      BY <3>4, <3>5, <3>6 DEF Admits, Beyond
  <2> QED
    BY <2>1, <2>2 DEF FilterAgreesWithEngine
<1> QED
  BY <1>1, TypeCorrect, CacheHoldsInvariant, PTL
=============================================================================
