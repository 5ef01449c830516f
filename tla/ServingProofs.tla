---------------------------- MODULE ServingProofs ----------------------------
(***************************************************************************)
(* Proofs about Serving, for any store, any runs, any queries and any      *)
(* rankings by content.                                                    *)
(***************************************************************************)
EXTENDS Serving, GraphStoreProofs, DataLemmas

-----------------------------------------------------------------------------
(* Rankings *)

\* A list that has every element of a set once.
Ranks(r, S) ==
  /\ r \in Seq(S) /\ Len(r) = Cardinality(S) /\ Cardinality(S) \in Nat
  /\ \A x \in S : \E i \in 1..Cardinality(S) : r[i] = x
  /\ \A i, j \in 1..Cardinality(S) : r[i] = r[j] => i = j

\* The one with the better score comes first, or of equals the first by id.
Before(score, x, y) == score[x] > score[y] \/ (score[x] = score[y] /\ x < y)

BestFirst(r, score) == \A i, j \in 1..Len(r) : i < j => Before(score, r[i], r[j])

\* A ranking has everything that has a score, the best first.
LEMMA RankingSorts ==
  ASSUME NEW S, S \subseteq Int, IsFiniteSet(S),
         NEW score, DOMAIN score = S, \A x \in S : score[x] \in Int
  PROVE  Ranks(Ranking(score), S) /\ BestFirst(Ranking(score), score)
<1> DEFINE item == [x \in S |-> <<x, score[x]>>]
           T == {<<x, score[x]>> : x \in S}
           Sooner(a, b) == a[2] > b[2] \/ (a[2] = b[2] /\ a[1] < b[1])
           order == {q \in T \X T : Sooner(q[1], q[2])}
           items == Ordered(T, Sooner)
<1>1. item \in Bijection(S, T)
  BY DEF Bijection, Injection, Surjection, IsInjective
<1>2. IsFiniteSet(T) /\ Cardinality(T) = Cardinality(S) /\ Cardinality(S) \in Nat
  <2> HIDE DEF item, T
  <2> QED
    BY <1>1, FS_Bijection, FS_CardinalityType DEF ExistsBijection
<1>3. \A a \in T : /\ a[1] \in S /\ a[1] \in Int /\ a[2] \in Int
                   /\ a = <<a[1], a[2]>> /\ a[2] = score[a[1]]
  OBVIOUS
<1>4. /\ \A a \in T : <<a, a>> \notin order
      /\ \A a, b \in T : a # b => <<a, b>> \in order \/ <<b, a>> \in order
      /\ \A a, b, c \in T : <<a, b>> \in order /\ <<b, c>> \in order => <<a, c>> \in order
  <2>1. \A a, b \in T : <<a, b>> \in order <=> Sooner(a, b)
    OBVIOUS
  <2>2. \A a, b \in T : a # b => a[1] # b[1]
    BY <1>3
  <2> HIDE DEF order, T
  <2> QED
    BY <1>3, <2>1, <2>2
<1>5. \A s : SortedBy(s, T, order) <=>
               /\ s \in [1..Cardinality(T) -> T]
               /\ \A i, j \in DOMAIN s : i < j => Sooner(s[i], s[j])
  <2> SUFFICES ASSUME NEW s, s \in [1..Cardinality(T) -> T]
               PROVE  (\A i, j \in 1..Cardinality(T) : i < j => <<s[i], s[j]>> \in order)
                        <=> \A i, j \in DOMAIN s : i < j => Sooner(s[i], s[j])
    BY DEF SortedBy
  <2>1. \A a, b \in T : <<a, b>> \in order <=> Sooner(a, b)
    OBVIOUS
  <2>2. DOMAIN s = 1..Cardinality(T) /\ \A i \in 1..Cardinality(T) : s[i] \in T
    OBVIOUS
  <2> HIDE DEF order, T
  <2> QED
    BY <2>1, <2>2
<1>6. SortedBy(items, T, order)
  <2>1. \E s : SortedBy(s, T, order)
    <3> HIDE DEF order, T
    <3> QED
      BY <1>2, <1>4, SortedExists
  <2>2. items = CHOOSE s \in [1..Cardinality(T) -> T] :
                  \A i, j \in DOMAIN s : i < j => Sooner(s[i], s[j])
    BY DEF Ordered
  <2>3. \E s \in [1..Cardinality(T) -> T] : \A i, j \in DOMAIN s : i < j => Sooner(s[i], s[j])
    <3> HIDE DEF order, T, items, Sooner
    <3> QED
      BY <1>5, <2>1
  <2> HIDE DEF order, T, items, Sooner
  <2> QED
    BY <1>5, <2>2, <2>3
<1>7. Ranking(score) = [i \in DOMAIN items |-> items[i][1]]
  BY DEF Ranking
<1> DEFINE n == Cardinality(S)
           r == Ranking(score)
<1>8. /\ items \in [1..n -> T] /\ DOMAIN items = 1..n
      /\ \A a \in T : \E i \in 1..n : items[i] = a
      /\ \A i, j \in 1..n : items[i] = items[j] => i = j
      /\ \A i, j \in 1..n : i < j => Sooner(items[i], items[j])
  <2> HIDE DEF items
  <2>1. /\ \A a \in T : \E i \in 1..Cardinality(T) : items[i] = a
        /\ \A i, j \in 1..Cardinality(T) : items[i] = items[j] => i = j
    <3> HIDE DEF order, T
    <3> QED
      BY <1>2, <1>4, <1>6, SortedHasAll
  <2>2. items \in [1..n -> T]
    BY <1>2, <1>6 DEF SortedBy
  <2> HIDE DEF Sooner, T
  <2> QED
    BY <1>2, <1>5, <1>6, <2>1, <2>2
<1> HIDE DEF items, order
<1>9. \A i \in 1..n : r[i] = items[i][1] /\ items[i] \in T /\ r[i] \in S
                      /\ items[i][2] = score[r[i]] /\ items[i] = <<r[i], score[r[i]]>>
  <2> SUFFICES ASSUME NEW i \in 1..n
               PROVE  r[i] = items[i][1] /\ items[i] \in T /\ r[i] \in S
                      /\ items[i][2] = score[r[i]] /\ items[i] = <<r[i], score[r[i]]>>
    OBVIOUS
  <2>1. r[i] = items[i][1] /\ items[i] \in T
    BY <1>7, <1>8
  <2> HIDE DEF T, r
  <2> QED
    BY <1>3, <2>1
<1>10. r \in [1..n -> S]
  <2> HIDE DEF T, n
  <2> QED
    BY <1>7, <1>8, <1>9
<1>11. r \in Seq(S) /\ Len(r) = n
  <2> HIDE DEF r
  <2> QED
    BY <1>2, <1>10, SeqOfFunction
<1>12. \A x \in S : \E i \in 1..n : r[i] = x
  <2> SUFFICES ASSUME NEW x \in S PROVE \E i \in 1..n : r[i] = x
    OBVIOUS
  <2>1. <<x, score[x]>> \in T
    OBVIOUS
  <2>2. PICK i \in 1..n : items[i] = <<x, score[x]>>
    BY <1>8, <2>1
  <2> QED
    BY <1>9, <2>2
<1>13. \A i, j \in 1..n : r[i] = r[j] => i = j
  <2> HIDE DEF r, T, n
  <2> QED
    BY <1>8, <1>9
<1>14. \A i, j \in 1..n : i < j => Before(score, r[i], r[j])
  <2> HIDE DEF r, T, n
  <2> QED
    BY <1>8, <1>9 DEF Before
<1> QED
  <2> HIDE DEF r, n
  <2>1. Ranks(r, S)
    BY <1>2, <1>11, <1>12, <1>13 DEF Ranks, n
  <2>2. BestFirst(r, score)
    BY <1>11, <1>14 DEF BestFirst
  <2> QED
    BY <2>1, <2>2 DEF r

\* What the list of a set's elements has, and where.
LEMMA RanksHave ==
  ASSUME NEW S, NEW r, Ranks(r, S)
  PROVE  /\ Range(r) = S /\ DOMAIN r = 1..Len(r) /\ Len(r) \in Nat
         /\ \A i \in 1..Len(r) : r[i] \in S
  BY LenProperties DEF Ranks, Range

\* The place an id has.
LEMMA RankProperties ==
  ASSUME NEW S, NEW r \in Seq(S), NEW id
  PROVE  /\ RankIn(r, id) \in 0..Len(r)
         /\ RankIn(r, id) # 0 <=> id \in Range(r)
         /\ id \in Range(r) => RankIn(r, id) \in DOMAIN r /\ r[RankIn(r, id)] = id
<1>1. DOMAIN r = 1..Len(r) /\ Len(r) \in Nat
  BY LenProperties
<1>2. CASE id \in Range(r)
  <2>1. \E i \in DOMAIN r : r[i] = id
    BY <1>2 DEF Range
  <2>2. RankIn(r, id) = CHOOSE i \in DOMAIN r : r[i] = id
    BY <1>2 DEF RankIn
  <2>3. RankIn(r, id) \in DOMAIN r /\ r[RankIn(r, id)] = id
    BY <2>1, <2>2
  <2> QED
    BY <1>1, <1>2, <2>3
<1>3. CASE id \notin Range(r)
  BY <1>1, <1>3 DEF RankIn
<1> QED
  BY <1>2, <1>3

\* In a list that has everything once it is the only one.
LEMMA RankUnique ==
  ASSUME NEW S, NEW r, Ranks(r, S), NEW i \in 1..Len(r)
  PROVE  RankIn(r, r[i]) = i
<1>1. r \in Seq(S) /\ Len(r) = Cardinality(S)
      /\ \A j, k \in 1..Cardinality(S) : r[j] = r[k] => j = k
  BY DEF Ranks
<1>2. DOMAIN r = 1..Len(r) /\ r[i] \in Range(r)
  BY RanksHave DEF Range
<1>3. RankIn(r, r[i]) \in DOMAIN r /\ r[RankIn(r, r[i])] = r[i]
  BY <1>1, <1>2, RankProperties
<1> QED
  BY <1>1, <1>2, <1>3

\* The first of a list.
LEMMA FirstOnes ==
  ASSUME NEW S, NEW r \in Seq(S), NEW k \in Nat
  PROVE  /\ FirstOf(r, k) \in Seq(S)
         /\ Len(FirstOf(r, k)) = IF k < Len(r) THEN k ELSE Len(r)
         /\ \A i \in 1..Len(FirstOf(r, k)) : i \in 1..Len(r) /\ FirstOf(r, k)[i] = r[i]
<1> DEFINE m == IF k < Len(r) THEN k ELSE Len(r)
<1>1. Len(r) \in Nat /\ \A i \in 1..Len(r) : r[i] \in S
  BY LenProperties
<1>2. m \in Nat /\ m <= Len(r)
  BY <1>1
<1>3. FirstOf(r, k) = SubSeq(r, 1, m)
  BY DEF FirstOf
<1> HIDE DEF m
<1>4. SubSeq(r, 1, m) = [i \in 1..m |-> r[i]]
  BY <1>1, <1>2
<1>5. SubSeq(r, 1, m) \in [1..m -> S]
  <2>1. \A i \in 1..m : r[i] \in S
    BY <1>1, <1>2
  <2> QED
    BY <1>4, <2>1
<1>6. FirstOf(r, k) \in Seq(S) /\ Len(FirstOf(r, k)) = m
  BY <1>2, <1>3, <1>5, SeqOfFunction
<1> QED
  BY <1>1, <1>2, <1>3, <1>4, <1>6 DEF m

\* sorted() of ids.
LEMMA SortedIds ==
  ASSUME NEW S, S \subseteq Int, IsFiniteSet(S)
  PROVE  /\ Ranks(Sorted(S), S)
         /\ \A i, j \in 1..Len(Sorted(S)) : i < j => Sorted(S)[i] < Sorted(S)[j]
<1> DEFINE Less(a, b) == a < b
           order == {q \in S \X S : q[1] < q[2]}
           n == Cardinality(S)
           r == Sorted(S)
<1>1. /\ \A a \in S : <<a, a>> \notin order
      /\ \A a, b \in S : a # b => <<a, b>> \in order \/ <<b, a>> \in order
      /\ \A a, b, c \in S : <<a, b>> \in order /\ <<b, c>> \in order => <<a, c>> \in order
  OBVIOUS
<1>2. n \in Nat
  BY FS_CardinalityType
<1>3. \A s : SortedBy(s, S, order) <=>
               s \in [1..n -> S] /\ \A i, j \in DOMAIN s : i < j => s[i] < s[j]
  <2> SUFFICES ASSUME NEW s, s \in [1..n -> S]
               PROVE  (\A i, j \in 1..n : i < j => <<s[i], s[j]>> \in order)
                        <=> \A i, j \in DOMAIN s : i < j => s[i] < s[j]
    BY DEF SortedBy
  <2>1. DOMAIN s = 1..n /\ \A i \in 1..n : s[i] \in S
    OBVIOUS
  <2> HIDE DEF n
  <2> QED
    BY <2>1
<1>4. r = CHOOSE s \in [1..n -> S] : \A i, j \in DOMAIN s : i < j => s[i] < s[j]
  BY DEF Sorted, Ordered
<1>5. \E s : SortedBy(s, S, order)
  <2> HIDE DEF order
  <2> QED
    BY <1>1, SortedExists
<1> HIDE DEF order, n, r
<1>6. /\ r \in [1..n -> S] /\ \A i, j \in DOMAIN r : i < j => r[i] < r[j]
  BY <1>3, <1>4, <1>5
<1>7. SortedBy(r, S, order)
  BY <1>3, <1>6
<1>8. /\ r \in Seq(S) /\ Len(r) = Cardinality(S) /\ Cardinality(S) \in Nat
      /\ \A x \in S : \E i \in 1..Cardinality(S) : r[i] = x
      /\ \A i, j \in 1..Cardinality(S) : r[i] = r[j] => i = j
  BY <1>1, <1>7, SortedHasAll
<1>9. Ranks(r, S)
  BY <1>8 DEF Ranks
<1> QED
  BY <1>6, <1>8, <1>9 DEF r, n

-----------------------------------------------------------------------------
(* Fusion *)

\* What a list gives an id is a number.
LEMMA ReciprocalsTyped ==
  ASSUME NEW S, NEW lists, NEW n \in Nat, DOMAIN lists = 1..n,
         \A i \in 1..n : lists[i] \in Seq(S), NEW id
  PROVE  /\ DOMAIN Reciprocals(lists, id) = 1..n
         /\ \A i \in 1..n : /\ Reciprocals(lists, id)[i] = Unit \div (RrfK + RankIn(lists[i], id))
                            /\ Reciprocals(lists, id)[i] \in Int
<1> SUFFICES ASSUME NEW i \in 1..n PROVE Unit \div (RrfK + RankIn(lists[i], id)) \in Int
  BY DEF Reciprocals
<1>1. RankIn(lists[i], id) \in 0..Len(lists[i]) /\ Len(lists[i]) \in Nat
  BY RankProperties, LenProperties
<1>2. RankIn(lists[i], id) \in Nat
  BY <1>1
<1>3. RrfK + RankIn(lists[i], id) \in Nat \ {0} /\ Unit \in Nat
  BY <1>2, RetrievalAssumption
<1> QED
  BY <1>3

\* Everything is in the fusion, the best score first.
FusedByScore(lists, S) ==
  /\ Ranks(Fuse(lists), S)
  /\ BestFirst(Fuse(lists), [id \in S |-> FusedScore(lists, id)])
  /\ \A id \in S : FusedScore(lists, id) \in Int

\* So it is if everything is in some list.
LEMMA FusionRanks ==
  ASSUME NEW S, S \subseteq Int, IsFiniteSet(S), NEW lists, NEW n \in Nat, DOMAIN lists = 1..n,
         \A i \in 1..n : lists[i] \in Seq(S),
         \A x \in S : \E i \in 1..n : x \in Range(lists[i])
  PROVE  FusedByScore(lists, S)
<1>1. UNION {Range(lists[i]) : i \in DOMAIN lists} = S
  <2>1. \A i \in 1..n : Range(lists[i]) \subseteq S
    BY LenProperties DEF Range
  <2> QED
    BY <2>1
<1>2. ASSUME NEW id \in S PROVE FusedScore(lists, id) \in Int
  <2> DEFINE D == {i \in DOMAIN lists : RankIn(lists[i], id) # 0}
             f == Reciprocals(lists, id)
  <2>1. IsFiniteSet(D)
    <3>1. IsFiniteSet(1..n)
      BY FS_Interval
    <3>2. D \in SUBSET (1..n)
      OBVIOUS
    <3> QED
      BY <3>1, <3>2, FS_Subset
  <2>2. \A i \in D : f[i] \in Int
    BY ReciprocalsTyped
  <2>3. FusedScore(lists, id) = SumFunctionOnSet(f, D)
    BY DEF FusedScore
  <2> HIDE DEF D, f
  <2> QED
    BY <2>1, <2>2, <2>3, SumOf
<1> DEFINE score == [id \in S |-> FusedScore(lists, id)]
<1>3. Fuse(lists) = Ranking(score)
  BY <1>1 DEF Fuse
<1>4. DOMAIN score = S /\ \A x \in S : score[x] \in Int
  BY <1>2
<1> HIDE DEF score
<1>5. Ranks(Ranking(score), S) /\ BestFirst(Ranking(score), score)
  BY <1>4, RankingSorts
<1> QED
  BY <1>2, <1>3, <1>5 DEF score, FusedByScore

-----------------------------------------------------------------------------
(* Traversal *)

\* A walk inside a set of ids.
WalkIn(U) == [order : Seq(U), frontier : SUBSET U]

\* The next level of a walk is one of it.
LEMMA LevelTyped ==
  ASSUME NEW U, U \subseteq Int, IsFiniteSet(U), NEW neighbors, NEW walk \in WalkIn(U)
  PROVE  /\ NextLevel(walk, U, neighbors) \in WalkIn(U)
         /\ NextLevel(walk, U, neighbors).order = walk.order \o Sorted(walk.frontier)
         /\ NextLevel(walk, U, neighbors).frontier =
              ((UNION {neighbors[c] : c \in walk.frontier}) \cap U)
                \ Range(NextLevel(walk, U, neighbors).order)
<1>1. walk.frontier \subseteq U /\ walk.order \in Seq(U)
  BY DEF WalkIn
<1>2. Sorted(walk.frontier) \in Seq(walk.frontier)
  <2>1. IsFiniteSet(walk.frontier) /\ walk.frontier \subseteq Int
    BY <1>1, FS_Subset
  <2> QED
    BY <2>1, SortedIds DEF Ranks
<1>3. Sorted(walk.frontier) \in Seq(U)
  BY <1>1, <1>2, SeqMonotonic
<1>4. walk.order \o Sorted(walk.frontier) \in Seq(U)
  BY <1>1, <1>3, ConcatProperties
<1> QED
  BY <1>4 DEF NextLevel, WalkIn

\* The walk goes from level to level.
LEMMA WalkLevels ==
  ASSUME NEW U, U \subseteq Int, IsFiniteSet(U), NEW seeds, NEW neighbors
  PROVE  /\ Walk(seeds, U, neighbors)[0] = [order |-> <<>>, frontier |-> seeds \cap U]
         /\ \A d \in 0..Depth :
              Walk(seeds, U, neighbors)[d + 1]
                = NextLevel(Walk(seeds, U, neighbors)[d], U, neighbors)
         /\ \A d \in 0..(Depth + 1) : Walk(seeds, U, neighbors)[d] \in WalkIn(U)
<1> DEFINE base == [order |-> <<>>, frontier |-> seeds \cap U]
           n == Depth + 1
           step == [w \in WalkIn(U) |-> NextLevel(w, U, neighbors)]
           Levels(f) == f = [d \in 0..n |-> IF d = 0 THEN base
                                            ELSE NextLevel(f[d - 1], U, neighbors)]
           w == Walk(seeds, U, neighbors)
<1>1. n \in Nat /\ Depth \in Nat
  BY RetrievalAssumption
<1>2. base \in WalkIn(U)
  BY DEF WalkIn
<1>3. \A v \in WalkIn(U) : step[v] = NextLevel(v, U, neighbors) /\ step[v] \in WalkIn(U)
  BY LevelTyped
<1>4. w = CHOOSE f : Levels(f)
  BY DEF Walk
<1> HIDE DEF base, step
<1>5. PICK f : Iterates(f, n, base, step)
  <2> HIDE DEF n
  <2> QED
    BY <1>1, IterationExists
<1>6. ASSUME NEW g, \A d \in 0..n : g[d] = IF d = 0 THEN base ELSE step[g[d - 1]]
      PROVE  \A d \in 0..n : g[d] \in WalkIn(U)
  <2> DEFINE N == {d \in Nat : d \in 0..n => g[d] \in WalkIn(U)}
  <2>1. 0 \in N
    BY <1>1, <1>2, <1>6
  <2>2. ASSUME NEW d \in Nat, d \in N PROVE d + 1 \in N
    <3>1. d + 1 \in 0..n => d \in 0..n
      BY <1>1
    <3>2. d + 1 \in 0..n => g[d + 1] = step[g[(d + 1) - 1]]
      BY <1>6
    <3>3. (d + 1) - 1 = d
      OBVIOUS
    <3> QED
      BY <1>3, <2>2, <3>1, <3>2, <3>3
  <2>3. \A d \in Nat : d \in N
    <3> HIDE DEF N
    <3> QED
      BY <2>1, <2>2, Induction
  <2> HIDE DEF n
  <2> QED
    BY <1>1, <2>3
<1>7. Levels(f)
  <2>1. f = [d \in 0..n |-> IF d = 0 THEN base ELSE step[f[d - 1]]]
    BY <1>5 DEF Iterates
  <2>2. \A d \in 0..n : f[d] \in WalkIn(U)
    BY <1>6, <2>1
  <2>3. \A d \in 0..n : d # 0 => d - 1 \in 0..n
    BY <1>1
  <2>4. \A d \in 0..n : d # 0 => step[f[d - 1]] = NextLevel(f[d - 1], U, neighbors)
    BY <1>3, <2>2, <2>3
  <2> HIDE DEF n
  <2> QED
    BY <2>1, <2>4
<1>8. Levels(w)
  <2> HIDE DEF Levels
  <2> QED
    BY <1>4, <1>7
<1>9. \A d \in 0..n : w[d] = IF d = 0 THEN base ELSE NextLevel(w[d - 1], U, neighbors)
  BY <1>8
<1> HIDE DEF w
<1>10. \A d \in 0..n : w[d] \in WalkIn(U)
  <2> DEFINE N == {d \in Nat : d \in 0..n => w[d] \in WalkIn(U)}
  <2>1. 0 \in N
    BY <1>1, <1>2, <1>9
  <2>2. ASSUME NEW d \in Nat, d \in N PROVE d + 1 \in N
    <3>1. d + 1 \in 0..n => d \in 0..n
      BY <1>1
    <3>2. d + 1 \in 0..n => w[d + 1] = NextLevel(w[(d + 1) - 1], U, neighbors)
      BY <1>9
    <3>3. (d + 1) - 1 = d
      OBVIOUS
    <3> QED
      <4>1. ASSUME w[d] \in WalkIn(U) PROVE NextLevel(w[d], U, neighbors) \in WalkIn(U)
        BY <4>1, LevelTyped
      <4> QED
        BY <2>2, <3>1, <3>2, <3>3, <4>1
  <2>3. \A d \in Nat : d \in N
    <3> HIDE DEF N
    <3> QED
      BY <2>1, <2>2, Induction
  <2> HIDE DEF n
  <2> QED
    BY <1>1, <2>3
<1>11. \A d \in 0..Depth : d + 1 \in 0..n /\ d + 1 # 0 /\ (d + 1) - 1 = d
  BY <1>1
<1>12. \A d \in 0..Depth : w[d + 1] = NextLevel(w[d], U, neighbors)
  <2> HIDE DEF n
  <2> QED
    BY <1>9, <1>11
<1>13. w[0] = base
  BY <1>1, <1>9
<1> QED
  BY <1>10, <1>12, <1>13 DEF base, w

\* What is where in two lists, one after the other.
Appended(s, r, q) ==
  /\ Len(s) = Len(r) + Len(q)
  /\ \A i \in 1..(Len(r) + Len(q)) : s[i] = IF i <= Len(r) THEN r[i] ELSE q[i - Len(r)]

\* Two lists of different things, one after the other, are a list of them all.
LEMMA RanksConcat ==
  ASSUME NEW S, NEW T, IsFiniteSet(S), IsFiniteSet(T), S \cap T = {},
         NEW r, Ranks(r, S), NEW q, Ranks(q, T)
  PROVE  Ranks(r \o q, S \cup T) /\ Appended(r \o q, r, q)
<1>1. PICK m \in Nat, n \in Nat :
        /\ m = Cardinality(S) /\ n = Cardinality(T) /\ Len(r) = m /\ Len(q) = n
  BY DEF Ranks
<1>2. /\ r \in Seq(S \cup T) /\ q \in Seq(S \cup T)
      /\ \A i \in 1..m : r[i] \in S
      /\ \A i \in 1..n : q[i] \in T
  <2>1. r \in Seq(S) /\ q \in Seq(T)
    BY DEF Ranks
  <2>2. S \subseteq S \cup T /\ T \subseteq S \cup T
    OBVIOUS
  <2> QED
    BY <1>1, <2>1, <2>2, SeqMonotonic, LenProperties
<1>3. /\ r \o q \in Seq(S \cup T) /\ Len(r \o q) = m + n
      /\ \A i \in 1..(m + n) : (r \o q)[i] = IF i <= m THEN r[i] ELSE q[i - m]
  <2>1. /\ r \o q \in Seq(S \cup T) /\ Len(r \o q) = Len(r) + Len(q)
        /\ \A i \in 1..(Len(r) + Len(q)) :
             (r \o q)[i] = IF i <= Len(r) THEN r[i] ELSE q[i - Len(r)]
    BY <1>2, ConcatProperties
  <2> QED
    BY <1>1, <2>1
<1>4. Cardinality(S \cup T) = m + n
  <2>1. Cardinality(S \cup T) = Cardinality(S) + Cardinality(T) - Cardinality(S \cap T)
    BY FS_Union
  <2>2. Cardinality(S \cap T) = 0
    BY FS_EmptySet
  <2> QED
    BY <1>1, <2>1, <2>2
<1>5. /\ \A x \in S : \E i \in 1..m : r[i] = x
      /\ \A i, j \in 1..m : r[i] = r[j] => i = j
      /\ \A x \in T : \E i \in 1..n : q[i] = x
      /\ \A i, j \in 1..n : q[i] = q[j] => i = j
  BY <1>1 DEF Ranks
<1>6. ASSUME NEW x \in S \cup T PROVE \E i \in 1..(m + n) : (r \o q)[i] = x
  <2>1. CASE x \in S
    <3>1. PICK i \in 1..m : r[i] = x
      BY <1>5, <2>1
    <3>2. i \in 1..(m + n) /\ i <= m
      OBVIOUS
    <3> QED
      BY <1>3, <3>1, <3>2
  <2>2. CASE x \in T
    <3>1. PICK i \in 1..n : q[i] = x
      BY <1>5, <2>2
    <3>2. i + m \in 1..(m + n) /\ ~(i + m <= m) /\ (i + m) - m = i
      OBVIOUS
    <3> QED
      BY <1>3, <3>1, <3>2
  <2> QED
    BY <2>1, <2>2
<1>7. ASSUME NEW i \in 1..(m + n), NEW j \in 1..(m + n), (r \o q)[i] = (r \o q)[j] PROVE i = j
  <2>1. \A k \in 1..(m + n) : /\ k <= m => k \in 1..m
                              /\ ~(k <= m) => k - m \in 1..n
    OBVIOUS
  <2>2. CASE i <= m /\ j <= m
    BY <1>3, <1>5, <1>7, <2>1, <2>2
  <2>3. CASE ~(i <= m) /\ ~(j <= m)
    <3>1. q[i - m] = q[j - m]
      BY <1>3, <1>7, <2>3
    <3>2. i - m = j - m
      BY <1>5, <2>1, <2>3, <3>1
    <3> QED
      BY <3>2
  <2>4. CASE (i <= m /\ ~(j <= m)) \/ (~(i <= m) /\ j <= m)
    BY <1>2, <1>3, <1>7, <2>1, <2>4
  <2> QED
    BY <2>2, <2>3, <2>4
<1>8. Ranks(r \o q, S \cup T)
  <2>1. PICK s : s = r \o q
    OBVIOUS
  <2>2. PICK k \in Nat : k = m + n
    OBVIOUS
  <2>3. /\ s \in Seq(S \cup T) /\ Len(s) = k /\ Cardinality(S \cup T) = k
        /\ \A x \in S \cup T : \E i \in 1..k : s[i] = x
        /\ \A i, j \in 1..k : s[i] = s[j] => i = j
    BY <1>3, <1>4, <1>6, <1>7, <2>1, <2>2
  <2>4. Ranks(s, S \cup T)
    BY <2>3 DEF Ranks
  <2> QED
    BY <2>1, <2>4
<1>9. Appended(r \o q, r, q)
  BY <1>1, <1>3 DEF Appended
<1> QED
  BY <1>8, <1>9

\* What so many hops from the seeds reach.
Hops(reach, seeds, U, neighbors) ==
  reach = [n \in 0..Depth |->
             IF n = 0 THEN seeds
             ELSE reach[n - 1] \cup (U \cap UNION {neighbors[c] : c \in reach[n - 1]})]

\* More hops reach more.
LEMMA HopsGrow ==
  ASSUME NEW U, NEW seeds \in SUBSET U, NEW neighbors, NEW reach,
         Hops(reach, seeds, U, neighbors)
  PROVE  /\ reach[0] = seeds
         /\ \A n \in 0..Depth : reach[n] \in SUBSET U
         /\ \A n \in 0..Depth : n # 0 =>
              reach[n] = reach[n - 1] \cup (U \cap UNION {neighbors[c] : c \in reach[n - 1]})
         /\ \A n, k \in 0..Depth : n <= k => reach[n] \subseteq reach[k]
<1>1. Depth \in Nat
  BY RetrievalAssumption
<1>2. \A n \in 0..Depth : reach[n] =
        IF n = 0 THEN seeds
        ELSE reach[n - 1] \cup (U \cap UNION {neighbors[c] : c \in reach[n - 1]})
  BY DEF Hops
<1>3. 0 \in 0..Depth /\ \A n \in 0..Depth : n # 0 => n - 1 \in 0..Depth
  BY <1>1
<1>4. reach[0] = seeds
  BY <1>2, <1>3
<1>5. \A n \in 0..Depth : n # 0 =>
        reach[n] = reach[n - 1] \cup (U \cap UNION {neighbors[c] : c \in reach[n - 1]})
  BY <1>2
<1>6. \A n \in Nat : n \in 0..Depth => reach[n] \in SUBSET U
  <2> DEFINE N == {n \in Nat : n \in 0..Depth => reach[n] \in SUBSET U}
  <2>1. 0 \in N
    BY <1>4
  <2>2. ASSUME NEW n \in Nat, n \in N PROVE n + 1 \in N
    <3>1. n + 1 \in 0..Depth => n \in 0..Depth
      BY <1>1
    <3>2. n + 1 \in 0..Depth =>
            reach[n + 1] = reach[(n + 1) - 1]
                             \cup (U \cap UNION {neighbors[c] : c \in reach[(n + 1) - 1]})
      BY <1>5
    <3>3. (n + 1) - 1 = n
      OBVIOUS
    <3> QED
      BY <2>2, <3>1, <3>2, <3>3
  <2>3. \A n \in Nat : n \in N
    <3> HIDE DEF N
    <3> QED
      BY <2>1, <2>2, Induction
  <2> QED
    BY <2>3
<1>7. \A k \in Nat : k \in 0..Depth => \A n \in 0..Depth : n <= k => reach[n] \subseteq reach[k]
  <2> DEFINE N == {k \in Nat : k \in 0..Depth =>
                                 \A n \in 0..Depth : n <= k => reach[n] \subseteq reach[k]}
  <2>1. 0 \in N
    <3>1. \A n \in 0..Depth : n <= 0 => n = 0
      OBVIOUS
    <3> QED
      BY <3>1
  <2>2. ASSUME NEW k \in Nat, k \in N PROVE k + 1 \in N
    <3> SUFFICES ASSUME k + 1 \in 0..Depth, NEW n \in 0..Depth, n <= k + 1
                 PROVE  reach[n] \subseteq reach[k + 1]
      OBVIOUS
    <3>1. k \in 0..Depth /\ (k + 1) - 1 = k /\ k + 1 # 0
      BY <1>1
    <3>2. reach[k] \subseteq reach[k + 1]
      BY <1>5, <3>1
    <3>3. n <= k \/ n = k + 1
      BY <1>1
    <3> QED
      BY <2>2, <3>1, <3>2, <3>3
  <2>3. \A k \in Nat : k \in N
    <3> HIDE DEF N
    <3> QED
      BY <2>1, <2>2, Induction
  <2> QED
    BY <2>3
<1> QED
  BY <1>1, <1>4, <1>5, <1>6, <1>7

\* Of two things the one that fewer hops reach comes first.
NearerFirst(r, reach) ==
  \A i, j \in 1..Len(r) : \A n \in 0..Depth :
    r[i] \in reach[n] /\ r[j] \notin reach[n] => i < j

\* What the walk starts from comes before all else.
SeedsFirst(r, seeds) == \A i \in 1..Len(r) : r[i] \in seeds <=> i <= Cardinality(seeds)

\* A walk has so far what fewer hops reach, and its frontier is what one more does.
Reached(walk, d, reach) ==
  /\ Ranks(walk.order, Range(walk.order))
  /\ walk.frontier \cap Range(walk.order) = {}
  /\ Range(walk.order) = IF d = 0 THEN {} ELSE reach[d - 1]
  /\ d <= Depth => Range(walk.order) \cup walk.frontier = reach[d]
  /\ NearerFirst(walk.order, reach)
  /\ d # 0 => SeedsFirst(walk.order, reach[0])

\* A level keeps that.
LEMMA LevelReached ==
  ASSUME NEW U, U \subseteq Int, IsFiniteSet(U), NEW seeds \in SUBSET U, NEW neighbors,
         NEW reach, Hops(reach, seeds, U, neighbors),
         NEW d \in 0..Depth, NEW walk \in WalkIn(U), Reached(walk, d, reach)
  PROVE  Reached(NextLevel(walk, U, neighbors), d + 1, reach)
<1>1. PICK order, more, front, next :
        /\ order = walk.order /\ more = Sorted(walk.frontier) /\ front = walk.frontier
        /\ next = NextLevel(walk, U, neighbors)
  OBVIOUS
<1>2. /\ next.order = order \o more
      /\ next.frontier = ((UNION {neighbors[c] : c \in front}) \cap U) \ Range(next.order)
  <2>1. /\ NextLevel(walk, U, neighbors).order = walk.order \o Sorted(walk.frontier)
        /\ NextLevel(walk, U, neighbors).frontier =
             ((UNION {neighbors[c] : c \in walk.frontier}) \cap U)
               \ Range(NextLevel(walk, U, neighbors).order)
    BY DEF NextLevel
  <2> QED
    BY <1>1, <2>1, Zenon
<1>3. front \in SUBSET U /\ IsFiniteSet(front) /\ front \subseteq Int
  <2>1. front \in SUBSET U
    BY <1>1 DEF WalkIn
  <2> QED
    BY <2>1, FS_Subset
<1>4. /\ Ranks(order, Range(order)) /\ front \cap Range(order) = {}
      /\ Range(order) = IF d = 0 THEN {} ELSE reach[d - 1]
      /\ Range(order) \cup front = reach[d]
      /\ NearerFirst(order, reach)
      /\ d # 0 => SeedsFirst(order, reach[0])
  BY <1>1 DEF Reached
<1>5. /\ Depth \in Nat /\ d \in Nat /\ d <= Depth
      /\ \A n \in 0..Depth : reach[n] \in SUBSET U
      /\ \A n, k \in 0..Depth : n <= k => reach[n] \subseteq reach[k]
      /\ \A n \in 0..Depth : n # 0 =>
           reach[n] = reach[n - 1] \cup (U \cap UNION {neighbors[c] : c \in reach[n - 1]})
  <2>1. Depth \in Nat
    BY RetrievalAssumption
  <2>2. d \in Nat /\ d <= Depth
    BY <2>1
  <2>3. \A n \in 0..Depth : reach[n] \in SUBSET U
    BY HopsGrow
  <2>4. \A n, k \in 0..Depth : n <= k => reach[n] \subseteq reach[k]
    BY HopsGrow
  <2>5. \A n \in 0..Depth : n # 0 =>
          reach[n] = reach[n - 1] \cup (U \cap UNION {neighbors[c] : c \in reach[n - 1]})
    BY DEF Hops
  <2> QED
    BY <2>1, <2>2, <2>3, <2>4, <2>5
<1>6. Ranks(more, front)
  BY <1>1, <1>3, SortedIds
<1>7. IsFiniteSet(Range(order)) /\ Range(order) \cap front = {}
  <2>1. Range(order) \in SUBSET U
    BY <1>4, <1>5
  <2> QED
    BY <1>4, <2>1, FS_Subset
<1>8. /\ Ranks(order \o more, Range(order) \cup front)
      /\ Len(order \o more) = Len(order) + Len(more)
      /\ \A i \in 1..(Len(order) + Len(more)) :
           (order \o more)[i] = IF i <= Len(order) THEN order[i] ELSE more[i - Len(order)]
  <2>1. PICK S : S = Range(order)
    OBVIOUS
  <2>2. /\ IsFiniteSet(S) /\ IsFiniteSet(front) /\ S \cap front = {}
        /\ Ranks(order, S) /\ Ranks(more, front)
    BY <1>3, <1>4, <1>6, <1>7, <2>1
  <2>3. Ranks(order \o more, S \cup front) /\ Appended(order \o more, order, more)
    BY <2>2, RanksConcat
  <2> QED
    BY <2>1, <2>3 DEF Appended
<1>9. Range(next.order) = reach[d] /\ Ranks(next.order, Range(next.order))
  <2>1. Ranks(next.order, reach[d])
    BY <1>2, <1>4, <1>8
  <2>2. Range(next.order) = reach[d]
    BY <2>1, RanksHave
  <2> QED
    BY <2>1, <2>2
<1>10. next.frontier \cap Range(next.order) = {}
  BY <1>2
<1>11. ASSUME d + 1 <= Depth PROVE Range(next.order) \cup next.frontier = reach[d + 1]
  <2>1. d + 1 \in 0..Depth /\ d + 1 # 0 /\ (d + 1) - 1 = d
    BY <1>5, <1>11
  <2>2. reach[d + 1] = reach[d] \cup (U \cap UNION {neighbors[c] : c \in reach[d]})
    BY <1>5, <2>1
  <2>3. ASSUME NEW c \in Range(order) PROVE neighbors[c] \cap U \subseteq reach[d]
    <3>1. d # 0 /\ c \in reach[d - 1]
      BY <1>4, <2>3
    <3>2. reach[d] = reach[d - 1] \cup (U \cap UNION {neighbors[e] : e \in reach[d - 1]})
      BY <1>5, <3>1
    <3> QED
      BY <3>1, <3>2
  <2>4. U \cap UNION {neighbors[c] : c \in reach[d]}
          \subseteq reach[d] \cup ((UNION {neighbors[c] : c \in front}) \cap U)
    BY <1>4, <2>3
  <2>5. front \subseteq reach[d]
    BY <1>4
  <2>6. (UNION {neighbors[c] : c \in front}) \subseteq UNION {neighbors[c] : c \in reach[d]}
    BY <2>5
  <2> QED
    BY <1>2, <1>9, <2>2, <2>4, <2>6
<1>12. NearerFirst(next.order, reach)
  <2> SUFFICES ASSUME NEW i \in 1..Len(next.order), NEW j \in 1..Len(next.order),
                      NEW n \in 0..Depth,
                      next.order[i] \in reach[n], next.order[j] \notin reach[n]
               PROVE  i < j
    BY DEF NearerFirst
  <2>1. PICK m \in Nat, k \in Nat : m = Len(order) /\ k = Len(more)
    BY <1>4, <1>6 DEF Ranks
  <2>2. /\ i \in 1..(m + k) /\ j \in 1..(m + k)
        /\ next.order[i] = IF i <= m THEN order[i] ELSE more[i - m]
        /\ next.order[j] = IF j <= m THEN order[j] ELSE more[j - m]
    BY <1>2, <1>8, <2>1
  <2>3. i # j
    OBVIOUS
  <2>4. CASE i <= m /\ j <= m
    <3>1. i \in 1..Len(order) /\ j \in 1..Len(order)
          /\ order[i] \in reach[n] /\ order[j] \notin reach[n]
      BY <2>1, <2>2, <2>4
    <3> QED
      BY <1>4, <3>1 DEF NearerFirst
  <2>5. CASE ~(i <= m)
    <3>1. i - m \in 1..k
      BY <2>2, <2>5
    <3>2. more[i - m] \in front
      BY <1>6, <2>1, <3>1, RanksHave
    <3>3. next.order[i] \in front /\ next.order[i] \in reach[n]
      BY <2>2, <2>5, <3>2
    <3>4. next.order[i] \notin Range(order)
      BY <1>4, <3>3
    <3>5. d <= n
      <4> SUFFICES ASSUME ~(d <= n) PROVE FALSE
        OBVIOUS
      <4>1. d # 0 /\ d - 1 \in 0..Depth /\ n <= d - 1
        BY <1>5
      <4>2. reach[n] \subseteq reach[d - 1]
        BY <1>5, <4>1
      <4> QED
        BY <1>4, <3>3, <3>4, <4>1, <4>2
    <3>6. reach[d] \subseteq reach[n]
      BY <1>5, <3>5
    <3>7. next.order[j] \in Range(next.order)
      BY <1>9, RanksHave
    <3> QED
      BY <1>9, <3>6, <3>7
  <2>6. CASE i <= m /\ ~(j <= m)
    BY <2>2, <2>6
  <2> QED
    BY <2>4, <2>5, <2>6
<1>13. d + 1 # 0 /\ (d + 1) - 1 = d
  BY <1>5
<1>14. SeedsFirst(next.order, reach[0])
  <2> SUFFICES ASSUME NEW i \in 1..Len(next.order)
               PROVE  next.order[i] \in reach[0] <=> i <= Cardinality(reach[0])
    BY DEF SeedsFirst
  <2>1. PICK m \in Nat, k \in Nat :
          /\ m = Len(order) /\ m = Cardinality(Range(order))
          /\ k = Len(more) /\ k = Cardinality(front)
    BY <1>4, <1>6 DEF Ranks
  <2>2. /\ i \in 1..(m + k)
        /\ next.order[i] = IF i <= m THEN order[i] ELSE more[i - m]
    BY <1>2, <1>8, <2>1
  <2>3. ASSUME ~(i <= m) PROVE i - m \in 1..k /\ more[i - m] \in front
    <3>1. i - m \in 1..k
      BY <2>2, <2>3
    <3>2. more[i - m] \in front
      BY <1>6, <2>1, <3>1, RanksHave
    <3> QED
      BY <3>1, <3>2
  <2>4. CASE d = 0
    <3>1. Range(order) = {} /\ front = reach[0]
      BY <1>4, <2>4
    <3>2. m = 0
      BY <2>1, <3>1, FS_EmptySet
    <3> QED
      BY <2>1, <2>2, <2>3, <3>1, <3>2
  <2>5. CASE d # 0
    <3>1. reach[0] \subseteq Range(order)
      BY <1>4, <1>5, <2>5
    <3>2. Cardinality(reach[0]) <= m /\ Cardinality(reach[0]) \in Nat
      BY <1>7, <2>1, <3>1, FS_Subset, FS_CardinalityType
    <3>3. CASE i <= m
      <4>1. i \in 1..Len(order)
        BY <2>1, <2>2, <3>3
      <4> QED
        BY <1>4, <2>2, <2>5, <3>3, <4>1 DEF SeedsFirst
    <3>4. CASE ~(i <= m)
      <4>1. next.order[i] \notin Range(order)
        BY <1>4, <2>2, <2>3, <3>4
      <4> QED
        BY <2>2, <3>1, <3>2, <3>4, <4>1
    <3> QED
      BY <3>3, <3>4
  <2> QED
    BY <2>4, <2>5
<1>15. Reached(next, d + 1, reach)
  BY <1>9, <1>10, <1>11, <1>12, <1>13, <1>14 DEF Reached
<1> QED
  BY <1>1, <1>15

\* The graph ranks what is near the seeds, the nearer first.
LEMMA GraphRanked ==
  ASSUME NEW U, U \subseteq Int, IsFiniteSet(U), NEW seeds \in SUBSET U, NEW neighbors,
         NEW reach, Hops(reach, seeds, U, neighbors)
  PROVE  /\ Ranks(GraphRanking(seeds, U, neighbors), reach[Depth])
         /\ NearerFirst(GraphRanking(seeds, U, neighbors), reach)
         /\ SeedsFirst(GraphRanking(seeds, U, neighbors), seeds)
<1> DEFINE w == Walk(seeds, U, neighbors)
<1>1. /\ w[0] = [order |-> <<>>, frontier |-> seeds \cap U]
      /\ \A d \in 0..Depth : w[d + 1] = NextLevel(w[d], U, neighbors)
      /\ \A d \in 0..(Depth + 1) : w[d] \in WalkIn(U)
  BY WalkLevels
<1>2. GraphRanking(seeds, U, neighbors) = w[Depth + 1].order
  BY DEF GraphRanking
<1> HIDE DEF w
<1>3. Depth \in Nat
  BY RetrievalAssumption
<1> DEFINE N == {d \in Nat : d \in 0..(Depth + 1) => Reached(w[d], d, reach)}
<1>4. 0 \in N
  <2>1. w[0].order = <<>> /\ w[0].frontier = seeds
    <3>1. seeds \cap U = seeds
      OBVIOUS
    <3> QED
      BY <1>1, <3>1
  <2>2. Range(<<>>) = {} /\ Len(<<>>) = 0 /\ Cardinality({}) = 0
    BY FS_EmptySet DEF Range
  <2>3. Ranks(<<>>, {})
    BY <2>2 DEF Ranks
  <2>4. NearerFirst(<<>>, reach)
    BY <2>2 DEF NearerFirst
  <2>5. reach[0] = seeds
    BY HopsGrow
  <2>6. Reached(w[0], 0, reach)
    BY <2>1, <2>2, <2>3, <2>4, <2>5 DEF Reached
  <2> QED
    BY <2>6
<1>5. ASSUME NEW d \in Nat, d \in N PROVE d + 1 \in N
  <2> SUFFICES ASSUME d + 1 \in 0..(Depth + 1) PROVE Reached(w[d + 1], d + 1, reach)
    OBVIOUS
  <2>1. d \in 0..Depth /\ d \in 0..(Depth + 1)
    BY <1>3
  <2>2. Reached(w[d], d, reach) /\ w[d] \in WalkIn(U)
    BY <1>1, <1>5, <2>1
  <2>3. Reached(NextLevel(w[d], U, neighbors), d + 1, reach)
    BY <2>1, <2>2, LevelReached
  <2> QED
    BY <1>1, <2>1, <2>3
<1>6. Depth + 1 \in N
  <2> HIDE DEF N
  <2> QED
    BY <1>3, <1>4, <1>5, Induction
<1>7. Reached(w[Depth + 1], Depth + 1, reach)
  BY <1>3, <1>6
<1>8. Depth + 1 # 0 /\ (Depth + 1) - 1 = Depth
  BY <1>3
<1>9. reach[0] = seeds
  BY HopsGrow
<1> QED
  BY <1>2, <1>7, <1>8, <1>9 DEF Reached

\* Hops always lead somewhere.
LEMMA HopsExist ==
  ASSUME NEW U, NEW seeds \in SUBSET U, NEW neighbors
  PROVE  \E reach : Hops(reach, seeds, U, neighbors)
<1> DEFINE step == [s \in SUBSET U |-> s \cup (U \cap UNION {neighbors[c] : c \in s})]
           Is(f) == f = [n \in 0..Depth |->
                           IF n = 0 THEN seeds
                           ELSE f[n - 1] \cup (U \cap UNION {neighbors[c] : c \in f[n - 1]})]
<1>1. Depth \in Nat
  BY RetrievalAssumption
<1>2. \A s \in SUBSET U : step[s] = s \cup (U \cap UNION {neighbors[c] : c \in s})
                           /\ step[s] \in SUBSET U
  OBVIOUS
<1> HIDE DEF step
<1>4. PICK f : Iterates(f, Depth, seeds, step)
  BY <1>1, IterationExists
<1>5. f = [d \in 0..Depth |-> IF d = 0 THEN seeds ELSE step[f[d - 1]]]
  BY <1>4 DEF Iterates
<1>6. \A d \in 0..Depth : f[d] \in SUBSET U
  <2> DEFINE N == {d \in Nat : d \in 0..Depth => f[d] \in SUBSET U}
  <2>1. 0 \in N
    BY <1>1, <1>5
  <2>2. ASSUME NEW d \in Nat, d \in N PROVE d + 1 \in N
    <3>1. d + 1 \in 0..Depth => d \in 0..Depth
      BY <1>1
    <3>2. \A k \in 0..Depth : k # 0 => f[k] = step[f[k - 1]]
      BY <1>5
    <3>3. d + 1 # 0 /\ (d + 1) - 1 = d
      OBVIOUS
    <3> QED
      BY <1>2, <2>2, <3>1, <3>2, <3>3
  <2>3. \A d \in Nat : d \in N
    <3> HIDE DEF N
    <3> QED
      BY <2>1, <2>2, Induction
  <2> QED
    BY <1>1, <2>3
<1>7. Is(f)
  <2>1. \A d \in 0..Depth : d # 0 => d - 1 \in 0..Depth
    BY <1>1
  <2>2. \A d \in 0..Depth : d # 0 =>
          step[f[d - 1]] = f[d - 1] \cup (U \cap UNION {neighbors[c] : c \in f[d - 1]})
    BY <1>2, <1>6, <2>1
  <2> QED
    BY <1>5, <2>2
<1> QED
  BY <1>7 DEF Hops

\* Reach says what so many hops reach on the surface.
LEMMA ReachHops ==
  ASSUME NEW U, NEW seeds \in SUBSET U, NEW neighbors, surface.neighbors = neighbors
  PROVE  Hops(Reach(seeds, U), seeds, U, neighbors)
<1> DEFINE Is(f) == f = [n \in 0..Depth |->
                           IF n = 0 THEN seeds
                           ELSE f[n - 1] \cup (U \cap UNION {neighbors[c] : c \in f[n - 1]})]
<1>1. Reach(seeds, U) = CHOOSE f : Is(f)
  BY DEF Reach
<1>2. \E f : Is(f)
  <2>1. PICK f : Hops(f, seeds, U, neighbors)
    BY HopsExist
  <2>2. Is(f)
    BY <2>1 DEF Hops
  <2> HIDE DEF Is
  <2> QED
    BY <2>2
<1>3. Is(Reach(seeds, U))
  <2> HIDE DEF Is
  <2> QED
    BY <1>1, <1>2
<1> QED
  BY <1>3 DEF Hops

-----------------------------------------------------------------------------
(* Retrieval *)

\* A surface over finitely many claims.
Indexed(sf) == sf.claims \in SUBSET ClaimId /\ IsFiniteSet(sf.claims)

\* What the signals are: rankings of the whole universe by content, and what the
\* graph leads to from the best of them.
SignalsOf(s, U, neighbors, seeds) ==
  /\ Ranks(s.semantic, U) /\ Ranks(s.lexical, U)
  /\ seeds \in SUBSET U /\ seeds = Range(FirstOf(Fuse(<<s.semantic, s.lexical>>), SeedK))
  /\ Cardinality(seeds) = IF SeedK < Cardinality(U) THEN SeedK ELSE Cardinality(U)
  /\ s.graph = IF Depth = 0 THEN <<>> ELSE GraphRanking(seeds, U, neighbors)

\* A universe is finite.
LEMMA UniverseFinite ==
  ASSUME NEW sf, Indexed(sf), NEW since, NEW until
  PROVE  /\ Universe(sf, since, until) \in SUBSET sf.claims
         /\ IsFiniteSet(Universe(sf, since, until))
         /\ Universe(sf, since, until) \subseteq Int
         /\ Universe(sf, since, until) \in SUBSET ClaimId
<1>1. Universe(sf, since, until) \in SUBSET sf.claims
  BY DEF Universe
<1>2. IsFiniteSet(sf.claims) /\ sf.claims \in SUBSET ClaimId
  BY DEF Indexed
<1>3. IsFiniteSet(Universe(sf, since, until))
  BY <1>1, <1>2, FS_Subset
<1>4. ClaimId \subseteq Int
  BY ClaimAssumption
<1> QED
  BY <1>1, <1>2, <1>3, <1>4

\* What words tell is a number.
LEMMA Bm25Typed ==
  ASSUME NEW query \in Query, NEW corpus, IsFiniteSet(corpus), NEW c
  PROVE  Bm25(query, corpus, c) \in Int
<1> DEFINE f == [w \in Words[query] |-> Cardinality({d \in corpus : w \notin Words[d]}) + 1]
           D == Words[query] \cap Words[c]
<1>1. IsFiniteSet(D)
  <2>1. IsFiniteSet(Words[query]) /\ D \in SUBSET Words[query]
    BY ServingAssumption
  <2> QED
    BY <2>1, FS_Subset
<1>2. \A w \in D : f[w] \in Int
  <2> SUFFICES ASSUME NEW w \in D PROVE Cardinality({d \in corpus : w \notin Words[d]}) + 1 \in Int
    OBVIOUS
  <2>1. {d \in corpus : w \notin Words[d]} \in SUBSET corpus
    OBVIOUS
  <2>2. IsFiniteSet({d \in corpus : w \notin Words[d]})
    BY <2>1, FS_Subset
  <2>3. Cardinality({d \in corpus : w \notin Words[d]}) \in Nat
    BY <2>2, FS_CardinalityType
  <2> QED
    BY <2>3
<1>3. Bm25(query, corpus, c) = SumFunctionOnSet(f, D)
  BY DEF Bm25
<1> HIDE DEF f, D
<1> QED
  BY <1>1, <1>2, <1>3, SumOf

\* The places of the first of the ids of a list without repetitions.
LEMMA FirstCount ==
  ASSUME NEW S, IsFiniteSet(S), NEW r, Ranks(r, S), NEW k \in Nat
  PROVE  /\ Range(FirstOf(r, k)) \in SUBSET S
         /\ Cardinality(Range(FirstOf(r, k))) = IF k < Cardinality(S) THEN k ELSE Cardinality(S)
<1> DEFINE m == IF k < Cardinality(S) THEN k ELSE Cardinality(S)
           q == FirstOf(r, k)
<1>1. /\ r \in Seq(S) /\ Len(r) = Cardinality(S) /\ Cardinality(S) \in Nat
      /\ \A i, j \in 1..Cardinality(S) : r[i] = r[j] => i = j
  BY DEF Ranks
<1>2. /\ q \in Seq(S) /\ Len(q) = m
      /\ \A i \in 1..m : i \in 1..Len(r) /\ q[i] = r[i]
  BY <1>1, FirstOnes
<1>3. m \in Nat
  BY <1>1
<1> HIDE DEF m, q
<1>4. DOMAIN q = 1..m /\ \A i \in 1..m : q[i] \in S
  BY <1>2, <1>3, LenProperties
<1>5. Range(q) = {q[i] : i \in 1..m}
  BY <1>4 DEF Range
<1>6. q \in Bijection(1..m, Range(q))
  <2>1. \A i, j \in 1..m : q[i] = q[j] => i = j
    BY <1>1, <1>2
  <2>2. q \in [1..m -> Range(q)]
    BY <1>2, <1>4, <1>5
  <2> QED
    BY <1>5, <2>1, <2>2 DEF Bijection, Injection, Surjection, IsInjective
<1>7. Cardinality(1..m) = m /\ IsFiniteSet(1..m)
  BY <1>3, FS_Interval
<1>8. Cardinality(Range(q)) = m
  BY <1>6, <1>7, FS_Bijection DEF ExistsBijection
<1>9. Range(q) \in SUBSET S
  BY <1>4, <1>5
<1> QED
  BY <1>8, <1>9 DEF m, q

\* The signals rank the whole universe, each in its way.
LEMMA SignalsRank ==
  ASSUME NEW sf, Indexed(sf), NEW query \in Query, NEW since, NEW until
  PROVE  \E seeds : SignalsOf(Signals(sf, query, since, until), Universe(sf, since, until),
                              sf.neighbors, seeds)
<1>1. PICK U : U = Universe(sf, since, until)
  OBVIOUS
<1>2. U \subseteq Int /\ IsFiniteSet(U) /\ U \in SUBSET ClaimId
  BY <1>1, UniverseFinite
<1> DEFINE near == [c \in U |-> Cosine[query][c]]
           like == [c \in U |-> Bm25(query, U, c)]
           semantic == Ranking(near)
           lexical == Ranking(like)
           lists == <<semantic, lexical>>
           seeds == Range(FirstOf(Fuse(lists), SeedK))
           graph == IF Depth = 0 THEN <<>> ELSE GraphRanking(seeds, U, sf.neighbors)
           s == [semantic |-> semantic, lexical |-> lexical, graph |-> graph]
<1>3. Signals(sf, query, since, until) = s
  BY <1>1 DEF Signals
<1>4. DOMAIN near = U /\ \A c \in U : near[c] \in Int
  BY <1>2, ServingAssumption
<1>5. DOMAIN like = U /\ \A c \in U : like[c] \in Int
  BY <1>2, Bm25Typed
<1> HIDE DEF near, like
<1>6. Ranks(semantic, U)
  BY <1>2, <1>4, RankingSorts
<1>7. Ranks(lexical, U)
  BY <1>2, <1>5, RankingSorts
<1> HIDE DEF semantic, lexical
<1>8. /\ DOMAIN lists = 1..2 /\ lists[1] = semantic /\ lists[2] = lexical
  OBVIOUS
<1>9. semantic \in Seq(U) /\ lexical \in Seq(U) /\ Range(semantic) = U
  BY <1>6, <1>7, RanksHave DEF Ranks
<1>10. /\ \A i \in 1..2 : lists[i] \in Seq(U)
       /\ \A x \in U : \E i \in 1..2 : x \in Range(lists[i])
  <2>1. \A i \in 1..2 : i = 1 \/ i = 2
    OBVIOUS
  <2> HIDE DEF lists
  <2>2. 1 \in 1..2
    OBVIOUS
  <2> QED
    BY <1>8, <1>9, <2>1, <2>2
<1> HIDE DEF lists
<1>11. Ranks(Fuse(lists), U)
  BY <1>2, <1>8, <1>10, FusionRanks DEF FusedByScore
<1>12. SeedK \in Nat
  BY RetrievalAssumption
<1>13. /\ seeds \in SUBSET U
       /\ Cardinality(seeds) = IF SeedK < Cardinality(U) THEN SeedK ELSE Cardinality(U)
  BY <1>2, <1>11, <1>12, FirstCount
<1>14. s.semantic = semantic /\ s.lexical = lexical /\ s.graph = graph
  OBVIOUS
<1>16. seeds = Range(FirstOf(Fuse(<<s.semantic, s.lexical>>), SeedK))
  BY <1>14 DEF lists
<1> HIDE DEF seeds
<1>15. SignalsOf(s, U, sf.neighbors, seeds)
  BY <1>6, <1>7, <1>13, <1>14, <1>16 DEF SignalsOf
<1> HIDE DEF s
<1> QED
  BY <1>1, <1>3, <1>15

\* The lists that are fused.
ListsOf(s) == <<s.semantic, s.lexical>> \o (IF s.graph = <<>> THEN <<>> ELSE <<s.graph>>)

\* Two or three lists, as the graph has none or some.
Listing(lists, s, n) ==
  /\ DOMAIN lists = 1..n
  /\ lists[1] = s.semantic /\ lists[2] = s.lexical
  /\ n = 3 => lists[3] = s.graph
  /\ n = 2 => s.graph = <<>>

\* So it is with the lists of the signals.
LEMMA ListsOfSignals ==
  ASSUME NEW U, NEW s, s.semantic \in Seq(U), s.lexical \in Seq(U), s.graph \in Seq(U)
  PROVE  \E n \in {2, 3} : Listing(ListsOf(s), s, n)
<1>1. PICK lists : lists = ListsOf(s)
  OBVIOUS
<1>2. CASE s.graph = <<>>
  <2>1. lists = <<s.semantic, s.lexical>>
    BY <1>1, <1>2 DEF ListsOf
  <2>2. DOMAIN lists = 1..2 /\ lists[1] = s.semantic /\ lists[2] = s.lexical
    BY <2>1
  <2>3. Listing(lists, s, 2)
    BY <1>2, <2>2 DEF Listing
  <2> QED
    BY <1>1, <2>3
<1>3. CASE s.graph # <<>>
  <2>1. PICK a, b, T : a = <<s.semantic, s.lexical>> /\ b = <<s.graph>> /\ T = Seq(U)
    OBVIOUS
  <2>2. /\ a \in Seq(T) /\ Len(a) = 2 /\ a[1] = s.semantic /\ a[2] = s.lexical
        /\ b \in Seq(T) /\ Len(b) = 1 /\ b[1] = s.graph
    BY <2>1
  <2>3. lists = a \o b
    BY <1>1, <1>3, <2>1 DEF ListsOf
  <2>4. /\ lists \in Seq(T) /\ Len(lists) = 3
        /\ \A i \in 1..3 : lists[i] = IF i <= 2 THEN a[i] ELSE b[i - 2]
    <3>1. /\ a \o b \in Seq(T) /\ Len(a \o b) = Len(a) + Len(b)
          /\ \A i \in 1..(Len(a) + Len(b)) :
               (a \o b)[i] = IF i <= Len(a) THEN a[i] ELSE b[i - Len(a)]
      BY <2>2, ConcatProperties
    <3>2. Len(a) = 2 /\ Len(b) = 1 /\ Len(a) + Len(b) = 3
      BY <2>2
    <3> QED
      BY <2>3, <3>1, <3>2
  <2>5. DOMAIN lists = 1..3
    BY <2>4, LenProperties
  <2>6. lists[1] = s.semantic /\ lists[2] = s.lexical /\ lists[3] = s.graph
    BY <2>2, <2>4
  <2>7. Listing(lists, s, 3)
    BY <2>5, <2>6 DEF Listing
  <2> QED
    BY <1>1, <2>7
<1> QED
  BY <1>2, <1>3

\* Everything in the universe is in the fusion of its signals, once and by its score.
LEMMA SignalsFused ==
  ASSUME NEW U, U \subseteq Int, IsFiniteSet(U), NEW neighbors, NEW seeds,
         NEW s, SignalsOf(s, U, neighbors, seeds)
  PROVE  FusedByScore(ListsOf(s), U) /\ s.graph \in Seq(U)
<1>1. /\ Ranks(s.semantic, U) /\ Ranks(s.lexical, U) /\ seeds \in SUBSET U
      /\ s.graph = IF Depth = 0 THEN <<>> ELSE GraphRanking(seeds, U, neighbors)
  BY DEF SignalsOf
<1>2. s.graph \in Seq(U)
  <2>1. CASE Depth = 0
    BY <1>1, <2>1
  <2>2. CASE Depth # 0
    <3>1. PICK reach : Hops(reach, seeds, U, neighbors)
      BY <1>1, HopsExist
    <3>2. Ranks(s.graph, reach[Depth])
      <4>1. Ranks(GraphRanking(seeds, U, neighbors), reach[Depth])
        BY <1>1, <3>1, GraphRanked
      <4> QED
        BY <1>1, <2>2, <4>1
    <3>3. Depth \in 0..Depth
      BY RetrievalAssumption
    <3>4. reach[Depth] \in SUBSET U
      BY <1>1, <3>1, <3>3, HopsGrow
    <3>5. s.graph \in Seq(reach[Depth])
      BY <3>2 DEF Ranks
    <3> QED
      BY <3>4, <3>5, SeqMonotonic
  <2> QED
    BY <2>1, <2>2
<1>3. PICK lists : lists = ListsOf(s)
  OBVIOUS
<1>4. PICK n \in {2, 3} : Listing(lists, s, n)
  <2>1. s.semantic \in Seq(U) /\ s.lexical \in Seq(U)
    BY <1>1 DEF Ranks
  <2> QED
    BY <1>2, <1>3, <2>1, ListsOfSignals
<1>5. s.semantic \in Seq(U) /\ s.lexical \in Seq(U) /\ Range(s.semantic) = U
  BY <1>1, RanksHave DEF Ranks
<1>6. /\ n \in Nat
      /\ \A i \in 1..n : lists[i] \in Seq(U)
      /\ \A x \in U : \E i \in 1..n : x \in Range(lists[i])
  <2>1. \A i \in 1..n : i = 1 \/ i = 2 \/ (i = 3 /\ n = 3)
    OBVIOUS
  <2>2. 1 \in 1..n /\ n \in Nat
    OBVIOUS
  <2>3. \A i \in 1..n : lists[i] \in Seq(U)
    BY <1>2, <1>4, <1>5, <2>1 DEF Listing
  <2>4. \A x \in U : x \in Range(lists[1])
    BY <1>4, <1>5 DEF Listing
  <2> QED
    BY <2>2, <2>3, <2>4
<1>7. FusedByScore(lists, U)
  <2>1. DOMAIN lists = 1..n
    BY <1>4 DEF Listing
  <2> QED
    BY <1>6, <2>1, FusionRanks
<1> QED
  BY <1>2, <1>3, <1>7

\* The hits are the first of the fusion.
HitsOfFused(hits, fused, U, k) ==
  /\ DOMAIN hits = 1..Len(hits)
  /\ Len(hits) = IF k < Cardinality(U) THEN k ELSE Cardinality(U)
  /\ \A i \in 1..Len(hits) : i \in 1..Cardinality(U) /\ hits[i].id = fused[i] /\ fused[i] \in U

\* So it is with what is retrieved.
LEMMA Retrieved ==
  ASSUME NEW sf, Indexed(sf), NEW query \in Query, NEW k \in Nat, NEW since, NEW until
  PROVE  HitsOfFused(Retrieve(sf, query, k, since, until),
                     Fuse(ListsOf(Signals(sf, query, since, until))),
                     Universe(sf, since, until), k)
<1>1. PICK U, s, fused, hits :
        /\ U = Universe(sf, since, until)
        /\ s = Signals(sf, query, since, until)
        /\ fused = Fuse(ListsOf(s))
        /\ hits = Retrieve(sf, query, k, since, until)
  OBVIOUS
<1>2. U \subseteq Int /\ IsFiniteSet(U)
  BY <1>1, UniverseFinite
<1>3. PICK seeds : SignalsOf(s, U, sf.neighbors, seeds)
  BY <1>1, SignalsRank
<1>4. Ranks(fused, U)
  BY <1>1, <1>2, <1>3, SignalsFused DEF FusedByScore
<1>5. /\ fused \in Seq(U) /\ Len(fused) = Cardinality(U) /\ Cardinality(U) \in Nat
      /\ \A i \in 1..Len(fused) : fused[i] \in U
  BY <1>4, RanksHave DEF Ranks
<1>6. PICK top : top = FirstOf(fused, k)
  OBVIOUS
<1>7. /\ top \in Seq(U) /\ Len(top) = IF k < Cardinality(U) THEN k ELSE Cardinality(U)
      /\ \A i \in 1..Len(top) : i \in 1..Len(fused) /\ top[i] = fused[i]
  BY <1>5, <1>6, FirstOnes
<1>8. hits = [i \in DOMAIN top |->
                [id |-> top[i], semantic |-> RankIn(s.semantic, top[i]),
                 lexical |-> RankIn(s.lexical, top[i]), graph |-> RankIn(s.graph, top[i])]]
  BY <1>1, <1>6 DEF Retrieve, ListsOf
<1>9. DOMAIN top = 1..Len(top) /\ Len(top) \in Nat
  BY <1>7, LenProperties
<1>10. DOMAIN hits = 1..Len(top) /\ \A i \in 1..Len(top) : hits[i].id = top[i]
  BY <1>8, <1>9
<1>11. Len(hits) = Len(top)
  BY <1>9, <1>10
<1>12. HitsOfFused(hits, fused, U, k)
  BY <1>5, <1>7, <1>9, <1>10, <1>11 DEF HitsOfFused
<1> QED
  BY <1>1, <1>12

-----------------------------------------------------------------------------
(* The store under the surface *)

\* A claim of a run.
Item == [id : ClaimId, sign : Sign, sentiment : Int, confidence : Nat]

\* A run's claims have the sign of the first that is loaded under their id.
LEMMA FirstSigns ==
  ASSUME NEW list \in Results, NEW batch, batch = {list[i].id : i \in DOMAIN list}
  PROVE  /\ batch \in SUBSET ClaimId /\ IsFiniteSet(batch)
         /\ [c \in batch |-> FirstSign(list, c)] \in [batch -> Sign]
<1>1. list \in Seq(Item)
  BY ServingAssumption DEF Item
<1>2. DOMAIN list = 1..Len(list) /\ Len(list) \in Nat /\ \A i \in DOMAIN list : list[i] \in Item
  BY <1>1, LenProperties
<1>3. IsFiniteSet(DOMAIN list)
  <2>1. 1 \in Int /\ Len(list) \in Int /\ DOMAIN list = 1..Len(list)
    BY <1>2
  <2>2. IsFiniteSet(1..Len(list))
    BY <2>1, FS_Interval
  <2> QED
    BY <2>1, <2>2
<1>4. IsFiniteSet(batch)
  <2> DEFINE f == [i \in DOMAIN list |-> list[i].id]
  <2>1. f \in Surjection(DOMAIN list, batch)
    BY DEF Surjection
  <2> HIDE DEF f
  <2> QED
    BY <1>3, <2>1, FS_Surjection
<1>5. batch \in SUBSET ClaimId
  BY <1>2 DEF Item
<1>6. ASSUME NEW c \in batch PROVE FirstSign(list, c) \in Sign
  <2> DEFINE D == {i \in DOMAIN list : list[i].id = c}
  <2>1. D \subseteq Int /\ D # {} /\ IsFiniteSet(D)
    <3>1. D \in SUBSET DOMAIN list
      OBVIOUS
    <3> QED
      BY <1>2, <1>3, <3>1, FS_Subset
  <2>2. Min(D) \in D
    <3> HIDE DEF D
    <3> QED
      BY <2>1, MaxMin
  <2>3. list[Min(D)] \in Item
    BY <1>2, <2>2
  <2>4. FirstSign(list, c) = list[Min(D)].sign
    BY DEF FirstSign
  <2> QED
    BY <2>3, <2>4 DEF Item
<1> QED
  BY <1>4, <1>5, <1>6

\* To the store, whatever is served is a load, an invalidation, or nothing.
LEMMA ServeKinds ==
  ASSUME TypeOK, [ServeNext]_servingVars
  PROVE  GraphStep /\ clock' \in Time /\ loads' \in 0..MaxLoads
<1>1. ASSUME NEW list \in Results, LoadRun(list)
      PROVE  GraphStep /\ clock' \in Time /\ loads' \in 0..MaxLoads
  <2>1. PICK batch, sign : /\ batch = {list[i].id : i \in DOMAIN list}
                           /\ sign = [c \in batch |-> FirstSign(list, c)]
    OBVIOUS
  <2>2. batch \in SUBSET ClaimId /\ sign \in [batch -> Sign]
    BY <2>1, FirstSigns
  <2>3. BulkLoad(batch, sign)
    BY <1>1, <2>1 DEF LoadRun
  <2>4. BatchEdges(batch, sign) \in LoadKeys(batch, sign)
    BY DEF LoadKeys
  <2>5. Count /\ Upsert(batch, sign, BatchEdges(batch, sign))
    BY <2>3 DEF BulkLoad
  <2>6. GraphStep
    BY <2>2, <2>4, <2>5 DEF GraphStep
  <2>7. clock' \in Time /\ loads' \in 0..MaxLoads
    BY <2>5, GraphAssumption DEF Count, TypeOK
  <2> QED
    BY <2>6, <2>7
<1>2. ASSUME NEW e \in DOMAIN edges, Correct(e)
      PROVE  GraphStep /\ UNCHANGED <<clock, loads>>
  <2>1. clock \in Time /\ Invalidate(e, clock)
    BY <1>2 DEF Correct, TypeOK
  <2> QED
    BY <2>1 DEF GraphStep, Invalidate
<1>3. TimePasses => GraphStep /\ clock' \in Time /\ loads' \in 0..MaxLoads
  BY GraphAssumption DEF TimePasses, Tick, GraphStep, TypeOK, Time
<1>4. BuildSurface => UNCHANGED vars
  BY DEF BuildSurface
<1>5. UseTool => UNCHANGED vars
  BY DEF UseTool, Answers, SearchDialogue, WhoDiscussed, ConsensusTrend, AskBeliefHistory,
         ProvenanceLookup
<1>6. ASSUME NEW evaluation \in Evaluations, StartEvaluation(evaluation) PROVE UNCHANGED vars
  BY <1>6 DEF StartEvaluation
<1>7. ASSUME NEW texts \in Texts, RunArms(texts) PROVE UNCHANGED vars
  BY <1>7 DEF RunArms
<1>8. ScoreQuery \/ RateTwice \/ EvaluationFails \/ Reported => UNCHANGED vars
  BY DEF ScoreQuery, RateTwice, EvaluationFails, Reported
<1>9. UNCHANGED servingVars => UNCHANGED vars
  BY DEF servingVars
<1>10. UNCHANGED vars => GraphStep /\ UNCHANGED <<clock, loads>>
  BY DEF vars, GraphStep
<1>11. StoreStep => GraphStep /\ clock' \in Time /\ loads' \in 0..MaxLoads
  BY <1>1, <1>2, <1>3, <1>4, <1>10 DEF StoreStep, TypeOK
<1> QED
  BY <1>5, <1>6, <1>7, <1>8, <1>9, <1>10, <1>11 DEF ServeNext, TypeOK

\* The store has its types and hangs together, and its claims are finitely many.
StoreKept == TypeOK /\ Linked /\ IsFiniteSet(DOMAIN claims)

\* Every step keeps that, and the history.
LEMMA StoreKeptStep ==
  ASSUME StoreKept, [ServeNext]_servingVars
  PROVE  StoreKept' /\ KeepsHistory
<1>1. TypeOK /\ Linked /\ IsFiniteSet(DOMAIN claims)
  BY DEF StoreKept
<1>2. GraphStep /\ clock' \in Time /\ loads' \in 0..MaxLoads
  BY <1>1, ServeKinds
<1>3. TypeOK' /\ Linked' /\ KeepsHistory
  BY <1>1, <1>2, TypeStep, LinkedStep, HistoryStep
<1>4. ASSUME NEW list \in Results, LoadRun(list) PROVE IsFiniteSet(DOMAIN claims')
  <2>1. PICK batch, sign : /\ batch = {list[i].id : i \in DOMAIN list}
                           /\ sign = [c \in batch |-> FirstSign(list, c)]
    OBVIOUS
  <2>2. IsFiniteSet(batch)
    BY <2>1, FirstSigns
  <2>3. DOMAIN claims' = DOMAIN claims \cup batch
    BY <1>4, <2>1 DEF LoadRun, BulkLoad, Upsert, UpsertClaims
  <2> QED
    BY <1>1, <2>2, <2>3, FS_Union
<1>5. (\A list \in Results : ~LoadRun(list)) => claims' = claims
  BY DEF ServeNext, StoreStep, Correct, Invalidate, TimePasses, Tick, storeVars, BuildSurface,
         UseTool, Answers, SearchDialogue, WhoDiscussed, ConsensusTrend, AskBeliefHistory,
         ProvenanceLookup, StartEvaluation, RunArms, ScoreQuery, RateTwice, EvaluationFails,
         Reported, servingVars, vars
<1> QED
  BY <1>1, <1>3, <1>4, <1>5 DEF StoreKept

-----------------------------------------------------------------------------
(* What is served *)

\* A claim that consensus counts is on the surface, unless its assertion is invalidated.
CountedHere(c) ==
  c \in surface.claims \/ (AssertsEdge(c) \in DOMAIN edges /\ edges[AssertsEdge(c)].invalidated)

\* The claims of the last run are in the store, and so are those of the surface.
Derived ==
  /\ result.claims \in Seq(Item)
  /\ \A i \in 1..Len(result.claims) : result.claims[i].id \in DOMAIN claims
  /\ surface.claims \in SUBSET DOMAIN claims
  /\ \A i \in DOMAIN surface.counted : CountedHere(surface.counted[i].id)

\* An answer is what the surface that is still there gives.
Answered ==
  /\ answer.tool = "search_dialogue" =>
       /\ answer.query \in Query
       /\ answer.hits = Retrieve(surface, answer.query, TopK, answer.since, answer.until)
  /\ answer.tool = "who_discussed" =>
       /\ answer.query \in Query
       /\ answer.mentions = Cast(Retrieve(surface, answer.query, WhoK, answer.since, 0))

\* The inductive invariant.
ServeInv == StoreKept /\ Derived /\ Answered

\* It holds at the start.
LEMMA ServeInvInit == ServeInit => ServeInv
<1> SUFFICES ASSUME ServeInit PROVE ServeInv
  OBVIOUS
<1>1. Init /\ result = NoResult /\ surface = NoSurface /\ answer = NoAnswer
  BY DEF ServeInit
<1>2. StoreKept
  <2>1. DOMAIN claims = {}
    BY <1>1 DEF Init
  <2>2. TypeOK
    BY <1>1, TypeInit
  <2>3. Linked
    BY <1>1 DEF Init, Linked
  <2> QED
    BY <2>1, <2>2, <2>3, FS_EmptySet DEF StoreKept
<1>3. Derived
  <2>1. result.claims = <<>> /\ surface.claims = {} /\ surface.counted = <<>>
    BY <1>1 DEF NoResult, NoSurface
  <2> QED
    BY <2>1 DEF Derived
<1>4. Answered
  BY <1>1 DEF Answered, NoAnswer
<1> QED
  BY <1>2, <1>3, <1>4 DEF ServeInv

\* A step that leaves the run and the surface alone leaves what was derived in place.
LEMMA DerivedLasts ==
  ASSUME Derived, KeepsHistory, UNCHANGED <<result, surface>>
  PROVE  Derived'
<1>1. ASSUME NEW c, CountedHere(c) PROVE CountedHere(c)'
  BY <1>1 DEF CountedHere, KeepsHistory
<1> QED
  BY <1>1 DEF Derived, KeepsHistory

\* Every step keeps what was derived.
LEMMA DerivedStep ==
  ASSUME StoreKept, StoreKept', KeepsHistory, Derived, [ServeNext]_servingVars
  PROVE  Derived'
<1>1. ASSUME NEW list \in Results, LoadRun(list) PROVE Derived'
  <2>1. list \in Seq(Item)
    BY ServingAssumption DEF Item
  <2>2. /\ result'.claims = list /\ surface' = surface
        /\ DOMAIN claims' = DOMAIN claims \cup {list[i].id : i \in DOMAIN list}
    BY <1>1 DEF LoadRun, BulkLoad, Upsert, UpsertClaims
  <2>3. \A i \in 1..Len(list) : list[i].id \in DOMAIN claims'
    BY <2>1, <2>2, LenProperties
  <2>4. ASSUME NEW c, CountedHere(c) PROVE CountedHere(c)'
    BY <2>2, <2>4 DEF CountedHere, KeepsHistory
  <2> QED
    BY <2>1, <2>2, <2>3, <2>4 DEF Derived
<1>2. ASSUME BuildSurface PROVE Derived'
  <2>1. /\ surface'.claims = CurrentAnswer
        /\ surface'.counted = [i \in DOMAIN result.claims |->
                                 Placed(result.claims[i], result.times)]
        /\ UNCHANGED <<result, claims, edges>>
    BY <1>2 DEF BuildSurface, Retrievable, vars, storeVars
  <2>2. DOMAIN result.claims = 1..Len(result.claims)
    BY LenProperties DEF Derived
  <2>3. \A i \in 1..Len(result.claims) : surface'.counted[i].id = result.claims[i].id
    <3>1. \A claim, times : Placed(claim, times).id = claim.id
      BY DEF Placed
    <3> QED
      BY <2>1, <2>2, <3>1
  <2>4. ASSUME NEW c \in DOMAIN claims
        PROVE  c \in CurrentAnswer
               \/ (AssertsEdge(c) \in DOMAIN edges /\ edges[AssertsEdge(c)].invalidated)
    <3>1. AssertsEdge(c) \in DOMAIN edges
      BY DEF StoreKept, Linked
    <3>2. AssertsEdge(c).type = "asserts" /\ AssertsEdge(c).dst = c
      BY DEF AssertsEdge, EdgeKey
    <3> QED
      BY <3>1, <3>2 DEF CurrentAnswer
  <2>5. CurrentAnswer \in SUBSET DOMAIN claims
    BY DEF CurrentAnswer
  <2>6. \A i \in 1..Len(result.claims) : CountedHere(result.claims[i].id)'
    BY <2>1, <2>4 DEF Derived, CountedHere
  <2>7. \A i \in DOMAIN surface'.counted : CountedHere(surface.counted[i].id)'
    BY <2>1, <2>2, <2>3, <2>6
  <2> QED
    BY <2>1, <2>5, <2>7 DEF Derived
<1>3. (\A list \in Results : ~LoadRun(list)) /\ ~BuildSurface => UNCHANGED <<result, surface>>
  BY DEF ServeNext, StoreStep, Correct, TimePasses,
         UseTool, Answers, SearchDialogue, WhoDiscussed, ConsensusTrend, AskBeliefHistory,
         ProvenanceLookup, StartEvaluation, RunArms, ScoreQuery, RateTwice, EvaluationFails,
         Reported, servingVars
<1> QED
  BY <1>1, <1>2, <1>3, DerivedLasts

\* Every step keeps the answer true: nothing is built while it stands.
LEMMA AnsweredStep ==
  ASSUME Answered, [ServeNext]_servingVars
  PROVE  Answered'
<1>1. ASSUME StoreStep PROVE Answered'
  <2>1. answer = NoAnswer /\ answer' = answer
    BY <1>1 DEF StoreStep, LoadRun, Correct, TimePasses, BuildSurface
  <2> QED
    BY <2>1 DEF Answered, NoAnswer
<1>2. ASSUME UseTool PROVE Answered'
  <2>1. surface' = surface
    BY <1>2 DEF UseTool, Answers, SearchDialogue, WhoDiscussed, ConsensusTrend,
                AskBeliefHistory, ProvenanceLookup
  <2>2. ASSUME NEW query \in Query, NEW since, NEW until, SearchDialogue(query, since, until)
        PROVE  Answered'
    BY <2>1, <2>2 DEF Answered, SearchDialogue, Answers
  <2>3. ASSUME NEW query \in Query, NEW since, WhoDiscussed(query, since)
        PROVE  Answered'
    BY <2>1, <2>3 DEF Answered, WhoDiscussed, Answers
  <2>4. ASSUME NEW subject, ConsensusTrend(subject) PROVE Answered'
    BY <2>4 DEF Answered, ConsensusTrend, Answers
  <2>5. ASSUME NEW person, NEW subject, AskBeliefHistory(person, subject) PROVE Answered'
    BY <2>5 DEF Answered, AskBeliefHistory, Answers
  <2>6. ASSUME NEW r, ProvenanceLookup(r) PROVE Answered'
    BY <2>6 DEF Answered, ProvenanceLookup, Answers
  <2> QED
    BY <1>2, <2>2, <2>3, <2>4, <2>5, <2>6 DEF UseTool
<1>3. ASSUME Reported PROVE Answered'
  BY <1>3 DEF Reported, Answered, NoAnswer
<1>4. ~StoreStep /\ ~UseTool /\ ~Reported => UNCHANGED <<surface, answer>>
  BY DEF ServeNext, StartEvaluation, RunArms, ScoreQuery, RateTwice, EvaluationFails, servingVars
<1>5. UNCHANGED <<surface, answer>> => Answered'
  BY DEF Answered
<1> QED
  BY <1>1, <1>2, <1>3, <1>4, <1>5

\* The invariant holds of every behaviour.
LEMMA ServeInvHolds == ServingSpec => []ServeInv
<1>1. ServeInv /\ [ServeNext]_servingVars => ServeInv'
  BY StoreKeptStep, DerivedStep, AnsweredStep DEF ServeInv
<1> QED
  BY <1>1, ServeInvInit, PTL DEF ServingSpec

-----------------------------------------------------------------------------
(* Whatever is counted or found is there *)

\* The speaker of every hit is in the cast.
LEMMA CastHasAll ==
  ASSUME NEW hits, NEW n \in Nat, DOMAIN hits = 1..n, NEW i \in 1..n
  PROVE  \E p \in DOMAIN Cast(hits) : Cast(hits)[p].speaker = SpeakerOf[hits[i].id]
<1> DEFINE said == [j \in 1..n |-> [speaker |-> SpeakerOf[hits[j].id], at |-> j,
                                    claim |-> hits[j].id]]
           First(m) == \A j \in 1..(m.at - 1) : SpeakerOf[hits[j].id] # m.speaker
           places == {j \in DOMAIN said : First(said[j])}
           same == {j \in 1..n : SpeakerOf[hits[j].id] = SpeakerOf[hits[i].id]}
           S == {said[j] : j \in 1..n}
<1>1. Cast(hits) = Picked(said, places)
  BY DEF Cast, Filter
<1>2. said \in Seq(S) /\ DOMAIN said = 1..n
      /\ \A j \in 1..n : said[j].at = j /\ said[j].speaker = SpeakerOf[hits[j].id]
  <2>1. said \in [1..n -> S]
    OBVIOUS
  <2>2. said \in Seq(S)
    <3> HIDE DEF said, S
    <3> QED
      BY <2>1, SeqOfFunction
  <2> QED
    BY <2>2
<1>3. PICK k \in same : \A j \in same : k <= j
  <2>1. same \in SUBSET Nat /\ i \in same
    OBVIOUS
  <2> HIDE DEF same
  <2> QED
    BY <2>1, LeastNatural
<1>4. k \in 1..n /\ SpeakerOf[hits[k].id] = SpeakerOf[hits[i].id]
      /\ \A j \in 1..(k - 1) : SpeakerOf[hits[j].id] # SpeakerOf[hits[i].id]
  BY <1>3
<1> HIDE DEF said, S
<1>5. k \in places
  BY <1>2, <1>4
<1>6. places \in SUBSET DOMAIN said
  OBVIOUS
<1> HIDE DEF places
<1>7. PICK p \in DOMAIN Picked(said, places) : Picked(said, places)[p] = said[k]
  BY <1>2, <1>5, <1>6, PickedElements
<1> QED
  BY <1>1, <1>2, <1>4, <1>7

\* What is counted or found is there, by the invariant.
LEMMA CountedFromInv == ServeInv => CountedIsSearchable
<1> SUFFICES ASSUME ServeInv PROVE CountedIsSearchable
  OBVIOUS
<1>1. PICK sf : sf = surface
  OBVIOUS
<1>2. /\ sf.claims \in SUBSET DOMAIN claims
      /\ DOMAIN claims \subseteq ClaimId /\ IsFiniteSet(DOMAIN claims)
  BY <1>1 DEF ServeInv, StoreKept, Derived, TypeOK
<1>3. Indexed(sf)
  BY <1>2, FS_Subset DEF Indexed
<1>4. ASSUME NEW trend \in ToldTrends, NEW i \in CountedOf(trend.subject)
      PROVE  LET c == surface.counted[i].id
             IN  c \in surface.claims \/ edges[AssertsEdge(c)].invalidated
  <2>1. i \in DOMAIN surface.counted
    BY DEF CountedOf
  <2>2. CountedHere(surface.counted[i].id)
    BY <2>1 DEF ServeInv, Derived
  <2> QED
    BY <2>2 DEF CountedHere
<1>5. ASSUME answer.tool = "search_dialogue", NEW i \in DOMAIN answer.hits
      PROVE  LET c == answer.hits[i].id
             IN  /\ c \in DOMAIN claims /\ AssertsEdge(c) \in DOMAIN edges
                 /\ Provenance(c) = c
  <2>1. PICK query, since, until, hits :
          /\ query \in Query
          /\ since = answer.since /\ until = answer.until /\ hits = answer.hits
          /\ hits = Retrieve(sf, query, TopK, since, until)
    BY <1>1, <1>5 DEF ServeInv, Answered
  <2>2. HitsOfFused(hits, Fuse(ListsOf(Signals(sf, query, since, until))),
                    Universe(sf, since, until), TopK)
    BY <1>3, <2>1, ServingAssumption, Retrieved
  <2>3. hits[i].id \in Universe(sf, since, until)
    BY <2>1, <2>2 DEF HitsOfFused
  <2>4. hits[i].id \in sf.claims
    BY <1>3, <2>3, UniverseFinite
  <2>5. PICK c : c = hits[i].id
    OBVIOUS
  <2>6. c \in DOMAIN claims /\ AssertsEdge(c) \in DOMAIN edges
    BY <1>2, <2>4, <2>5 DEF ServeInv, StoreKept, Linked
  <2>7. Provenance(c) = c
    BY <1>1, <2>4, <2>5 DEF Provenance
  <2> QED
    BY <2>1, <2>5, <2>6, <2>7
<1>6. ASSUME answer.tool = "who_discussed", NEW c \in Universe(surface, answer.since, 0),
             WhoK >= Cardinality(surface.claims)
      PROVE  \E i \in DOMAIN answer.mentions : answer.mentions[i].speaker = SpeakerOf[c]
  <2>1. PICK query, since, hits :
          /\ query \in Query
          /\ since = answer.since
          /\ hits = Retrieve(sf, query, WhoK, since, 0)
          /\ answer.mentions = Cast(hits)
    BY <1>1, <1>6 DEF ServeInv, Answered
  <2>2. PICK U, fused : /\ U = Universe(sf, since, 0)
                        /\ fused = Fuse(ListsOf(Signals(sf, query, since, 0)))
    OBVIOUS
  <2>3. HitsOfFused(hits, fused, U, WhoK)
    BY <1>3, <2>1, <2>2, ServingAssumption, Retrieved
  <2>4. U \in SUBSET sf.claims /\ IsFiniteSet(U) /\ U \subseteq Int
    BY <1>3, <2>2, UniverseFinite
  <2>5. Cardinality(U) <= Cardinality(sf.claims)
        /\ Cardinality(U) \in Nat /\ Cardinality(sf.claims) \in Nat
    BY <1>3, <2>4, FS_Subset, FS_CardinalityType DEF Indexed
  <2>6. Len(hits) = Cardinality(U) /\ DOMAIN hits = 1..Cardinality(U)
    BY <1>1, <1>6, <2>3, <2>5, ServingAssumption DEF HitsOfFused
  <2>7. PICK seeds : SignalsOf(Signals(sf, query, since, 0), U, sf.neighbors, seeds)
    BY <1>3, <2>1, <2>2, SignalsRank
  <2>8. Ranks(fused, U)
    BY <2>2, <2>4, <2>7, SignalsFused DEF FusedByScore
  <2>9. c \in U
    BY <1>1, <1>6, <2>1, <2>2
  <2>10. PICK i \in 1..Cardinality(U) : fused[i] = c
    BY <2>8, <2>9 DEF Ranks
  <2>11. hits[i].id = c
    BY <2>3, <2>6, <2>10 DEF HitsOfFused
  <2>12. \E p \in DOMAIN Cast(hits) : Cast(hits)[p].speaker = SpeakerOf[hits[i].id]
    BY <2>5, <2>6, CastHasAll
  <2> QED
    BY <2>1, <2>11, <2>12
<1> QED
  BY <1>4, <1>5, <1>6 DEF CountedIsSearchable

\* A claim that consensus counts is one that search has, unless its assertion has been
\* invalidated; a hit is in the store, asserted by its speaker, and found by its id;
\* and a roll-call that asks for as many hits as there are claims misses nobody.
THEOREM WhatCountsIsSearchable == ServingSpec => []CountedIsSearchable
  BY ServeInvHolds, CountedFromInv, PTL

-----------------------------------------------------------------------------
(* No signal is lost *)

\* What a place in a ranking is worth.
Worth(n) == Unit \div (RrfK + n)

\* The nearer to the top the more.
LEMMA WorthFalls ==
  ASSUME NEW a \in 1..Cardinality(ClaimId), NEW b \in 1..Cardinality(ClaimId)
  PROVE  /\ Worth(a) \in Nat
         /\ a < b => Worth(a) > Worth(b)
         /\ a <= b => Worth(a) >= Worth(b)
<1>1. Cardinality(ClaimId) \in Nat
  BY ServingAssumption, FS_CardinalityType
<1>2. Unit \in Nat \ {0} /\ RrfK \in Nat \ {0}
  BY RetrievalAssumption
<1>3. ASSUME NEW n \in 1..Cardinality(ClaimId)
      PROVE  Worth(n) \in Nat /\ Worth(n) * (RrfK + n) = Unit /\ Worth(n) > 0
  <2>1. PICK d \in Nat \ {0} : d = RrfK + n
    BY <1>1, <1>2
  <2>2. Unit % d = 0
    BY <2>1, ServingAssumption
  <2>3. Unit = (d * (Unit \div d)) + (Unit % d) /\ Unit \div d \in Int
    BY <1>2, <2>1
  <2>4. PICK q \in Int : q = Unit \div d
    BY <2>3
  <2>5. Unit = d * q
    BY <1>2, <2>2, <2>3, <2>4
  <2>6. q > 0
    <3>1. ASSUME q <= 0 PROVE FALSE
      <4>1. d * q <= 0
        BY <2>1, <3>1
      <4> QED
        BY <1>2, <2>5, <4>1
    <3> QED
      BY <3>1
  <2> QED
    BY <2>1, <2>4, <2>5, <2>6 DEF Worth
<1>4. PICK p \in Nat, q \in Nat, c \in Nat, d \in Nat :
        /\ p = Worth(a) /\ q = Worth(b) /\ c = RrfK + a /\ d = RrfK + b
        /\ p * c = Unit /\ q * d = Unit /\ p > 0 /\ q > 0 /\ c > 0
  BY <1>1, <1>2, <1>3
<1>5. a < b => p > q
  <2> SUFFICES ASSUME a < b, p <= q PROVE FALSE
    OBVIOUS
  <2>1. c < d
    BY <1>1, <1>2, <1>4
  <2>2. p * c <= q * c
    BY <1>4
  <2>3. q * c < q * d
    BY <1>4, <2>1
  <2> QED
    BY <1>2, <1>4, <2>2, <2>3
<1> QED
  BY <1>4, <1>5

\* Twice or three times over.
LEMMA SumOfFew ==
  ASSUME NEW f, f[1] \in Int, f[2] \in Int
  PROVE  /\ SumFunctionOnSet(f, {1, 2}) = f[1] + f[2]
         /\ f[3] \in Int => SumFunctionOnSet(f, {1, 2, 3}) = f[1] + f[2] + f[3]
<1>1. IsFiniteSet({1, 2}) /\ IsFiniteSet({1, 2, 3}) /\ IsFiniteSet({2}) /\ IsFiniteSet({2, 3})
      /\ IsFiniteSet({3})
  BY FS_EmptySet, FS_AddElement
<1>2. SumFunctionOnSet(f, {2}) = f[2]
  <2>1. {2} \ {2} = {}
    OBVIOUS
  <2> QED
    BY <1>1, <2>1, SumOf
<1>3. SumFunctionOnSet(f, {1, 2}) = f[1] + f[2]
  <2>1. SumFunctionOnSet(f, {1, 2}) = f[1] + SumFunctionOnSet(f, {1, 2} \ {1})
    BY <1>1, SumOf
  <2>2. {1, 2} \ {1} = {2}
    OBVIOUS
  <2> QED
    BY <1>2, <2>1, <2>2
<1>4. ASSUME f[3] \in Int PROVE SumFunctionOnSet(f, {1, 2, 3}) = f[1] + f[2] + f[3]
  <2>1. SumFunctionOnSet(f, {1, 2, 3}) = f[3] + SumFunctionOnSet(f, {1, 2, 3} \ {3})
    BY <1>1, <1>4, SumOf
  <2>2. {1, 2, 3} \ {3} = {1, 2}
    OBVIOUS
  <2>3. PICK x \in Int, y \in Int, z \in Int : x = f[1] /\ y = f[2] /\ z = f[3]
    BY <1>4
  <2>4. SumFunctionOnSet(f, {1, 2, 3}) = z + (x + y)
    BY <1>3, <2>1, <2>2, <2>3
  <2>5. z + (x + y) = x + y + z
    OBVIOUS
  <2> QED
    BY <2>3, <2>4, <2>5
<1> QED
  BY <1>3, <1>4

\* What an id is worth in the fusion: its places by content, and in the graph if it is
\* there.
LEMMA ScoreOfSignals ==
  ASSUME NEW U, U \subseteq Int, IsFiniteSet(U), NEW neighbors, NEW seeds,
         NEW s, SignalsOf(s, U, neighbors, seeds), NEW id \in U
  PROVE  /\ RankIn(s.semantic, id) \in 1..Cardinality(U)
         /\ RankIn(s.lexical, id) \in 1..Cardinality(U)
         /\ FusedScore(ListsOf(s), id) =
              Worth(RankIn(s.semantic, id)) + Worth(RankIn(s.lexical, id))
              + (IF RankIn(s.graph, id) = 0 THEN 0 ELSE Worth(RankIn(s.graph, id)))
<1>1. PICK lists, f, a, b, g :
        /\ lists = ListsOf(s) /\ f = Reciprocals(lists, id)
        /\ a = RankIn(s.semantic, id) /\ b = RankIn(s.lexical, id) /\ g = RankIn(s.graph, id)
  OBVIOUS
<1>2. /\ s.semantic \in Seq(U) /\ Range(s.semantic) = U /\ Len(s.semantic) = Cardinality(U)
      /\ s.lexical \in Seq(U) /\ Range(s.lexical) = U /\ Len(s.lexical) = Cardinality(U)
      /\ Cardinality(U) \in Nat
  BY RanksHave DEF SignalsOf, Ranks
<1>3. s.graph \in Seq(U)
  BY SignalsFused
<1>4. a \in 1..Cardinality(U) /\ b \in 1..Cardinality(U)
  <2>1. a \in 0..Cardinality(U) /\ a # 0
    BY <1>1, <1>2, RankProperties
  <2>2. b \in 0..Cardinality(U) /\ b # 0
    BY <1>1, <1>2, RankProperties
  <2> QED
    BY <2>1, <2>2
<1>5. PICK n \in {2, 3} : Listing(lists, s, n)
  BY <1>1, <1>2, <1>3, ListsOfSignals
<1>6. /\ DOMAIN lists = 1..n /\ lists[1] = s.semantic /\ lists[2] = s.lexical
      /\ n = 3 => lists[3] = s.graph
      /\ n = 2 => s.graph = <<>>
  BY <1>5 DEF Listing
<1>7. \A i \in 1..n : i = 1 \/ i = 2 \/ (i = 3 /\ n = 3)
  OBVIOUS
<1>8. \A i \in 1..n : f[i] = Worth(RankIn(lists[i], id)) /\ f[i] \in Int
  <2>1. \A i \in 1..n : lists[i] \in Seq(U)
    BY <1>2, <1>3, <1>6, <1>7
  <2>2. n \in Nat
    OBVIOUS
  <2> QED
    BY <1>1, <1>6, <2>1, <2>2, ReciprocalsTyped DEF Worth
<1>9. f[1] = Worth(a) /\ f[2] = Worth(b) /\ f[1] \in Int /\ f[2] \in Int
      /\ (n = 3 => f[3] = Worth(g) /\ f[3] \in Int)
  <2>1. 1 \in 1..n /\ 2 \in 1..n /\ (n = 3 => 3 \in 1..n)
    OBVIOUS
  <2> QED
    BY <1>1, <1>6, <1>8, <2>1
<1>10. n = 2 => g = 0
  BY <1>1, <1>6 DEF RankIn, Range
<1>11. FusedScore(lists, id)
         = SumFunctionOnSet(f, {i \in 1..n : RankIn(lists[i], id) # 0})
  BY <1>1, <1>6 DEF FusedScore
<1>12. RankIn(lists[1], id) # 0 /\ RankIn(lists[2], id) # 0
       /\ (n = 3 => RankIn(lists[3], id) = g)
  BY <1>1, <1>4, <1>6
<1>13. FusedScore(lists, id) = Worth(a) + Worth(b) + (IF g = 0 THEN 0 ELSE Worth(g))
  <2>1. CASE g = 0
    <3>1. {i \in 1..n : RankIn(lists[i], id) # 0} = {1, 2}
      BY <1>7, <1>12, <2>1
    <3>2. FusedScore(lists, id) = f[1] + f[2]
      BY <1>9, <1>11, <3>1, SumOfFew
    <3>3. f[1] + f[2] = f[1] + f[2] + 0
      BY <1>9
    <3> QED
      BY <1>9, <2>1, <3>2, <3>3
  <2>2. CASE g # 0
    <3>1. n = 3
      BY <1>10, <2>2
    <3>2. {i \in 1..n : RankIn(lists[i], id) # 0} = {1, 2, 3}
      BY <1>7, <1>12, <2>2, <3>1
    <3>3. FusedScore(lists, id) = f[1] + f[2] + f[3]
      BY <1>9, <1>11, <3>1, <3>2, SumOfFew
    <3> QED
      BY <1>9, <2>2, <3>1, <3>3
  <2> QED
    BY <2>1, <2>2
<1> QED
  BY <1>1, <1>4, <1>13

\* The graph ranks no more than there is.
LEMMA GraphLength ==
  ASSUME NEW U, U \subseteq Int, IsFiniteSet(U), NEW neighbors, NEW seeds,
         NEW s, SignalsOf(s, U, neighbors, seeds)
  PROVE  Len(s.graph) \in Nat /\ Len(s.graph) <= Cardinality(U)
<1>1. seeds \in SUBSET U
      /\ s.graph = IF Depth = 0 THEN <<>> ELSE GraphRanking(seeds, U, neighbors)
  BY DEF SignalsOf
<1>2. Cardinality(U) \in Nat
  BY FS_CardinalityType
<1>3. CASE Depth = 0
  <2>1. Len(s.graph) = 0
    BY <1>1, <1>3
  <2> QED
    BY <1>2, <2>1
<1>4. CASE Depth # 0
  <2>1. PICK reach : Hops(reach, seeds, U, neighbors)
    BY <1>1, HopsExist
  <2>2. Ranks(GraphRanking(seeds, U, neighbors), reach[Depth])
    BY <1>1, <2>1, GraphRanked
  <2>3. Depth \in 0..Depth
    BY RetrievalAssumption
  <2>4. reach[Depth] \in SUBSET U
    BY <1>1, <2>1, <2>3, HopsGrow
  <2>5. Len(s.graph) = Cardinality(reach[Depth]) /\ Cardinality(reach[Depth]) \in Nat
    BY <1>1, <1>4, <2>2 DEF Ranks
  <2>6. Cardinality(reach[Depth]) <= Cardinality(U)
    BY <2>4, FS_Subset
  <2> QED
    BY <2>5, <2>6
<1> QED
  BY <1>3, <1>4

\* A claim is before another by meaning and by words, and not behind it in the graph.
Beats(s, c, d) ==
  /\ Behind(s.semantic, c) < Behind(s.semantic, d)
  /\ Behind(s.lexical, c) < Behind(s.lexical, d)
  /\ Behind(s.graph, c) <= Behind(s.graph, d)

\* The score of the fusion tells them apart, as no two places are worth the same.
LEMMA BeatenIsWorthLess ==
  ASSUME NEW U \in SUBSET ClaimId, NEW neighbors, NEW seeds,
         NEW s, SignalsOf(s, U, neighbors, seeds),
         NEW c \in U, NEW d \in U, Beats(s, c, d)
  PROVE  FusedScore(ListsOf(s), c) > FusedScore(ListsOf(s), d)
<1>1. U \subseteq Int /\ IsFiniteSet(U) /\ Cardinality(U) <= Cardinality(ClaimId)
      /\ Cardinality(U) \in Nat /\ Cardinality(ClaimId) \in Nat
  <2>1. IsFiniteSet(ClaimId) /\ ClaimId \subseteq Int
    BY ServingAssumption, ClaimAssumption
  <2> QED
    BY <2>1, FS_Subset, FS_CardinalityType
<1>2. PICK a, b, g : /\ a = [id \in U |-> RankIn(s.semantic, id)]
                     /\ b = [id \in U |-> RankIn(s.lexical, id)]
                     /\ g = [id \in U |-> RankIn(s.graph, id)]
  OBVIOUS
<1>3. PICK n \in Nat : n = Len(s.graph) /\ s.graph \in Seq(U) /\ n <= Cardinality(U)
  <2>1. s.graph \in Seq(U)
    BY <1>1, SignalsFused
  <2>2. Len(s.graph) \in Nat /\ Len(s.graph) <= Cardinality(U)
    BY <1>1, GraphLength
  <2> QED
    BY <2>1, <2>2
<1>4. \A id \in U :
        /\ a[id] \in 1..Cardinality(ClaimId) /\ b[id] \in 1..Cardinality(ClaimId)
        /\ g[id] \in 0..n /\ (g[id] # 0 => g[id] \in 1..Cardinality(ClaimId))
        /\ FusedScore(ListsOf(s), id) =
             Worth(a[id]) + Worth(b[id]) + (IF g[id] = 0 THEN 0 ELSE Worth(g[id]))
  <2> SUFFICES ASSUME NEW id \in U
               PROVE  /\ a[id] \in 1..Cardinality(ClaimId) /\ b[id] \in 1..Cardinality(ClaimId)
                      /\ g[id] \in 0..n /\ (g[id] # 0 => g[id] \in 1..Cardinality(ClaimId))
                      /\ FusedScore(ListsOf(s), id) =
                           Worth(a[id]) + Worth(b[id]) + (IF g[id] = 0 THEN 0 ELSE Worth(g[id]))
    OBVIOUS
  <2>1. /\ a[id] = RankIn(s.semantic, id) /\ b[id] = RankIn(s.lexical, id)
        /\ g[id] = RankIn(s.graph, id)
    BY <1>2
  <2>2. /\ a[id] \in 1..Cardinality(U) /\ b[id] \in 1..Cardinality(U)
        /\ FusedScore(ListsOf(s), id) =
             Worth(a[id]) + Worth(b[id]) + (IF g[id] = 0 THEN 0 ELSE Worth(g[id]))
    BY <1>1, <2>1, ScoreOfSignals
  <2>3. g[id] \in 0..n
    BY <1>3, <2>1, RankProperties
  <2> QED
    BY <1>1, <1>3, <2>2, <2>3
<1>5. /\ a[c] < a[d] /\ b[c] < b[d]
      /\ (IF g[c] = 0 THEN n + 1 ELSE g[c]) <= (IF g[d] = 0 THEN n + 1 ELSE g[d])
  <2>1. /\ a[c] # 0 /\ a[d] # 0 /\ b[c] # 0 /\ b[d] # 0
    BY <1>4
  <2>2. /\ RankIn(s.semantic, c) = a[c] /\ RankIn(s.semantic, d) = a[d]
        /\ RankIn(s.lexical, c) = b[c] /\ RankIn(s.lexical, d) = b[d]
        /\ RankIn(s.graph, c) = g[c] /\ RankIn(s.graph, d) = g[d]
    BY <1>2
  <2> QED
    BY <1>3, <2>1, <2>2 DEF Beats, Behind
<1>6. Worth(a[c]) > Worth(a[d]) /\ Worth(b[c]) > Worth(b[d])
      /\ Worth(a[c]) \in Nat /\ Worth(a[d]) \in Nat /\ Worth(b[c]) \in Nat /\ Worth(b[d]) \in Nat
  BY <1>4, <1>5, WorthFalls
<1>7. PICK x \in Nat, y \in Nat :
        /\ x = IF g[c] = 0 THEN 0 ELSE Worth(g[c])
        /\ y = IF g[d] = 0 THEN 0 ELSE Worth(g[d])
        /\ x >= y
  <2>1. \A id \in {c, d} : g[id] # 0 => Worth(g[id]) \in Nat
    BY <1>4, WorthFalls
  <2>2. CASE g[d] = 0
    BY <2>1, <2>2
  <2>3. CASE g[d] # 0
    <3>1. g[c] # 0 /\ g[c] <= g[d]
      BY <1>3, <1>4, <1>5, <2>3
    <3>2. Worth(g[c]) >= Worth(g[d])
      BY <1>4, <2>3, <3>1, WorthFalls
    <3> QED
      BY <2>1, <2>3, <3>1, <3>2
  <2> QED
    BY <2>2, <2>3
<1>8. /\ FusedScore(ListsOf(s), c) = Worth(a[c]) + Worth(b[c]) + x
      /\ FusedScore(ListsOf(s), d) = Worth(a[d]) + Worth(b[d]) + y
  BY <1>4, <1>7
<1> QED
  BY <1>6, <1>7, <1>8

\* What two rankings of everything make of an id, fused.
LEMMA ContentFused ==
  ASSUME NEW U, NEW a, Ranks(a, U), NEW b, Ranks(b, U), NEW id \in U
  PROVE  FusedScore(<<a, b>>, id)
           = (Unit \div (RrfK + RankIn(a, id))) + (Unit \div (RrfK + RankIn(b, id)))
<1>1. PICK lists, f : lists = <<a, b>> /\ f = Reciprocals(lists, id)
  OBVIOUS
<1>2. a \in Seq(U) /\ Range(a) = U /\ b \in Seq(U) /\ Range(b) = U
  BY RanksHave DEF Ranks
<1>3. DOMAIN lists = 1..2 /\ lists[1] = a /\ lists[2] = b
  BY <1>1
<1>4. \A i \in 1..2 : i = 1 \/ i = 2
  OBVIOUS
<1>5. \A i \in 1..2 : lists[i] \in Seq(U)
  BY <1>2, <1>3, <1>4
<1>6. \A i \in 1..2 : f[i] = Unit \div (RrfK + RankIn(lists[i], id)) /\ f[i] \in Int
  <2>1. PICK n \in Nat : n = 2
    OBVIOUS
  <2>2. DOMAIN lists = 1..n /\ \A i \in 1..n : lists[i] \in Seq(U)
    BY <1>3, <1>5, <2>1
  <2>3. \A i \in 1..n : /\ Reciprocals(lists, id)[i] = Unit \div (RrfK + RankIn(lists[i], id))
                        /\ Reciprocals(lists, id)[i] \in Int
    BY <2>2, ReciprocalsTyped
  <2> QED
    BY <1>1, <2>1, <2>3
<1>7. /\ f[1] = Unit \div (RrfK + RankIn(a, id)) /\ f[1] \in Int
      /\ f[2] = Unit \div (RrfK + RankIn(b, id)) /\ f[2] \in Int
  <2>1. 1 \in 1..2 /\ 2 \in 1..2
    OBVIOUS
  <2> QED
    BY <1>3, <1>6, <2>1
<1>8. {i \in DOMAIN lists : RankIn(lists[i], id) # 0} = {1, 2}
  <2>1. RankIn(a, id) # 0 /\ RankIn(b, id) # 0
    BY <1>2, RankProperties
  <2>2. DOMAIN lists = {1, 2}
    BY <1>3, <1>4
  <2> QED
    BY <1>3, <2>1, <2>2
<1>9. FusedScore(lists, id) = f[1] + f[2]
  <2>1. FusedScore(lists, id) = SumFunctionOnSet(f, {1, 2})
    BY <1>1, <1>8 DEF FusedScore
  <2> QED
    BY <1>7, <2>1, SumOfFew
<1> QED
  BY <1>1, <1>7, <1>9

\* The seeds are of the best by content: none outside them is worth more.
LEMMA SeedsAreBest ==
  ASSUME NEW U \in SUBSET ClaimId, NEW neighbors, NEW seeds,
         NEW s, SignalsOf(s, U, neighbors, seeds),
         NEW c \in seeds, NEW d \in U \ seeds
  PROVE  ContentWorth(s, c) >= ContentWorth(s, d)
<1>1. PICK lists, fused, first : /\ lists = <<s.semantic, s.lexical>>
                                 /\ fused = Fuse(lists) /\ first = FirstOf(fused, SeedK)
  OBVIOUS
<1>2. /\ Ranks(s.semantic, U) /\ Ranks(s.lexical, U)
      /\ seeds \in SUBSET U /\ seeds = Range(first)
  BY <1>1 DEF SignalsOf
<1>3. U \subseteq Int /\ IsFiniteSet(U)
  <2>1. IsFiniteSet(ClaimId) /\ ClaimId \subseteq Int
    BY ServingAssumption, ClaimAssumption
  <2> QED
    BY <2>1, FS_Subset
<1>4. FusedByScore(lists, U)
  <2>1. s.semantic \in Seq(U) /\ s.lexical \in Seq(U) /\ Range(s.semantic) = U
    BY <1>2, RanksHave DEF Ranks
  <2>2. DOMAIN lists = 1..2 /\ lists[1] = s.semantic /\ lists[2] = s.lexical
    BY <1>1
  <2>3. \A i \in 1..2 : i = 1 \/ i = 2
    OBVIOUS
  <2>4. \A i \in 1..2 : lists[i] \in Seq(U)
    BY <2>1, <2>2, <2>3
  <2>5. \A x \in U : \E i \in 1..2 : x \in Range(lists[i])
    <3>1. 1 \in 1..2
      OBVIOUS
    <3> QED
      BY <2>1, <2>2, <3>1
  <2> QED
    BY <1>3, <2>2, <2>4, <2>5, FusionRanks
<1>5. PICK n \in Nat : /\ n = Len(fused) /\ fused \in Seq(U)
                       /\ \A x \in U : \E i \in 1..n : fused[i] = x
  BY <1>1, <1>4 DEF FusedByScore, Ranks
<1>6. SeedK \in Nat
  BY RetrievalAssumption
<1>7. PICK m \in Nat : /\ m = IF SeedK < n THEN SeedK ELSE n
                       /\ DOMAIN first = 1..m
                       /\ \A i \in 1..m : first[i] = fused[i]
  <2>1. /\ first \in Seq(U) /\ Len(first) = IF SeedK < n THEN SeedK ELSE n
        /\ \A i \in 1..Len(first) : first[i] = fused[i]
    <3>1. /\ FirstOf(fused, SeedK) \in Seq(U)
          /\ Len(FirstOf(fused, SeedK)) = IF SeedK < Len(fused) THEN SeedK ELSE Len(fused)
          /\ \A i \in 1..Len(FirstOf(fused, SeedK)) :
               i \in 1..Len(fused) /\ FirstOf(fused, SeedK)[i] = fused[i]
      BY <1>5, <1>6, FirstOnes
    <3> QED
      BY <1>1, <1>5, <3>1
  <2>2. DOMAIN first = 1..Len(first) /\ Len(first) \in Nat
    BY <2>1, LenProperties
  <2> QED
    BY <2>1, <2>2
<1>8. PICK i \in 1..m : fused[i] = c
  BY <1>2, <1>7 DEF Range
<1>9. PICK j \in 1..n : fused[j] = d
  BY <1>5
<1>10. j \notin 1..m
  <2> SUFFICES ASSUME j \in 1..m PROVE FALSE
    OBVIOUS
  <2>1. j \in DOMAIN first /\ first[j] = d
    BY <1>7, <1>9
  <2>2. d \in Range(first)
    BY <2>1 DEF Range
  <2> QED
    BY <1>2, <2>2
<1>11. i \in 1..n /\ i < j
  BY <1>5, <1>6, <1>7, <1>8, <1>9, <1>10
<1>12. PICK score : score = [id \in U |-> FusedScore(lists, id)]
  OBVIOUS
<1>13. c \in U /\ d \in U /\ score[c] = FusedScore(lists, c) /\ score[d] = FusedScore(lists, d)
       /\ FusedScore(lists, c) \in Int /\ FusedScore(lists, d) \in Int
  BY <1>2, <1>4, <1>12 DEF FusedByScore
<1>14. Before(score, c, d)
  <2>1. BestFirst(fused, score)
    BY <1>1, <1>4, <1>12 DEF FusedByScore
  <2> QED
    BY <1>5, <1>8, <1>9, <1>11, <2>1 DEF BestFirst
<1>15. FusedScore(lists, c) >= FusedScore(lists, d)
  BY <1>13, <1>14 DEF Before
<1>16. /\ FusedScore(lists, c) = ContentWorth(s, c)
       /\ FusedScore(lists, d) = ContentWorth(s, d)
  BY <1>1, <1>2, <1>13, ContentFused DEF ContentWorth
<1> QED
  BY <1>15, <1>16

\* The place of a claim among the hits, behind all of them if it is none.
PlaceOf(hits, c) ==
  IF \E i \in DOMAIN hits : hits[i].id = c
  THEN CHOOSE i \in DOMAIN hits : hits[i].id = c
  ELSE Len(hits) + 1

\* It is the place in the fusion, as far as the hits go.
LEMMA PlaceIs ==
  ASSUME NEW U, NEW k \in Nat, NEW fused, Ranks(fused, U),
         NEW hits, HitsOfFused(hits, fused, U, k), NEW i \in 1..Cardinality(U)
  PROVE  PlaceOf(hits, fused[i]) = IF i <= Len(hits) THEN i ELSE Len(hits) + 1
<1>1. PICK n \in Nat, m \in Nat :
        /\ n = Cardinality(U) /\ m = Len(hits) /\ m <= n
        /\ DOMAIN hits = 1..m
        /\ \A j \in 1..m : j \in 1..n /\ hits[j].id = fused[j]
        /\ \A j, l \in 1..n : fused[j] = fused[l] => j = l
  <2>1. Cardinality(U) \in Nat /\ \A j, l \in 1..Cardinality(U) : fused[j] = fused[l] => j = l
    BY DEF Ranks
  <2>2. Len(hits) \in Nat /\ Len(hits) <= Cardinality(U)
    BY <2>1 DEF HitsOfFused
  <2> QED
    BY <2>1, <2>2 DEF HitsOfFused
<1>2. CASE i <= m
  <2>1. i \in DOMAIN hits /\ hits[i].id = fused[i]
    BY <1>1, <1>2
  <2>2. \A j \in DOMAIN hits : hits[j].id = fused[i] => j = i
    BY <1>1, <1>2
  <2>3. PlaceOf(hits, fused[i]) = CHOOSE j \in DOMAIN hits : hits[j].id = fused[i]
    BY <2>1 DEF PlaceOf
  <2>4. PlaceOf(hits, fused[i]) = i
    BY <2>1, <2>2, <2>3
  <2> QED
    BY <1>1, <1>2, <2>4
<1>3. CASE ~(i <= m)
  <2>1. ~ \E j \in DOMAIN hits : hits[j].id = fused[i]
    BY <1>1, <1>3
  <2> QED
    BY <1>1, <1>3, <2>1 DEF PlaceOf
<1> QED
  BY <1>2, <1>3

\* A claim that is worth more is not behind.
LEMMA WorthMoreIsBefore ==
  ASSUME NEW U, NEW k \in Nat, NEW lists, FusedByScore(lists, U),
         NEW hits, HitsOfFused(hits, Fuse(lists), U, k),
         NEW c \in U, NEW d \in U, FusedScore(lists, c) > FusedScore(lists, d)
  PROVE  PlaceOf(hits, c) <= PlaceOf(hits, d)
<1> DEFINE score == [id \in U |-> FusedScore(lists, id)]
<1> DEFINE fused == Fuse(lists)
<1>1. PICK n \in Nat :
        /\ n = Cardinality(U) /\ Len(fused) = n
        /\ \A x \in U : \E i \in 1..n : fused[i] = x
  <2>1. Ranks(Fuse(lists), U)
    BY DEF FusedByScore
  <2>2. /\ Cardinality(U) \in Nat /\ Len(Fuse(lists)) = Cardinality(U)
        /\ \A x \in U : \E i \in 1..Cardinality(U) : Fuse(lists)[i] = x
    BY <2>1 DEF Ranks
  <2> QED
    BY <2>2
<1>2. PICK i \in 1..n, j \in 1..n : fused[i] = c /\ fused[j] = d
  BY <1>1
<1>3. BestFirst(fused, score) /\ score[c] = FusedScore(lists, c) /\ score[d] = FusedScore(lists, d)
      /\ score[c] \in Int /\ score[d] \in Int
  BY <1>1 DEF FusedByScore
<1> HIDE DEF score, fused
<1>4. i <= j
  <2> SUFFICES ASSUME ~(i <= j) PROVE FALSE
    OBVIOUS
  <2>1. j < i
    BY <1>1
  <2>2. Before(score, fused[j], fused[i])
    BY <1>1, <1>3, <2>1 DEF BestFirst
  <2>3. score[d] > score[c] \/ score[d] = score[c]
    BY <1>2, <2>2 DEF Before
  <2> QED
    BY <1>3, <2>3
<1>5. /\ PlaceOf(hits, c) = IF i <= Len(hits) THEN i ELSE Len(hits) + 1
      /\ PlaceOf(hits, d) = IF j <= Len(hits) THEN j ELSE Len(hits) + 1
  <2>1. Ranks(fused, U) /\ HitsOfFused(hits, fused, U, k)
        /\ i \in 1..Cardinality(U) /\ j \in 1..Cardinality(U)
    BY <1>1 DEF FusedByScore, fused
  <2> QED
    BY <1>2, <2>1, PlaceIs
<1>6. Len(hits) \in Nat
  BY <1>1 DEF HitsOfFused
<1> QED
  BY <1>4, <1>5, <1>6

\* The seeds are the first the graph ranks.
LEMMA SeedsByRank ==
  ASSUME NEW U, U \subseteq Int, IsFiniteSet(U), NEW neighbors, NEW seeds,
         NEW s, SignalsOf(s, U, neighbors, seeds), Depth # 0
  PROVE  {c \in U : RankIn(s.graph, c) \in 1..SeedK} = seeds
<1>1. /\ seeds \in SUBSET U /\ s.graph = GraphRanking(seeds, U, neighbors)
      /\ Cardinality(seeds) = IF SeedK < Cardinality(U) THEN SeedK ELSE Cardinality(U)
  BY DEF SignalsOf
<1>2. PICK reach : Hops(reach, seeds, U, neighbors)
  BY <1>1, HopsExist
<1>3. Ranks(s.graph, reach[Depth]) /\ SeedsFirst(s.graph, seeds)
  <2>1. Ranks(GraphRanking(seeds, U, neighbors), reach[Depth])
    BY <1>1, <1>2, GraphRanked
  <2>2. SeedsFirst(GraphRanking(seeds, U, neighbors), seeds)
    BY <1>1, <1>2, GraphRanked
  <2> QED
    BY <1>1, <2>1, <2>2
<1>4. seeds \subseteq reach[Depth]
  <2>1. Depth \in Nat /\ 0 \in 0..Depth /\ Depth \in 0..Depth /\ 0 <= Depth
    BY RetrievalAssumption
  <2>2. reach[0] = seeds
    BY <1>2, <2>1 DEF Hops
  <2>3. \A n, k \in 0..Depth : n <= k => reach[n] \subseteq reach[k]
    BY <1>1, <1>2, HopsGrow
  <2> QED
    BY <2>1, <2>2, <2>3
<1>5. PICK n \in Nat, m \in Nat :
        /\ n = Len(s.graph) /\ n <= Cardinality(U) /\ m = Cardinality(seeds)
        /\ m = IF SeedK < Cardinality(U) THEN SeedK ELSE Cardinality(U)
  <2>1. Len(s.graph) \in Nat /\ Len(s.graph) <= Cardinality(U)
    BY GraphLength
  <2>2. SeedK \in Nat /\ Cardinality(U) \in Nat
    BY RetrievalAssumption, FS_CardinalityType
  <2> QED
    BY <1>1, <2>1, <2>2
<1>6. SeedK \in Nat /\ Cardinality(U) \in Nat
  BY RetrievalAssumption, FS_CardinalityType
<1>7. s.graph \in Seq(reach[Depth]) /\ Range(s.graph) = reach[Depth] /\ DOMAIN s.graph = 1..n
  BY <1>3, <1>5, RanksHave DEF Ranks
<1>8. ASSUME NEW c \in U PROVE c \in seeds <=> RankIn(s.graph, c) \in 1..SeedK
  <2>1. PICK i \in 0..n : /\ i = RankIn(s.graph, c)
                          /\ i # 0 <=> c \in reach[Depth]
                          /\ c \in reach[Depth] => s.graph[i] = c
    BY <1>5, <1>7, RankProperties
  <2>2. i # 0 => i \in 1..n /\ (s.graph[i] \in seeds <=> i <= m)
    BY <1>3, <1>5 DEF SeedsFirst
  <2>3. ASSUME c \in seeds PROVE i \in 1..SeedK
    <3>1. i # 0 /\ s.graph[i] = c
      BY <1>4, <2>1, <2>3
    <3>2. i <= m
      BY <2>2, <2>3, <3>1
    <3> QED
      BY <1>5, <1>6, <3>1, <3>2
  <2>4. ASSUME i \in 1..SeedK PROVE c \in seeds
    <3>1. i # 0 /\ s.graph[i] = c
      BY <2>1, <2>4
    <3>2. i <= m
      BY <1>5, <1>6, <2>4
    <3> QED
      BY <2>2, <3>1, <3>2
  <2> QED
    BY <2>1, <2>3, <2>4
<1> QED
  BY <1>1, <1>8

\* What the graph ranks is what is reached, the nearer first.
LEMMA GraphByHops ==
  ASSUME NEW U, U \subseteq Int, IsFiniteSet(U), NEW neighbors, surface.neighbors = neighbors,
         NEW seeds, NEW s, SignalsOf(s, U, neighbors, seeds), NEW from,
         from = {c \in U : RankIn(s.graph, c) \in 1..SeedK}
  PROVE  /\ Range(s.graph) = Reach(from, U)[Depth]
         /\ \A c, d \in Range(s.graph) :
              (\E n \in 0..Depth : c \in Reach(from, U)[n] /\ d \notin Reach(from, U)[n])
                => RankIn(s.graph, c) < RankIn(s.graph, d)
<1>1. /\ from \in SUBSET U /\ Depth \in Nat
      /\ s.graph = IF Depth = 0 THEN <<>> ELSE GraphRanking(seeds, U, neighbors)
  BY RetrievalAssumption DEF SignalsOf
<1>2. PICK reach : reach = Reach(from, U)
  OBVIOUS
<1>3. Hops(reach, from, U, neighbors)
  BY <1>1, <1>2, ReachHops
<1>4. CASE Depth = 0
  <2>1. s.graph = <<>> /\ Range(s.graph) = {}
    BY <1>1, <1>4 DEF Range
  <2>2. from = {}
    BY <2>1 DEF RankIn
  <2>3. reach[Depth] = {}
    <3>1. 0 \in 0..Depth
      BY <1>1
    <3>2. reach[0] = from
      BY <1>3, <3>1 DEF Hops
    <3> QED
      BY <1>4, <2>2, <3>2
  <2> QED
    BY <1>2, <2>1, <2>3
<1>5. CASE Depth # 0
  <2>1. from = seeds /\ s.graph = GraphRanking(from, U, neighbors)
    BY <1>1, <1>5, SeedsByRank
  <2>2. Ranks(s.graph, reach[Depth]) /\ NearerFirst(s.graph, reach)
    <3>1. Ranks(GraphRanking(from, U, neighbors), reach[Depth])
      BY <1>1, <1>3, GraphRanked
    <3>2. NearerFirst(GraphRanking(from, U, neighbors), reach)
      BY <1>1, <1>3, GraphRanked
    <3> QED
      BY <2>1, <3>1, <3>2
  <2>3. /\ Range(s.graph) = reach[Depth] /\ s.graph \in Seq(reach[Depth])
        /\ DOMAIN s.graph = 1..Len(s.graph)
    BY <2>2, RanksHave DEF Ranks
  <2>4. ASSUME NEW c \in Range(s.graph), NEW d \in Range(s.graph), NEW n \in 0..Depth,
               c \in reach[n], d \notin reach[n]
        PROVE  RankIn(s.graph, c) < RankIn(s.graph, d)
    <3>1. PICK i, j : i = RankIn(s.graph, c) /\ j = RankIn(s.graph, d)
      OBVIOUS
    <3>2. i \in 1..Len(s.graph) /\ s.graph[i] = c
      BY <2>3, <3>1, RankProperties
    <3>3. j \in 1..Len(s.graph) /\ s.graph[j] = d
      BY <2>3, <3>1, RankProperties
    <3>4. i < j
      BY <2>2, <2>4, <3>2, <3>3 DEF NearerFirst
    <3> QED
      BY <3>1, <3>4
  <2> QED
    BY <1>2, <2>3, <2>4
<1> QED
  BY <1>4, <1>5

\* Where the graph is asked, its first places are the seeds: as many, and the best.
LEMMA FirstPlacesAreBest ==
  ASSUME NEW U \in SUBSET ClaimId, NEW neighbors, NEW seeds,
         NEW s, SignalsOf(s, U, neighbors, seeds), NEW from,
         from = {c \in U : RankIn(s.graph, c) \in 1..SeedK}
  PROVE  /\ Cardinality(from) = IF Depth = 0 THEN 0 ELSE Min({SeedK, Cardinality(U)})
         /\ \A c \in from, d \in U \ from : ContentWorth(s, c) >= ContentWorth(s, d)
<1>1. U \subseteq Int /\ IsFiniteSet(U)
  <2>1. IsFiniteSet(ClaimId) /\ ClaimId \subseteq Int
    BY ServingAssumption, ClaimAssumption
  <2> QED
    BY <2>1, FS_Subset
<1>2. CASE Depth = 0
  <2>1. s.graph = <<>>
    BY <1>2 DEF SignalsOf
  <2>2. from = {}
    BY <2>1 DEF RankIn, Range
  <2> QED
    BY <1>2, <2>2, FS_EmptySet
<1>3. CASE Depth # 0
  <2>1. from = seeds
    BY <1>1, <1>3, SeedsByRank
  <2>2. \A c \in from, d \in U \ from : ContentWorth(s, c) >= ContentWorth(s, d)
    BY <2>1, SeedsAreBest
  <2>3. PICK n \in Nat, k \in Nat : n = Cardinality(U) /\ k = SeedK
    BY <1>1, FS_CardinalityType, RetrievalAssumption
  <2>4. Cardinality(from) = IF k < n THEN k ELSE n
    BY <2>1, <2>3 DEF SignalsOf
  <2>5. Min({k, n}) = IF k <= n THEN k ELSE n
    BY OfTwo
  <2>6. Cardinality(from) = Min({k, n})
    BY <2>4, <2>5
  <2> QED
    BY <1>3, <2>2, <2>3, <2>6
<1> QED
  BY <1>2, <1>3

\* No signal is lost, by the invariant.
LEMMA RankedFromInv == ServeInv => RankedBySignals
<1> SUFFICES ASSUME ServeInv, answer.tool = "search_dialogue" PROVE RankedBySignals
  BY DEF RankedBySignals
<1>1. PICK sf, query, since, until, hits :
        /\ sf = surface /\ query = answer.query
        /\ since = answer.since /\ until = answer.until /\ hits = answer.hits
  OBVIOUS
<1>0. query \in Query /\ hits = Retrieve(sf, query, TopK, since, until)
  BY <1>1 DEF ServeInv, Answered
<1>2. Indexed(sf)
  <2>1. /\ sf.claims \in SUBSET DOMAIN claims
        /\ DOMAIN claims \subseteq ClaimId /\ IsFiniteSet(DOMAIN claims)
    BY <1>1 DEF ServeInv, StoreKept, Derived, TypeOK
  <2> QED
    BY <2>1, FS_Subset DEF Indexed
<1>3. PICK U, s, lists, from, neighbors :
        /\ U = Universe(sf, since, until)
        /\ s = Signals(sf, query, since, until)
        /\ lists = ListsOf(s)
        /\ from = {c \in U : RankIn(s.graph, c) \in 1..SeedK}
        /\ neighbors = sf.neighbors
  OBVIOUS
<1>4. U \in SUBSET ClaimId /\ IsFiniteSet(U) /\ U \subseteq Int /\ TopK \in Nat
  BY <1>2, <1>3, UniverseFinite, ServingAssumption
<1>5. PICK seeds : SignalsOf(s, U, neighbors, seeds)
  BY <1>0, <1>2, <1>3, SignalsRank
<1>6. FusedByScore(lists, U)
  BY <1>3, <1>4, <1>5, SignalsFused
<1>7. HitsOfFused(hits, Fuse(lists), U, TopK)
  BY <1>0, <1>2, <1>3, <1>4, Retrieved
<1>8. Len(hits) = Min({TopK, Cardinality(U)})
  <2>1. PICK n \in Nat, k \in Nat : n = Cardinality(U) /\ k = TopK
    BY <1>4, FS_CardinalityType
  <2>2. Len(hits) = IF k < n THEN k ELSE n
    BY <1>7, <2>1 DEF HitsOfFused
  <2>3. Min({k, n}) \in {k, n} /\ Min({k, n}) <= k /\ Min({k, n}) <= n
    <3>1. IsFiniteSet({k} \cup {n})
      BY FS_Singleton, FS_AddElement
    <3>2. {k} \cup {n} = {k, n} /\ {k, n} \subseteq Int /\ {k, n} # {}
      OBVIOUS
    <3>3. IsFiniteSet({k, n})
      BY <3>1, <3>2, Zenon
    <3>4. Min({k, n}) \in {k, n} /\ \A x \in {k, n} : Min({k, n}) <= x
      BY <3>2, <3>3, MaxMin
    <3> QED
      BY <3>4
  <2>4. Len(hits) = Min({k, n})
    BY <2>2, <2>3
  <2> QED
    BY <2>1, <2>4
<1>9. ASSUME NEW c \in U, NEW d \in U, Beats(s, c, d) PROVE PlaceOf(hits, c) <= PlaceOf(hits, d)
  <2>1. FusedScore(lists, c) > FusedScore(lists, d)
    BY <1>3, <1>4, <1>5, <1>9, BeatenIsWorthLess
  <2> QED
    BY <1>4, <1>6, <1>7, <2>1, WorthMoreIsBefore
<1>10. /\ Range(s.graph) = Reach(from, U)[Depth]
       /\ \A c, d \in Range(s.graph) :
            (\E n \in 0..Depth : c \in Reach(from, U)[n] /\ d \notin Reach(from, U)[n])
              => RankIn(s.graph, c) < RankIn(s.graph, d)
  BY <1>1, <1>3, <1>4, <1>5, GraphByHops
<1>14. /\ Cardinality(from) = IF Depth = 0 THEN 0 ELSE Min({SeedK, Cardinality(U)})
       /\ \A c \in from, d \in U \ from : ContentWorth(s, c) >= ContentWorth(s, d)
  BY <1>3, <1>4, <1>5, FirstPlacesAreBest
<1> DEFINE universe == Universe(surface, answer.since, answer.until)
           sig == Signals(surface, answer.query, answer.since, answer.until)
           first == {c \in universe : RankIn(sig.graph, c) \in 1..SeedK}
<1>11. universe = U /\ sig = s /\ answer.hits = hits
  BY <1>1, <1>3
<1> HIDE DEF universe, sig
<1>12. first = from
  BY <1>3, <1>11
<1> HIDE DEF first
<1>13. /\ Len(answer.hits) = Min({TopK, Cardinality(universe)})
       /\ \A c, d \in universe :
            Beats(sig, c, d) => PlaceOf(answer.hits, c) <= PlaceOf(answer.hits, d)
       /\ Cardinality(first) = IF Depth = 0 THEN 0 ELSE Min({SeedK, Cardinality(universe)})
       /\ \A c \in first, d \in universe \ first : ContentWorth(sig, c) >= ContentWorth(sig, d)
       /\ Range(sig.graph) = Reach(first, universe)[Depth]
       /\ \A c, d \in Range(sig.graph) :
            (\E n \in 0..Depth : c \in Reach(first, universe)[n]
                                /\ d \notin Reach(first, universe)[n])
              => RankIn(sig.graph, c) < RankIn(sig.graph, d)
  BY <1>8, <1>9, <1>10, <1>11, <1>12, <1>14
<1> QED
  BY <1>13 DEF RankedBySignals, Beats, PlaceOf, universe, sig, first

\* No signal is lost in the fusion, and the graph ranks what is near the best by
\* content, all of it and nothing else, the nearer first.
THEOREM SearchRanksBySignals == ServingSpec => []RankedBySignals
  BY ServeInvHolds, RankedFromInv, PTL

-----------------------------------------------------------------------------
(* The citation check *)

\* A span that takes time overlaps another by no more than its length, and by that only
\* when it is covered.
LEMMA OverlapMeasures ==
  ASSUME NEW a, NEW b, a.t_start \in Int, a.t_end \in Int, b.t_start \in Int, b.t_end \in Int,
         a.t_start < a.t_end
  PROVE  /\ Overlap(a, b) \in Nat
         /\ Overlap(a, b) <= a.t_end - a.t_start
         /\ Overlap(a, b) = a.t_end - a.t_start
              <=> b.t_start <= a.t_start /\ a.t_end <= b.t_end
<1> DEFINE last == Min({a.t_end, b.t_end})
           first == Max({a.t_start, b.t_start})
<1>1. /\ last = IF a.t_end <= b.t_end THEN a.t_end ELSE b.t_end
      /\ first = IF a.t_start <= b.t_start THEN b.t_start ELSE a.t_start
  BY OfTwo
<1> HIDE DEF last, first
<1>2. Overlap(a, b) = Max({0, last - first})
  BY DEF Overlap, last, first
<1>3. last \in Int /\ first \in Int
  BY <1>1
<1>4. Overlap(a, b) = IF 0 <= last - first THEN last - first ELSE 0
  <2>1. PICK d \in Int : d = last - first
    BY <1>3
  <2>2. Max({0, d}) = IF 0 <= d THEN d ELSE 0
    <3>1. PICK zero \in Int : zero = 0
      OBVIOUS
    <3>2. Max({zero, d}) = IF zero <= d THEN d ELSE zero
      BY OfTwo
    <3> QED
      BY <3>1, <3>2
  <2> QED
    BY <1>2, <2>1, <2>2
<1> QED
  BY <1>1, <1>3, <1>4

\* A turn that nobody else talks over is found to be its speaker's.
LEMMA TurnVerifies ==
  ASSUME NEW citation, IsTurn(citation), ~Crosstalk(citation)
  PROVE  VerifyCitation(citation)
<1>1. PICK truth, segments, n :
        /\ truth = TruthOf[citation.episode] /\ segments = Segments[citation.episode]
        /\ n = Len(segments)
  OBVIOUS
<1>2. citation.episode \in Transcribed \cap DOMAIN TruthOf /\ citation.episode \in DOMAIN Segments
  BY EvaluationAssumption DEF IsTurn
<1>3. segments \in Seq(Range(segments))
  BY <1>1, <1>2, RetrievalAssumption
<1>4. DOMAIN segments = 1..n /\ n \in Nat
  BY <1>1, <1>3, LenProperties
<1>5. \A i \in 1..n : segments[i].t_start \in Int /\ segments[i].t_end \in Int
  <2>1. \A seg \in Range(segments) : seg.t_start \in Int /\ seg.t_end \in Int
    BY <1>1, <1>2, RetrievalAssumption
  <2> QED
    BY <1>4, <2>1 DEF Range
<1>6. PICK i \in 1..n :
        /\ i \in DOMAIN truth /\ truth[i] = citation.speaker
        /\ segments[i].t_start = citation.t_start /\ segments[i].t_end = citation.t_end
        /\ segments[i].t_end > segments[i].t_start
  BY <1>1, <1>4 DEF IsTurn
<1> DEFINE covered(j) == Overlap(citation, segments[j])
           best == {j \in DOMAIN segments :
                      covered(j) > 0 /\ \A k \in DOMAIN segments : covered(j) >= covered(k)}
           length == citation.t_end - citation.t_start
<1>7. citation.t_start \in Int /\ citation.t_end \in Int /\ citation.t_start < citation.t_end
  BY <1>5, <1>6
<1>8. \A j \in 1..n :
        /\ covered(j) \in Nat /\ covered(j) <= length
        /\ covered(j) = length
             <=> segments[j].t_start <= citation.t_start /\ citation.t_end <= segments[j].t_end
  BY <1>5, <1>7, OverlapMeasures
<1>9. covered(i) = length /\ length > 0 /\ length \in Nat
  BY <1>5, <1>6, <1>7, <1>8
<1> HIDE DEF covered, length
<1>10. best \subseteq 1..n /\ i \in best
  BY <1>4, <1>6, <1>8, <1>9
<1>11. Min(best) \in best
  <2>1. IsFiniteSet(1..n)
    <3>1. 1 \in Int /\ n \in Int
      BY <1>4
    <3> QED
      BY <3>1, FS_Interval
  <2>2. IsFiniteSet(best)
    BY <1>10, <2>1, FS_Subset
  <2>3. best \subseteq Int /\ best # {}
    BY <1>4, <1>10
  <2> HIDE DEF best
  <2> QED
    BY <2>2, <2>3, MaxMin
<1>12. SpeakingAt(citation, segments) = Min(best)
  BY <1>10 DEF SpeakingAt, covered
<1>13. Min(best) \in 1..n /\ covered(Min(best)) = length
  <2>1. Min(best) \in 1..n /\ covered(Min(best)) >= covered(i)
    BY <1>4, <1>6, <1>11
  <2> HIDE DEF best
  <2> QED
    BY <1>8, <1>9, <2>1
<1> HIDE DEF best
<1>14. Min(best) \in DOMAIN truth /\ truth[Min(best)] = citation.speaker
  <2>1. /\ segments[Min(best)].t_start <= citation.t_start
        /\ citation.t_end <= segments[Min(best)].t_end
    BY <1>8, <1>13
  <2> QED
    BY <1>1, <1>4, <1>13, <2>1 DEF Crosstalk
<1> QED
  BY <1>1, <1>2, <1>12, <1>14 DEF VerifyCitation

\* Of a list of citations no more are rejected than are no such turns.
LEMMA RejectedAreFew ==
  ASSUME NEW citations, Listed(citations), NEW rating
  PROVE  ScoreAnswer(rating, citations).rejected
           <= Cardinality({k \in DOMAIN citations :
                             ~IsTurn(citations[k]) \/ Crosstalk(citations[k])})
<1> DEFINE D == DOMAIN citations
           V == {k \in D : VerifyCitation(citations[k])}
           bad == {k \in D : ~IsTurn(citations[k]) \/ Crosstalk(citations[k])}
<1>1. D = 1..Len(citations) /\ Len(citations) \in Nat
  BY DEF Listed
<1>2. IsFiniteSet(D) /\ Cardinality(D) = Len(citations)
  <2>1. 1 \in Int /\ Len(citations) \in Int
    BY <1>1
  <2>2. IsFiniteSet(1..Len(citations))
        /\ Cardinality(1..Len(citations))
             = IF 1 > Len(citations) THEN 0 ELSE Len(citations) - 1 + 1
    BY <2>1, FS_Interval
  <2> HIDE DEF D
  <2> QED
    BY <1>1, <2>2
<1>3. V \subseteq D /\ bad \subseteq D /\ D \subseteq V \cup bad
  BY TurnVerifies
<1> HIDE DEF D, V, bad
<1>4. IsFiniteSet(V) /\ IsFiniteSet(bad)
  BY <1>2, <1>3, FS_Subset
<1>5. /\ Cardinality(V) \in Nat /\ Cardinality(bad) \in Nat
      /\ Cardinality(V \cup bad) = Cardinality(V) + Cardinality(bad) - Cardinality(V \cap bad)
      /\ Cardinality(V \cap bad) \in Nat
  <2>1. IsFiniteSet(V \cap bad)
    BY <1>4, FS_Intersection
  <2> QED
    BY <1>4, <2>1, FS_Union, FS_CardinalityType
<1>6. Cardinality(D) <= Cardinality(V \cup bad)
  BY <1>3, <1>4, FS_Union, FS_Subset
<1>7. Verified(citations) = Cardinality(V)
  BY DEF Verified, V, D
<1>8. /\ ScoreAnswer(rating, citations).rejected
            = IF Unchecked THEN 0
              ELSE Len(citations) - (IF Unchecked THEN 0 ELSE Verified(citations))
  BY DEF ScoreAnswer
<1>9. ScoreAnswer(rating, citations).rejected <= Cardinality(bad)
  BY <1>1, <1>2, <1>5, <1>6, <1>7, <1>8
<1> QED
  BY <1>9 DEF bad, D
-----------------------------------------------------------------------------
(* The windows *)

\* The windows of an episode are finitely many, and each has a segment to begin with.
LEMMA WindowsHaveStart ==
  ASSUME NEW e \in DOMAIN Segments
  PROVE  /\ IsFiniteSet(WindowsOf(e))
         /\ \A w \in WindowsOf(e) :
              /\ w[1] = e /\ w[2] \in Nat /\ w = <<w[1], w[2]>>
              /\ WindowSegments(w)[1].t_start \in Int
<1>1. PICK segments, n, size : /\ segments = Segments[e] /\ n = Len(segments)
                               /\ size = WindowSize
  OBVIOUS
<1>2. segments \in Seq(Range(segments)) /\ size \in Nat \ {0}
      /\ \A seg \in Range(segments) : seg.t_start \in Int
  BY <1>1, RetrievalAssumption
<1>3. n \in Nat /\ DOMAIN segments = 1..n
  BY <1>1, <1>2, LenProperties
<1>4. PICK count : count = (n + size - 1) \div size
  OBVIOUS
<1>5. count \in Nat /\ \A k \in 1..count : (k - 1) * size + 1 \in 1..n
  <2>1. /\ count \in Int /\ count * size <= n + size - 1 /\ count >= 0
    BY <1>2, <1>3, <1>4
  <2>2. ASSUME NEW k \in 1..count PROVE (k - 1) * size + 1 \in 1..n
    <3>1. k * size <= count * size
      BY <1>2, <2>1, <2>2
    <3>2. (k - 1) * size = k * size - size /\ (k - 1) * size >= 0 /\ k * size \in Int
      BY <1>2, <2>1, <2>2
    <3>3. count * size \in Int
      BY <1>2, <2>1
    <3> QED
      BY <1>2, <1>3, <2>1, <3>1, <3>2, <3>3
  <2> QED
    BY <2>1, <2>2
<1>6. WindowsOf(e) = {<<e, k>> : k \in 1..count}
  BY <1>1, <1>4 DEF WindowsOf
<1>7. IsFiniteSet(WindowsOf(e))
  <2>1. IsFiniteSet(1..count)
    <3>1. 1 \in Int /\ count \in Int
      BY <1>5
    <3> QED
      BY <3>1, FS_Interval
  <2>2. PICK f : f = [k \in 1..count |-> <<e, k>>]
    OBVIOUS
  <2>3. IsFiniteSet({f[k] : k \in 1..count})
    BY <2>1, ImageFinite
  <2>4. {f[k] : k \in 1..count} = WindowsOf(e)
    BY <1>6, <2>2
  <2> QED
    BY <2>3, <2>4
<1>8. ASSUME NEW w \in WindowsOf(e)
      PROVE  /\ w[1] = e /\ w[2] \in Nat /\ w = <<w[1], w[2]>>
             /\ WindowSegments(w)[1].t_start \in Int
  <2>1. PICK k \in 1..count : w = <<e, k>>
    BY <1>6
  <2>2. PICK first, last : /\ first = (k - 1) * size + 1
                           /\ last = IF first + size - 1 < n THEN first + size - 1 ELSE n
    OBVIOUS
  <2>3. first \in 1..n /\ last \in 1..n /\ first <= last
    BY <1>2, <1>3, <1>5, <2>2
  <2>4. WindowSegments(w) = SubSeq(segments, first, last)
    BY <1>1, <2>1, <2>2 DEF WindowSegments
  <2>5. SubSeq(segments, first, last)[1] = segments[first]
    BY <1>2, <1>3, <2>3
  <2>6. segments[first].t_start \in Int
    BY <1>2, <1>3, <2>3 DEF Range
  <2>7. WindowSegments(w)[1].t_start \in Int
    BY <2>4, <2>5, <2>6
  <2>8. w[1] = e /\ w[2] \in Nat /\ w = <<w[1], w[2]>>
    BY <1>5, <2>1
  <2> QED
    BY <2>7, <2>8
<1> QED
  BY <1>7, <1>8

\* The naive arm cites a list.
LEMMA NaiveCitationsListed ==
  ASSUME NEW query \in Query, NEW k \in Nat
  PROVE  Listed(NaiveCitations(query, k))
<1> DEFINE near(w) == WindowNearness[query][w]
           start(w) == WindowSegments(w)[1].t_start
           closer(v, w) ==
             \/ near(v) > near(w)
             \/ near(v) = near(w) /\ EpisodeOrder[v[1]] < EpisodeOrder[w[1]]
             \/ /\ near(v) = near(w) /\ v[1] = w[1]
                /\ start(v) < start(w) \/ (start(v) = start(w) /\ v[2] < w[2])
           S == UNION {WindowsOf(e) : e \in DOMAIN Segments}
           order == {q \in S \X S : closer(q[1], q[2])}
           listed == Ordered(S, closer)
<1>1. IsFiniteSet(S)
  <2>1. PICK f : f = [e \in DOMAIN Segments |-> WindowsOf(e)]
    OBVIOUS
  <2>2. {f[e] : e \in DOMAIN Segments} = {WindowsOf(e) : e \in DOMAIN Segments}
    BY <2>1
  <2>3. IsFiniteSet({WindowsOf(e) : e \in DOMAIN Segments})
    <3>1. PICK episodes : episodes = DOMAIN Segments
      OBVIOUS
    <3>2. IsFiniteSet({f[e] : e \in episodes})
      BY <3>1, RetrievalAssumption, ImageFinite
    <3> QED
      BY <2>2, <3>1, <3>2
  <2>4. \A T \in {WindowsOf(e) : e \in DOMAIN Segments} : IsFiniteSet(T)
    BY WindowsHaveStart
  <2> QED
    BY <2>3, <2>4, FS_UNION
<1>2. \A w \in S : /\ w[1] \in DOMAIN Segments /\ w[2] \in Nat /\ w = <<w[1], w[2]>>
                    /\ near(w) \in Int /\ start(w) \in Int /\ EpisodeOrder[w[1]] \in Int
  BY WindowsHaveStart, WindowAssumption, RetrievalAssumption
<1> HIDE DEF near, start, S
<1>3. /\ \A v, w \in S : <<v, w>> \in order <=> closer(v, w)
  OBVIOUS
<1>4. \A v \in S : ~closer(v, v)
  BY <1>2
<1>5. ASSUME NEW v \in S, NEW w \in S, v # w PROVE closer(v, w) \/ closer(w, v)
  <2>1. v[1] # w[1] => EpisodeOrder[v[1]] # EpisodeOrder[w[1]]
    BY <1>2, RetrievalAssumption
  <2>2. v[1] = w[1] => v[2] # w[2]
    BY <1>2, <1>5
  <2> QED
    BY <1>2, <2>1, <2>2
<1>6. ASSUME NEW u \in S, NEW v \in S, NEW w \in S, closer(u, v), closer(v, w)
      PROVE  closer(u, w)
  BY <1>2, <1>6
<1> HIDE DEF closer, order
<1>7. PICK s : SortedBy(s, S, order)
  BY <1>1, <1>3, <1>4, <1>5, <1>6, SortedExists
<1>8. /\ s \in [1..Cardinality(S) -> S]
      /\ \A i, j \in DOMAIN s : i < j => closer(s[i], s[j])
  BY <1>3, <1>7 DEF SortedBy
<1>9. listed \in [1..Cardinality(S) -> S]
  BY <1>8 DEF Ordered
<1>10. Cardinality(S) \in Nat
  BY <1>1, FS_CardinalityType
<1> HIDE DEF listed
<1>11. listed \in Seq(S)
  BY <1>9, <1>10, SeqOfFunction
<1>12. FirstOf(listed, k) \in Seq(S)
  BY <1>11, FirstOnes
<1>13. NaiveCitations(query, k)
         = [i \in DOMAIN FirstOf(listed, k) |-> WindowCitation(FirstOf(listed, k)[i])]
  BY DEF NaiveCitations, listed, closer, near, start, S
<1>14. DOMAIN FirstOf(listed, k) = 1..Len(FirstOf(listed, k)) /\ Len(FirstOf(listed, k)) \in Nat
  BY <1>12, LenProperties
<1> QED
  BY <1>13, <1>14, MadeListed
-----------------------------------------------------------------------------
(* Evaluations *)

\* What an arm may have answered.
IsAnswerOf(x, arm) == x.arm = arm /\ x.text \in TextsOf[arm] /\ Listed(x.citations)

\* An answer of every arm, in the order of the arms.
AnswersOfArms(answers) ==
  /\ Listed(answers) /\ Len(answers) = Len(Arms)
  /\ \A i \in DOMAIN Arms : IsAnswerOf(answers[i], Arms[i])

OwnScore(rater, own) == ScoreAnswer(Rating[rater][own.text], own.citations)

\* Every arm has the score of its own answer.
RowIsOwn(row) ==
  /\ AnswersOfArms(row.answers) /\ DOMAIN row.scores = Range(Arms)
  /\ \A i \in DOMAIN Arms : row.scores[Arms[i]] = OwnScore("first", row.answers[i])

\* Both raters rated the same answer.
PairIsOwn(pair) ==
  /\ \E i \in DOMAIN Arms : IsAnswerOf(pair.of, Arms[i])
  /\ pair.a = OwnScore("first", pair.of).total
  /\ pair.b = OwnScore("second", pair.of).total

\* What an evaluation keeps while it runs.
EvaluationOf(queries, seed, subset, answers, rows, pairs) ==
  [queries |-> queries, seed |-> seed, subset |-> subset, answers |-> answers,
   rows |-> rows, pairs |-> pairs, running |-> TRUE]

\* The evaluation under way is one of those asked for, and its scores are the arms' own.
UnderWay ==
  /\ eval = EvaluationOf(eval.queries, eval.seed, eval.subset, eval.answers, eval.rows, eval.pairs)
  /\ \E evaluation \in Evaluations :
       /\ eval.queries = evaluation.queries /\ eval.seed = evaluation.seed
       /\ eval.subset = evaluation.subset
  /\ eval.answers = <<>> \/ AnswersOfArms(eval.answers)
  /\ Listed(eval.rows) /\ \A r \in DOMAIN eval.rows : RowIsOwn(eval.rows[r])
  /\ Listed(eval.pairs) /\ \A k \in DOMAIN eval.pairs : PairIsOwn(eval.pairs[k])

Evaluated == eval = NoEval \/ UnderWay

\* The arms are a list of at least one.
LEMMA ArmsListed ==
  /\ DOMAIN Arms = 1..Len(Arms) /\ Len(Arms) \in Nat \ {0}
  /\ \A i \in DOMAIN Arms : Arms[i] \in Range(Arms)
<1>1. Arms \in Seq(DOMAIN TextsOf) /\ Arms # <<>>
  BY ServingAssumption
<1>2. DOMAIN Arms = 1..Len(Arms) /\ Len(Arms) \in Nat
  BY <1>1, LenProperties
<1>3. Len(Arms) # 0
  BY <1>1, EmptySeq
<1> QED
  BY <1>2, <1>3 DEF Range

\* The query whose answers are next is one of the evaluation's.
LEMMA CurrentIsAsked ==
  ASSUME UnderWay, Scoring \/ Agreement
  PROVE  CurrentQuery \in Query
<1>1. PICK evaluation \in Evaluations :
        eval.queries = evaluation.queries /\ eval.subset = evaluation.subset
  BY DEF UnderWay
<1>2. eval.queries \in Seq(Query) /\ eval.subset \in Nat
  BY <1>1, ServingAssumption
<1>3. PICK n \in Nat : n = Len(eval.queries)
  BY <1>2, LenProperties
<1>4. PICK r \in Nat, p \in Nat : r = Len(eval.rows) /\ p = Len(eval.pairs)
  BY DEF UnderWay, Listed
<1>5. \A i \in 1..n : eval.queries[i] \in Query
  BY <1>2, <1>3
<1>6. CASE Scoring
  <2>1. r + 1 \in 1..n
    BY <1>3, <1>4, <1>6 DEF Scoring
  <2> QED
    BY <1>4, <1>5, <1>6, <2>1 DEF CurrentQuery
<1>7. CASE ~Scoring
  <2>1. PICK arms \in Nat : arms = Len(Arms) /\ arms > 0
    <3>1. Len(Arms) \in Nat /\ Len(Arms) > 0
      BY ArmsListed
    <3> QED
      BY <3>1
  <2>2. PICK shared : shared = Shared
    OBVIOUS
  <2>3. PICK subset \in Nat : subset = eval.subset
    BY <1>2
  <2>4. shared \in Nat /\ shared <= n
    <3>1. Min({subset, n}) = IF subset <= n THEN subset ELSE n
      BY OfTwo
    <3> QED
      BY <1>3, <2>2, <2>3, <3>1 DEF Shared
  <2>5. p < shared * arms
    BY <1>4, <1>7, <2>1, <2>2 DEF Agreement
  <2>6. PICK q : q = p \div arms
    OBVIOUS
  <2>7. q \in Nat /\ q * arms <= p
    BY <2>1, <2>6
  <2>8. q < shared
    <3>1. SUFFICES ASSUME q >= shared PROVE FALSE
      BY <2>4, <2>7
    <3>2. q * arms >= shared * arms
      BY <2>1, <2>4, <2>7, <3>1
    <3>3. q * arms \in Int /\ shared * arms \in Int
      BY <2>1, <2>4, <2>7
    <3> QED
      BY <2>5, <2>7, <3>2, <3>3
  <2>9. q + 1 \in 1..n
    BY <2>4, <2>7, <2>8
  <2>10. CurrentQuery = eval.queries[q + 1]
    BY <1>4, <1>7, <2>1, <2>6 DEF CurrentQuery
  <2> QED
    BY <1>5, <2>9, <2>10
<1> QED
  BY <1>6, <1>7

\* What an arm cites is a list.
LEMMA CitationsListed ==
  ASSUME Derived, StoreKept, NEW query \in Query, NEW arm
  PROVE  Listed(Citations(arm, query))
<1>1. CASE arm = "model_naive_rag"
  BY <1>1, NaiveCitationsListed, ServingAssumption DEF Citations
<1>2. CASE arm = "model_dlogos"
  <2>1. PICK sf : sf = surface
    OBVIOUS
  <2>2. Indexed(sf)
    <3>1. /\ sf.claims \in SUBSET DOMAIN claims
          /\ DOMAIN claims \subseteq ClaimId /\ IsFiniteSet(DOMAIN claims)
      BY <2>1 DEF StoreKept, Derived, TypeOK
    <3> QED
      BY <3>1, FS_Subset DEF Indexed
  <2>3. PICK hits : hits = Retrieve(sf, query, ArmK, 0, 0)
    OBVIOUS
  <2>4. HitsOfFused(hits, Fuse(ListsOf(Signals(sf, query, 0, 0))), Universe(sf, 0, 0), ArmK)
    BY <2>2, <2>3, ServingAssumption, Retrieved
  <2>5. PICK n \in Nat : DOMAIN hits = 1..n
    BY <2>2, <2>4, UniverseFinite, FS_CardinalityType, ServingAssumption DEF HitsOfFused
  <2>6. Citations(arm, query) = [i \in DOMAIN hits |-> CitationOf(hits[i].id)]
    BY <1>2, <2>1, <2>3 DEF Citations, HitsOf
  <2> QED
    BY <2>5, <2>6, MadeListed
<1>3. CASE arm # "model_naive_rag" /\ arm # "model_dlogos"
  BY <1>3, NothingListed DEF Citations
<1> QED
  BY <1>1, <1>2, <1>3

\* Whatever the order, a label's answer is that of the arm it is undone to, and every arm
\* has one label.
Unblinds(B, answers, order) ==
  /\ DOMAIN B.armOf = DOMAIN Arms /\ DOMAIN B.blinded = DOMAIN Arms
  /\ Range(B.armOf) = Range(Arms)
  /\ \A p \in DOMAIN Arms :
       /\ order[p] \in DOMAIN Arms
       /\ B.armOf[p] = Arms[order[p]]
       /\ B.blinded[p].text = answers[order[p]].text
       /\ B.blinded[p].citations = answers[order[p]].citations
  /\ \A i \in DOMAIN Arms :
       LET p == CHOOSE q \in DOMAIN B.armOf : B.armOf[q] = Arms[i]
       IN  p \in DOMAIN Arms /\ order[p] = i

LEMMA BlindingUndone ==
  ASSUME NEW answers, AnswersOfArms(answers), NEW order \in Bijection(DOMAIN Arms, DOMAIN Arms)
  PROVE  Unblinds(BlindAnswers(answers, order), answers, order)
<1>1. PICK B : B = BlindAnswers(answers, order)
  OBVIOUS
<1>2. /\ order \in [DOMAIN Arms -> DOMAIN Arms]
      /\ \A i \in DOMAIN Arms : \E p \in DOMAIN Arms : order[p] = i
  BY DEF Bijection, Injection, Surjection
<1>3. /\ DOMAIN B.armOf = DOMAIN Arms /\ DOMAIN B.blinded = DOMAIN Arms
      /\ \A p \in DOMAIN Arms :
           /\ order[p] \in DOMAIN Arms
           /\ B.armOf[p] = answers[order[p]].arm
           /\ B.blinded[p].text = answers[order[p]].text
           /\ B.blinded[p].citations = answers[order[p]].citations
  BY <1>1, <1>2 DEF BlindAnswers
<1>4. \A p \in DOMAIN Arms : B.armOf[p] = Arms[order[p]]
  BY <1>3 DEF AnswersOfArms, IsAnswerOf
<1>5. Range(B.armOf) = Range(Arms)
  BY <1>2, <1>3, <1>4 DEF Range
<1>6. ASSUME NEW i \in DOMAIN Arms
      PROVE  LET p == CHOOSE q \in DOMAIN B.armOf : B.armOf[q] = Arms[i]
             IN  p \in DOMAIN Arms /\ order[p] = i
  <2>1. \E p \in DOMAIN B.armOf : B.armOf[p] = Arms[i]
    BY <1>2, <1>3, <1>4
  <2>2. PICK q : q = CHOOSE k \in DOMAIN B.armOf : B.armOf[k] = Arms[i]
    OBVIOUS
  <2>3. q \in DOMAIN Arms /\ Arms[order[q]] = Arms[i]
    BY <1>3, <1>4, <2>1, <2>2
  <2>4. order[q] = i
    BY <1>3, <2>3, ServingAssumption
  <2> QED
    BY <2>2, <2>3, <2>4
<1>7. Unblinds(B, answers, order)
  BY <1>3, <1>4, <1>5, <1>6 DEF Unblinds
<1> QED
  BY <1>1, <1>7

\* The order the answers at hand are shuffled to.
LEMMA Shuffled ==
  ASSUME UnderWay, eval.answers # <<>>, Scoring \/ Agreement
  PROVE  \E order : /\ AnswersOfArms(eval.answers)
                    /\ Unblinds(Blinded, eval.answers, order)
<1>1. PICK evaluation \in Evaluations : eval.seed = evaluation.seed
  BY DEF UnderWay
<1>2. PICK order : order = Shuffle[evaluation.seed][CurrentQuery]
  OBVIOUS
<1>3. CurrentQuery \in Query
  BY CurrentIsAsked
<1>4. order \in Bijection(DOMAIN Arms, DOMAIN Arms)
  BY <1>2, <1>3, ServingAssumption
<1>5. PICK answers : answers = eval.answers
  OBVIOUS
<1>6. AnswersOfArms(answers)
  BY <1>5 DEF UnderWay
<1>7. Unblinds(BlindAnswers(answers, order), answers, order)
  BY <1>4, <1>6, BlindingUndone
<1>8. Blinded = BlindAnswers(answers, order)
  BY <1>1, <1>2, <1>5 DEF Blinded
<1> QED
  BY <1>5, <1>6, <1>7, <1>8

\* An answer is found again by its arm.
LEMMA AnswerByArm ==
  ASSUME NEW answers, AnswersOfArms(answers), NEW i \in DOMAIN Arms
  PROVE  Filter(answers, LAMBDA x : x.arm = Arms[i])[1] = answers[i]
<1>1. PICK S : S = {answers[j] : j \in 1..Len(answers)}
  OBVIOUS
<1>2. answers \in Seq(S) /\ DOMAIN answers = DOMAIN Arms
  BY <1>1, ListedIsSeq, ArmsListed DEF AnswersOfArms
<1>3. {j \in DOMAIN answers : answers[j].arm = Arms[i]} = {i}
  BY <1>2, ServingAssumption DEF AnswersOfArms, IsAnswerOf
<1>4. Filter(answers, LAMBDA x : x.arm = Arms[i]) = Picked(answers, {i})
  BY <1>3 DEF Filter
<1>5. PICK found : found = Picked(answers, {i})
  OBVIOUS
<1>6. /\ found \in Seq(S)
      /\ \A p \in DOMAIN found : \E j \in {i} : found[p] = answers[j]
      /\ \A j \in {i} : \E p \in DOMAIN found : found[p] = answers[j]
  <2>1. {i} \in SUBSET DOMAIN answers
    BY <1>2
  <2> QED
    BY <1>2, <1>5, <2>1, PickedElements
<1>7. 1 \in DOMAIN found
  <2>1. DOMAIN found = 1..Len(found) /\ Len(found) \in Nat
    BY <1>6, LenProperties
  <2> QED
    BY <1>6, <2>1
<1> QED
  BY <1>4, <1>5, <1>6, <1>7

-----------------------------------------------------------------------------
(* Every score is the arm's own *)

\* What a step changes of it.
LEMMA EvaluationChanges ==
  ASSUME NEW e, e = EvaluationOf(e.queries, e.seed, e.subset, e.answers, e.rows, e.pairs),
         NEW x, NEW y
  PROVE  /\ [e EXCEPT !.answers = x]
              = EvaluationOf(e.queries, e.seed, e.subset, x, e.rows, e.pairs)
         /\ [e EXCEPT !.answers = x, !.rows = y]
              = EvaluationOf(e.queries, e.seed, e.subset, x, y, e.pairs)
<1>1. [e EXCEPT !.answers = x] = EvaluationOf(e.queries, e.seed, e.subset, x, e.rows, e.pairs)
  <2>1. PICK queries, seed, subset, answers, rows, pairs :
          /\ queries = e.queries /\ seed = e.seed /\ subset = e.subset
          /\ answers = e.answers /\ rows = e.rows /\ pairs = e.pairs
    OBVIOUS
  <2>2. e = EvaluationOf(queries, seed, subset, answers, rows, pairs)
    BY <2>1
  <2>3. PICK f : f = [e EXCEPT !.answers = x]
    OBVIOUS
  <2>4. f = EvaluationOf(queries, seed, subset, x, rows, pairs)
    BY <2>2, <2>3 DEF EvaluationOf
  <2> QED
    BY <2>1, <2>3, <2>4
<1>2. [e EXCEPT !.answers = x, !.rows = y] = EvaluationOf(e.queries, e.seed, e.subset, x, y, e.pairs)
  <2>1. PICK queries, seed, subset, answers, rows, pairs :
          /\ queries = e.queries /\ seed = e.seed /\ subset = e.subset
          /\ answers = e.answers /\ rows = e.rows /\ pairs = e.pairs
    OBVIOUS
  <2>2. e = EvaluationOf(queries, seed, subset, answers, rows, pairs)
    BY <2>1
  <2>3. PICK f : f = [e EXCEPT !.answers = x, !.rows = y]
    OBVIOUS
  <2>4. f = EvaluationOf(queries, seed, subset, x, y, pairs)
    BY <2>2, <2>3 DEF EvaluationOf
  <2> QED
    BY <2>1, <2>3, <2>4
<1> QED
  BY <1>1, <1>2

\* And what another does.
LEMMA PairsChange ==
  ASSUME NEW e, e = EvaluationOf(e.queries, e.seed, e.subset, e.answers, e.rows, e.pairs),
         NEW x, NEW y
  PROVE  [e EXCEPT !.answers = x, !.pairs = y]
           = EvaluationOf(e.queries, e.seed, e.subset, x, e.rows, y)
<1>1. PICK queries, seed, subset, answers, rows, pairs :
        /\ queries = e.queries /\ seed = e.seed /\ subset = e.subset
        /\ answers = e.answers /\ rows = e.rows /\ pairs = e.pairs
  OBVIOUS
<1>2. e = EvaluationOf(queries, seed, subset, answers, rows, pairs)
  BY <1>1
<1>3. PICK f : f = [e EXCEPT !.answers = x, !.pairs = y]
  OBVIOUS
<1>4. f = EvaluationOf(queries, seed, subset, x, rows, y)
  BY <1>2, <1>3 DEF EvaluationOf
<1> QED
  BY <1>1, <1>3, <1>4

\* What makes the evaluation one under way after a step.
LEMMA StillUnderWay ==
  ASSUME NEW evaluation \in Evaluations, NEW answers, NEW rows, NEW pairs,
         eval' = EvaluationOf(evaluation.queries, evaluation.seed, evaluation.subset,
                            answers, rows, pairs),
         answers = <<>> \/ AnswersOfArms(answers),
         Listed(rows), \A r \in DOMAIN rows : RowIsOwn(rows[r]),
         Listed(pairs), \A k \in DOMAIN pairs : PairIsOwn(pairs[k])
  PROVE  UnderWay'
<1>1. PICK e : e = eval'
  OBVIOUS
<1>2. /\ e.queries = evaluation.queries /\ e.seed = evaluation.seed
      /\ e.subset = evaluation.subset
      /\ e.answers = answers /\ e.rows = rows /\ e.pairs = pairs
      /\ e = EvaluationOf(e.queries, e.seed, e.subset, e.answers, e.rows, e.pairs)
  <2>1. PICK queries, seed, subset : /\ queries = evaluation.queries
                                     /\ seed = evaluation.seed /\ subset = evaluation.subset
    OBVIOUS
  <2>2. e = EvaluationOf(queries, seed, subset, answers, rows, pairs)
    BY <1>1, <2>1
  <2>3. /\ e.queries = queries /\ e.seed = seed /\ e.subset = subset
        /\ e.answers = answers /\ e.rows = rows /\ e.pairs = pairs
    BY <2>2 DEF EvaluationOf
  <2> QED
    BY <2>1, <2>2, <2>3
<1> QED
  BY <1>1, <1>2 DEF UnderWay

\* Nothing is under way at the start, and what is started has nothing scored yet.
LEMMA StartsUnderWay ==
  ASSUME NEW evaluation \in Evaluations, StartEvaluation(evaluation)
  PROVE  UnderWay'
<1>1. eval' = EvaluationOf(evaluation.queries, evaluation.seed, evaluation.subset,
                         <<>>, <<>>, <<>>)
  BY DEF StartEvaluation, EvaluationOf
<1> QED
  <2>1. \A r \in DOMAIN <<>> : RowIsOwn(<<>>[r]) /\ PairIsOwn(<<>>[r])
    BY NothingListed
  <2> QED
    BY <1>1, <2>1, NothingListed, StillUnderWay

\* The arms answer, each its own.
LEMMA ArmsAnswer ==
  ASSUME StoreKept, Derived, UnderWay, NEW texts \in Texts, RunArms(texts)
  PROVE  UnderWay'
<1>1. PICK query, answers :
        /\ query = CurrentQuery
        /\ answers = [i \in DOMAIN Arms |-> ArmAnswer(Arms[i], query, texts[Arms[i]])]
  OBVIOUS
<1>2. query \in Query
  BY <1>1, CurrentIsAsked DEF RunArms
<1>3. DOMAIN answers = 1..Len(Arms) /\ Len(Arms) \in Nat /\ DOMAIN Arms = 1..Len(Arms)
  BY <1>1, ArmsListed
<1>4. Listed(answers) /\ Len(answers) = Len(Arms)
  BY <1>1, <1>3, MadeListed
<1>5. ASSUME NEW i \in DOMAIN Arms PROVE IsAnswerOf(answers[i], Arms[i])
  <2>1. Listed(Citations(Arms[i], query))
    BY <1>2, CitationsListed
  <2>2. texts[Arms[i]] \in TextsOf[Arms[i]]
    BY ArmsListed DEF Texts
  <2> QED
    BY <1>1, <2>1, <2>2 DEF IsAnswerOf, ArmAnswer
<1>6. AnswersOfArms(answers)
  BY <1>4, <1>5 DEF AnswersOfArms
<1>7. eval' = [eval EXCEPT !.answers = answers]
  BY <1>1 DEF RunArms
<1>8. eval' = EvaluationOf(eval.queries, eval.seed, eval.subset, answers, eval.rows, eval.pairs)
  <2>1. PICK e : e = eval
    OBVIOUS
  <2>2. e = EvaluationOf(e.queries, e.seed, e.subset, e.answers, e.rows, e.pairs)
    BY <2>1 DEF UnderWay
  <2>3. [e EXCEPT !.answers = answers]
          = EvaluationOf(e.queries, e.seed, e.subset, answers, e.rows, e.pairs)
    BY <2>2, EvaluationChanges
  <2> QED
    BY <1>7, <2>1, <2>3
<1> QED
  <2>1. PICK evaluation \in Evaluations :
          /\ eval.queries = evaluation.queries /\ eval.seed = evaluation.seed
          /\ eval.subset = evaluation.subset
    BY DEF UnderWay
  <2>2. /\ Listed(eval.rows) /\ \A r \in DOMAIN eval.rows : RowIsOwn(eval.rows[r])
        /\ Listed(eval.pairs) /\ \A p \in DOMAIN eval.pairs : PairIsOwn(eval.pairs[p])
    BY DEF UnderWay
  <2> QED
    BY <1>6, <1>8, <2>1, <2>2, StillUnderWay

\* Scoring a query keeps to it.
LEMMA RowsAreOwn ==
  ASSUME UnderWay, ScoreQuery
  PROVE  UnderWay'
<1>1. PICK answers, order : /\ answers = eval.answers /\ AnswersOfArms(answers)
                            /\ Unblinds(Blinded, answers, order)
  BY Shuffled DEF ScoreQuery
<1>2. PICK armOf, blinded, scores, row :
        /\ armOf = Blinded.armOf /\ blinded = Blinded.blinded
        /\ scores = [arm \in Range(armOf) |->
                       Score("first", blinded[CHOOSE p \in DOMAIN armOf : armOf[p] = arm])]
        /\ row = [query |-> CurrentQuery, answers |-> answers,
                  context |-> Context(CurrentQuery), labels |-> armOf, scores |-> scores]
  OBVIOUS
<1>3. eval' = [eval EXCEPT !.answers = <<>>, !.rows = Append(eval.rows, row)]
  BY <1>1, <1>2 DEF ScoreQuery
<1>4. ASSUME NEW i \in DOMAIN Arms
      PROVE  scores[Arms[i]] = OwnScore("first", answers[i])
  <2>1. PICK p : p = CHOOSE q \in DOMAIN armOf : armOf[q] = Arms[i]
    OBVIOUS
  <2>2. p \in DOMAIN Arms /\ order[p] = i
    <3>1. LET q == CHOOSE k \in DOMAIN Blinded.armOf : Blinded.armOf[k] = Arms[i]
          IN  q \in DOMAIN Arms /\ order[q] = i
      BY <1>1 DEF Unblinds
    <3> QED
      BY <1>2, <2>1, <3>1
  <2>3. blinded[p].text = answers[i].text /\ blinded[p].citations = answers[i].citations
    BY <1>1, <1>2, <2>2 DEF Unblinds
  <2>4. Arms[i] \in Range(armOf)
    BY <1>1, <1>2, ArmsListed DEF Unblinds
  <2> QED
    BY <1>2, <2>1, <2>3, <2>4 DEF Score, OwnScore
<1>5. RowIsOwn(row)
  <2>1. DOMAIN scores = Range(Arms)
    BY <1>1, <1>2 DEF Unblinds
  <2> QED
    BY <1>1, <1>2, <1>4, <2>1 DEF RowIsOwn
<1>6. PICK rows : rows = Append(eval.rows, row)
  OBVIOUS
<1>7. Listed(rows) /\ \A r \in DOMAIN rows : RowIsOwn(rows[r])
  <2>1. PICK old : old = eval.rows
    OBVIOUS
  <2>2. Listed(old) /\ \A r \in DOMAIN old : RowIsOwn(old[r])
    BY <2>1 DEF UnderWay
  <2>3. PICK S : S = {old[r] : r \in 1..Len(old)} \cup {row}
    OBVIOUS
  <2>4. old \in Seq(S) /\ row \in S /\ DOMAIN old = 1..Len(old) /\ Len(old) \in Nat
    BY <2>2, <2>3, ListedIsSeq
  <2>5. /\ rows \in Seq(S) /\ Len(rows) = Len(old) + 1
        /\ \A r \in 1..Len(old) : rows[r] = old[r]
        /\ rows[Len(old) + 1] = row
    BY <1>6, <2>1, <2>4, AppendProperties
  <2>6. DOMAIN rows = 1..(Len(old) + 1)
    BY <2>5, LenProperties
  <2>7. \A r \in DOMAIN rows : RowIsOwn(rows[r])
    BY <1>5, <2>2, <2>4, <2>5, <2>6
  <2> QED
    BY <2>5, <2>7, ListedSeq
<1>8. eval' = EvaluationOf(eval.queries, eval.seed, eval.subset, <<>>, rows, eval.pairs)
  <2>1. PICK e : e = eval
    OBVIOUS
  <2>2. e = EvaluationOf(e.queries, e.seed, e.subset, e.answers, e.rows, e.pairs)
    BY <2>1 DEF UnderWay
  <2>3. [e EXCEPT !.answers = <<>>, !.rows = rows]
          = EvaluationOf(e.queries, e.seed, e.subset, <<>>, rows, e.pairs)
    <3>1. PICK x : x = <<>>
      OBVIOUS
    <3>2. [e EXCEPT !.answers = x, !.rows = rows]
            = EvaluationOf(e.queries, e.seed, e.subset, x, rows, e.pairs)
      BY <2>2, EvaluationChanges
    <3> QED
      BY <3>1, <3>2
  <2> QED
    BY <1>3, <1>6, <2>1, <2>3
<1> QED
  <2>1. PICK evaluation \in Evaluations :
          /\ eval.queries = evaluation.queries /\ eval.seed = evaluation.seed
          /\ eval.subset = evaluation.subset
    BY DEF UnderWay
  <2>2. Listed(eval.pairs) /\ \A p \in DOMAIN eval.pairs : PairIsOwn(eval.pairs[p])
    BY DEF UnderWay
  <2> QED
    BY <1>7, <1>8, <2>1, <2>2, StillUnderWay

\* So does rating twice.
LEMMA PairsAreOwn ==
  ASSUME UnderWay, RateTwice
  PROVE  UnderWay'
<1>1. PICK answers, order : /\ answers = eval.answers /\ AnswersOfArms(answers)
                            /\ Unblinds(Blinded, answers, order)
  BY Shuffled DEF RateTwice
<1>2. PICK armOf, blinded, new :
        /\ armOf = Blinded.armOf /\ blinded = Blinded.blinded
        /\ new = [p \in DOMAIN blinded |->
                    [of |-> Filter(answers, LAMBDA x : x.arm = armOf[p])[1],
                     a |-> Score("first", blinded[p]).total,
                     b |-> Score("second", blinded[p]).total]]
  OBVIOUS
<1>3. eval' = [eval EXCEPT !.answers = <<>>, !.pairs = eval.pairs \o new]
  BY <1>1, <1>2 DEF RateTwice
<1>4. DOMAIN new = 1..Len(Arms) /\ Len(Arms) \in Nat /\ DOMAIN Arms = 1..Len(Arms)
  BY <1>1, <1>2, ArmsListed DEF Unblinds
<1>5. Listed(new)
  BY <1>2, <1>4, MadeListed
<1>6. ASSUME NEW p \in DOMAIN new PROVE PairIsOwn(new[p])
  <2>1. /\ order[p] \in DOMAIN Arms /\ armOf[p] = Arms[order[p]]
        /\ blinded[p].text = answers[order[p]].text
        /\ blinded[p].citations = answers[order[p]].citations
    BY <1>1, <1>2, <1>4 DEF Unblinds
  <2>2. Filter(answers, LAMBDA x : x.arm = armOf[p])[1] = answers[order[p]]
    <3>1. Filter(answers, LAMBDA x : x.arm = Arms[order[p]])[1] = answers[order[p]]
      BY <1>1, <2>1, AnswerByArm
    <3> QED
      BY <2>1, <3>1
  <2>3. /\ new[p].of = answers[order[p]]
        /\ new[p].a = Score("first", blinded[p]).total
        /\ new[p].b = Score("second", blinded[p]).total
    BY <1>2, <2>2
  <2>4. IsAnswerOf(answers[order[p]], Arms[order[p]])
    BY <1>1, <2>1 DEF AnswersOfArms
  <2> QED
    BY <2>1, <2>3, <2>4 DEF PairIsOwn, Score, OwnScore
<1>7. PICK pairs : pairs = eval.pairs \o new
  OBVIOUS
<1>8. Listed(pairs) /\ \A k \in DOMAIN pairs : PairIsOwn(pairs[k])
  <2>1. PICK old : old = eval.pairs
    OBVIOUS
  <2>2. Listed(old) /\ \A k \in DOMAIN old : PairIsOwn(old[k])
    BY <2>1 DEF UnderWay
  <2>3. /\ Listed(old \o new)
        /\ \A k \in DOMAIN (old \o new) :
             \/ k \in DOMAIN old /\ (old \o new)[k] = old[k]
             \/ \E j \in DOMAIN new : (old \o new)[k] = new[j]
    BY <1>5, <2>2, ListedInARow
  <2> QED
    BY <1>6, <1>7, <2>1, <2>2, <2>3
<1>9. eval' = EvaluationOf(eval.queries, eval.seed, eval.subset, <<>>, eval.rows, pairs)
  <2>1. PICK e : e = eval
    OBVIOUS
  <2>2. e = EvaluationOf(e.queries, e.seed, e.subset, e.answers, e.rows, e.pairs)
    BY <2>1 DEF UnderWay
  <2>3. [e EXCEPT !.answers = <<>>, !.pairs = pairs]
          = EvaluationOf(e.queries, e.seed, e.subset, <<>>, e.rows, pairs)
    <3>1. PICK x : x = <<>>
      OBVIOUS
    <3>2. [e EXCEPT !.answers = x, !.pairs = pairs]
            = EvaluationOf(e.queries, e.seed, e.subset, x, e.rows, pairs)
      BY <2>2, PairsChange
    <3> QED
      BY <3>1, <3>2
  <2> QED
    BY <1>3, <1>7, <2>1, <2>3
<1> QED
  <2>1. PICK evaluation \in Evaluations :
          /\ eval.queries = evaluation.queries /\ eval.seed = evaluation.seed
          /\ eval.subset = evaluation.subset
    BY DEF UnderWay
  <2>2. Listed(eval.rows) /\ \A r \in DOMAIN eval.rows : RowIsOwn(eval.rows[r])
    BY DEF UnderWay
  <2> QED
    BY <1>8, <1>9, <2>1, <2>2, StillUnderWay

\* Every step keeps an evaluation's scores the arms' own.
LEMMA EvaluatedStep ==
  ASSUME StoreKept, Derived, Evaluated, [ServeNext]_servingVars
  PROVE  Evaluated'
<1>1. ASSUME eval = NoEval
      PROVE  ~eval.running /\ eval.answers = <<>>
  BY <1>1 DEF NoEval
<1>2. ASSUME NEW evaluation \in Evaluations, StartEvaluation(evaluation) PROVE Evaluated'
  BY <1>2, StartsUnderWay DEF Evaluated
<1>3. ASSUME NEW texts \in Texts, RunArms(texts) PROVE Evaluated'
  <2>1. UnderWay
    BY <1>1, <1>3 DEF Evaluated, RunArms
  <2> QED
    BY <1>3, <2>1, ArmsAnswer DEF Evaluated
<1>4. ASSUME ScoreQuery PROVE Evaluated'
  <2>1. UnderWay
    BY <1>1, <1>4 DEF Evaluated, ScoreQuery
  <2> QED
    BY <1>4, <2>1, RowsAreOwn DEF Evaluated
<1>5. ASSUME RateTwice PROVE Evaluated'
  <2>1. UnderWay
    BY <1>1, <1>5 DEF Evaluated, RateTwice
  <2> QED
    BY <1>5, <2>1, PairsAreOwn DEF Evaluated
<1>6. EvaluationFails \/ Reported => Evaluated'
  BY DEF EvaluationFails, Reported, Evaluated
<1>7. StoreStep \/ UseTool \/ UNCHANGED servingVars => UNCHANGED eval
  BY DEF StoreStep, LoadRun, Correct, TimePasses, BuildSurface, UseTool, Answers,
         SearchDialogue, WhoDiscussed, ConsensusTrend, AskBeliefHistory, ProvenanceLookup,
         servingVars
<1>8. UNCHANGED eval => Evaluated'
  BY DEF Evaluated, UnderWay
<1> QED
  BY <1>2, <1>3, <1>4, <1>5, <1>6, <1>7, <1>8 DEF ServeNext

\* The invariant holds of every behaviour.
LEMMA EvaluatedHolds == ServingSpec => []Evaluated
<1>1. ServeInit => Evaluated
  BY DEF ServeInit, Evaluated
<1>2. ServeInv /\ Evaluated /\ [ServeNext]_servingVars => Evaluated'
  BY EvaluatedStep DEF ServeInv
<1> QED
  BY <1>1, <1>2, ServeInvHolds, PTL DEF ServingSpec

\* Of an answer's citations only those are rejected that are no turn of their speaker or
\* are talked over.
THEOREM TurnsPass == ServingSpec => []CitationsPass
<1>1. Evaluated => CitationsPass
  <2> SUFFICES ASSUME Evaluated, NEW r \in DOMAIN eval.rows, NEW i \in DOMAIN Arms
               PROVE  eval.rows[r].scores[Arms[i]].rejected
                        <= Cardinality({k \in DOMAIN eval.rows[r].answers[i].citations :
                              \/ ~IsTurn(eval.rows[r].answers[i].citations[k])
                              \/ Crosstalk(eval.rows[r].answers[i].citations[k])})
    BY DEF CitationsPass
  <2>1. UnderWay
    BY NothingListed DEF Evaluated, NoEval
  <2>2. PICK row : row = eval.rows[r]
    OBVIOUS
  <2>3. RowIsOwn(row)
    BY <2>1, <2>2 DEF UnderWay
  <2>4. PICK own, citations : own = row.answers[i] /\ citations = own.citations
    OBVIOUS
  <2>5. Listed(citations)
    BY <2>3, <2>4 DEF RowIsOwn, AnswersOfArms, IsAnswerOf
  <2>6. row.scores[Arms[i]] = ScoreAnswer(Rating["first"][own.text], citations)
    BY <2>3, <2>4 DEF RowIsOwn, OwnScore
  <2>7. ScoreAnswer(Rating["first"][own.text], citations).rejected
          <= Cardinality({k \in DOMAIN citations :
                            ~IsTurn(citations[k]) \/ Crosstalk(citations[k])})
    BY <2>5, RejectedAreFew
  <2> QED
    BY <2>2, <2>4, <2>6, <2>7
<1> QED
  BY <1>1, EvaluatedHolds, PTL

-----------------------------------------------------------------------------
(* Agreement of the raters *)

\* The bands are numbered.
LEMMA BandsNumbered == \A total \in Nat : Band(total) \in 0..Cardinality(Edges)
<1> SUFFICES ASSUME NEW total \in Nat PROVE Band(total) \in 0..Cardinality(Edges)
  OBVIOUS
<1>1. PICK E : E = {e \in Edges : total >= e}
  OBVIOUS
<1>2. IsFiniteSet(E) /\ Cardinality(E) <= Cardinality(Edges)
  BY <1>1, EvaluationAssumption, FS_Subset
<1>3. Cardinality(E) \in Nat /\ Cardinality(Edges) \in Nat
  BY <1>2, EvaluationAssumption, FS_CardinalityType
<1> QED
  BY <1>1, <1>2, <1>3 DEF Band

\* Two raters' agreement lies between its bounds, and is full when they always agree.
LEMMA KappaBounded ==
  ASSUME NEW pairs, Listed(pairs), pairs # <<>>,
         \A i \in DOMAIN pairs : pairs[i].a \in Nat /\ pairs[i].b \in Nat
  PROVE  /\ -Kappa(pairs)[2] <= Kappa(pairs)[1] /\ Kappa(pairs)[1] <= Kappa(pairs)[2]
         /\ (Kappa(pairs)[1] = Kappa(pairs)[2]) = (Agreeing(pairs) = Len(pairs))
<1>1. PICK n, D, bands, first, second, kindA, kindB :
        /\ n = Len(pairs) /\ D = DOMAIN pairs /\ bands = 0..Cardinality(Edges)
        /\ kindA = [i \in D |-> Band(pairs[i].a)]
        /\ kindB = [i \in D |-> Band(pairs[i].b)]
        /\ first = [k \in bands |-> Cardinality({i \in D : Band(pairs[i].a) = k})]
        /\ second = [k \in bands |-> Cardinality({i \in D : Band(pairs[i].b) = k})]
  OBVIOUS
<1>2. PICK both, product, same, chance :
        /\ same = {i \in D : Band(pairs[i].a) = Band(pairs[i].b)}
        /\ both = [k \in bands |-> Cardinality({i \in same : Band(pairs[i].a) = k})]
        /\ product = [k \in bands |-> first[k] * second[k]]
        /\ chance = SumFunctionOnSet(product, bands)
  OBVIOUS
<1>3. /\ D = 1..n /\ n \in Nat \ {0} /\ IsFiniteSet(D) /\ Cardinality(D) = n
  <2>1. DOMAIN pairs = 1..Len(pairs) /\ Len(pairs) \in Nat
    BY DEF Listed
  <2>2. Len(pairs) # 0
    BY ListedNonempty
  <2>3. IsFiniteSet(1..n) /\ Cardinality(1..n) = n
    BY <1>1, <2>1, FS_Interval
  <2> QED
    BY <1>1, <2>1, <2>2, <2>3
<1>4. IsFiniteSet(bands)
  <2>1. Cardinality(Edges) \in Nat
    BY EvaluationAssumption, FS_CardinalityType
  <2> QED
    BY <1>1, <2>1, FS_Interval
<1>5. \A i \in D : kindA[i] \in bands /\ kindB[i] \in bands
  BY <1>1, BandsNumbered
<1>6. /\ \A k \in bands : first[k] \in Nat /\ first[k] <= n
      /\ SumFunctionOnSet(first, bands) = n
  <2>1. \A k \in bands : first[k] = Cardinality(OfKind(D, kindA, k))
    <3> TAKE k \in bands
    <3>1. OfKind(D, kindA, k) = {i \in D : Band(pairs[i].a) = k}
      BY <1>1 DEF OfKind
    <3> QED
      BY <1>1, <3>1
  <2>2. \A i \in D : kindA[i] \in bands
    BY <1>5
  <2>3. /\ \A k \in bands : first[k] \in Nat
        /\ \A k \in bands : first[k] <= Cardinality(D)
        /\ SumFunctionOnSet(first, bands) = Cardinality(D)
    BY <1>3, <1>4, <2>1, <2>2, KindsAddUp
  <2> QED
    BY <1>3, <2>3
<1>7. /\ \A k \in bands : second[k] \in Nat /\ second[k] <= n
      /\ SumFunctionOnSet(second, bands) = n
  <2>1. \A k \in bands : second[k] = Cardinality(OfKind(D, kindB, k))
    <3> TAKE k \in bands
    <3>1. OfKind(D, kindB, k) = {i \in D : Band(pairs[i].b) = k}
      BY <1>1 DEF OfKind
    <3> QED
      BY <1>1, <3>1
  <2>2. \A i \in D : kindB[i] \in bands
    BY <1>5
  <2>3. /\ \A k \in bands : second[k] \in Nat
        /\ \A k \in bands : second[k] <= Cardinality(D)
        /\ SumFunctionOnSet(second, bands) = Cardinality(D)
    BY <1>3, <1>4, <2>1, <2>2, KindsAddUp
  <2> QED
    BY <1>3, <2>3
<1>8. /\ same \subseteq D /\ IsFiniteSet(same) /\ Agreeing(pairs) = Cardinality(same)
      /\ Cardinality(same) \in Nat /\ Cardinality(same) <= n
  <2>1. same \subseteq D
    BY <1>2
  <2>2. IsFiniteSet(same) /\ Cardinality(same) <= Cardinality(D)
    BY <1>3, <2>1, FS_Subset
  <2>3. Cardinality(same) \in Nat
    BY <2>2, FS_CardinalityType
  <2>4. Agreeing(pairs) = Cardinality(same)
    BY <1>1, <1>2 DEF Agreeing
  <2> QED
    BY <1>3, <2>1, <2>2, <2>3, <2>4
<1>9. /\ \A k \in bands : both[k] \in Nat
      /\ SumFunctionOnSet(both, bands) = Cardinality(same)
  <2>1. \A k \in bands : both[k] = Cardinality(OfKind(same, kindA, k))
    <3> TAKE k \in bands
    <3>1. OfKind(same, kindA, k) = {i \in same : Band(pairs[i].a) = k}
      BY <1>1, <1>8 DEF OfKind
    <3> QED
      BY <1>2, <3>1
  <2>2. \A i \in same : kindA[i] \in bands
    BY <1>5, <1>8
  <2>3. /\ \A k \in bands : both[k] \in Nat
        /\ \A k \in bands : both[k] <= Cardinality(same)
        /\ SumFunctionOnSet(both, bands) = Cardinality(same)
    BY <1>4, <1>8, <2>1, <2>2, KindsAddUp
  <2> QED
    BY <2>3
<1>10. \A k \in bands : first[k] + second[k] <= n + both[k]
  <2> TAKE k \in bands
  <2>1. PICK A, B, C : /\ A = {i \in D : Band(pairs[i].a) = k}
                        /\ B = {i \in D : Band(pairs[i].b) = k}
                        /\ C = {i \in same : Band(pairs[i].a) = k}
    OBVIOUS
  <2>2. A \subseteq D /\ B \subseteq D /\ A \cup B \subseteq D /\ C = A \cap B
    BY <1>2, <2>1
  <2>3. IsFiniteSet(A) /\ IsFiniteSet(B) /\ IsFiniteSet(C)
        /\ Cardinality(A \cup B) <= Cardinality(D)
    BY <1>3, <2>2, FS_Subset
  <2>4. Cardinality(A \cup B) = Cardinality(A) + Cardinality(B) - Cardinality(A \cap B)
    BY <2>3, FS_Union
  <2>5. Cardinality(A) \in Nat /\ Cardinality(B) \in Nat /\ Cardinality(C) \in Nat
    BY <2>3, FS_CardinalityType
  <2>6. first[k] = Cardinality(A) /\ second[k] = Cardinality(B) /\ both[k] = Cardinality(C)
    BY <1>1, <1>2, <2>1
  <2> QED
    BY <1>3, <2>2, <2>3, <2>4, <2>5, <2>6
<1>11. \A k \in bands : /\ product[k] \in Int
                        /\ 4 * product[k] <= n * (first[k] + second[k]) + 2 * (n * both[k])
  <2> TAKE k \in bands
  <2>1. PICK x \in Nat, y \in Nat, z \in Nat : x = first[k] /\ y = second[k] /\ z = both[k]
    BY <1>6, <1>7, <1>9
  <2>2. x <= n /\ y <= n /\ x + y <= n + z /\ n \in Nat
    BY <1>3, <1>6, <1>7, <1>10, <2>1
  <2>3. 4 * (x * y) <= n * (x + y) + 2 * (n * z)
    BY <2>2, ProductOfShares
  <2>4. product[k] = x * y /\ x * y \in Int
    BY <1>2, <2>1
  <2> QED
    BY <2>1, <2>3, <2>4
<1>12. 4 * chance <= n * (n + n) + 2 * (n * Cardinality(same)) /\ chance \in Int
  <2>1. /\ \A k \in bands : product[k] \in Int
        /\ \A k \in bands : first[k] \in Int
        /\ \A k \in bands : second[k] \in Int
        /\ \A k \in bands : both[k] \in Int
        /\ \A k \in bands :
             4 * product[k] <= n * (first[k] + second[k]) + 2 * (n * both[k])
    BY <1>6, <1>7, <1>9, <1>11
  <2>2. 4 * SumFunctionOnSet(product, bands)
          <= n * (SumFunctionOnSet(first, bands) + SumFunctionOnSet(second, bands))
               + 2 * (n * SumFunctionOnSet(both, bands))
    BY <1>3, <1>4, <2>1, SharesAddUp
  <2>3. SumFunctionOnSet(product, bands) \in Int
    BY <1>4, <2>1, SumOf
  <2> QED
    BY <1>2, <1>6, <1>7, <1>9, <2>2, <2>3
<1>13. Kappa(pairs) = IF chance = n * n THEN <<IF Agreeing(pairs) = n THEN 1 ELSE 0, 1>>
                      ELSE <<Agreeing(pairs) * n - chance, n * n - chance>>
  <2>1. product = [k \in bands |-> Cardinality({i \in DOMAIN pairs : Band(pairs[i].a) = k})
                                 * Cardinality({i \in DOMAIN pairs : Band(pairs[i].b) = k})]
    BY <1>1, <1>2
  <2>2. DOMAIN product = bands
    BY <1>2
  <2>3. chance = SumFunction(product)
    BY <1>2, <2>2 DEF SumFunction
  <2> QED
    BY <1>1, <2>1, <2>3 DEF Kappa
<1>14. PICK m \in Nat, a \in Nat, c \in Int :
         m = n /\ a = Agreeing(pairs) /\ c = chance
  BY <1>3, <1>8, <1>12
<1>15. m # 0 /\ a <= m /\ 4 * c <= m * (m + m) + 2 * (m * a)
  BY <1>3, <1>8, <1>12, <1>14
<1>16. a * m <= m * m /\ (a * m = m * m <=> a = m)
  BY <1>15
<1>17. CASE c = m * m
  <2>1. Kappa(pairs) = <<IF a = m THEN 1 ELSE 0, 1>>
    BY <1>13, <1>14, <1>17
  <2>2. Kappa(pairs)[1] = (IF a = m THEN 1 ELSE 0) /\ Kappa(pairs)[2] = 1
    BY <2>1
  <2> QED
    BY <1>1, <1>14, <2>2
<1>18. CASE c # m * m
  <2>1. Kappa(pairs) = <<a * m - c, m * m - c>>
    BY <1>13, <1>14, <1>18
  <2>2. Kappa(pairs)[1] = a * m - c /\ Kappa(pairs)[2] = m * m - c
    BY <2>1
  <2>3. PICK p \in Int, q \in Int : p = a * m /\ q = m * m
    OBVIOUS
  <2>4. m * (m + m) = 2 * q /\ m * a = p
    BY <2>3
  <2>5. 2 * c <= q + p /\ p <= q /\ (p = q <=> a = m)
    BY <1>15, <1>16, <2>3, <2>4
  <2>6. -(q - c) <= p - c /\ p - c <= q - c /\ (p - c = q - c <=> a = m)
    BY <2>5
  <2> QED
    BY <1>1, <1>14, <2>2, <2>3, <2>6
<1> QED
  BY <1>17, <1>18

-----------------------------------------------------------------------------
(* Scores *)

\* How many citations pass is a number.
LEMMA VerifiedFew ==
  ASSUME NEW citations, Listed(citations)
  PROVE  Verified(citations) \in Nat
<1>1. DOMAIN citations = 1..Len(citations) /\ Len(citations) \in Nat
  BY DEF Listed
<1>2. IsFiniteSet(DOMAIN citations)
  BY <1>1, FS_Interval
<1>3. PICK V : V = {k \in DOMAIN citations : VerifyCitation(citations[k])}
  OBVIOUS
<1>4. IsFiniteSet(V)
  BY <1>2, <1>3, FS_Subset
<1>5. Cardinality(V) \in Nat
  BY <1>4, FS_CardinalityType
<1> QED
  BY <1>3, <1>5 DEF Verified

\* An answer's own total is a number.
LEMMA OwnTotalTyped ==
  ASSUME NEW rater \in {"first", "second"}, NEW i \in DOMAIN Arms, NEW own,
         IsAnswerOf(own, Arms[i])
  PROVE  OwnScore(rater, own).total \in Nat
<1>1. PICK rating, citations, raw :
        /\ rating = Rating[rater][own.text] /\ citations = own.citations
        /\ raw = Capped(rating, citations)
  OBVIOUS
<1>2. rating \in [Dimension -> Nat] /\ Listed(citations)
  BY <1>1, ArmsListed, ServingAssumption DEF IsAnswerOf
<1>3. \A d \in Dimension : raw[d] \in Nat
  <2>1. CASE citations = <<>> \/ Unchecked
    BY <1>1, <1>2, <2>1 DEF Capped
  <2>2. CASE ~(citations = <<>> \/ Unchecked)
    <3>1. PICK cap, own_ : /\ cap = (Full * Verified(citations)) \div Len(citations)
                           /\ own_ = rating[AttributionPrecision]
      OBVIOUS
    <3>2. Len(citations) \in Nat \ {0}
      BY <1>2, <2>2, ListedNonempty
    <3>3. Verified(citations) \in Nat
      BY <1>2, VerifiedFew
    <3>4. cap \in Nat
      BY <3>1, <3>2, <3>3, EvaluationAssumption
    <3>5. own_ \in Nat
      BY <1>2, <3>1, EvaluationAssumption
    <3>6. Min({own_, cap}) \in Nat
      BY <3>4, <3>5, OfTwo
    <3>7. raw = [rating EXCEPT ![AttributionPrecision] = Min({own_, cap})]
      BY <1>1, <2>2, <3>1 DEF Capped
    <3> QED
      BY <1>2, <3>6, <3>7
  <2> QED
    BY <2>1, <2>2
<1>4. PICK worth : worth = [d \in Dimension |-> Weights[d] * raw[d]]
  OBVIOUS
<1>5. \A d \in Dimension : worth[d] \in Nat
  <2> TAKE d \in Dimension
  <2>1. PICK x \in Nat, y \in Nat : x = Weights[d] /\ y = raw[d]
    BY <1>3, EvaluationAssumption
  <2> QED
    BY <1>4, <2>1
<1>6. SumFunctionOnSet(worth, Dimension) \in Nat
  BY <1>5, EvaluationAssumption, SumOf
<1>7. SumFunction(worth) = SumFunctionOnSet(worth, Dimension)
  BY <1>4 DEF SumFunction
<1>8. OwnScore(rater, own).total = SumFunction(worth)
  BY <1>1, <1>4 DEF OwnScore, ScoreAnswer
<1> QED
  BY <1>6, <1>7, <1>8

\* The rows of an evaluation as a whole: a total of every arm, each its own.
OwnRows(rows) == Listed(rows) /\ \A r \in DOMAIN rows : RowIsOwn(rows[r])

\* The totals of a row.
LEMMA RowTotals ==
  ASSUME NEW row, RowIsOwn(row), NEW i \in DOMAIN Arms
  PROVE  /\ Arms[i] \in DOMAIN row.scores
         /\ row.scores[Arms[i]].total = OwnTotal("first", row.answers[i])
         /\ row.scores[Arms[i]].total \in Nat
<1>1. IsAnswerOf(row.answers[i], Arms[i])
  BY DEF RowIsOwn, AnswersOfArms
<1>2. row.scores[Arms[i]] = OwnScore("first", row.answers[i])
  BY DEF RowIsOwn
<1>3. OwnScore("first", row.answers[i]).total \in Nat
  BY <1>1, OwnTotalTyped
<1>4. Arms[i] \in DOMAIN row.scores
  BY ArmsListed DEF RowIsOwn
<1> QED
  BY <1>2, <1>3, <1>4 DEF OwnTotal, OwnScore

\* An arm that is never behind another has no less in sum.
LEMMA MeansCompare ==
  ASSUME NEW rows, OwnRows(rows), NEW i \in DOMAIN Arms, NEW j \in DOMAIN Arms,
         \A r \in DOMAIN rows :
           rows[r].scores[Arms[i]].total >= rows[r].scores[Arms[j]].total
  PROVE  MeanTotal(Arms[i], rows)[1] >= MeanTotal(Arms[j], rows)[1]
<1>1. PICK D : D = DOMAIN rows
  OBVIOUS
<1>2. IsFiniteSet(D)
  <2>1. D = 1..Len(rows) /\ Len(rows) \in Nat
    BY <1>1 DEF OwnRows, Listed
  <2> QED
    BY <2>1, FS_Interval
<1>3. ASSUME NEW k \in DOMAIN Arms
      PROVE  MeanTotal(Arms[k], rows)[1]
               = SumFunctionOnSet([r \in D |-> rows[r].scores[Arms[k]].total], D)
  <2>1. {r \in DOMAIN rows : Arms[k] \in DOMAIN rows[r].scores} = D
    BY <1>1, RowTotals DEF OwnRows
  <2>2. PICK f : f = [r \in D |-> rows[r].scores[Arms[k]].total]
    OBVIOUS
  <2>3. MeanTotal(Arms[k], rows) = <<SumFunction(f), Cardinality(D)>>
    BY <2>1, <2>2 DEF MeanTotal
  <2>4. SumFunction(f) = SumFunctionOnSet(f, D)
    BY <2>2 DEF SumFunction
  <2> QED
    BY <2>2, <2>3, <2>4
<1>4. PICK f, g : /\ f = [r \in D |-> rows[r].scores[Arms[j]].total]
                  /\ g = [r \in D |-> rows[r].scores[Arms[i]].total]
  OBVIOUS
<1>5. \A r \in D : f[r] \in Int /\ g[r] \in Int /\ f[r] <= g[r]
  <2> TAKE r \in D
  <2>1. RowIsOwn(rows[r])
    BY <1>1 DEF OwnRows
  <2>2. rows[r].scores[Arms[i]].total \in Nat /\ rows[r].scores[Arms[j]].total \in Nat
    BY <2>1, RowTotals
  <2> QED
    BY <1>1, <1>4, <2>2
<1>6. SumFunctionOnSet(f, D) <= SumFunctionOnSet(g, D)
  BY <1>2, <1>5, SumsCompare
<1>7. SumFunctionOnSet(f, D) \in Int /\ SumFunctionOnSet(g, D) \in Int
  <2>1. (\A r \in D : f[r] \in Int) /\ (\A r \in D : g[r] \in Int)
    BY <1>5
  <2>2. SumFunctionOnSet(f, D) \in Int
    BY <1>2, <2>1, SumOf
  <2>3. SumFunctionOnSet(g, D) \in Int
    BY <1>2, <2>1, SumOf
  <2> QED
    BY <2>2, <2>3
<1> QED
  BY <1>3, <1>4, <1>6, <1>7

\* Nor does it win less often: the other never wins.
LEMMA WinsCompare ==
  ASSUME NEW rows, OwnRows(rows), NEW i \in DOMAIN Arms, NEW j \in DOMAIN Arms,
         \A r \in DOMAIN rows :
           rows[r].scores[Arms[i]].total >= rows[r].scores[Arms[j]].total
  PROVE  WinCount(Arms[i], rows) >= WinCount(Arms[j], rows)
<1>1. ASSUME NEW k \in DOMAIN Arms PROVE WinCount(Arms[k], rows) \in Nat
  <2>1. DOMAIN rows = 1..Len(rows) /\ Len(rows) \in Nat
    BY DEF OwnRows, Listed
  <2>2. IsFiniteSet(DOMAIN rows)
    BY <2>1, FS_Interval
  <2>3. PICK won : won = {r \in DOMAIN rows : Wins(Arms[k], rows[r])}
    OBVIOUS
  <2>4. IsFiniteSet(won)
    BY <2>2, <2>3, FS_Subset
  <2>5. Cardinality(won) \in Nat
    BY <2>4, FS_CardinalityType
  <2> QED
    BY <2>3, <2>5 DEF WinCount
<1>2. CASE i = j
  BY <1>1, <1>2
<1>3. CASE i # j
  <2>1. Arms[i] # Arms[j]
    BY <1>3, ServingAssumption
  <2>2. \A r \in DOMAIN rows : ~Wins(Arms[j], rows[r])
    <3> SUFFICES ASSUME NEW r \in DOMAIN rows, Wins(Arms[j], rows[r]) PROVE FALSE
      OBVIOUS
    <3>1. RowIsOwn(rows[r])
      BY DEF OwnRows
    <3>2. /\ rows[r].scores[Arms[i]].total \in Nat /\ rows[r].scores[Arms[j]].total \in Nat
          /\ Arms[i] \in DOMAIN rows[r].scores
      BY <3>1, RowTotals
    <3>3. rows[r].scores[Arms[j]].total > rows[r].scores[Arms[i]].total
      BY <2>1, <3>2 DEF Wins
    <3> QED
      BY <3>2, <3>3
  <2>3. {r \in DOMAIN rows : Wins(Arms[j], rows[r])} = {}
    BY <2>2
  <2>4. WinCount(Arms[j], rows) = 0
    BY <2>3, FS_EmptySet DEF WinCount
  <2> QED
    BY <1>1, <2>4
<1> QED
  BY <1>2, <1>3

\* The invariant that an evaluation's scores are the arms' own, and two raters' pairs of
\* the same answer, says what is to be said of the scores.
LEMMA ScoresFromEvaluated == Evaluated => ScoredAsAnswered
<1> SUFFICES ASSUME Evaluated PROVE ScoredAsAnswered
  OBVIOUS
<1>1. PICK rows, pairs, totals :
        /\ rows = eval.rows /\ pairs = eval.pairs
        /\ totals = [r \in DOMAIN rows |->
                       [i \in DOMAIN Arms |-> OwnTotal("first", rows[r].answers[i])]]
  OBVIOUS
<1>2. OwnRows(rows) /\ Listed(pairs) /\ \A k \in DOMAIN pairs : PairIsOwn(pairs[k])
  <2>1. CASE eval = NoEval
    <3>1. rows = <<>> /\ pairs = <<>>
      BY <1>1, <2>1 DEF NoEval
    <3> QED
      BY <3>1, NothingListed DEF OwnRows
  <2>2. CASE UnderWay
    BY <1>1, <2>2 DEF UnderWay, OwnRows
  <2> QED
    BY <2>1, <2>2 DEF Evaluated
<1>3. ASSUME NEW r \in DOMAIN rows, NEW i \in DOMAIN Arms
      PROVE  /\ rows[r].scores[Arms[i]].total = totals[r][i]
             /\ rows[r].scores[Arms[i]].total = OwnTotal("first", rows[r].answers[i])
  <2>1. RowIsOwn(rows[r])
    BY <1>2 DEF OwnRows
  <2>2. rows[r].scores[Arms[i]].total = OwnTotal("first", rows[r].answers[i])
    BY <2>1, RowTotals
  <2> QED
    BY <1>1, <2>2
<1>4. ASSUME NEW i \in DOMAIN Arms, NEW j \in DOMAIN Arms,
             \A r \in DOMAIN rows : totals[r][i] >= totals[r][j]
      PROVE  /\ MeanTotal(Arms[i], rows)[1] >= MeanTotal(Arms[j], rows)[1]
             /\ WinCount(Arms[i], rows) >= WinCount(Arms[j], rows)
  <2>1. \A r \in DOMAIN rows :
          rows[r].scores[Arms[i]].total >= rows[r].scores[Arms[j]].total
    BY <1>3, <1>4
  <2>2. MeanTotal(Arms[i], rows)[1] >= MeanTotal(Arms[j], rows)[1]
    BY <1>2, <2>1, MeansCompare
  <2>3. WinCount(Arms[i], rows) >= WinCount(Arms[j], rows)
    BY <1>2, <2>1, WinsCompare
  <2> QED
    BY <2>2, <2>3
<1>5. ASSUME NEW k \in DOMAIN pairs
      PROVE  /\ pairs[k].a = OwnTotal("first", pairs[k].of)
             /\ pairs[k].b = OwnTotal("second", pairs[k].of)
             /\ pairs[k].a \in Nat /\ pairs[k].b \in Nat
  <2>1. PairIsOwn(pairs[k])
    BY <1>2
  <2>2. PICK i \in DOMAIN Arms : IsAnswerOf(pairs[k].of, Arms[i])
    BY <2>1 DEF PairIsOwn
  <2>3. /\ OwnScore("first", pairs[k].of).total \in Nat
        /\ OwnScore("second", pairs[k].of).total \in Nat
    BY <2>2, OwnTotalTyped
  <2> QED
    BY <2>1, <2>3 DEF PairIsOwn, OwnTotal, OwnScore
<1>6. ASSUME pairs # <<>>
      PROVE  /\ -Kappa(pairs)[2] <= Kappa(pairs)[1] /\ Kappa(pairs)[1] <= Kappa(pairs)[2]
             /\ (Kappa(pairs)[1] = Kappa(pairs)[2]) = (Agreeing(pairs) = Len(pairs))
  <2>1. \A i \in DOMAIN pairs : pairs[i].a \in Nat /\ pairs[i].b \in Nat
    BY <1>5
  <2> QED
    BY <1>2, <1>6, <2>1, KappaBounded
<1> QED
  BY <1>1, <1>3, <1>4, <1>5, <1>6 DEF ScoredAsAnswered

\* Every arm is scored by its own answer, an arm that is never behind is not behind in the
\* tallies, and the agreement of two raters is within its bounds.
THEOREM ArmsScoredByOwn == ServingSpec => []ScoredAsAnswered
  BY ScoresFromEvaluated, EvaluatedHolds, PTL

-----------------------------------------------------------------------------
(* Trends *)

\* The numbers of the buckets that claims with such times are in, and the claims of each
\* of the buckets that are not empty.
BucketIndex(ids, time, width) ==
  [c \in ids |-> (time[c] - Min({time[x] : x \in ids})) \div width]
BucketNumbers(ids, time, width) == Sorted({BucketIndex(ids, time, width)[c] : c \in ids})
Together(ids, time, width) ==
  [k \in DOMAIN BucketNumbers(ids, time, width) |->
     {c \in ids : BucketIndex(ids, time, width)[c] = BucketNumbers(ids, time, width)[k]}]

\* sorted() of finitely many numbers has each of them once.
LEMMA NumbersOrdered ==
  ASSUME NEW S, S \subseteq Int, IsFiniteSet(S)
  PROVE  /\ DOMAIN Sorted(S) = 1..Cardinality(S) /\ Cardinality(S) \in Nat
         /\ \A k \in 1..Cardinality(S) : Sorted(S)[k] \in S
         /\ \A x \in S : \E k \in 1..Cardinality(S) : Sorted(S)[k] = x
         /\ \A j, k \in 1..Cardinality(S) : Sorted(S)[j] = Sorted(S)[k] => j = k
<1> DEFINE s == Sorted(S)
<1>1. Ranks(s, S)
  BY SortedIds
<1>2. /\ s \in Seq(S) /\ Len(s) = Cardinality(S) /\ Cardinality(S) \in Nat
      /\ \A x \in S : \E k \in 1..Cardinality(S) : s[k] = x
      /\ \A j, k \in 1..Cardinality(S) : s[j] = s[k] => j = k
  BY <1>1 DEF Ranks
<1>3. DOMAIN s = 1..Len(s) /\ \A k \in 1..Len(s) : s[k] \in S
  <2> HIDE DEF s
  <2> QED
    BY <1>2, LenProperties
<1> QED
  BY <1>2, <1>3

\* A partition of claims into m parts, none of them empty.
Parted(groups, ids, m, kind) ==
  /\ m \in Nat \ {0} /\ DOMAIN groups = 1..m
  /\ \A c \in ids : kind[c] \in 1..m
  /\ \A k \in 1..m : groups[k] = OfKind(ids, kind, k)
  /\ \A k \in 1..m : groups[k] # {}

\* Every claim is in one bucket, and no bucket is empty.
LEMMA BucketsPartition ==
  ASSUME NEW ids, IsFiniteSet(ids), ids # {}, NEW time, \A c \in ids : time[c] \in Int,
         NEW width \in Nat \ {0}
  PROVE  \E m, kind : Parted(Together(ids, time, width), ids, m, kind)
<1>1. PICK origin, index, S, s, n :
        /\ origin = Min({time[x] : x \in ids})
        /\ index = BucketIndex(ids, time, width)
        /\ S = {index[c] : c \in ids} /\ n = Cardinality(S)
        /\ s = Sorted(S)
  OBVIOUS
<1>2. origin \in Int
  <2>1. PICK T : T = {time[x] : x \in ids}
    OBVIOUS
  <2>2. IsFiniteSet(T) /\ T # {} /\ T \subseteq Int
    BY <2>1, ImageFinite
  <2>3. Min(T) \in T
    BY <2>2, MaxMin
  <2> QED
    BY <1>1, <2>1, <2>2, <2>3
<1>3. \A c \in ids : index[c] \in Int
  <2> TAKE c \in ids
  <2>1. index[c] = (time[c] - origin) \div width
    BY <1>1 DEF BucketIndex
  <2>2. PICK d \in Int : d = time[c] - origin
    BY <1>2
  <2> QED
    BY <2>1, <2>2
<1>4. S \in SUBSET Int /\ IsFiniteSet(S) /\ S # {}
  <2>1. IsFiniteSet({index[c] : c \in ids})
    BY ImageFinite
  <2> QED
    BY <1>1, <1>3, <2>1
<1>5. /\ DOMAIN s = 1..n /\ n \in Nat
      /\ \A k \in 1..n : s[k] \in S
      /\ \A x \in S : \E k \in 1..n : s[k] = x
      /\ \A j, k \in 1..n : s[j] = s[k] => j = k
  <2>1. s = Sorted(S) /\ S \subseteq Int /\ IsFiniteSet(S)
    BY <1>1, <1>4
  <2>2. /\ DOMAIN Sorted(S) = 1..Cardinality(S) /\ Cardinality(S) \in Nat
        /\ \A k \in 1..Cardinality(S) : Sorted(S)[k] \in S
        /\ \A x \in S : \E k \in 1..Cardinality(S) : Sorted(S)[k] = x
        /\ \A j, k \in 1..Cardinality(S) : Sorted(S)[j] = Sorted(S)[k] => j = k
    BY <2>1, NumbersOrdered
  <2>3. s = Sorted(S) /\ n = Cardinality(S)
    BY <1>1
  <2> QED
    BY <2>2, <2>3
<1>6. n # 0
  <2>1. PICK x \in S : TRUE
    BY <1>4
  <2>2. PICK k \in 1..n : s[k] = x
    BY <1>5
  <2> QED
    BY <1>5, <2>2
<1>7. PICK kind : kind = [c \in ids |-> CHOOSE k \in 1..n : s[k] = index[c]]
  OBVIOUS
<1>8. \A c \in ids : kind[c] \in 1..n /\ s[kind[c]] = index[c]
  <2> TAKE c \in ids
  <2>1. \E k \in 1..n : s[k] = index[c]
    BY <1>1, <1>5
  <2> QED
    BY <1>7, <2>1
<1>9. s = BucketNumbers(ids, time, width)
  BY <1>1 DEF BucketNumbers
<1>10. \A k \in 1..n : Together(ids, time, width)[k] = OfKind(ids, kind, k)
  <2> TAKE k \in 1..n
  <2>1. Together(ids, time, width)[k] = {c \in ids : index[c] = s[k]}
    BY <1>1, <1>5, <1>9 DEF Together
  <2>2. \A c \in ids : index[c] = s[k] <=> kind[c] = k
    BY <1>5, <1>8
  <2> QED
    BY <2>1, <2>2 DEF OfKind
<1>11. \A k \in 1..n : OfKind(ids, kind, k) # {}
  <2> TAKE k \in 1..n
  <2>1. PICK c \in ids : s[k] = index[c]
    <3>1. s[k] \in S
      BY <1>5
    <3> QED
      BY <1>1, <3>1
  <2>2. kind[c] = k
    BY <1>5, <1>8, <2>1
  <2> QED
    BY <2>2 DEF OfKind
<1>12. DOMAIN Together(ids, time, width) = 1..n
  BY <1>5, <1>9 DEF Together
<1>13. n \in Nat \ {0}
  BY <1>5, <1>6
<1>14. \A c \in ids : kind[c] \in 1..n
  BY <1>8
<1>15. Parted(Together(ids, time, width), ids, n, kind)
  BY <1>10, <1>11, <1>12, <1>13, <1>14 DEF Parted
<1> QED
  BY <1>15

\* A trend over some buckets.
MadeOf(trend, counted, groups, width) ==
  /\ DOMAIN trend.buckets = DOMAIN groups
  /\ \A k \in DOMAIN groups : \E start :
       trend.buckets[k] = BucketOf(groups[k], counted, start, width)
  /\ trend.direction = Direction([k \in DOMAIN groups |-> trend.buckets[k].sentiment])

\* What a trend is made of.
LEMMA TrendMade ==
  ASSUME NEW counted, NEW subject, NEW width, NEW ids, ids # {},
         ids = {c \in DOMAIN counted : counted[c].subject = subject},
         NEW time, \A c \in ids : time[c] = counted[c].time,
         NEW groups, groups = Together(ids, time, width),
         NEW trend, trend = ConsensusOverTime(counted, subject, width)
  PROVE  trend.subject = subject /\ MadeOf(trend, counted, groups, width)
<1> DEFINE Ids == {c \in DOMAIN counted : counted[c].subject = subject}
           origin == Min({counted[c].time : c \in Ids})
           Index(c) == (counted[c].time - origin) \div width
           order == Ordered({Index(c) : c \in Ids}, LAMBDA i, j : i < j)
           buckets == [k \in DOMAIN order |->
                         BucketOf({c \in Ids : Index(c) = order[k]}, counted,
                                  origin + order[k] * width, width)]
<1>1. trend = [subject |-> subject, buckets |-> buckets,
               direction |-> Direction([k \in DOMAIN buckets |-> buckets[k].sentiment])]
  BY DEF ConsensusOverTime
<1>2. ids = Ids /\ \A c \in Ids : time[c] = counted[c].time
  OBVIOUS
<1>3. BucketIndex(ids, time, width) = [c \in ids |-> Index(c)]
  <2>1. {time[x] : x \in ids} = {counted[x].time : x \in Ids}
    BY <1>2
  <2>2. Min({time[x] : x \in ids}) = origin
    BY <2>1
  <2> HIDE DEF origin, Ids
  <2>3. \A c \in ids : (time[c] - Min({time[x] : x \in ids})) \div width = Index(c)
    BY <1>2, <2>2
  <2> HIDE DEF Index
  <2> QED
    BY <2>3 DEF BucketIndex
<1>4. order = BucketNumbers(ids, time, width)
  <2>1. {Index(c) : c \in Ids} = {BucketIndex(ids, time, width)[c] : c \in ids}
    <3> HIDE DEF Index, Ids
    <3> QED
      BY <1>2, <1>3
  <2> HIDE DEF Index, Ids
  <2> QED
    BY <2>1 DEF BucketNumbers, Sorted
<1> HIDE DEF order
<1>6. DOMAIN groups = DOMAIN order /\ DOMAIN buckets = DOMAIN order
  BY <1>4 DEF Together
<1>7. ASSUME NEW k \in DOMAIN groups
      PROVE  \E start : buckets[k] = BucketOf(groups[k], counted, start, width)
  <2>1. groups[k] = {c \in ids : BucketIndex(ids, time, width)[c] = order[k]}
    BY <1>4, <1>6 DEF Together
  <2>2. groups[k] = {c \in Ids : Index(c) = order[k]}
    <3> HIDE DEF Index, Ids
    <3> QED
      BY <1>2, <1>3, <2>1
  <2>3. buckets[k] = BucketOf(groups[k], counted, origin + order[k] * width, width)
    BY <1>6, <2>2
  <2> QED
    BY <2>3
<1> HIDE DEF buckets
<1>8. trend.subject = subject /\ trend.buckets = buckets
  BY <1>1
<1>9. trend.direction = Direction([k \in DOMAIN groups |-> trend.buckets[k].sentiment])
  <2>1. [k \in DOMAIN groups |-> trend.buckets[k].sentiment]
          = [k \in DOMAIN buckets |-> buckets[k].sentiment]
    BY <1>6, <1>8
  <2> QED
    BY <1>1, <2>1
<1>10. MadeOf(trend, counted, groups, width)
  BY <1>6, <1>7, <1>8, <1>9 DEF MadeOf
<1> QED
  BY <1>8, <1>10

\* What consensus reads of the claims of a run, and the claims about a subject.
Placement == [id : ClaimId, subject : Entity, speaker : Speaker, time : Nat,
              sentiment : Int, confidence : Nat]

CountedList(counted) == Listed(counted) /\ \A i \in DOMAIN counted : counted[i] \in Placement

About(counted, subject) == {i \in DOMAIN counted : counted[i].subject = subject}

\* Those that share a bucket.
Groups(counted, subject) ==
  Together(About(counted, subject), [i \in About(counted, subject) |-> counted[i].time], Width)

\* The claims about a subject are finitely many.
LEMMA AboutFinite ==
  ASSUME NEW counted, CountedList(counted), NEW subject
  PROVE  IsFiniteSet(About(counted, subject))
<1>1. DOMAIN counted = 1..Len(counted) /\ Len(counted) \in Nat
  BY DEF CountedList, Listed
<1>2. IsFiniteSet(DOMAIN counted)
  BY <1>1, FS_Interval
<1>3. About(counted, subject) \subseteq DOMAIN counted
  BY DEF About
<1> QED
  BY <1>2, <1>3, FS_Subset

\* The buckets are one.
LEMMA GroupsPart ==
  ASSUME NEW counted, CountedList(counted), NEW subject, About(counted, subject) # {}
  PROVE  \E m, kind : Parted(Groups(counted, subject), About(counted, subject), m, kind)
<1>1. PICK ids, time, groups :
        /\ ids = About(counted, subject) /\ time = [i \in ids |-> counted[i].time]
        /\ groups = Together(ids, time, Width)
  OBVIOUS
<1>2. \A c \in ids : time[c] \in Int
  BY <1>1 DEF About, CountedList, Placement
<1>3. IsFiniteSet(ids) /\ ids # {}
  BY <1>1, AboutFinite
<1>4. PICK w \in Nat \ {0} : w = Width
  BY ServingAssumption
<1>5. PICK m, kind : Parted(Together(ids, time, w), ids, m, kind)
  BY <1>2, <1>3, BucketsPartition
<1>6. Parted(groups, ids, m, kind)
  BY <1>1, <1>4, <1>5
<1>7. groups = Groups(counted, subject)
  BY <1>1 DEF Groups
<1> QED
  BY <1>1, <1>6, <1>7

\* A trend is made of its subject's.
LEMMA TrendOfGroups ==
  ASSUME NEW counted, NEW subject, About(counted, subject) # {},
         NEW trend, trend = ConsensusOverTime(counted, subject, Width)
  PROVE  trend.subject = subject /\ MadeOf(trend, counted, Groups(counted, subject), Width)
<1>1. PICK ids, time, groups, w :
        /\ ids = About(counted, subject) /\ time = [i \in ids |-> counted[i].time]
        /\ groups = Together(ids, time, w) /\ w = Width
  OBVIOUS
<1>2. \A c \in ids : time[c] = counted[c].time
  BY <1>1
<1>3. ids # {} /\ ids = {c \in DOMAIN counted : counted[c].subject = subject}
  BY <1>1 DEF About
<1>4. trend = ConsensusOverTime(counted, subject, w) /\ groups = Together(ids, time, w)
  BY <1>1
<1>5. trend.subject = subject /\ MadeOf(trend, counted, groups, w)
  BY <1>2, <1>3, <1>4, TrendMade
<1>6. groups = Groups(counted, subject)
  BY <1>1 DEF Groups
<1>7. MadeOf(trend, counted, groups, Width)
  BY <1>1, <1>5
<1> QED
  BY <1>5, <1>6, <1>7

\* Without claims about it a subject has no trend.
LEMMA NoTrend ==
  ASSUME NEW counted, NEW subject, About(counted, subject) = {},
         NEW trend, trend = ConsensusOverTime(counted, subject, Width)
  PROVE  trend.subject = subject /\ trend.buckets = <<>> /\ trend.direction = "insufficient"
<1>1. {c \in DOMAIN counted : counted[c].subject = subject} = {}
  BY DEF About
<1>2. trend = [subject |-> subject, buckets |-> <<>>, direction |-> "insufficient"]
  BY <1>1 DEF ConsensusOverTime
<1> QED
  BY <1>2

\* Every claim about the subject is in one bucket.
LEMMA ClaimsCountedOnce ==
  ASSUME NEW counted, CountedList(counted), NEW subject,
         NEW trend, trend = ConsensusOverTime(counted, subject, Width)
  PROVE  SumFunction([k \in DOMAIN trend.buckets |-> trend.buckets[k].count])
           = Cardinality(About(counted, subject))
<1>1. PICK ids, count : /\ ids = About(counted, subject)
                        /\ count = [k \in DOMAIN trend.buckets |-> trend.buckets[k].count]
  OBVIOUS
<1>2. SumFunction(count) = SumFunctionOnSet(count, DOMAIN trend.buckets)
  BY <1>1 DEF SumFunction
<1>3. CASE ids = {}
  <2>1. DOMAIN trend.buckets = {}
    <3>1. trend.buckets = <<>>
      BY <1>1, <1>3, NoTrend
    <3> QED
      BY <3>1
  <2>2. SumFunctionOnSet(count, {}) = 0
    BY SumOfNothing
  <2>3. Cardinality(ids) = 0
    BY <1>3, FS_EmptySet
  <2> QED
    BY <1>1, <1>2, <2>1, <2>2, <2>3
<1>4. CASE ids # {}
  <2>1. PICK groups : groups = Groups(counted, subject) /\ MadeOf(trend, counted, groups, Width)
    BY <1>1, <1>4, TrendOfGroups
  <2>2. PICK m, kind : Parted(groups, ids, m, kind)
    BY <1>1, <1>4, <2>1, GroupsPart
  <2>3. IsFiniteSet(ids)
    BY <1>1, AboutFinite
  <2>4. DOMAIN trend.buckets = 1..m /\ m \in Nat
    BY <2>1, <2>2 DEF MadeOf, Parted
  <2>5. \A k \in 1..m : count[k] = Cardinality(OfKind(ids, kind, k))
    <3> TAKE k \in 1..m
    <3>1. groups[k] = OfKind(ids, kind, k)
      BY <2>2 DEF Parted
    <3>2. PICK start : trend.buckets[k] = BucketOf(groups[k], counted, start, Width)
      BY <2>1, <2>4 DEF MadeOf
    <3>3. trend.buckets[k].count = Cardinality(groups[k])
      BY <3>2 DEF BucketOf
    <3> QED
      BY <1>1, <2>4, <3>1, <3>3
  <2>6. IsFiniteSet(1..m) /\ \A c \in ids : kind[c] \in 1..m
    BY <2>2, <2>4, FS_Interval DEF Parted
  <2>7. PICK S : S = 1..m
    OBVIOUS
  <2>8. IsFiniteSet(S) /\ (\A c \in ids : kind[c] \in S)
        /\ \A k \in S : count[k] = Cardinality(OfKind(ids, kind, k))
    BY <2>5, <2>6, <2>7
  <2>9. SumFunctionOnSet(count, S) = Cardinality(ids)
    BY <2>3, <2>8, KindsAddUp
  <2> QED
    BY <1>1, <1>2, <2>4, <2>7, <2>9
<1> QED
  BY <1>3, <1>4

\* The buckets a person speaks in, and how many claims they have in each.
SpokenIn(trend, person) ==
  {k \in DOMAIN trend.buckets : person \in DOMAIN trend.buckets[k].breakdown}
SpokenCounts(trend, person) ==
  [k \in SpokenIn(trend, person) |-> trend.buckets[k].breakdown[person].count]

OwnAbout(counted, subject, person) ==
  {i \in About(counted, subject) : counted[i].speaker = person}

\* And under its speaker.
LEMMA SpeakersCountedOnce ==
  ASSUME NEW counted, CountedList(counted), NEW subject, NEW person,
         NEW trend, trend = ConsensusOverTime(counted, subject, Width)
  PROVE  SumFunction(SpokenCounts(trend, person)) = Cardinality(OwnAbout(counted, subject, person))
<1>1. PICK ids, told, count, D :
        /\ ids = About(counted, subject)
        /\ told = {k \in DOMAIN trend.buckets : person \in DOMAIN trend.buckets[k].breakdown}
        /\ count = [k \in told |-> trend.buckets[k].breakdown[person].count]
        /\ D = {i \in ids : counted[i].speaker = person}
  OBVIOUS
<1>0. SpokenCounts(trend, person) = count /\ OwnAbout(counted, subject, person) = D
  BY <1>1 DEF SpokenCounts, SpokenIn, OwnAbout
<1>2. SumFunction(count) = SumFunctionOnSet(count, told)
  BY <1>1 DEF SumFunction
<1>3. CASE ids = {}
  <2>1. told = {}
    <3>1. trend.buckets = <<>>
      BY <1>1, <1>3, NoTrend
    <3> QED
      BY <1>1, <3>1
  <2>2. SumFunctionOnSet(count, {}) = 0
    BY SumOfNothing
  <2>3. D = {} /\ Cardinality({}) = 0
    BY <1>1, <1>3, FS_EmptySet
  <2> QED
    BY <1>1, <1>2, <1>0, <2>1, <2>2, <2>3
<1>4. CASE ids # {}
  <2>1. PICK groups : groups = Groups(counted, subject) /\ MadeOf(trend, counted, groups, Width)
    BY <1>1, <1>4, TrendOfGroups
  <2>2. PICK m, kind : Parted(groups, ids, m, kind)
    BY <1>1, <1>4, <2>1, GroupsPart
  <2>3. IsFiniteSet(D)
    <3>1. IsFiniteSet(ids) /\ D \subseteq ids
      BY <1>1, AboutFinite
    <3> QED
      BY <3>1, FS_Subset
  <2>4. DOMAIN trend.buckets = 1..m /\ m \in Nat
    BY <2>1, <2>2 DEF MadeOf, Parted
  <2>5. ASSUME NEW k \in 1..m
        PROVE  /\ k \in told <=> \E c \in ids : kind[c] = k /\ counted[c].speaker = person
               /\ k \in told => count[k] = Cardinality(OfKind(D, kind, k))
    <3>1. groups[k] = OfKind(ids, kind, k)
      BY <2>2 DEF Parted
    <3>2. PICK start : trend.buckets[k] = BucketOf(groups[k], counted, start, Width)
      BY <2>1, <2>4 DEF MadeOf
    <3>3. PICK breakdown :
            breakdown = [s \in {counted[c].speaker : c \in groups[k]} |->
                           [count |-> Cardinality({c \in groups[k] : counted[c].speaker = s}),
                            sentiment |-> PlainMean({c \in groups[k] : counted[c].speaker = s},
                                                    counted)]]
      OBVIOUS
    <3>4. trend.buckets[k].breakdown = breakdown
      BY <3>2, <3>3 DEF BucketOf
    <3>5. DOMAIN breakdown = {counted[c].speaker : c \in groups[k]}
      BY <3>3
    <3>6. k \in told <=> \E c \in ids : kind[c] = k /\ counted[c].speaker = person
      BY <1>1, <2>4, <3>1, <3>4, <3>5 DEF OfKind
    <3>7. ASSUME k \in told PROVE count[k] = Cardinality(OfKind(D, kind, k))
      <4>1. count[k] = breakdown[person].count
        BY <1>1, <3>4, <3>7
      <4>2. person \in DOMAIN breakdown
        BY <1>1, <3>4, <3>7
      <4>3. breakdown[person].count = Cardinality({c \in groups[k] : counted[c].speaker = person})
        BY <3>3, <3>5, <4>2
      <4>4. {c \in groups[k] : counted[c].speaker = person} = OfKind(D, kind, k)
        BY <1>1, <3>1 DEF OfKind
      <4> QED
        BY <4>1, <4>3, <4>4
    <3> QED
      BY <3>6, <3>7
  <2>6. \A c \in ids : kind[c] \in 1..m
    BY <2>2 DEF Parted
  <2>7. \A c \in D : kind[c] \in told
    <3> TAKE c \in D
    <3>1. c \in ids /\ counted[c].speaker = person
      BY <1>1
    <3>2. PICK k \in 1..m : k = kind[c]
      BY <2>6, <3>1
    <3>3. k \in told
      BY <2>5, <3>1, <3>2
    <3> QED
      BY <3>2, <3>3
  <2>8. \A k \in told : count[k] = Cardinality(OfKind(D, kind, k))
    BY <1>1, <2>4, <2>5
  <2>9. IsFiniteSet(told)
    <3>1. IsFiniteSet(1..m) /\ told \subseteq 1..m
      BY <1>1, <2>4, FS_Interval
    <3> QED
      BY <3>1, FS_Subset
  <2>10. SumFunctionOnSet(count, told) = Cardinality(D)
    <3>1. PICK S, own, number : S = told /\ own = D /\ number = count
      OBVIOUS
    <3>2. IsFiniteSet(own) /\ IsFiniteSet(S) /\ (\A c \in own : kind[c] \in S)
          /\ \A k \in S : number[k] = Cardinality(OfKind(own, kind, k))
      BY <2>3, <2>7, <2>8, <2>9, <3>1
    <3>3. SumFunctionOnSet(number, S) = Cardinality(own)
      BY <3>2, KindsAddUp
    <3> QED
      BY <3>1, <3>3
  <2> QED
    BY <1>1, <1>2, <1>0, <2>10
<1> QED
  BY <1>3, <1>4, <1>0

-----------------------------------------------------------------------------
(* Directions *)

\* A mean: a fraction whose denominator is positive.
IsMean(p) == p = <<p[1], p[2]>> /\ p[1] \in Int /\ p[2] \in Nat \ {0}

\* The step between two means.
LEMMA StepOfMeans ==
  ASSUME NEW p, IsMean(p), NEW q, IsMean(q)
  PROVE  IsMean(Step(p, q))
<1>1. PICK a \in Int, b \in Nat \ {0}, c \in Int, d \in Nat \ {0} :
        a = p[1] /\ b = p[2] /\ c = q[1] /\ d = q[2]
  BY DEF IsMean
<1>2. c * b - a * d \in Int /\ b * d \in Nat \ {0}
  OBVIOUS
<1>3. Step(p, q) = <<c * b - a * d, b * d>>
  BY <1>1 DEF Step
<1> QED
  BY <1>2, <1>3 DEF IsMean

\* A mean of the opposite, or of numbers a times as large.
Mirrored(p) == <<-p[1], p[2]>>

LEMMA StepMirrored ==
  ASSUME NEW p, IsMean(p), NEW q, IsMean(q)
  PROVE  Step(Mirrored(p), Mirrored(q)) = Mirrored(Step(p, q))
<1>1. PICK a \in Int, b \in Int, c \in Int, d \in Int :
        a = p[1] /\ b = p[2] /\ c = q[1] /\ d = q[2]
  BY DEF IsMean
<1>2. (-c) * b - (-a) * d = -(c * b - a * d)
  OBVIOUS
<1>3. Step(Mirrored(p), Mirrored(q)) = <<(-c) * b - (-a) * d, b * d>>
  BY <1>1 DEF Step, Mirrored
<1>4. Step(p, q) = <<c * b - a * d, b * d>>
  BY <1>1 DEF Step
<1> QED
  BY <1>2, <1>3, <1>4 DEF Mirrored

\* A step up is one down in the mirror.
LEMMA StepsTurn ==
  ASSUME NEW s, IsMean(s)
  PROVE  /\ Above(Mirrored(s)) <=> Below(s)
         /\ Below(Mirrored(s)) <=> Above(s)
<1>1. PICK a \in Int, b \in Int, h \in Int, t \in Int :
        a = s[1] /\ b = s[2] /\ h = FlatThreshold /\ t = h * b
  <2>1. PICK a \in Int, b \in Int, h \in Int : a = s[1] /\ b = s[2] /\ h = FlatThreshold
    BY ConsensusAssumption DEF IsMean
  <2>2. h * b \in Int
    OBVIOUS
  <2> QED
    BY <2>1, <2>2
<1>2. (-h) * b = -t /\ h * b = t
  BY <1>1
<1>3. Mirrored(s)[1] = -a /\ Mirrored(s)[2] = b
  BY <1>1 DEF Mirrored
<1>4. (Above(s) <=> a > t) /\ (Below(s) <=> a < -t)
  BY <1>1, <1>2 DEF Above, Below
<1>5. (Above(Mirrored(s)) <=> -a > t) /\ (Below(Mirrored(s)) <=> -a < -t)
  BY <1>1, <1>2, <1>3 DEF Above, Below
<1> QED
  BY <1>4, <1>5

\* What a series of means says.
Rises(series, m) == \E i \in 1..(m - 1) : Above(Step(series[i], series[i + 1]))
Falls(series, m) == \E i \in 1..(m - 1) : Below(Step(series[i], series[i + 1]))
Little(delta) == /\ delta[1] < FlatThreshold * delta[2]
                 /\ -delta[1] < FlatThreshold * delta[2]

LEMMA DirectionSays ==
  ASSUME NEW m \in Nat \ {0}, NEW series, DOMAIN series = 1..m,
         series = [k \in DOMAIN series |-> series[k]],
         NEW delta, delta = Step(series[1], series[m])
  PROVE  Direction(series) = IF m < 2 THEN "insufficient"
                             ELSE IF Rises(series, m) /\ Falls(series, m) THEN "mixed"
                             ELSE IF Little(delta) THEN "flat"
                             ELSE IF delta[1] > 0 THEN "rising" ELSE "falling"
<1>1. Len(series) = m
  BY MadeListed
<1>2. PICK steps : steps = {Step(series[i], series[i + 1]) : i \in 1..(m - 1)}
  OBVIOUS
<1>3. /\ (\E s \in steps : Above(s)) <=> Rises(series, m)
      /\ (\E s \in steps : Below(s)) <=> Falls(series, m)
  BY <1>2 DEF Rises, Falls
<1>4. Direction(series) = IF m < 2 THEN "insufficient"
        ELSE IF (\E s \in steps : Above(s)) /\ (\E s \in steps : Below(s)) THEN "mixed"
        ELSE IF Little(delta) THEN "flat"
        ELSE IF delta[1] > 0 THEN "rising" ELSE "falling"
  BY <1>1, <1>2 DEF Direction, Little
<1> QED
  BY <1>3, <1>4

\* In the mirror it says the opposite: there is no threshold of nothing.
LEMMA DirectionMirrors ==
  ASSUME NEW m \in Nat \ {0}, NEW series, NEW mirror,
         DOMAIN series = 1..m, series = [k \in DOMAIN series |-> series[k]],
         DOMAIN mirror = 1..m, mirror = [k \in DOMAIN mirror |-> mirror[k]],
         \A k \in 1..m : IsMean(series[k]),
         \A k \in 1..m : mirror[k] = Mirrored(series[k])
  PROVE  Direction(mirror) = Opposite(Direction(series))
<1>1. \A i, j \in 1..m : /\ IsMean(Step(series[i], series[j]))
                         /\ Step(mirror[i], mirror[j]) = Mirrored(Step(series[i], series[j]))
  BY StepOfMeans, StepMirrored
<1>2. (Rises(mirror, m) <=> Falls(series, m)) /\ (Falls(mirror, m) <=> Rises(series, m))
  <2>1. ASSUME NEW i \in 1..(m - 1)
        PROVE  /\ Above(Step(mirror[i], mirror[i + 1])) <=> Below(Step(series[i], series[i + 1]))
               /\ Below(Step(mirror[i], mirror[i + 1])) <=> Above(Step(series[i], series[i + 1]))
    <3>1. i \in 1..m /\ i + 1 \in 1..m
      OBVIOUS
    <3>2. PICK s : s = Step(series[i], series[i + 1])
      OBVIOUS
    <3>3. IsMean(s) /\ Step(mirror[i], mirror[i + 1]) = Mirrored(s)
      BY <1>1, <3>1, <3>2
    <3> QED
      BY <3>2, <3>3, StepsTurn
  <2> QED
    BY <2>1 DEF Rises, Falls
<1>3. PICK delta, turned : delta = Step(series[1], series[m]) /\ turned = Step(mirror[1], mirror[m])
  OBVIOUS
<1>4. IsMean(delta) /\ turned = Mirrored(delta)
  <2>1. 1 \in 1..m /\ m \in 1..m
    OBVIOUS
  <2> QED
    BY <1>1, <1>3, <2>1
<1>5. PICK a \in Int, t \in Nat \ {0} : a = delta[1] /\ t = FlatThreshold * delta[2]
  <2>1. PICK h \in Nat \ {0}, b \in Nat \ {0} : h = FlatThreshold /\ b = delta[2]
    BY <1>4, ConsensusAssumption DEF IsMean
  <2>2. h * b \in Nat \ {0}
    OBVIOUS
  <2> QED
    BY <1>4, <2>1, <2>2 DEF IsMean
<1>6. turned[1] = -a /\ FlatThreshold * turned[2] = t
  BY <1>4, <1>5 DEF Mirrored
<1>7. (Little(delta) <=> a < t /\ -a < t) /\ (Little(turned) <=> a < t /\ -a < t)
  <2>1. -(-a) = a
    OBVIOUS
  <2>2. Little(delta) <=> a < t /\ -a < t
    BY <1>5 DEF Little
  <2>3. Little(turned) <=> -a < t /\ -(-a) < t
    BY <1>6 DEF Little
  <2> QED
    BY <2>1, <2>2, <2>3
<1>8. Direction(series) = IF m < 2 THEN "insufficient"
        ELSE IF Rises(series, m) /\ Falls(series, m) THEN "mixed"
        ELSE IF Little(delta) THEN "flat"
        ELSE IF a > 0 THEN "rising" ELSE "falling"
  BY <1>3, <1>5, DirectionSays
<1>9. Direction(mirror) = IF m < 2 THEN "insufficient"
        ELSE IF Falls(series, m) /\ Rises(series, m) THEN "mixed"
        ELSE IF Little(delta) THEN "flat"
        ELSE IF -a > 0 THEN "rising" ELSE "falling"
  <2>1. Direction(mirror) = IF m < 2 THEN "insufficient"
          ELSE IF Rises(mirror, m) /\ Falls(mirror, m) THEN "mixed"
          ELSE IF Little(turned) THEN "flat"
          ELSE IF turned[1] > 0 THEN "rising" ELSE "falling"
    BY <1>3, DirectionSays
  <2> QED
    BY <1>2, <1>6, <1>7, <2>1
<1>10. ~Little(delta) => (a > 0 /\ ~(-a > 0)) \/ (-a > 0 /\ ~(a > 0))
  BY <1>7
<1> QED
  BY <1>8, <1>9, <1>10 DEF Opposite

-----------------------------------------------------------------------------
(* Mirrored claims *)

\* A claim weighs something.
LEMMA WeightPositive ==
  ASSUME NEW claim, claim.confidence \in Nat
  PROVE  Weight(claim) \in Nat \ {0}
<1>1. PICK n \in Nat, b \in Nat \ {0} : n = claim.confidence /\ b = Bulk
  BY ConsensusAssumption
<1>2. n > 0 => n * b \in Nat \ {0}
  OBVIOUS
<1> QED
  BY <1>1, <1>2 DEF Weight

\* The weighted mean of some claims is one.
LEMMA MeanIsMean ==
  ASSUME NEW counted, CountedList(counted), NEW ids, ids \subseteq DOMAIN counted,
         IsFiniteSet(ids), ids # {}
  PROVE  IsMean(MeanSentiment(ids, counted))
<1>1. PICK worth, weight :
        /\ worth = [c \in ids |-> Weight(counted[c]) * counted[c].sentiment]
        /\ weight = [c \in ids |-> Weight(counted[c])]
  OBVIOUS
<1>2. ASSUME NEW c \in ids PROVE worth[c] \in Int /\ weight[c] \in Nat \ {0}
  <2>1. counted[c] \in Placement
    BY DEF CountedList
  <2>2. Weight(counted[c]) \in Nat \ {0}
    BY <2>1, WeightPositive DEF Placement
  <2>3. PICK w \in Int, s \in Int : w = Weight(counted[c]) /\ s = counted[c].sentiment
    BY <2>1, <2>2 DEF Placement
  <2>4. w * s \in Int
    OBVIOUS
  <2> QED
    BY <1>1, <2>2, <2>3, <2>4
<1>3. SumFunctionOnSet(worth, ids) \in Int
  <2>1. \A c \in ids : worth[c] \in Int
    BY <1>2
  <2> QED
    BY <2>1, SumOf
<1>4. SumFunctionOnSet(weight, ids) \in Nat \ {0}
  <2>1. \A c \in ids : weight[c] \in Nat \ {0}
    BY <1>2
  <2> QED
    BY <2>1, SumPositive
<1>5. MeanSentiment(ids, counted) = <<SumFunctionOnSet(worth, ids), SumFunctionOnSet(weight, ids)>>
  BY <1>1 DEF MeanSentiment, SumFunction
<1> QED
  BY <1>3, <1>4, <1>5 DEF IsMean

\* A mirrored claim differs in its sentiment.
LEMMA InvertedClaim ==
  ASSUME NEW counted, CountedList(counted), NEW i \in DOMAIN counted
  PROVE  /\ Inverted(counted)[i].sentiment = -counted[i].sentiment
         /\ Inverted(counted)[i].subject = counted[i].subject
         /\ Inverted(counted)[i].time = counted[i].time
         /\ Inverted(counted)[i].confidence = counted[i].confidence
<1>1. PICK claim : claim = counted[i]
  OBVIOUS
<1>2. claim \in Placement
  BY <1>1 DEF CountedList
<1>3. PICK turned : turned = [claim EXCEPT !.sentiment = -claim.sentiment]
  OBVIOUS
<1>4. /\ turned.sentiment = -claim.sentiment /\ turned.subject = claim.subject
      /\ turned.time = claim.time /\ turned.confidence = claim.confidence
  BY <1>2, <1>3 DEF Placement
<1>5. Inverted(counted)[i] = turned
  BY <1>1, <1>3 DEF Inverted
<1> QED
  BY <1>1, <1>4, <1>5

\* They fall into the same buckets.
LEMMA GroupsInverted ==
  ASSUME NEW counted, CountedList(counted), NEW subject
  PROVE  /\ About(Inverted(counted), subject) = About(counted, subject)
         /\ Groups(Inverted(counted), subject) = Groups(counted, subject)
<1>1. DOMAIN Inverted(counted) = DOMAIN counted
  BY DEF Inverted
<1>2. About(Inverted(counted), subject) = About(counted, subject)
  BY <1>1, InvertedClaim DEF About
<1>3. PICK ids, time, turned :
        /\ ids = About(counted, subject)
        /\ time = [i \in ids |-> counted[i].time]
        /\ turned = [i \in ids |-> Inverted(counted)[i].time]
  OBVIOUS
<1>4. turned = time
  <2>1. \A i \in ids : Inverted(counted)[i].time = counted[i].time
    BY <1>3, InvertedClaim DEF About
  <2> QED
    BY <1>3, <2>1
<1>5. Groups(counted, subject) = Together(ids, time, Width)
  BY <1>3 DEF Groups
<1>6. Groups(Inverted(counted), subject) = Together(ids, turned, Width)
  BY <1>2, <1>3 DEF Groups
<1> QED
  BY <1>2, <1>4, <1>5, <1>6

\* Their mean is the opposite.
LEMMA MeanInverted ==
  ASSUME NEW counted, CountedList(counted), NEW ids, ids \subseteq DOMAIN counted,
         IsFiniteSet(ids)
  PROVE  MeanSentiment(ids, Inverted(counted)) = Mirrored(MeanSentiment(ids, counted))
<1>1. PICK worth, turned, weight :
        /\ worth = [c \in ids |-> Weight(counted[c]) * counted[c].sentiment]
        /\ turned = [c \in ids |-> Weight(Inverted(counted)[c]) * Inverted(counted)[c].sentiment]
        /\ weight = [c \in ids |-> Weight(counted[c])]
  OBVIOUS
<1>2. \A c \in ids : Weight(Inverted(counted)[c]) = Weight(counted[c])
  BY InvertedClaim DEF Weight
<1>3. ASSUME NEW c \in ids PROVE worth[c] \in Int /\ turned[c] = (-1) * worth[c]
  <2>1. counted[c] \in Placement
    BY DEF CountedList
  <2>2. Weight(counted[c]) \in Nat \ {0}
    BY <2>1, WeightPositive DEF Placement
  <2>3. PICK w \in Int, s \in Int : w = Weight(counted[c]) /\ s = counted[c].sentiment
    BY <2>1, <2>2 DEF Placement
  <2>4. w * s \in Int /\ w * (-s) = (-1) * (w * s)
    OBVIOUS
  <2>5. worth[c] = w * s
    BY <1>1, <2>3
  <2>6. turned[c] = w * (-s)
    BY <1>1, <1>2, <2>3, InvertedClaim
  <2> QED
    BY <2>4, <2>5, <2>6
<1>4. (\A c \in ids : worth[c] \in Int) /\ (\A c \in ids : turned[c] = (-1) * worth[c])
  BY <1>3
<1>5. SumFunctionOnSet(turned, ids) = (-1) * SumFunctionOnSet(worth, ids)
  BY <1>4, SumScaled
<1>6. SumFunctionOnSet(worth, ids) \in Int
  BY <1>4, SumOf
<1>7. SumFunctionOnSet(turned, ids) = -SumFunctionOnSet(worth, ids)
  BY <1>5, <1>6
<1>8. MeanSentiment(ids, counted) = <<SumFunctionOnSet(worth, ids), SumFunctionOnSet(weight, ids)>>
  BY <1>1 DEF MeanSentiment, SumFunction
<1>9. weight = [c \in ids |-> Weight(Inverted(counted)[c])]
  BY <1>1, <1>2
<1>10. MeanSentiment(ids, Inverted(counted))
         = <<SumFunctionOnSet(turned, ids), SumFunctionOnSet(weight, ids)>>
  <2>1. DOMAIN turned = ids /\ DOMAIN weight = ids
    BY <1>1
  <2>2. MeanSentiment(ids, Inverted(counted)) = <<SumFunction(turned), SumFunction(weight)>>
    BY <1>1, <1>9 DEF MeanSentiment
  <2> QED
    BY <2>1, <2>2 DEF SumFunction
<1> QED
  BY <1>7, <1>8, <1>10 DEF Mirrored

\* The trend of mirrored claims is the opposite.
LEMMA TrendMirrored ==
  ASSUME NEW counted, CountedList(counted), NEW subject
  PROVE  ConsensusOverTime(Inverted(counted), subject, Width).direction
           = Opposite(ConsensusOverTime(counted, subject, Width).direction)
<1>1. PICK trend, mirror, ids :
        /\ trend = ConsensusOverTime(counted, subject, Width)
        /\ mirror = ConsensusOverTime(Inverted(counted), subject, Width)
        /\ ids = About(counted, subject)
  OBVIOUS
<1>2. CASE ids = {}
  <2>1. trend.direction = "insufficient"
    BY <1>1, <1>2, NoTrend
  <2>2. About(Inverted(counted), subject) = {}
    BY <1>1, <1>2, GroupsInverted
  <2>3. mirror.direction = "insufficient"
    BY <1>1, <2>2, NoTrend
  <2> QED
    BY <1>1, <2>1, <2>3 DEF Opposite
<1>3. CASE ids # {}
  <2>1. PICK groups : groups = Groups(counted, subject) /\ MadeOf(trend, counted, groups, Width)
    BY <1>1, <1>3, TrendOfGroups
  <2>2. MadeOf(mirror, Inverted(counted), groups, Width)
    <3>1. /\ About(Inverted(counted), subject) = ids
          /\ Groups(Inverted(counted), subject) = groups
      BY <1>1, <2>1, GroupsInverted
    <3>2. MadeOf(mirror, Inverted(counted), Groups(Inverted(counted), subject), Width)
      BY <1>1, <1>3, <3>1, TrendOfGroups
    <3> QED
      BY <3>1, <3>2
  <2>3. PICK m, kind : Parted(groups, ids, m, kind)
    BY <1>1, <1>3, <2>1, GroupsPart
  <2>4. PICK series, turned :
          /\ series = [k \in DOMAIN groups |-> trend.buckets[k].sentiment]
          /\ turned = [k \in DOMAIN groups |-> mirror.buckets[k].sentiment]
    OBVIOUS
  <2>5. /\ trend.direction = Direction(series) /\ mirror.direction = Direction(turned)
        /\ DOMAIN groups = 1..m /\ m \in Nat \ {0}
    BY <2>1, <2>2, <2>3, <2>4 DEF MadeOf, Parted
  <2>6. ASSUME NEW k \in 1..m
        PROVE  IsMean(series[k]) /\ turned[k] = Mirrored(series[k])
    <3>1. PICK group : group = groups[k]
      OBVIOUS
    <3>2. group = OfKind(ids, kind, k) /\ group # {}
      BY <2>3, <3>1 DEF Parted
    <3>3. IsFiniteSet(group) /\ group \subseteq DOMAIN counted
      <4>1. group \subseteq ids /\ ids \subseteq DOMAIN counted
        BY <1>1, <3>2 DEF OfKind, About
      <4>2. IsFiniteSet(ids)
        BY <1>1, AboutFinite
      <4> QED
        BY <4>1, <4>2, FS_Subset
    <3>4. series[k] = MeanSentiment(group, counted)
      <4>1. PICK start : trend.buckets[k] = BucketOf(group, counted, start, Width)
        BY <2>1, <2>5, <3>1 DEF MadeOf
      <4>2. trend.buckets[k].sentiment = MeanSentiment(group, counted)
        BY <4>1 DEF BucketOf
      <4> QED
        BY <2>4, <2>5, <4>2
    <3>5. turned[k] = MeanSentiment(group, Inverted(counted))
      <4>1. PICK start : mirror.buckets[k] = BucketOf(group, Inverted(counted), start, Width)
        BY <2>2, <2>5, <3>1 DEF MadeOf
      <4>2. mirror.buckets[k].sentiment = MeanSentiment(group, Inverted(counted))
        BY <4>1 DEF BucketOf
      <4> QED
        BY <2>4, <2>5, <4>2
    <3>6. IsMean(MeanSentiment(group, counted))
      BY <3>2, <3>3, MeanIsMean
    <3>7. MeanSentiment(group, Inverted(counted)) = Mirrored(MeanSentiment(group, counted))
      BY <3>3, MeanInverted
    <3> QED
      BY <3>4, <3>5, <3>6, <3>7
  <2>7. /\ DOMAIN series = 1..m /\ series = [k \in DOMAIN series |-> series[k]]
        /\ DOMAIN turned = 1..m /\ turned = [k \in DOMAIN turned |-> turned[k]]
    BY <2>4, <2>5
  <2>8. Direction(turned) = Opposite(Direction(series))
    BY <2>5, <2>6, <2>7, DirectionMirrors
  <2> QED
    BY <1>1, <2>5, <2>8
<1> QED
  BY <1>2, <1>3

-----------------------------------------------------------------------------
(* A person alone with a subject *)

\* The history of a person who speaks in all of m buckets.
LEMMA HistorySays ==
  ASSUME NEW m \in Nat \ {0}, NEW trend, DOMAIN trend.buckets = 1..m, NEW person,
         \A k \in 1..m : person \in DOMAIN trend.buckets[k].breakdown,
         NEW delta, delta = Step(trend.buckets[1].breakdown[person].sentiment,
                                 trend.buckets[m].breakdown[person].sentiment)
  PROVE  BeliefHistory(trend, person).direction =
           IF m < 2 THEN "insufficient"
           ELSE IF Above(delta) THEN "rising" ELSE IF Below(delta) THEN "falling" ELSE "flat"
<1>1. PICK buckets, own, points :
        /\ buckets = trend.buckets
        /\ own = Filter(buckets, LAMBDA b : person \in DOMAIN b.breakdown)
        /\ points = [i \in DOMAIN own |-> own[i].breakdown[person]]
  OBVIOUS
<1>2. own = [p \in 1..m |-> buckets[p]]
  <2>1. {i \in DOMAIN buckets : person \in DOMAIN buckets[i].breakdown} = 1..m
    BY <1>1
  <2>2. own = Picked(buckets, 1..m)
    BY <1>1, <2>1 DEF Filter
  <2> QED
    BY <2>2, PickedAll
<1>3. DOMAIN points = 1..m /\ \A k \in 1..m : points[k] = buckets[k].breakdown[person]
  BY <1>1, <1>2
<1>4. Len(points) = m
  <2>1. points = [i \in DOMAIN points |-> points[i]]
    BY <1>1
  <2> QED
    BY <1>3, <2>1, MadeListed
<1>5. delta = Step(points[1].sentiment, points[Len(points)].sentiment)
  <2>1. 1 \in 1..m /\ m \in 1..m
    OBVIOUS
  <2> QED
    BY <1>1, <1>3, <1>4, <2>1
<1>6. BeliefHistory(trend, person).direction =
        IF Len(points) < 2 THEN "insufficient"
        ELSE IF Above(delta) THEN "rising" ELSE IF Below(delta) THEN "falling" ELSE "flat"
  BY <1>1, <1>5 DEF BeliefHistory
<1> QED
  BY <1>4, <1>6

\* Of claims of full confidence the weighted mean is the plain one, in other numbers.
LEMMA SureMeans ==
  ASSUME NEW counted, CountedList(counted), NEW ids, ids \subseteq DOMAIN counted,
         IsFiniteSet(ids), ids # {}, \A c \in ids : counted[c].confidence = 1
  PROVE  /\ IsMean(PlainMean(ids, counted))
         /\ MeanSentiment(ids, counted)
              = <<Bulk * PlainMean(ids, counted)[1], Bulk * PlainMean(ids, counted)[2]>>
<1>1. PICK worth, weight, sentiment, ones :
        /\ worth = [c \in ids |-> Weight(counted[c]) * counted[c].sentiment]
        /\ weight = [c \in ids |-> Weight(counted[c])]
        /\ sentiment = [c \in ids |-> counted[c].sentiment]
        /\ ones = [c \in ids |-> 1]
  OBVIOUS
<1>2. PICK b \in Int : b = Bulk
  BY ConsensusAssumption
<1>3. ASSUME NEW c \in ids
      PROVE  /\ sentiment[c] \in Int /\ worth[c] = b * sentiment[c]
             /\ ones[c] \in Int /\ weight[c] = b * ones[c]
  <2>1. Weight(counted[c]) = b
    <3>1. 1 * b = b
      OBVIOUS
    <3> QED
      BY <1>2, <3>1 DEF Weight
  <2>2. counted[c].sentiment \in Int
    BY DEF CountedList, Placement
  <2>3. b * 1 = b
    OBVIOUS
  <2> QED
    BY <1>1, <2>1, <2>2, <2>3
<1>4. (\A c \in ids : sentiment[c] \in Int) /\ (\A c \in ids : worth[c] = b * sentiment[c])
  BY <1>3
<1>5. (\A c \in ids : ones[c] \in Int) /\ (\A c \in ids : weight[c] = b * ones[c])
  BY <1>3
<1>6. SumFunctionOnSet(worth, ids) = b * SumFunctionOnSet(sentiment, ids)
  BY <1>4, SumScaled
<1>7. SumFunctionOnSet(weight, ids) = b * SumFunctionOnSet(ones, ids)
  BY <1>5, SumScaled
<1>8. SumFunctionOnSet(ones, ids) = Cardinality(ids)
  <2>1. \A c \in ids : ones[c] = 1
    BY <1>1
  <2> QED
    BY <2>1, OnesAddUp
<1>9. SumFunctionOnSet(sentiment, ids) \in Int /\ Cardinality(ids) \in Nat \ {0}
  <2>1. SumFunctionOnSet(sentiment, ids) \in Int
    BY <1>4, SumOf
  <2>2. Cardinality(ids) \in Nat /\ Cardinality(ids) # 0
    BY FS_CardinalityType, FS_EmptySet
  <2> QED
    BY <2>1, <2>2
<1>10. PlainMean(ids, counted) = <<SumFunctionOnSet(sentiment, ids), Cardinality(ids)>>
  BY <1>1 DEF PlainMean, SumFunction
<1>11. MeanSentiment(ids, counted)
         = <<SumFunctionOnSet(worth, ids), SumFunctionOnSet(weight, ids)>>
  BY <1>1 DEF MeanSentiment, SumFunction
<1> QED
  BY <1>2, <1>6, <1>7, <1>8, <1>9, <1>10, <1>11 DEF IsMean

\* A step between means is up in the one numbers if it is in the others.
LEMMA StepScaled ==
  ASSUME NEW p, IsMean(p), NEW q, IsMean(q), NEW b \in Nat \ {0}
  PROVE  Step(<<b * p[1], b * p[2]>>, <<b * q[1], b * q[2]>>)[1] > 0 <=> Step(p, q)[1] > 0
<1>1. PICK a \in Int, w \in Int, c \in Int, d \in Int :
        a = p[1] /\ w = p[2] /\ c = q[1] /\ d = q[2]
  BY DEF IsMean
<1>2. PICK e \in Int : e = c * w - a * d
  OBVIOUS
<1>3. (b * c) * (b * w) - (b * a) * (b * d) = (b * b) * e
  BY <1>2
<1>4. Step(p, q)[1] = e
  BY <1>1, <1>2 DEF Step
<1>5. Step(<<b * p[1], b * p[2]>>, <<b * q[1], b * q[2]>>)[1] = (b * b) * e
  BY <1>1, <1>3 DEF Step
<1>6. b * b > 0 /\ b * b \in Int
  OBVIOUS
<1>7. (b * b) * e > 0 <=> e > 0
  BY <1>6
<1> QED
  BY <1>4, <1>5, <1>7

\* Who is alone with a subject is not said to have moved the other way.
LEMMA AloneAgrees ==
  ASSUME NEW counted, CountedList(counted), NEW subject, NEW person,
         \A i \in About(counted, subject) :
           counted[i].speaker = person /\ counted[i].confidence = 1,
         NEW trend, trend = ConsensusOverTime(counted, subject, Width)
  PROVE  {trend.direction, BeliefHistory(trend, person).direction} # {"rising", "falling"}
<1>1. PICK ids : ids = About(counted, subject)
  OBVIOUS
<1>2. CASE ids = {}
  <2>1. trend.direction = "insufficient"
    BY <1>1, <1>2, NoTrend
  <2> QED
    BY <2>1
<1>3. CASE ids # {}
  <2>1. PICK groups : groups = Groups(counted, subject) /\ MadeOf(trend, counted, groups, Width)
    BY <1>1, <1>3, TrendOfGroups
  <2>2. PICK m, kind : Parted(groups, ids, m, kind)
    BY <1>1, <1>3, <2>1, GroupsPart
  <2>3. PICK series : series = [k \in DOMAIN groups |-> trend.buckets[k].sentiment]
    OBVIOUS
  <2>4. /\ trend.direction = Direction(series)
        /\ DOMAIN groups = 1..m /\ m \in Nat \ {0} /\ DOMAIN trend.buckets = 1..m
    BY <2>1, <2>2, <2>3 DEF MadeOf, Parted
  <2>5. ASSUME NEW k \in 1..m
        PROVE  /\ person \in DOMAIN trend.buckets[k].breakdown
               /\ IsMean(trend.buckets[k].breakdown[person].sentiment)
               /\ series[k] = <<Bulk * trend.buckets[k].breakdown[person].sentiment[1],
                                Bulk * trend.buckets[k].breakdown[person].sentiment[2]>>
    <3>1. PICK group : group = groups[k]
      OBVIOUS
    <3>2. group = OfKind(ids, kind, k) /\ group # {}
      BY <2>2, <3>1 DEF Parted
    <3>3. /\ IsFiniteSet(group) /\ group \subseteq DOMAIN counted
          /\ \A c \in group : counted[c].speaker = person /\ counted[c].confidence = 1
      <4>1. group \subseteq ids /\ ids \subseteq DOMAIN counted
        BY <1>1, <3>2 DEF OfKind, About
      <4>2. IsFiniteSet(ids)
        BY <1>1, AboutFinite
      <4> QED
        BY <1>1, <4>1, <4>2, FS_Subset
    <3>4. PICK start : trend.buckets[k] = BucketOf(group, counted, start, Width)
      BY <2>1, <2>4, <3>1 DEF MadeOf
    <3>5. PICK breakdown :
            breakdown = [s \in {counted[c].speaker : c \in group} |->
                           [count |-> Cardinality({c \in group : counted[c].speaker = s}),
                            sentiment |-> PlainMean({c \in group : counted[c].speaker = s},
                                                    counted)]]
      OBVIOUS
    <3>6. /\ trend.buckets[k].breakdown = breakdown
          /\ trend.buckets[k].sentiment = MeanSentiment(group, counted)
      BY <3>4, <3>5 DEF BucketOf
    <3>7. person \in {counted[c].speaker : c \in group}
      BY <3>2, <3>3
    <3>8. {c \in group : counted[c].speaker = person} = group
      BY <3>3
    <3>9. person \in DOMAIN breakdown /\ breakdown[person].sentiment = PlainMean(group, counted)
      BY <3>5, <3>7, <3>8
    <3>10. /\ IsMean(PlainMean(group, counted))
           /\ MeanSentiment(group, counted)
                = <<Bulk * PlainMean(group, counted)[1], Bulk * PlainMean(group, counted)[2]>>
      <4>1. \A c \in group : counted[c].confidence = 1
        BY <3>3
      <4>2. group # {} /\ IsFiniteSet(group) /\ group \subseteq DOMAIN counted
        BY <3>2, <3>3
      <4> QED
        BY <4>1, <4>2, SureMeans
    <3>11. series[k] = MeanSentiment(group, counted)
      BY <2>3, <2>4, <3>6
    <3> QED
      BY <3>6, <3>9, <3>10, <3>11
  <2>6. PICK p, q, delta, moved :
          /\ p = trend.buckets[1].breakdown[person].sentiment
          /\ q = trend.buckets[m].breakdown[person].sentiment
          /\ delta = Step(series[1], series[m]) /\ moved = Step(p, q)
    OBVIOUS
  <2>7. IsMean(p) /\ IsMean(q) /\ IsMean(moved) /\ (delta[1] > 0 <=> moved[1] > 0)
    <3>1. 1 \in 1..m /\ m \in 1..m
      BY <2>4
    <3>2. PICK b \in Nat \ {0} : b = Bulk
      BY ConsensusAssumption
    <3>3. IsMean(p) /\ series[1] = <<b * p[1], b * p[2]>>
      BY <2>5, <2>6, <3>1, <3>2
    <3>4. IsMean(q) /\ series[m] = <<b * q[1], b * q[2]>>
      BY <2>5, <2>6, <3>1, <3>2
    <3>5. Step(<<b * p[1], b * p[2]>>, <<b * q[1], b * q[2]>>)[1] > 0 <=> Step(p, q)[1] > 0
      BY <3>3, <3>4, StepScaled
    <3> QED
      BY <2>6, <3>3, <3>4, <3>5, StepOfMeans
  <2>8. BeliefHistory(trend, person).direction =
          IF m < 2 THEN "insufficient"
          ELSE IF Above(moved) THEN "rising" ELSE IF Below(moved) THEN "falling" ELSE "flat"
    <3>1. \A k \in 1..m : person \in DOMAIN trend.buckets[k].breakdown
      BY <2>5
    <3> QED
      BY <2>4, <2>6, <3>1, HistorySays
  <2>9. trend.direction = IF m < 2 THEN "insufficient"
          ELSE IF Rises(series, m) /\ Falls(series, m) THEN "mixed"
          ELSE IF Little(delta) THEN "flat"
          ELSE IF delta[1] > 0 THEN "rising" ELSE "falling"
    <3>1. DOMAIN series = 1..m /\ series = [k \in DOMAIN series |-> series[k]]
      BY <2>3, <2>4
    <3> QED
      BY <2>4, <2>6, <3>1, DirectionSays
  <2>10. (Above(moved) => moved[1] > 0) /\ (Below(moved) => ~(moved[1] > 0))
    <3>1. PICK a \in Int, b \in Nat \ {0}, h \in Nat \ {0} :
            a = moved[1] /\ b = moved[2] /\ h = FlatThreshold
      BY <2>7, ConsensusAssumption DEF IsMean
    <3>2. h * b > 0 /\ (-h) * b < 0 /\ h * b \in Int /\ (-h) * b \in Int
      OBVIOUS
    <3>3. (Above(moved) <=> a > h * b) /\ (Below(moved) <=> a < (-h) * b)
      BY <3>1 DEF Above, Below
    <3> QED
      BY <3>1, <3>2, <3>3
  <2>11. ASSUME trend.direction = "rising", BeliefHistory(trend, person).direction = "falling"
         PROVE  FALSE
    BY <2>7, <2>8, <2>9, <2>10, <2>11
  <2>12. ASSUME trend.direction = "falling", BeliefHistory(trend, person).direction = "rising"
         PROVE  FALSE
    BY <2>7, <2>8, <2>9, <2>10, <2>12
  <2> QED
    BY <2>11, <2>12
<1> QED
  BY <1>2, <1>3

-----------------------------------------------------------------------------
(* What is told *)

\* A trend is what the surface that is still there gives.
IsTold(trend) == trend = Trend(trend.subject)

RowTold(row) == \A trend \in Range(row.context) : IsTold(trend)

\* The run and what consensus has of it have their types, and the trends are the surface's.
Told ==
  /\ result = NoResult \/ result.times \in [Episode -> Nat]
  /\ CountedList(surface.counted)
  /\ answer.tool = "consensus_trend" => IsTold(answer.trend)
  /\ \A r \in DOMAIN eval.rows : RowTold(eval.rows[r])

\* Every trend of the surface is one.
LEMMA TrendIsTold == \A subject : IsTold(Trend(subject))
<1> SUFFICES ASSUME NEW subject PROVE IsTold(Trend(subject))
  OBVIOUS
<1>1. PICK trend, counted : trend = Trend(subject) /\ counted = surface.counted
  OBVIOUS
<1>2. trend = ConsensusOverTime(counted, subject, Width)
  BY <1>1 DEF Trend
<1>3. trend.subject = subject
  BY <1>2, TrendOfGroups, NoTrend
<1> QED
  BY <1>1, <1>3 DEF IsTold

\* What the graph's arm is told of is.
LEMMA ContextTold ==
  ASSUME NEW query, NEW trend \in Range(Context(query))
  PROVE  IsTold(trend)
<1>1. CASE HitsOf(query) = <<>>
  BY <1>1 DEF Context, Range
<1>2. CASE HitsOf(query) # <<>>
  <2>1. PICK told : told = Trend(DominantSubject(HitsOf(query)))
    OBVIOUS
  <2>2. Context(query) = <<told>>
    BY <1>2, <2>1 DEF Context
  <2>3. trend = told
    BY <2>2 DEF Range
  <2> QED
    BY <2>1, <2>3, TrendIsTold
<1> QED
  BY <1>1, <1>2

\* The claims of the run are placed.
LEMMA RunPlaced ==
  ASSUME Derived, result.times \in [Episode -> Nat]
  PROVE  CountedList([i \in DOMAIN result.claims |-> Placed(result.claims[i], result.times)])
<1>1. PICK list, times, placed :
        /\ list = result.claims /\ times = result.times
        /\ placed = [i \in DOMAIN list |-> Placed(list[i], times)]
  OBVIOUS
<1>2. list \in Seq(Item) /\ times \in [Episode -> Nat]
  BY <1>1 DEF Derived
<1>3. DOMAIN list = 1..Len(list) /\ Len(list) \in Nat /\ \A i \in 1..Len(list) : list[i] \in Item
  BY <1>2, LenProperties
<1>4. Listed(placed)
  <2>1. PICK n \in Nat : n = Len(list)
    BY <1>3
  <2>2. DOMAIN placed = 1..n /\ placed = [i \in DOMAIN placed |-> placed[i]]
    BY <1>1, <1>3, <2>1
  <2> QED
    BY <2>2, MadeListed
<1>5. ASSUME NEW i \in DOMAIN placed PROVE placed[i] \in Placement
  <2>1. PICK claim \in Item : claim = list[i]
    BY <1>1, <1>3, <1>5
  <2>2. placed[i] = Placed(claim, times)
    BY <1>1, <1>5, <2>1
  <2>3. /\ claim.id \in ClaimId /\ claim.sentiment \in Int /\ claim.confidence \in Nat
    BY DEF Item
  <2>4. /\ SubjectOf[claim.id] \in Entity /\ SpeakerOf[claim.id] \in Speaker
        /\ EpisodeOf[claim.id] \in Episode
    BY <2>3, ClaimAssumption
  <2>5. times[EpisodeOf[claim.id]] \in Nat
    BY <1>2, <2>4
  <2> QED
    BY <2>2, <2>3, <2>4, <2>5 DEF Placed, Placement
<1> QED
  BY <1>1, <1>4, <1>5 DEF CountedList

\* While nothing is answered or evaluated there is nothing told.
LEMMA NothingTold ==
  ASSUME Evaluated, ~eval.running
  PROVE  eval = NoEval /\ DOMAIN eval.rows = {}
<1>1. ASSUME UnderWay PROVE eval.running
  <2>1. PICK e : e = EvaluationOf(eval.queries, eval.seed, eval.subset, eval.answers,
                                  eval.rows, eval.pairs)
    OBVIOUS
  <2>2. e.running = TRUE
    BY <2>1 DEF EvaluationOf
  <2> QED
    BY <1>1, <2>1, <2>2 DEF UnderWay
<1> QED
  BY <1>1, NothingListed DEF Evaluated, NoEval

\* A load or a new surface, with nobody being answered.
LEMMA ToldOfStore ==
  ASSUME StoreKept, Derived, Evaluated, Told, StoreStep
  PROVE  Told'
<1>1. answer = NoAnswer /\ answer' = answer /\ eval' = eval /\ DOMAIN eval.rows = {}
  <2>1. answer = NoAnswer /\ ~eval.running /\ answer' = answer /\ eval' = eval
    BY DEF StoreStep, LoadRun, Correct, TimePasses, BuildSurface
  <2> QED
    BY <2>1, NothingTold
<1>2. /\ answer'.tool = "consensus_trend" => IsTold(answer.trend)'
      /\ \A r \in DOMAIN eval'.rows : RowTold(eval.rows[r])'
  BY <1>1 DEF NoAnswer
<1>3. ASSUME NEW list \in Results, LoadRun(list) PROVE Told'
  <2>1. result'.times = EventTimes /\ surface' = surface
    BY <1>3 DEF LoadRun
  <2>2. EventTimes \in [Episode -> Nat]
    BY GraphAssumption DEF EventTimes, StoreKept, TypeOK, Time
  <2> QED
    BY <1>2, <2>1, <2>2 DEF Told
<1>4. ASSUME BuildSurface PROVE Told'
  <2>1. result.times \in [Episode -> Nat] /\ result' = result
    BY <1>4 DEF BuildSurface, Told
  <2>2. surface'.counted = [i \in DOMAIN result.claims |->
                              Placed(result.claims[i], result.times)]
    BY <1>4 DEF BuildSurface
  <2>3. CountedList(surface'.counted)
    BY <2>1, <2>2, RunPlaced
  <2> QED
    BY <1>2, <2>1, <2>3 DEF Told
<1>5. ~BuildSurface /\ (\A list \in Results : ~LoadRun(list)) => UNCHANGED <<result, surface>>
  BY DEF StoreStep, Correct, TimePasses
<1>6. UNCHANGED <<result, surface>> => Told'
  BY <1>2 DEF Told
<1> QED
  BY <1>3, <1>4, <1>5, <1>6

\* A surface that stays gives the trends it gave.
LEMMA ToldLasts ==
  ASSUME surface' = surface
  PROVE  /\ \A trend : IsTold(trend) => IsTold(trend)'
         /\ \A row : RowTold(row) => RowTold(row)'
<1>1. \A trend : IsTold(trend) => IsTold(trend)'
  BY DEF IsTold, Trend
<1> QED
  BY <1>1 DEF RowTold

\* A tool tells what the surface gives.
LEMMA ToldByTool ==
  ASSUME Told, UseTool
  PROVE  Told'
<1>1. UNCHANGED <<result, surface, eval>>
  BY DEF UseTool, Answers, SearchDialogue, WhoDiscussed, ConsensusTrend, AskBeliefHistory,
         ProvenanceLookup
<1>2. ASSUME NEW subject, ConsensusTrend(subject) PROVE IsTold(answer'.trend)
  <2>1. answer'.trend = Trend(subject)
    BY <1>2 DEF ConsensusTrend, Answers
  <2> QED
    BY <2>1, TrendIsTold
<1>3. (\A subject \in Entity : ~ConsensusTrend(subject)) => answer'.tool # "consensus_trend"
  BY DEF UseTool, Answers, SearchDialogue, WhoDiscussed, AskBeliefHistory, ProvenanceLookup
<1>4. answer'.tool = "consensus_trend" => IsTold(answer'.trend)
  BY <1>2, <1>3
<1>5. answer'.tool = "consensus_trend" => IsTold(answer.trend)'
  BY <1>1, <1>4 DEF IsTold, Trend
<1>6. \A r \in DOMAIN eval'.rows : RowTold(eval.rows[r])'
  BY <1>1, ToldLasts DEF Told
<1> QED
  BY <1>1, <1>5, <1>6 DEF Told

\* A row keeps what the arm of the graph was told.
LEMMA ToldInRow ==
  ASSUME Evaluated, Told, ScoreQuery
  PROVE  Told'
<1>1. UNCHANGED <<result, surface, answer>>
  BY DEF ScoreQuery
<1>2. UnderWay
  <2>1. ASSUME eval = NoEval PROVE eval.answers = <<>>
    BY <2>1 DEF NoEval
  <2> QED
    BY <2>1 DEF ScoreQuery, Evaluated
<1>3. PICK armOf, blinded, row :
        /\ armOf = Blinded.armOf /\ blinded = Blinded.blinded
        /\ row = [query |-> CurrentQuery, answers |-> eval.answers,
                  context |-> Context(CurrentQuery), labels |-> armOf,
                  scores |-> [arm \in Range(armOf) |->
                    Score("first", blinded[CHOOSE p \in DOMAIN armOf : armOf[p] = arm])]]
  OBVIOUS
<1>4. eval' = [eval EXCEPT !.answers = <<>>, !.rows = Append(eval.rows, row)]
  BY <1>3 DEF ScoreQuery
<1>5. PICK rows, old : rows = Append(old, row) /\ old = eval.rows
  OBVIOUS
<1>6. eval'.rows = rows
  <2>1. "rows" \in DOMAIN eval
    <3>1. PICK e : e = EvaluationOf(eval.queries, eval.seed, eval.subset, eval.answers,
                                    eval.rows, eval.pairs)
      OBVIOUS
    <3>2. "rows" \in DOMAIN e
      BY <3>1 DEF EvaluationOf
    <3> QED
      BY <1>2, <3>1, <3>2 DEF UnderWay
  <2> QED
    BY <1>4, <1>5, <2>1
<1>7. RowTold(row)
  BY <1>3, ContextTold DEF RowTold
<1>8. ASSUME NEW r \in DOMAIN rows PROVE RowTold(rows[r])
  <2>1. Listed(old)
    BY <1>2, <1>5 DEF UnderWay
  <2>2. \/ r \in DOMAIN old /\ rows[r] = old[r]
        \/ rows[r] = row
    BY <1>5, <2>1, ListedAppend
  <2> QED
    BY <1>5, <1>7, <2>2 DEF Told
<1>9. \A r \in DOMAIN rows : RowTold(rows[r])'
  BY <1>1, <1>8, ToldLasts
<1>10. \A r \in DOMAIN eval'.rows : RowTold(eval.rows[r])'
  BY <1>6, <1>9
<1>11. answer'.tool = "consensus_trend" => IsTold(answer.trend)'
  BY <1>1, ToldLasts DEF Told
<1> QED
  BY <1>1, <1>10, <1>11 DEF Told

\* Every step keeps what is told true.
LEMMA ToldStep ==
  ASSUME StoreKept, Derived, Evaluated, Told, [ServeNext]_servingVars
  PROVE  Told'
<1>1. ASSUME UNCHANGED <<result, surface, answer>>, DOMAIN eval'.rows = {} \/ eval'.rows = eval.rows
      PROVE  Told'
  <2>1. \A r \in DOMAIN eval'.rows : RowTold(eval.rows[r])'
    BY <1>1, ToldLasts DEF Told
  <2>2. answer'.tool = "consensus_trend" => IsTold(answer.trend)'
    BY <1>1, ToldLasts DEF Told
  <2> QED
    BY <1>1, <2>1, <2>2 DEF Told
<1>2. ASSUME NEW evaluation \in Evaluations, StartEvaluation(evaluation) PROVE Told'
  <2>1. eval'.rows = <<>> /\ UNCHANGED <<result, surface, answer>>
    BY <1>2 DEF StartEvaluation
  <2> QED
    BY <1>1, <2>1
<1>3. ASSUME NEW texts \in Texts, RunArms(texts) PROVE Told'
  <2>1. eval'.rows = eval.rows /\ UNCHANGED <<result, surface, answer>>
    <3>1. UNCHANGED <<result, surface, answer>>
      BY <1>3 DEF RunArms
    <3>2. PICK new : eval' = [eval EXCEPT !.answers = new]
      BY <1>3 DEF RunArms
    <3> QED
      BY <3>1, <3>2
  <2> QED
    BY <1>1, <2>1
<1>4. ASSUME RateTwice PROVE Told'
  <2>1. eval'.rows = eval.rows /\ UNCHANGED <<result, surface, answer>>
    <3>1. UNCHANGED <<result, surface, answer>>
      BY <1>4 DEF RateTwice
    <3>2. PICK pairs : eval' = [eval EXCEPT !.answers = <<>>, !.pairs = pairs]
      BY <1>4 DEF RateTwice
    <3> QED
      BY <3>1, <3>2
  <2> QED
    BY <1>1, <2>1
<1>5. ASSUME EvaluationFails PROVE Told'
  <2>1. eval'.rows = <<>> /\ UNCHANGED <<result, surface, answer>>
    BY <1>5 DEF EvaluationFails, NoEval
  <2> QED
    BY <1>1, <2>1
<1>6. ASSUME Reported PROVE Told'
  <2>1. eval'.rows = <<>> /\ UNCHANGED <<result, surface>> /\ answer' = NoAnswer
    BY <1>6 DEF Reported, NoEval
  <2>2. answer'.tool # "consensus_trend" /\ DOMAIN eval'.rows = {}
    BY <2>1 DEF NoAnswer
  <2> QED
    BY <2>1, <2>2 DEF Told
<1>7. ASSUME UNCHANGED servingVars PROVE Told'
  BY <1>1, <1>7 DEF servingVars
<1> QED
  BY <1>2, <1>3, <1>4, <1>5, <1>6, <1>7, ToldOfStore, ToldByTool, ToldInRow DEF ServeNext

\* So it is true in every behaviour.
LEMMA ToldHolds == ServingSpec => []Told
<1>1. ServeInit => Told
  <2> SUFFICES ASSUME ServeInit PROVE Told
    OBVIOUS
  <2>1. result = NoResult /\ surface = NoSurface /\ answer = NoAnswer /\ eval = NoEval
    BY DEF ServeInit
  <2>2. surface.counted = <<>> /\ eval.rows = <<>> /\ answer.tool # "consensus_trend"
    BY <2>1 DEF NoSurface, NoEval, NoAnswer
  <2>3. CountedList(<<>>)
    BY NothingListed DEF CountedList
  <2> QED
    BY <2>1, <2>2, <2>3 DEF Told
<1>2. ServeInv /\ Evaluated /\ Told /\ [ServeNext]_servingVars => Told'
  BY ToldStep DEF ServeInv
<1> QED
  BY <1>1, <1>2, ServeInvHolds, EvaluatedHolds, PTL DEF ServingSpec

\* Of a trend that is told, what is to be said of trends.
LEMMA MirrorsFromTold == Told => TrendMirrors
<1> SUFFICES ASSUME Told, NEW trend \in ToldTrends
             PROVE  /\ ConsensusOverTime(Inverted(surface.counted), trend.subject, Width).direction
                         = Opposite(trend.direction)
                    /\ SumFunction([k \in DOMAIN trend.buckets |-> trend.buckets[k].count])
                         = Cardinality(CountedOf(trend.subject))
                    /\ \A person \in Speaker :
                         SumFunction([k \in {j \in DOMAIN trend.buckets :
                                               person \in DOMAIN trend.buckets[j].breakdown} |->
                                        trend.buckets[k].breakdown[person].count])
                           = Cardinality({i \in CountedOf(trend.subject) :
                                            surface.counted[i].speaker = person})
                    /\ \A person \in Speaker :
                         (\A i \in CountedOf(trend.subject) :
                            /\ surface.counted[i].speaker = person
                            /\ surface.counted[i].confidence = 1)
                           => {trend.direction, BeliefHistory(trend, person).direction}
                                # {"rising", "falling"}
  BY DEF TrendMirrors
<1>1. IsTold(trend)
  BY DEF ToldTrends, Told, RowTold
<1>2. PICK counted, subject : counted = surface.counted /\ subject = trend.subject
  OBVIOUS
<1>3. CountedList(counted) /\ trend = ConsensusOverTime(counted, subject, Width)
  BY <1>1, <1>2 DEF Told, IsTold, Trend
<1>4. CountedOf(subject) = About(counted, subject)
  BY <1>2 DEF CountedOf, About
<1>5. ConsensusOverTime(Inverted(counted), subject, Width).direction = Opposite(trend.direction)
  BY <1>3, TrendMirrored
<1>6. SumFunction([k \in DOMAIN trend.buckets |-> trend.buckets[k].count])
        = Cardinality(About(counted, subject))
  BY <1>3, ClaimsCountedOnce
<1>7. ASSUME NEW person \in Speaker
      PROVE  SumFunction([k \in {j \in DOMAIN trend.buckets :
                                   person \in DOMAIN trend.buckets[j].breakdown} |->
                            trend.buckets[k].breakdown[person].count])
               = Cardinality({i \in CountedOf(trend.subject) :
                                surface.counted[i].speaker = person})
  <2>1. SumFunction(SpokenCounts(trend, person)) = Cardinality(OwnAbout(counted, subject, person))
    BY <1>3, SpeakersCountedOnce
  <2> QED
    BY <1>2, <1>4, <2>1 DEF SpokenCounts, SpokenIn, OwnAbout
<1>8. ASSUME NEW person \in Speaker,
             \A i \in CountedOf(trend.subject) :
               surface.counted[i].speaker = person /\ surface.counted[i].confidence = 1
      PROVE  {trend.direction, BeliefHistory(trend, person).direction} # {"rising", "falling"}
  <2>1. \A i \in About(counted, subject) :
          counted[i].speaker = person /\ counted[i].confidence = 1
    BY <1>2, <1>4, <1>8
  <2> QED
    BY <1>3, <2>1, AloneAgrees
<1> QED
  BY <1>2, <1>4, <1>5, <1>6, <1>7, <1>8

\* A trend takes no side, counts every claim of the run about its subject once, and agrees
\* with the history of a person who is alone with it.
THEOREM TrendsTakeNoSide == ServingSpec => []TrendMirrors
  BY MirrorsFromTold, ToldHolds, PTL
=============================================================================
