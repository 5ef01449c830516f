------------------------------ MODULE DataLemmas ------------------------------
(***************************************************************************)
(* Facts about numbers, finite sets, sequences and folds that the proofs   *)
(* of several modules rest on.  Induction is over sets of numbers and sets *)
(* of sets: the theorems of the library that take a predicate cannot be    *)
(* instantiated.                                                           *)
(***************************************************************************)
EXTENDS Lists, FiniteSetsExt, SequencesExt,
        FiniteSetTheorems, SequenceTheorems, WellFoundedInduction, TLAPS

-----------------------------------------------------------------------------
(* Induction *)

\* A set of natural numbers has a least one.
LEMMA LeastNatural ==
  ASSUME NEW T \in SUBSET Nat, T # {}
  PROVE  \E m \in T : \A n \in T : m <= n
<1>1. PICK m \in T : \A n \in T : ~ (<<n, m>> \in OpToRel(<, Nat))
  BY NatLessThanWellFounded, WFMin
<1>2. OpToRel(<, Nat) = {ss \in Nat \X Nat : ss[1] < ss[2]}
  BY DEF OpToRel
<1>3. \A n \in T : <<n, m>> \in OpToRel(<, Nat) <=> n < m
  BY <1>2
<1>4. \A n \in T : ~ (n < m)
  BY <1>1, <1>3, Zenon
<1> QED
  BY <1>4

\* A set that has 0 and the successors of its numbers has them all.
LEMMA Induction ==
  ASSUME NEW T, 0 \in T, \A n \in Nat : n \in T => n + 1 \in T
  PROVE  \A n \in Nat : n \in T
<1> SUFFICES ASSUME Nat \ T # {} PROVE FALSE
  OBVIOUS
<1>1. PICK m \in Nat \ T : \A n \in Nat \ T : m <= n
  BY LeastNatural
<1>2. m - 1 \in Nat \ T
  BY <1>1
<1> QED
  BY <1>1, <1>2

\* A family that has the empty set and the extensions of its members has every finite set.
LEMMA FiniteInduction ==
  ASSUME NEW S, IsFiniteSet(S), NEW family, {} \in family,
         \A T \in SUBSET S : \A x \in S \ T : T \in family => T \cup {x} \in family
  PROVE  S \in family
<1> DEFINE N == {n \in Nat : \A T \in SUBSET S : Cardinality(T) = n => T \in family}
<1>1. 0 \in N
  BY FS_EmptySet, FS_Subset
<1>2. ASSUME NEW n \in Nat, n \in N PROVE n + 1 \in N
  <2> SUFFICES ASSUME NEW T \in SUBSET S, Cardinality(T) = n + 1 PROVE T \in family
    OBVIOUS
  <2>1. IsFiniteSet(T) /\ T # {}
    BY FS_Subset, FS_EmptySet
  <2>2. PICK x \in T : TRUE
    BY <2>1
  <2>3. Cardinality(T \ {x}) = n
    <3>1. Cardinality(T \ {x}) = Cardinality(T) - 1
      BY <2>1, FS_RemoveElement
    <3> QED
      BY <3>1
  <2>4. T \ {x} \in family
    BY <1>2, <2>3
  <2>5. (T \ {x}) \cup {x} = T
    BY <2>2
  <2> QED
    BY <2>2, <2>4, <2>5
<1>3. Cardinality(S) \in N
  <2> HIDE DEF N
  <2> QED
    BY <1>1, <1>2, Induction, FS_CardinalityType
<1> QED
  BY <1>3

-----------------------------------------------------------------------------
(* The best of a set *)

\* A finite set has a best element by an order in which any two compare.
LEMMA BestExists ==
  ASSUME NEW S, IsFiniteSet(S), S # {}, NEW order,
         \A x, y \in S : <<x, y>> \in order \/ <<y, x>> \in order,
         \A x, y, z \in S : <<x, y>> \in order /\ <<y, z>> \in order => <<x, z>> \in order
  PROVE  \E x \in S : \A y \in S : <<x, y>> \in order
<1> DEFINE family == {T \in SUBSET S : T # {} => \E x \in T : \A y \in T : <<x, y>> \in order}
<1>1. {} \in family
  OBVIOUS
<1>2. ASSUME NEW T \in SUBSET S, NEW x \in S \ T, T \in family PROVE T \cup {x} \in family
  <2>1. CASE T = {}
    BY <2>1
  <2>2. CASE T # {}
    <3>1. PICK best \in T : \A y \in T : <<best, y>> \in order
      BY <1>2, <2>2
    <3>2. CASE <<best, x>> \in order
      BY <3>1, <3>2
    <3>3. CASE <<x, best>> \in order
      BY <3>1, <3>3
    <3> QED
      BY <3>2, <3>3
  <2> QED
    BY <2>1, <2>2
<1>3. S \in family
  <2> HIDE DEF family
  <2> QED
    BY <1>1, <1>2, FiniteInduction
<1> QED
  BY <1>3

\* A finite set of integers has a greatest and a least element.
LEMMA MaxMin ==
  ASSUME NEW S, S \subseteq Int, IsFiniteSet(S), S # {}
  PROVE  /\ Max(S) \in S /\ \A x \in S : x <= Max(S)
         /\ Min(S) \in S /\ \A x \in S : Min(S) <= x
<1>1. \E x \in S : \A y \in S : x >= y
  <2> DEFINE order == {p \in S \X S : p[1] >= p[2]}
  <2>1. \E x \in S : \A y \in S : <<x, y>> \in order
    <3>1. \A x, y \in S : <<x, y>> \in order \/ <<y, x>> \in order
      OBVIOUS
    <3>2. \A x, y, z \in S : <<x, y>> \in order /\ <<y, z>> \in order => <<x, z>> \in order
      OBVIOUS
    <3> HIDE DEF order
    <3> QED
      BY <3>1, <3>2, BestExists
  <2> QED
    BY <2>1
<1>2. \E x \in S : \A y \in S : x <= y
  <2> DEFINE order == {p \in S \X S : p[1] <= p[2]}
  <2>1. \E x \in S : \A y \in S : <<x, y>> \in order
    <3>1. \A x, y \in S : <<x, y>> \in order \/ <<y, x>> \in order
      OBVIOUS
    <3>2. \A x, y, z \in S : <<x, y>> \in order /\ <<y, z>> \in order => <<x, z>> \in order
      OBVIOUS
    <3> HIDE DEF order
    <3> QED
      BY <3>1, <3>2, BestExists
  <2> QED
    BY <2>1
<1>3. Max(S) \in S /\ \A y \in S : Max(S) >= y
  BY <1>1 DEF Max
<1>4. Min(S) \in S /\ \A y \in S : Min(S) <= y
  BY <1>2 DEF Min
<1> QED
  BY <1>3, <1>4

\* A function takes no more values than it has arguments.
LEMMA ImageFinite ==
  ASSUME NEW S, IsFiniteSet(S), NEW f
  PROVE  IsFiniteSet({f[x] : x \in S}) /\ Cardinality({f[x] : x \in S}) <= Cardinality(S)
<1> DEFINE g == [x \in S |-> f[x]]
           T == {f[x] : x \in S}
<1>1. g \in Surjection(S, T)
  BY DEF Surjection
<1> HIDE DEF g
<1>2. IsFiniteSet(T) /\ Cardinality(T) <= Cardinality(S)
  <2> HIDE DEF T
  <2> QED
    BY <1>1, FS_Surjection
<1> QED
  BY <1>2

-----------------------------------------------------------------------------
(* Places *)

\* Those of a strict total order's elements that come no later than x.
UpTo(S, order, x) == {y \in S : <<y, x>> \in order \/ y = x}

\* As many elements as there are, so many come no later than some one of them.
LEMMA PlacesTaken ==
  ASSUME NEW S, IsFiniteSet(S), NEW order,
         \A x \in S : <<x, x>> \notin order,
         \A x, y \in S : x # y => <<x, y>> \in order \/ <<y, x>> \in order,
         \A x, y, z \in S : <<x, y>> \in order /\ <<y, z>> \in order => <<x, z>> \in order
  PROVE  /\ \A x \in S : Cardinality(UpTo(S, order, x)) \in 1..Cardinality(S)
         /\ \A p \in 1..Cardinality(S) : \E x \in S : Cardinality(UpTo(S, order, x)) = p
         /\ \A x, y \in S : <<x, y>> \in order
                              => Cardinality(UpTo(S, order, x)) < Cardinality(UpTo(S, order, y))
<1> DEFINE n == Cardinality(S)
           place == [x \in S |-> Cardinality(UpTo(S, order, x))]
<1>1. n \in Nat
  BY FS_CardinalityType
<1>2. ASSUME NEW x \in S
      PROVE  /\ IsFiniteSet(UpTo(S, order, x)) /\ Cardinality(UpTo(S, order, x)) \in Nat
             /\ Cardinality(UpTo(S, order, x)) <= n
             /\ Cardinality(UpTo(S, order, x)) # 0
  <2>1. UpTo(S, order, x) \in SUBSET S /\ x \in UpTo(S, order, x)
    BY DEF UpTo
  <2> HIDE DEF n
  <2>2. IsFiniteSet(UpTo(S, order, x)) /\ Cardinality(UpTo(S, order, x)) <= n
    BY <2>1, FS_Subset DEF n
  <2> QED
    BY <2>1, <2>2, FS_CardinalityType, FS_EmptySet
<1>3. \A x \in S : Cardinality(UpTo(S, order, x)) \in 1..n
  <2> HIDE DEF n
  <2> QED
    BY <1>1, <1>2
<1>4. ASSUME NEW x \in S, NEW y \in S, <<x, y>> \in order
      PROVE  Cardinality(UpTo(S, order, x)) < Cardinality(UpTo(S, order, y))
  <2>1. UpTo(S, order, x) \in SUBSET UpTo(S, order, y)
    BY <1>4 DEF UpTo
  <2>2. y \in UpTo(S, order, y) /\ y \notin UpTo(S, order, x)
    BY <1>4 DEF UpTo
  <2>3. Cardinality(UpTo(S, order, x)) <= Cardinality(UpTo(S, order, y))
        /\ Cardinality(UpTo(S, order, x)) # Cardinality(UpTo(S, order, y))
    BY <1>2, <2>1, <2>2, FS_Subset
  <2> QED
    BY <1>2, <2>3
<1>5. place \in Injection(S, 1..n)
  <2>1. place \in [S -> 1..n]
    BY <1>3
  <2>2. \A x, y \in S : x # y => place[x] # place[y]
    <3> SUFFICES ASSUME NEW x \in S, NEW y \in S, x # y PROVE place[x] # place[y]
      OBVIOUS
    <3>1. Cardinality(UpTo(S, order, x)) \in Nat /\ Cardinality(UpTo(S, order, y)) \in Nat
      BY <1>2
    <3>2. \/ Cardinality(UpTo(S, order, x)) < Cardinality(UpTo(S, order, y))
          \/ Cardinality(UpTo(S, order, y)) < Cardinality(UpTo(S, order, x))
      BY <1>4
    <3> QED
      BY <3>1, <3>2
  <2> HIDE DEF place, n
  <2> QED
    BY <2>1, <2>2 DEF Injection, IsInjective
<1>6. place \in Surjection(S, 1..n)
  <2>1. IsFiniteSet(1..n) /\ Cardinality(1..n) = n
    BY <1>1, FS_Interval
  <2> HIDE DEF place
  <2> QED
    BY <1>5, <2>1, FS_Injection
<1>7. \A p \in 1..n : \E x \in S : place[x] = p
  <2> HIDE DEF place, n
  <2> QED
    BY <1>6 DEF Surjection
<1> QED
  BY <1>3, <1>4, <1>7

\* A function of the first n places is a sequence of n.
LEMMA SeqOfFunction ==
  ASSUME NEW S, NEW n \in Nat, NEW f \in [1..n -> S]
  PROVE  f \in Seq(S) /\ Len(f) = n
  OBVIOUS

\* A sequence of the elements of a finite set in their order.
SortedBy(s, S, order) ==
  /\ s \in [1..Cardinality(S) -> S]
  /\ \A i, j \in 1..Cardinality(S) : i < j => <<s[i], s[j]>> \in order

\* There is one.
LEMMA SortedExists ==
  ASSUME NEW S, IsFiniteSet(S), NEW order,
         \A x \in S : <<x, x>> \notin order,
         \A x, y \in S : x # y => <<x, y>> \in order \/ <<y, x>> \in order,
         \A x, y, z \in S : <<x, y>> \in order /\ <<y, z>> \in order => <<x, z>> \in order
  PROVE  \E s : SortedBy(s, S, order)
<1> DEFINE n == Cardinality(S)
           Place(x) == Cardinality(UpTo(S, order, x))
           s == [p \in 1..n |-> CHOOSE x \in S : Place(x) = p]
<1>1. n \in Nat
  BY FS_CardinalityType
<1>2. /\ \A x \in S : Place(x) \in 1..n
      /\ \A p \in 1..n : \E x \in S : Place(x) = p
      /\ \A x, y \in S : <<x, y>> \in order => Place(x) < Place(y)
  BY PlacesTaken
<1> HIDE DEF Place, n
<1>3. ASSUME NEW p \in 1..n PROVE s[p] \in S /\ Place(s[p]) = p
  BY <1>2
<1>4. ASSUME NEW i \in 1..n, NEW j \in 1..n, i < j PROVE <<s[i], s[j]>> \in order
  <2>1. s[i] \in S /\ s[j] \in S /\ Place(s[i]) = i /\ Place(s[j]) = j
    BY <1>3
  <2> HIDE DEF s
  <2>2. s[i] # s[j] /\ ~ (Place(s[j]) < Place(s[i]))
    BY <1>1, <1>4, <2>1
  <2> QED
    BY <1>2, <2>1, <2>2
<1>5. s \in [1..n -> S]
  BY <1>3
<1> HIDE DEF s
<1> QED
  BY <1>4, <1>5 DEF SortedBy, n

\* It has every element once.
LEMMA SortedHasAll ==
  ASSUME NEW S, IsFiniteSet(S), NEW order, \A x \in S : <<x, x>> \notin order,
         NEW s, SortedBy(s, S, order)
  PROVE  /\ s \in Seq(S) /\ Len(s) = Cardinality(S) /\ Cardinality(S) \in Nat
         /\ \A x \in S : \E i \in 1..Cardinality(S) : s[i] = x
         /\ \A i, j \in 1..Cardinality(S) : s[i] = s[j] => i = j
<1>1. Cardinality(S) \in Nat
  BY FS_CardinalityType
<1>2. PICK n \in Nat : n = Cardinality(S)
  BY <1>1
<1>3. s \in [1..n -> S] /\ \A i, j \in 1..n : i < j => <<s[i], s[j]>> \in order
  BY <1>2 DEF SortedBy
<1>4. \A i, j \in 1..n : s[i] = s[j] => i = j
  <2> SUFFICES ASSUME NEW i \in 1..n, NEW j \in 1..n, s[i] = s[j], i # j PROVE FALSE
    OBVIOUS
  <2>1. i < j \/ j < i
    OBVIOUS
  <2> QED
    BY <1>3, <2>1
<1>5. s \in Injection(1..n, S)
  BY <1>3, <1>4 DEF Injection, IsInjective
<1>6. IsFiniteSet(1..n) /\ Cardinality(1..n) = n
  BY FS_Interval
<1>7. s \in Surjection(1..n, S)
  BY <1>2, <1>5, <1>6, FS_Injection
<1>8. \A x \in S : \E i \in 1..n : s[i] = x
  BY <1>7 DEF Surjection
<1>9. s \in Seq(S) /\ Len(s) = n
  BY <1>3, SeqOfFunction
<1> QED
  BY <1>1, <1>2, <1>4, <1>8, <1>9

-----------------------------------------------------------------------------
(* Folds *)

\* What a fold over the subsets of D is at each: pick[s] is folded in last.
Folds(g, D, base, pick, step) ==
  g = [s \in SUBSET D |-> IF s = {} THEN base ELSE step[<<g[s \ {pick[s]}], pick[s]>>]]

\* There is such a function on the subsets of a finite set.
LEMMA FoldExists ==
  ASSUME NEW D, IsFiniteSet(D), NEW base, NEW step, NEW pick,
         \A s \in SUBSET D : s # {} => pick[s] \in s
  PROVE  \E g : Folds(g, D, base, pick, step)
<1> DEFINE Small(n) == {s \in SUBSET D : Cardinality(s) <= n}
           Rec(g, n) == g = [s \in Small(n) |->
                               IF s = {} THEN base ELSE step[<<g[s \ {pick[s]}], pick[s]>>]]
           N == {n \in Nat : \E g : Rec(g, n)}
<1>1. \A s \in SUBSET D : IsFiniteSet(s) /\ Cardinality(s) \in Nat
  BY FS_Subset, FS_CardinalityType
<1>2. \A s \in SUBSET D : s # {} =>
        s \ {pick[s]} \in SUBSET D /\ Cardinality(s \ {pick[s]}) = Cardinality(s) - 1
  BY <1>1, FS_RemoveElement
<1>3. 0 \in N
  <2>1. Small(0) = {{}}
    BY <1>1, FS_EmptySet
  <2> DEFINE g == [s \in {{}} |-> base]
  <2>2. Rec(g, 0)
    BY <2>1
  <2> HIDE DEF Rec, g
  <2> QED
    BY <2>2
<1>4. ASSUME NEW n \in Nat, n \in N PROVE n + 1 \in N
  <2>1. PICK g : Rec(g, n)
    BY <1>4
  <2> DEFINE more == [s \in Small(n + 1) |->
                        IF s = {} THEN base ELSE step[<<g[s \ {pick[s]}], pick[s]>>]]
  <2>2. ASSUME NEW s \in Small(n) PROVE s \in Small(n + 1) /\ more[s] = g[s]
    <3>1. s \in Small(n + 1)
      BY <1>1
    <3>2. more[s] = IF s = {} THEN base ELSE step[<<g[s \ {pick[s]}], pick[s]>>]
      BY <3>1
    <3>3. g[s] = IF s = {} THEN base ELSE step[<<g[s \ {pick[s]}], pick[s]>>]
      <4> HIDE DEF Small
      <4> QED
        BY <2>1
    <3> QED
      BY <3>1, <3>2, <3>3
  <2>3. ASSUME NEW s \in Small(n + 1), s # {} PROVE s \ {pick[s]} \in Small(n)
    BY <1>1, <1>2, <2>3
  <2>4. Rec(more, n + 1)
    <3>1. ASSUME NEW s \in Small(n + 1)
          PROVE  more[s] = IF s = {} THEN base ELSE step[<<more[s \ {pick[s]}], pick[s]>>]
      BY <2>2, <2>3
    <3> HIDE DEF Small
    <3> QED
      BY <3>1
  <2> HIDE DEF Rec, more
  <2> QED
    BY <2>4
<1>5. Cardinality(D) \in N
  <2> HIDE DEF N
  <2> QED
    BY <1>1, <1>3, <1>4, Induction
<1>6. PICK g : Rec(g, Cardinality(D))
  BY <1>5
<1>7. Small(Cardinality(D)) = SUBSET D
  BY <1>1, FS_Subset
<1> QED
  BY <1>6, <1>7 DEF Folds

\* What it is at each subset has a type that every step keeps.
LEMMA FoldType ==
  ASSUME NEW D, IsFiniteSet(D), NEW base, NEW step, NEW pick, NEW g, NEW T,
         \A s \in SUBSET D : s # {} => pick[s] \in s,
         base \in T, \A t \in T : \A x \in D : step[<<t, x>>] \in T,
         Folds(g, D, base, pick, step)
  PROVE  \A s \in SUBSET D : g[s] \in T
<1> DEFINE N == {n \in Nat : \A s \in SUBSET D : Cardinality(s) = n => g[s] \in T}
<1>1. \A s \in SUBSET D : IsFiniteSet(s) /\ Cardinality(s) \in Nat
  BY FS_Subset, FS_CardinalityType
<1>2. \A s \in SUBSET D : g[s] = IF s = {} THEN base ELSE step[<<g[s \ {pick[s]}], pick[s]>>]
  BY DEF Folds
<1>3. 0 \in N
  BY <1>1, <1>2, FS_EmptySet
<1>4. ASSUME NEW n \in Nat, n \in N PROVE n + 1 \in N
  <2> SUFFICES ASSUME NEW s \in SUBSET D, Cardinality(s) = n + 1 PROVE g[s] \in T
    OBVIOUS
  <2>1. s # {}
    BY <1>1, FS_EmptySet
  <2>2. s \ {pick[s]} \in SUBSET D /\ Cardinality(s \ {pick[s]}) = Cardinality(s) - 1
    BY <1>1, <2>1, FS_RemoveElement
  <2>3. g[s \ {pick[s]}] \in T
    BY <1>4, <2>2
  <2> QED
    BY <1>2, <2>1, <2>3
<1>5. \A n \in Nat : n \in N
  <2> HIDE DEF N
  <2> QED
    BY <1>3, <1>4, Induction
<1> QED
  BY <1>1, <1>5

\* What a fold of a sequence comes to at each set of its n places, the last place last.
LeftFolds(g, n, base, step) ==
  g = [s \in SUBSET (1..n) |-> IF s = {} THEN base ELSE step[<<g[s \ {Max(s)}], Max(s)>>]]

\* There is such a function.
LEMMA FoldLeftExists ==
  ASSUME NEW T, NEW n \in Nat, NEW base \in T, NEW step \in [T \X (1..n) -> T]
  PROVE  \E g \in [SUBSET (1..n) -> T] : LeftFolds(g, n, base, step)
<1> DEFINE D == 1..n
           pick == [s \in SUBSET D |-> Max(s)]
<1>1. IsFiniteSet(D) /\ D \subseteq Int
  BY FS_Interval
<1>2. ASSUME NEW s \in SUBSET D, s # {} PROVE pick[s] \in s
  <2>1. IsFiniteSet(s) /\ s \subseteq Int
    BY <1>1, FS_Subset
  <2> QED
    BY <1>2, <2>1, MaxMin
<1>3. \A t \in T : \A x \in D : step[<<t, x>>] \in T
  OBVIOUS
<1>4. PICK g : Folds(g, D, base, pick, step)
  <2> HIDE DEF pick, D
  <2> QED
    BY <1>1, <1>2, FoldExists
<1>5. \A s \in SUBSET D : g[s] \in T
  <2> HIDE DEF pick, D
  <2> QED
    BY <1>1, <1>2, <1>3, <1>4, FoldType
<1>6. g = [s \in SUBSET D |-> IF s = {} THEN base ELSE step[<<g[s \ {pick[s]}], pick[s]>>]]
  <2> HIDE DEF pick, D
  <2> QED
    BY <1>4 DEF Folds
<1>7. g \in [SUBSET D -> T]
  <2> HIDE DEF pick, D
  <2> QED
    BY <1>5, <1>6
<1>8. g = [s \in SUBSET D |-> IF s = {} THEN base ELSE step[<<g[s \ {Max(s)}], Max(s)>>]]
  <2>1. ASSUME NEW s \in SUBSET D
        PROVE  g[s] = IF s = {} THEN base ELSE step[<<g[s \ {Max(s)}], Max(s)>>]
    BY <1>6
  <2> HIDE DEF D
  <2> QED
    BY <1>7, <2>1
<1> QED
  BY <1>7, <1>8 DEF LeftFolds

\* The last place of so many.
LEMMA LastPlace ==
  ASSUME NEW k \in Nat
  PROVE  Max(1..(k + 1)) = k + 1 /\ (1..(k + 1)) \ {k + 1} = 1..k /\ 1..(k + 1) # {}
<1>1. IsFiniteSet(1..(k + 1)) /\ 1..(k + 1) \subseteq Int /\ k + 1 \in 1..(k + 1)
  BY FS_Interval
<1>2. PICK m : m = Max(1..(k + 1))
  OBVIOUS
<1>3. m \in 1..(k + 1) /\ k + 1 <= m
  <2> 1..(k + 1) # {}
    BY <1>1
  <2> QED
    BY <1>1, <1>2, MaxMin
<1>4. m = k + 1
  BY <1>3
<1> QED
  BY <1>1, <1>2, <1>4

\* A sum adds up one number of each element of a finite set, in whatever order.
LEMMA SumOf ==
  ASSUME NEW S, IsFiniteSet(S), NEW f, \A x \in S : f[x] \in Int
  PROVE  /\ SumFunctionOnSet(f, {}) = 0
         /\ SumFunctionOnSet(f, S) \in Int
         /\ (\A x \in S : f[x] \in Nat) => SumFunctionOnSet(f, S) \in Nat
         /\ \A x \in S : SumFunctionOnSet(f, S) = f[x] + SumFunctionOnSet(f, S \ {x})
<1> DEFINE pick == [s \in SUBSET S |-> CHOOSE x \in s : TRUE]
           step == [p \in Int \X S |-> f[p[2]] + p[1]]
           Rec(g, D) == g = [s \in SUBSET D |->
                               IF s = {} THEN 0
                               ELSE f[CHOOSE x \in s : TRUE] + g[s \ {CHOOSE x \in s : TRUE}]]
<1>1. \A s \in SUBSET S : s # {} => pick[s] \in s
  OBVIOUS
<1>2. \A D \in SUBSET S : IsFiniteSet(D)
  BY FS_Subset
<1>3. \A t \in Int : \A x \in S : step[<<t, x>>] \in Int /\ step[<<t, x>>] = f[x] + t
  OBVIOUS
<1>4. PICK sum : Folds(sum, S, 0, pick, step)
  <2> HIDE DEF pick, step
  <2> QED
    BY <1>1, FoldExists
<1>5. \A s \in SUBSET S : sum[s] \in Int
  <2> HIDE DEF pick, step
  <2> QED
    BY <1>1, <1>3, <1>4, FoldType
<1>6. /\ sum[{}] = 0
      /\ \A s \in SUBSET S : s # {} =>
           sum[s] = f[CHOOSE x \in s : TRUE] + sum[s \ {CHOOSE x \in s : TRUE}]
  <2>1. ASSUME NEW s \in SUBSET S
        PROVE  sum[s] = IF s = {} THEN 0 ELSE step[<<sum[s \ {pick[s]}], pick[s]>>]
    <3> HIDE DEF pick, step
    <3> QED
      BY <1>4 DEF Folds
  <2>2. ASSUME NEW s \in SUBSET S, s # {}
        PROVE  sum[s] = f[CHOOSE x \in s : TRUE] + sum[s \ {CHOOSE x \in s : TRUE}]
    <3>1. pick[s] \in S /\ pick[s] = CHOOSE x \in s : TRUE
      BY <2>2, <1>1
    <3>2. sum[s \ {pick[s]}] \in Int
      BY <1>5
    <3>3. sum[s] = step[<<sum[s \ {pick[s]}], pick[s]>>]
      BY <2>1, <2>2
    <3> HIDE DEF pick, step
    <3>4. sum[s] = f[pick[s]] + sum[s \ {pick[s]}]
      BY <1>3, <3>1, <3>2, <3>3
    <3> QED
      BY <3>1, <3>4
  <2> QED
    BY <2>1, <2>2
<1> HIDE DEF pick, step
\* The library's sum is this one.
<1>7. ASSUME NEW D \in SUBSET S PROVE SumFunctionOnSet(f, D) = sum[D]
  <2>1. \E g : Rec(g, D)
    <3> DEFINE part == [s \in SUBSET D |-> sum[s]]
    <3>1. Rec(part, D)
      <4>1. ASSUME NEW s \in SUBSET D
            PROVE  part[s] = IF s = {} THEN 0
                             ELSE f[CHOOSE x \in s : TRUE] + part[s \ {CHOOSE x \in s : TRUE}]
        BY <1>6
      <4> QED
        BY <4>1
    <3> HIDE DEF part, Rec
    <3> QED
      BY <3>1
  <2>2. PICK g : g = CHOOSE h : Rec(h, D)
    OBVIOUS
  <2>3. Rec(g, D)
    <3> HIDE DEF Rec
    <3> QED
      BY <2>1, <2>2
  <2>4. SumFunctionOnSet(f, D) = g[D]
    BY <2>2 DEF SumFunctionOnSet, FoldFunctionOnSet, MapThenFoldSet
  <2> DEFINE N == {n \in Nat : \A s \in SUBSET D : Cardinality(s) = n => g[s] = sum[s]}
  <2>5. 0 \in N
    <3>1. \A s \in SUBSET D : Cardinality(s) = 0 => s = {}
      BY <1>2, FS_EmptySet
    <3>2. g[{}] = 0
      BY <2>3
    <3> QED
      BY <1>6, <3>1, <3>2
  <2>6. ASSUME NEW n \in Nat, n \in N PROVE n + 1 \in N
    <3> SUFFICES ASSUME NEW s \in SUBSET D, Cardinality(s) = n + 1 PROVE g[s] = sum[s]
      OBVIOUS
    <3>1. s # {} /\ s \in SUBSET S /\ IsFiniteSet(s)
      BY <1>2, FS_EmptySet
    <3>2. PICK c : c = CHOOSE x \in s : TRUE
      OBVIOUS
    <3>3. c \in s
      BY <3>1, <3>2
    <3>4. Cardinality(s \ {c}) = Cardinality(s) - 1
      BY <3>1, <3>3, FS_RemoveElement
    <3>5. g[s \ {c}] = sum[s \ {c}]
      BY <2>6, <3>4
    <3>6. g[s] = f[c] + g[s \ {c}]
      BY <2>3, <3>1, <3>2
    <3>7. sum[s] = f[c] + sum[s \ {c}]
      BY <1>6, <3>1, <3>2
    <3> QED
      BY <3>5, <3>6, <3>7
  <2>7. \A n \in Nat : n \in N
    <3> HIDE DEF N
    <3> QED
      BY <2>5, <2>6, Induction
  <2>8. Cardinality(D) \in N
    <3>1. Cardinality(D) \in Nat
      BY <1>2, FS_CardinalityType
    <3> HIDE DEF N
    <3> QED
      BY <2>7, <3>1
  <2> QED
    BY <2>4, <2>8
\* Any of the elements may be added last.
<1>8. ASSUME NEW D \in SUBSET S, NEW e \in D PROVE sum[D] = f[e] + sum[D \ {e}]
  <2> DEFINE N == {n \in Nat : \A s \in SUBSET D : Cardinality(s) = n =>
                                 \A y \in s : sum[s] = f[y] + sum[s \ {y}]}
  <2>1. 0 \in N
    <3>1. \A s \in SUBSET D : Cardinality(s) = 0 => s = {}
      BY <1>2, FS_EmptySet
    <3> QED
      BY <3>1
  <2>2. ASSUME NEW n \in Nat, n \in N PROVE n + 1 \in N
    <3> SUFFICES ASSUME NEW s \in SUBSET D, Cardinality(s) = n + 1, NEW y \in s
                 PROVE  sum[s] = f[y] + sum[s \ {y}]
      OBVIOUS
    <3>1. s # {} /\ s \in SUBSET S /\ IsFiniteSet(s)
      BY <1>2
    <3>2. PICK c : c = CHOOSE x \in s : TRUE
      OBVIOUS
    <3>3. c \in s /\ sum[s] = f[c] + sum[s \ {c}]
      BY <1>6, <3>1, <3>2
    <3>4. CASE c = y
      BY <3>3, <3>4
    <3>5. CASE c # y
      <4>1. Cardinality(s \ {c}) = n /\ Cardinality(s \ {y}) = n
        <5>1. Cardinality(s \ {c}) = Cardinality(s) - 1 /\ Cardinality(s \ {y}) = Cardinality(s) - 1
          BY <3>1, <3>3, FS_RemoveElement
        <5> QED
          BY <5>1
      <4>2. PICK rest \in SUBSET S : rest = (s \ {c}) \ {y} /\ rest = (s \ {y}) \ {c}
        OBVIOUS
      <4>3. sum[s \ {c}] = f[y] + sum[rest]
        <5>1. sum[s \ {c}] = f[y] + sum[(s \ {c}) \ {y}]
          BY <2>2, <3>5, <4>1
        <5> QED
          BY <4>2, <5>1, Zenon
      <4>4. sum[s \ {y}] = f[c] + sum[rest]
        <5>1. sum[s \ {y}] = f[c] + sum[(s \ {y}) \ {c}]
          BY <2>2, <3>3, <3>5, <4>1
        <5> QED
          BY <4>2, <5>1, Zenon
      <4>5. f[c] \in Int /\ f[y] \in Int /\ sum[rest] \in Int
        BY <1>5, <3>3
      <4> QED
        BY <3>3, <4>3, <4>4, <4>5
    <3> QED
      BY <3>4, <3>5
  <2>3. \A n \in Nat : n \in N
    <3> HIDE DEF N
    <3> QED
      BY <2>1, <2>2, Induction
  <2>4. Cardinality(D) \in N
    <3>1. Cardinality(D) \in Nat
      BY <1>2, FS_CardinalityType
    <3> HIDE DEF N
    <3> QED
      BY <2>3, <3>1
  <2> QED
    BY <2>4
<1>9. (\A x \in S : f[x] \in Nat) => sum[S] \in Nat
  <2> SUFFICES ASSUME \A x \in S : f[x] \in Nat PROVE sum[S] \in Nat
    OBVIOUS
  <2> DEFINE family == {s \in SUBSET S : sum[s] \in Nat}
  <2>1. {} \in family
    BY <1>6
  <2>2. ASSUME NEW s \in SUBSET S, NEW x \in S \ s, s \in family PROVE s \cup {x} \in family
    <3>1. sum[s \cup {x}] = f[x] + sum[(s \cup {x}) \ {x}]
      BY <1>8
    <3>2. (s \cup {x}) \ {x} = s
      OBVIOUS
    <3> QED
      BY <2>2, <3>1, <3>2
  <2>3. S \in family
    <3> HIDE DEF family
    <3> QED
      BY <2>1, <2>2, FiniteInduction
  <2> QED
    BY <2>3
<1>10. \A x \in S : SumFunctionOnSet(f, S) = f[x] + SumFunctionOnSet(f, S \ {x})
  BY <1>7, <1>8
<1> QED
  BY <1>5, <1>6, <1>7, <1>9, <1>10

\* What comes of so many steps, from nothing but the one before.
Iterates(f, n, base, step) == f = [d \in 0..n |-> IF d = 0 THEN base ELSE step[f[d - 1]]]

\* There is such a function.
LEMMA IterationExists ==
  ASSUME NEW n \in Nat, NEW base, NEW step
  PROVE  \E f : Iterates(f, n, base, step)
<1> DEFINE N == {k \in Nat : \E f : Iterates(f, k, base, step)}
<1>1. 0 \in N
  <2> DEFINE f == [d \in 0..0 |-> base]
  <2>1. f = [d \in 0..0 |-> IF d = 0 THEN base ELSE step[f[d - 1]]]
    OBVIOUS
  <2> HIDE DEF f
  <2> QED
    BY <2>1 DEF Iterates
<1>2. ASSUME NEW k \in Nat, k \in N PROVE k + 1 \in N
  <2>1. PICK f : Iterates(f, k, base, step)
    BY <1>2
  <2> DEFINE more == [d \in 0..(k + 1) |-> IF d = 0 THEN base ELSE step[f[d - 1]]]
  <2>2. \A d \in 0..k : more[d] = f[d]
    BY <2>1 DEF Iterates
  <2>3. \A d \in 0..(k + 1) : d # 0 => d - 1 \in 0..k
    OBVIOUS
  <2>4. more = [d \in 0..(k + 1) |-> IF d = 0 THEN base ELSE step[more[d - 1]]]
    <3>1. \A d \in 0..(k + 1) : more[d] = IF d = 0 THEN base ELSE step[more[d - 1]]
      BY <2>2, <2>3
    <3> QED
      BY <3>1
  <2> HIDE DEF more
  <2>5. Iterates(more, k + 1, base, step)
    BY <2>4 DEF Iterates
  <2> QED
    BY <2>5
<1> HIDE DEF N
<1>3. n \in N
  BY <1>1, <1>2, Induction
<1> QED
  BY <1>3 DEF N

-----------------------------------------------------------------------------
(* Sequences of sequences *)

\* A sequence lists its elements.
Listed(s) == s = [i \in 1..Len(s) |-> s[i]] /\ Len(s) \in Nat

\* Every sequence does.
LEMMA ListedSeq ==
  ASSUME NEW S, NEW s \in Seq(S)
  PROVE  Listed(s)
  BY DEF Listed

\* A flattened sequence is what comes of appending one after the other.
LEMMA FlattenRun ==
  ASSUME NEW S, NEW seqs \in Seq(Seq(S)), Len(seqs) # 0
  PROVE  \E flat \in [1..Len(seqs) -> Seq(S)] :
           /\ flat[1] = seqs[1]
           /\ \A i \in 2..Len(seqs) : flat[i] = flat[i - 1] \o seqs[i]
           /\ FlattenSeq(seqs) = flat[Len(seqs)]
<1> DEFINE n == Len(seqs)
           Rec(f, k) == f = [i \in 1..k |-> IF i = 1 THEN seqs[i] ELSE f[i - 1] \o seqs[i]]
           N == {k \in Nat : k \in 1..n => \E f : Rec(f, k)}
<1>1. n \in Nat /\ n >= 1 /\ \A i \in 1..n : seqs[i] \in Seq(S)
  BY LenProperties
<1> HIDE DEF n
<1>2. 0 \in N
  OBVIOUS
<1>3. ASSUME NEW k \in Nat, k \in N, k + 1 \in 1..n PROVE \E f : Rec(f, k + 1)
  <2>1. CASE k = 0
    <3> DEFINE f == [i \in 1..1 |-> seqs[i]]
    <3>1. Rec(f, k + 1)
      <4>1. \A i \in 1..1 : f[i] = IF i = 1 THEN seqs[i] ELSE f[i - 1] \o seqs[i]
        OBVIOUS
      <4> QED
        BY <2>1, <4>1
    <3> HIDE DEF f, Rec
    <3> QED
      BY <3>1
  <2>2. CASE k # 0
    <3>1. PICK f : Rec(f, k)
      <4> HIDE DEF Rec
      <4> QED
        BY <1>1, <1>3, <2>2
    <3> DEFINE more == [i \in 1..(k + 1) |-> IF i = 1 THEN seqs[i] ELSE f[i - 1] \o seqs[i]]
    <3>2. \A i \in 1..k : f[i] = IF i = 1 THEN seqs[i] ELSE f[i - 1] \o seqs[i]
      BY <3>1
    <3>3. \A i \in 1..k : more[i] = f[i]
      BY <3>2
    <3>4. Rec(more, k + 1)
      <4>1. ASSUME NEW i \in 1..(k + 1)
            PROVE  more[i] = IF i = 1 THEN seqs[i] ELSE more[i - 1] \o seqs[i]
        <5>1. CASE i = 1
          BY <5>1
        <5>2. CASE i # 1
          <6>1. i - 1 \in 1..k
            BY <5>2
          <6>2. more[i] = f[i - 1] \o seqs[i]
            BY <5>2
          <6> QED
            BY <3>3, <5>2, <6>1, <6>2
        <5> QED
          BY <5>1, <5>2
      <4> QED
        BY <4>1
    <3> HIDE DEF more, Rec
    <3> QED
      BY <3>4
  <2> QED
    BY <2>1, <2>2
<1>4. n \in N
  <2>1. \A k \in Nat : k \in N => k + 1 \in N
    <3> HIDE DEF Rec
    <3> QED
      BY <1>3
  <2> HIDE DEF N
  <2> QED
    BY <1>1, <1>2, <2>1, Induction
<1>5. \E f : Rec(f, n)
  <2> HIDE DEF Rec
  <2> QED
    BY <1>1, <1>4
<1>6. PICK flat : flat = CHOOSE f : Rec(f, n)
  OBVIOUS
<1>7. Rec(flat, n)
  <2> HIDE DEF Rec
  <2> QED
    BY <1>5, <1>6
<1>8. FlattenSeq(seqs) = flat[n]
  BY <1>6 DEF FlattenSeq, n
<1>9. flat[1] = seqs[1] /\ \A i \in 2..n : flat[i] = flat[i - 1] \o seqs[i]
  <2>1. \A i \in 1..n : flat[i] = IF i = 1 THEN seqs[i] ELSE flat[i - 1] \o seqs[i]
    BY <1>7
  <2>2. flat[1] = seqs[1]
    <3>1. 1 \in 1..n
      BY <1>1
    <3> QED
      BY <2>1, <3>1
  <2>3. ASSUME NEW i \in 2..n PROVE flat[i] = flat[i - 1] \o seqs[i]
    <3>1. i \in 1..n /\ i # 1
      BY <1>1
    <3> QED
      BY <2>1, <3>1, Zenon
  <2> QED
    BY <2>2, <2>3
<1>10. \A i \in 1..n : flat[i] \in Seq(S)
  <2> DEFINE M == {k \in Nat : k \in 1..n => flat[k] \in Seq(S)}
  <2>1. 0 \in M
    OBVIOUS
  <2>2. ASSUME NEW k \in Nat, k \in M PROVE k + 1 \in M
    <3> SUFFICES ASSUME k + 1 \in 1..n PROVE flat[k + 1] \in Seq(S)
      OBVIOUS
    <3>1. CASE k = 0
      BY <1>1, <1>9, <3>1
    <3>2. CASE k # 0
      <4>1. flat[k + 1] = flat[k] \o seqs[k + 1]
        <5>1. k + 1 \in 2..n /\ (k + 1) - 1 = k
          BY <1>1, <3>2
        <5> QED
          BY <1>9, <5>1
      <4>2. flat[k] \in Seq(S) /\ seqs[k + 1] \in Seq(S)
        BY <1>1, <2>2, <3>2
      <4> HIDE DEF M
      <4> QED
        BY <4>1, <4>2, ConcatProperties
    <3> QED
      BY <3>1, <3>2
  <2>3. \A k \in Nat : k \in M
    <3> HIDE DEF M
    <3> QED
      BY <2>1, <2>2, Induction
  <2> QED
    BY <2>3
<1>11. flat \in [1..n -> Seq(S)]
  BY <1>7, <1>10
<1> QED
  BY <1>8, <1>9, <1>11 DEF n

\* Where each of n sequences begins when they are put one after the other.
Offsets(before, seqs) ==
  /\ before \in [1..(Len(seqs) + 1) -> Nat]
  /\ before[1] = 0
  /\ \A i \in 1..Len(seqs) : before[i + 1] = before[i] + Len(seqs[i])

\* That is behind as many places as those before it have in all.
LEMMA OffsetsAreSums ==
  ASSUME NEW S, NEW seqs \in Seq(Seq(S)), NEW lens,
         \A i \in 1..Len(seqs) : lens[i] = Len(seqs[i])
  PROVE  Offsets([i \in 1..(Len(seqs) + 1) |-> SumFunctionOnSet(lens, 1..(i - 1))], seqs)
<1> DEFINE n == Len(seqs)
           before == [i \in 1..(n + 1) |-> SumFunctionOnSet(lens, 1..(i - 1))]
<1>1. n \in Nat /\ \A i \in 1..n : seqs[i] \in Seq(S)
  BY LenProperties
<1>2. \A i \in 1..n : lens[i] \in Nat
  BY <1>1, LenProperties
<1> HIDE DEF n
<1>3. ASSUME NEW k \in 0..n
      PROVE  /\ SumFunctionOnSet(lens, 1..k) \in Nat
             /\ \A x \in 1..k : SumFunctionOnSet(lens, 1..k)
                                 = lens[x] + SumFunctionOnSet(lens, (1..k) \ {x})
  <2>1. k \in Nat
    BY <1>1
  <2>2. IsFiniteSet(1..k)
    BY <2>1, FS_Interval
  <2>3. \A x \in 1..k : lens[x] \in Nat /\ lens[x] \in Int
    BY <1>1, <1>2
  <2> QED
    BY <2>2, <2>3, SumOf
<1>4. before \in [1..(n + 1) -> Nat]
  <2>1. ASSUME NEW i \in 1..(n + 1) PROVE SumFunctionOnSet(lens, 1..(i - 1)) \in Nat
    <3>1. i - 1 \in 0..n
      BY <1>1
    <3> QED
      BY <1>3, <3>1
  <2> QED
    BY <2>1
<1>5. before[1] = 0
  <2>1. before[1] = SumFunctionOnSet(lens, 1..(1 - 1))
    BY <1>1
  <2>2. 1..(1 - 1) = {}
    OBVIOUS
  <2>3. SumFunctionOnSet(lens, {}) = 0
    BY FS_EmptySet, SumOf
  <2> QED
    BY <2>1, <2>2, <2>3, Zenon
<1>6. ASSUME NEW i \in 1..n PROVE before[i + 1] = before[i] + Len(seqs[i])
  <2>1. i \in Nat /\ i \in 0..n /\ i \in 1..i
    BY <1>1
  <2>2. (1..i) \ {i} = 1..(i - 1) /\ (i + 1) - 1 = i
    BY <2>1
  <2>3. before[i + 1] = SumFunctionOnSet(lens, 1..i)
    <3>1. i + 1 \in 1..(n + 1)
      BY <1>1
    <3>2. before[i + 1] = SumFunctionOnSet(lens, 1..((i + 1) - 1))
      BY <3>1
    <3> QED
      BY <2>2, <3>2, Zenon
  <2>4. before[i] = SumFunctionOnSet(lens, 1..(i - 1)) /\ before[i] \in Nat
    <3>1. i \in 1..(n + 1)
      BY <1>1
    <3> QED
      BY <1>4, <3>1
  <2>5. SumFunctionOnSet(lens, 1..i) = lens[i] + SumFunctionOnSet(lens, (1..i) \ {i})
    BY <1>3, <2>1
  <2>6. SumFunctionOnSet(lens, (1..i) \ {i}) = before[i]
    BY <2>2, <2>4, Zenon
  <2>7. lens[i] = Len(seqs[i]) /\ lens[i] \in Nat
    BY <1>2 DEF n
  <2> HIDE DEF before
  <2> QED
    BY <2>3, <2>4, <2>5, <2>6, <2>7
<1>7. Offsets(before, seqs)
  BY <1>4, <1>5, <1>6 DEF Offsets, n
<1> QED
  BY <1>7 DEF n

\* A place before the end of the last is in one of them.
LEMMA OffsetsCover ==
  ASSUME NEW S, NEW seqs \in Seq(Seq(S)), NEW before, Offsets(before, seqs),
         NEW p \in 1..before[Len(seqs) + 1]
  PROVE  \E i \in 1..Len(seqs) : \E k \in 1..Len(seqs[i]) : p = before[i] + k
<1> DEFINE n == Len(seqs)
           T == {i \in 1..(n + 1) : p <= before[i]}
<1>1. n \in Nat
  BY LenProperties
<1>2. n + 1 \in T
  BY <1>1 DEF Offsets
<1>3. PICK i \in T : \A j \in T : i <= j
  <2>1. T \in SUBSET Nat
    BY <1>1
  <2> HIDE DEF T
  <2> QED
    BY <1>2, <2>1, LeastNatural
<1>4. i \in 1..(n + 1) /\ p <= before[i] /\ before[1] = 0
  BY <1>3 DEF Offsets
<1>5. i # 1 /\ i - 1 \in 1..n /\ i - 1 \notin T
  BY <1>1, <1>3, <1>4
<1>6. before[i - 1] < p /\ before[i - 1] \in Nat
  <2>1. i - 1 \in 1..(n + 1) /\ n + 1 \in 1..(n + 1)
    BY <1>1, <1>5
  <2>2. before[i - 1] \in Nat /\ before[n + 1] \in Nat
    BY <2>1 DEF Offsets
  <2>3. p \in Nat
    BY <2>2
  <2> QED
    BY <1>5, <2>1, <2>2, <2>3
<1>7. seqs[i - 1] \in Seq(S)
  BY <1>5
<1>8. before[i] = before[i - 1] + Len(seqs[i - 1]) /\ Len(seqs[i - 1]) \in Nat
  <2>1. before[(i - 1) + 1] = before[i - 1] + Len(seqs[i - 1])
    BY <1>5 DEF Offsets
  <2> QED
    BY <1>4, <1>7, <2>1, LenProperties
<1>9. p - before[i - 1] \in 1..Len(seqs[i - 1]) /\ p = before[i - 1] + (p - before[i - 1])
  BY <1>4, <1>6, <1>8
<1> QED
  BY <1>5, <1>9

\* What is where in one sequence after another.
LEMMA ConcatPlaces ==
  ASSUME NEW S, NEW s \in Seq(S), NEW t \in Seq(S)
  PROVE  /\ \A p \in 1..Len(s) : p \in 1..Len(s \o t) /\ (s \o t)[p] = s[p]
         /\ \A k \in 1..Len(t) : /\ Len(s) + k \in 1..Len(s \o t)
                                  /\ (s \o t)[Len(s) + k] = t[k]
<1>1. Len(s) \in Nat /\ Len(t) \in Nat /\ Len(s \o t) = Len(s) + Len(t)
  BY LenProperties, ConcatProperties
<1>2. \A i \in 1..(Len(s) + Len(t)) : (s \o t)[i] = IF i <= Len(s) THEN s[i] ELSE t[i - Len(s)]
  BY ConcatProperties
<1>3. ASSUME NEW p \in 1..Len(s) PROVE p \in 1..Len(s \o t) /\ (s \o t)[p] = s[p]
  BY <1>1, <1>2
<1>4. ASSUME NEW k \in 1..Len(t)
      PROVE  Len(s) + k \in 1..Len(s \o t) /\ (s \o t)[Len(s) + k] = t[k]
  <2>1. /\ Len(s) + k \in 1..(Len(s) + Len(t)) /\ ~(Len(s) + k <= Len(s))
        /\ (Len(s) + k) - Len(s) = k
    BY <1>1
  <2> QED
    BY <1>2, <2>1
<1> QED
  BY <1>3, <1>4

\* Flattened, each of them is where it begins.
LEMMA FlattenSlices ==
  ASSUME NEW S, NEW seqs \in Seq(Seq(S)), NEW before, Offsets(before, seqs)
  PROVE  /\ FlattenSeq(seqs) \in Seq(S)
         /\ Len(FlattenSeq(seqs)) = before[Len(seqs) + 1]
         /\ \A i \in 1..Len(seqs) : \A k \in 1..Len(seqs[i]) :
              /\ before[i] + k \in 1..Len(FlattenSeq(seqs))
              /\ FlattenSeq(seqs)[before[i] + k] = seqs[i][k]
<1> DEFINE n == Len(seqs)
<1>1. n \in Nat /\ \A i \in 1..n : seqs[i] \in Seq(S) /\ Len(seqs[i]) \in Nat
  BY LenProperties
<1>2. /\ before[1] = 0
      /\ \A i \in 1..(n + 1) : before[i] \in Nat
      /\ \A i \in 1..n : before[i + 1] = before[i] + Len(seqs[i])
  BY DEF Offsets
<1>3. CASE n = 0
  <2>1. seqs = <<>>
    BY <1>3, EmptySeq
  <2>2. FlattenSeq(<<>>) = <<>>
    <3> DEFINE Rec(f) == f = [i \in {} |-> IF i = 1 THEN <<>>[i] ELSE f[i - 1] \o <<>>[i]]
    <3> QED
      BY DEF FlattenSeq
  <2>3. before[Len(seqs) + 1] = 0 /\ 1..Len(seqs) = {}
    BY <1>2, <1>3
  <2>4. <<>> \in Seq(S) /\ Len(<<>>) = 0
    BY EmptySeq
  <2> QED
    BY <2>1, <2>2, <2>3, <2>4
<1>4. CASE n # 0
  <2> HIDE DEF n
  <2>1. PICK flat \in [1..n -> Seq(S)] :
           /\ flat[1] = seqs[1]
           /\ \A i \in 2..n : flat[i] = flat[i - 1] \o seqs[i]
           /\ FlattenSeq(seqs) = flat[n]
    BY <1>4, FlattenRun DEF n
  <2> DEFINE Holds(j) == /\ Len(flat[j]) = before[j + 1]
                         /\ \A i \in 1..j : \A k \in 1..Len(seqs[i]) :
                              /\ before[i] + k \in 1..Len(flat[j])
                              /\ flat[j][before[i] + k] = seqs[i][k]
             N == {j \in Nat : j \in 1..n => Holds(j)}
  <2>2. 0 \in N
    OBVIOUS
  <2>3. ASSUME NEW j \in Nat, j \in N, j + 1 \in 1..n PROVE Holds(j + 1)
    <3>1. CASE j = 0
      <4>1. flat[1] = seqs[1] /\ before[1] = 0 /\ before[2] = Len(seqs[1]) /\ Len(seqs[1]) \in Nat
        <5>1. 1 \in 1..n /\ 1 + 1 = 2
          BY <2>3, <3>1
        <5> QED
          BY <1>1, <1>2, <2>1, <5>1
      <4> QED
        BY <3>1, <4>1
    <3>2. CASE j # 0
      <4>1. j \in 1..n /\ Holds(j) /\ j + 1 \in 2..n /\ (j + 1) - 1 = j
        <5>1. j \in 1..n /\ j + 1 \in 2..n /\ (j + 1) - 1 = j
          BY <1>1, <2>3, <3>2
        <5> HIDE DEF Holds
        <5> QED
          BY <2>3, <5>1
      <4>2. flat[j + 1] = flat[j] \o seqs[j + 1]
        BY <2>1, <4>1
      <4>3. flat[j] \in Seq(S) /\ seqs[j + 1] \in Seq(S)
        BY <1>1, <2>3, <4>1
      <4>4. /\ Len(flat[j + 1]) = Len(flat[j]) + Len(seqs[j + 1])
            /\ Len(flat[j]) \in Nat /\ Len(seqs[j + 1]) \in Nat
        BY <4>2, <4>3, ConcatProperties, LenProperties
      <4>5. /\ \A p \in 1..Len(flat[j]) : p \in 1..Len(flat[j + 1]) /\ flat[j + 1][p] = flat[j][p]
            /\ \A k \in 1..Len(seqs[j + 1]) : /\ Len(flat[j]) + k \in 1..Len(flat[j + 1])
                                               /\ flat[j + 1][Len(flat[j]) + k] = seqs[j + 1][k]
        <5>1. \A s, t \in Seq(S) :
                /\ \A p \in 1..Len(s) : p \in 1..Len(s \o t) /\ (s \o t)[p] = s[p]
                /\ \A k \in 1..Len(t) : /\ Len(s) + k \in 1..Len(s \o t)
                                         /\ (s \o t)[Len(s) + k] = t[k]
          BY ConcatPlaces
        <5> HIDE DEF Holds, N
        <5>2. PICK s \in Seq(S), t \in Seq(S) : s = flat[j] /\ t = seqs[j + 1]
          BY <4>3
        <5>3. flat[j + 1] = s \o t
          BY <4>2, <5>2, Zenon
        <5>4. /\ \A p \in 1..Len(s) : p \in 1..Len(flat[j + 1]) /\ flat[j + 1][p] = s[p]
              /\ \A k \in 1..Len(t) : /\ Len(s) + k \in 1..Len(flat[j + 1])
                                       /\ flat[j + 1][Len(s) + k] = t[k]
          <6>1. /\ \A p \in 1..Len(s) : p \in 1..Len(s \o t) /\ (s \o t)[p] = s[p]
                /\ \A k \in 1..Len(t) : /\ Len(s) + k \in 1..Len(s \o t)
                                         /\ (s \o t)[Len(s) + k] = t[k]
            BY <5>1, Zenon
          <6> QED
            BY <5>3, <6>1
        <5> QED
          BY <5>2, <5>4, Zenon
      <4>6. Len(flat[j + 1]) = before[(j + 1) + 1]
        BY <1>2, <2>3, <4>1, <4>4
      <4>7. ASSUME NEW i \in 1..(j + 1), NEW k \in 1..Len(seqs[i])
            PROVE  /\ before[i] + k \in 1..Len(flat[j + 1])
                   /\ flat[j + 1][before[i] + k] = seqs[i][k]
        <5>1. CASE i \in 1..j
          <6>1. before[i] + k \in 1..Len(flat[j]) /\ flat[j][before[i] + k] = seqs[i][k]
            BY <4>1, <5>1
          <6> HIDE DEF Holds, N
          <6> QED
            BY <4>5, <6>1, Zenon
        <5>2. CASE i = j + 1
          <6>1. before[i] = Len(flat[j]) /\ k \in 1..Len(seqs[j + 1])
            BY <4>1, <5>2
          <6> HIDE DEF Holds, N
          <6> QED
            BY <4>5, <5>2, <6>1, Zenon
        <5> QED
          BY <5>1, <5>2
      <4> QED
        BY <4>6, <4>7
    <3> QED
      BY <3>1, <3>2
  <2>4. n \in N
    <3>1. \A j \in Nat : j \in N => j + 1 \in N
      <4> HIDE DEF Holds
      <4> QED
        BY <2>3
    <3> HIDE DEF N
    <3> QED
      BY <1>1, <2>2, <3>1, Induction
  <2>5. Holds(n) /\ n \in 1..n /\ flat[n] \in Seq(S)
    <3>1. n \in 1..n
      BY <1>1, <1>4
    <3> HIDE DEF Holds
    <3> QED
      BY <2>4, <3>1
  <2> QED
    BY <2>1, <2>5 DEF n
<1> QED
  BY <1>3, <1>4

\* Slices of a sequence that leave nothing out make it up again.
LEMMA FlattenOfSlices ==
  ASSUME NEW S, NEW seqs \in Seq(Seq(S)), NEW before, Offsets(before, seqs),
         NEW whole \in Seq(S), Len(whole) = before[Len(seqs) + 1],
         \A i \in 1..Len(seqs) : \A k \in 1..Len(seqs[i]) : seqs[i][k] = whole[before[i] + k]
  PROVE  FlattenSeq(seqs) = whole
<1>0. \A p \in 1..before[Len(seqs) + 1] :
        \E i \in 1..Len(seqs) : \E k \in 1..Len(seqs[i]) : p = before[i] + k
  <2> SUFFICES ASSUME NEW p \in 1..before[Len(seqs) + 1]
               PROVE  \E i \in 1..Len(seqs) : \E k \in 1..Len(seqs[i]) : p = before[i] + k
    OBVIOUS
  <2> QED
    BY OffsetsCover
<1>1. PICK flat \in Seq(S) :
        /\ flat = FlattenSeq(seqs)
        /\ Len(flat) = before[Len(seqs) + 1]
        /\ \A i \in 1..Len(seqs) : \A k \in 1..Len(seqs[i]) : flat[before[i] + k] = seqs[i][k]
  BY FlattenSlices
<1>2. ASSUME NEW p \in 1..Len(flat) PROVE flat[p] = whole[p]
  <2>1. PICK i \in 1..Len(seqs) : \E k \in 1..Len(seqs[i]) : p = before[i] + k
    <3>1. p \in 1..before[Len(seqs) + 1]
      BY <1>1
    <3> QED
      BY <1>0, <3>1
  <2>2. PICK k \in 1..Len(seqs[i]) : p = before[i] + k
    BY <2>1
  <2> QED
    BY <1>1, <2>2
<1>3. flat = whole
  BY <1>1, <1>2, SeqEqual
<1> QED
  BY <1>1, <1>3

-----------------------------------------------------------------------------
(* Picking and sorting *)

\* What is picked of a sequence are its elements at the places, all of them.
LEMMA PickedElements ==
  ASSUME NEW S, NEW s \in Seq(S), NEW places \in SUBSET DOMAIN s
  PROVE  /\ Picked(s, places) \in Seq(S)
         /\ \A p \in DOMAIN Picked(s, places) : \E i \in places : Picked(s, places)[p] = s[i]
         /\ \A i \in places : \E p \in DOMAIN Picked(s, places) : Picked(s, places)[p] = s[i]
<1> DEFINE order == {q \in places \X places : q[1] < q[2]}
           n == Cardinality(places)
<1>1. DOMAIN s = 1..Len(s) /\ Len(s) \in Nat /\ \A i \in 1..Len(s) : s[i] \in S
  BY LenProperties
<1>2. IsFiniteSet(places) /\ places \in SUBSET Nat
  <2>1. IsFiniteSet(1..Len(s))
    BY <1>1, FS_Interval
  <2>2. places \in SUBSET (1..Len(s))
    BY <1>1
  <2> QED
    BY <2>1, <2>2, FS_Subset
<1>3. n \in Nat
  BY <1>2, FS_CardinalityType
<1>4. ASSUME NEW i \in places
      PROVE  UpTo(places, order, i) = {j \in places : j <= i}
  BY <1>2 DEF UpTo
<1>5. /\ \A i \in places : Cardinality(UpTo(places, order, i)) \in 1..n
      /\ \A p \in 1..n : \E i \in places : Cardinality(UpTo(places, order, i)) = p
      /\ \A i, j \in places : <<i, j>> \in order
           => Cardinality(UpTo(places, order, i)) < Cardinality(UpTo(places, order, j))
  <2>1. /\ \A i \in places : <<i, i>> \notin order
        /\ \A i, j \in places : i # j => <<i, j>> \in order \/ <<j, i>> \in order
        /\ \A i, j, k \in places : <<i, j>> \in order /\ <<j, k>> \in order => <<i, k>> \in order
    BY <1>2
  <2> HIDE DEF order
  <2> QED
    BY <1>2, <2>1, PlacesTaken
<1> DEFINE Place(i) == Cardinality({j \in places : j <= i})
<1>6. ASSUME NEW i \in places PROVE Place(i) = Cardinality(UpTo(places, order, i))
  <2> HIDE DEF order
  <2> QED
    BY <1>4, Zenon
<1>7. /\ \A i \in places : Place(i) \in 1..n
      /\ \A p \in 1..n : \E i \in places : Place(i) = p
      /\ \A i, j \in places : i < j => Place(i) < Place(j)
  <2>1. \A i, j \in places : i < j => <<i, j>> \in order
    OBVIOUS
  <2> HIDE DEF order, Place, n
  <2> QED
    BY <1>5, <1>6, <2>1
<1>8. Picked(s, places) = [p \in 1..n |-> s[CHOOSE i \in places : Place(i) = p]]
  BY DEF Picked
<1> HIDE DEF order, Place, n
<1>9. ASSUME NEW p \in 1..n
      PROVE  (CHOOSE i \in places : Place(i) = p) \in places
             /\ Place(CHOOSE i \in places : Place(i) = p) = p
  BY <1>7
<1>10. ASSUME NEW p \in 1..n PROVE \E i \in places : Picked(s, places)[p] = s[i] /\ Place(i) = p
  BY <1>8, <1>9
<1>11. DOMAIN Picked(s, places) = 1..n /\ \A p \in 1..n : Picked(s, places)[p] \in S
  <2>1. DOMAIN Picked(s, places) = 1..n
    BY <1>8
  <2> QED
    BY <1>1, <1>10, <2>1
<1>12. Picked(s, places) \in Seq(S)
  <2>1. Picked(s, places) \in [1..n -> S]
    BY <1>8, <1>11
  <2> QED
    BY <1>3, <2>1
<1>13. ASSUME NEW i \in places PROVE \E p \in 1..n : Picked(s, places)[p] = s[i]
  <2>1. Place(i) \in 1..n
    BY <1>7
  <2>2. PICK j \in places : Picked(s, places)[Place(i)] = s[j] /\ Place(j) = Place(i)
    BY <1>10, <2>1
  <2>3. Place(i) \in Int /\ i \in Nat /\ j \in Nat
    BY <1>2, <2>1
  <2>4. i = j
    BY <1>2, <1>7, <2>2, <2>3
  <2> QED
    BY <2>1, <2>2, <2>4
<1> QED
  BY <1>10, <1>11, <1>12, <1>13

-----------------------------------------------------------------------------
(* Lists *)

\* A function of the places 1 to n is a list.
LEMMA MadeListed ==
  ASSUME NEW n \in Nat, NEW f, DOMAIN f = 1..n, f = [i \in DOMAIN f |-> f[i]]
  PROVE  Listed(f) /\ Len(f) = n
<1>1. PICK S : S = {f[i] : i \in 1..n}
  OBVIOUS
<1>2. f \in [1..n -> S]
  BY <1>1
<1>3. f \in Seq(S) /\ Len(f) = n
  BY <1>2, SeqOfFunction
<1> QED
  BY <1>3, ListedSeq

\* A list is a sequence of its elements.
LEMMA ListedIsSeq ==
  ASSUME NEW f, Listed(f), NEW S, \A i \in 1..Len(f) : f[i] \in S
  PROVE  f \in Seq(S) /\ DOMAIN f = 1..Len(f) /\ Len(f) \in Nat
<1>1. PICK n \in Nat : n = Len(f) /\ f = [i \in 1..n |-> f[i]]
  BY DEF Listed
<1>2. f \in [1..n -> S]
  BY <1>1
<1>3. DOMAIN f = 1..n
  BY <1>1
<1> QED
  BY <1>1, <1>2, <1>3, SeqOfFunction

\* Two lists in a row.
LEMMA ListedInARow ==
  ASSUME NEW f, Listed(f), NEW g, Listed(g)
  PROVE  /\ Listed(f \o g) /\ Len(f \o g) = Len(f) + Len(g)
         /\ \A k \in DOMAIN (f \o g) :
              \/ k \in DOMAIN f /\ (f \o g)[k] = f[k]
              \/ \E j \in DOMAIN g : (f \o g)[k] = g[j]
<1>1. PICK S : S = {f[i] : i \in 1..Len(f)} \cup {g[i] : i \in 1..Len(g)}
  OBVIOUS
<1>2. /\ f \in Seq(S) /\ DOMAIN f = 1..Len(f) /\ Len(f) \in Nat
      /\ g \in Seq(S) /\ DOMAIN g = 1..Len(g) /\ Len(g) \in Nat
  BY <1>1, ListedIsSeq
<1>3. f \o g \in Seq(S) /\ Len(f \o g) = Len(f) + Len(g)
  BY <1>2
<1>4. DOMAIN (f \o g) = 1..(Len(f) + Len(g))
  BY <1>3, LenProperties
<1>5. ASSUME NEW k \in 1..(Len(f) + Len(g))
      PROVE  \/ k \in DOMAIN f /\ (f \o g)[k] = f[k]
             \/ \E j \in DOMAIN g : (f \o g)[k] = g[j]
  <2>1. CASE k <= Len(f)
    BY <1>2, <2>1, ConcatPlaces
  <2>2. CASE k > Len(f)
    <3>1. PICK j : j = k - Len(f)
      OBVIOUS
    <3>2. j \in 1..Len(g) /\ k = Len(f) + j
      BY <1>2, <2>2, <3>1
    <3>3. (f \o g)[Len(f) + j] = g[j]
      BY <1>2, <3>2, ConcatPlaces
    <3> QED
      BY <1>2, <3>2, <3>3
  <2> QED
    BY <1>2, <2>1, <2>2
<1> QED
  BY <1>3, <1>4, <1>5, ListedSeq

\* An empty list is a list.
LEMMA NothingListed == Listed(<<>>) /\ Len(<<>>) = 0 /\ DOMAIN <<>> = {}
<1>1. PICK s : s = <<>>
  OBVIOUS
<1>2. Listed(s)
  <2>1. s \in Seq({})
    BY <1>1
  <2> QED
    BY <2>1, ListedSeq
<1>3. Len(<<>>) = 0 /\ DOMAIN <<>> = {}
  OBVIOUS
<1> QED
  BY <1>1, <1>2, <1>3

\* A list that is not the empty one has a length.
LEMMA ListedNonempty ==
  ASSUME NEW s, Listed(s), s # <<>>
  PROVE  Len(s) \in Nat \ {0}
<1>1. Len(s) \in Nat /\ s = [i \in 1..Len(s) |-> s[i]]
  BY DEF Listed
<1>2. ASSUME Len(s) = 0 PROVE FALSE
  <2>1. s = [i \in {} |-> s[i]]
    BY <1>1, <1>2
  <2>2. s = <<>>
    BY <2>1
  <2> QED
    BY <2>2
<1> QED
  BY <1>1, <1>2

\* A list with something after it.
LEMMA ListedAppend ==
  ASSUME NEW f, Listed(f), NEW x
  PROVE  /\ Listed(Append(f, x))
         /\ \A r \in DOMAIN Append(f, x) :
              \/ r \in DOMAIN f /\ Append(f, x)[r] = f[r]
              \/ Append(f, x)[r] = x
<1>1. PICK S : S = {f[r] : r \in 1..Len(f)} \cup {x}
  OBVIOUS
<1>2. f \in Seq(S) /\ x \in S /\ DOMAIN f = 1..Len(f) /\ Len(f) \in Nat
  BY <1>1, ListedIsSeq
<1>3. /\ Append(f, x) \in Seq(S) /\ Len(Append(f, x)) = Len(f) + 1
      /\ \A r \in 1..Len(f) : Append(f, x)[r] = f[r]
      /\ Append(f, x)[Len(f) + 1] = x
  BY <1>2, AppendProperties
<1>4. DOMAIN Append(f, x) = 1..(Len(f) + 1)
  BY <1>3, LenProperties
<1>5. Listed(Append(f, x))
  BY <1>3, ListedSeq
<1>6. \A r \in 1..(Len(f) + 1) : r \in 1..Len(f) \/ r = Len(f) + 1
  BY <1>2
<1>7. \A r \in DOMAIN Append(f, x) : \/ r \in DOMAIN f /\ Append(f, x)[r] = f[r]
                                     \/ Append(f, x)[r] = x
  BY <1>2, <1>3, <1>4, <1>6
<1> QED
  BY <1>5, <1>7

\* What picks everything leaves a list as it is.
LEMMA PickedAll ==
  ASSUME NEW m \in Nat, NEW s
  PROVE  Picked(s, 1..m) = [p \in 1..m |-> s[p]]
<1> DEFINE Place(i) == Cardinality({j \in 1..m : j <= i})
<1>1. \A i \in 1..m : Place(i) = i
  <2> TAKE i \in 1..m
  <2>1. {j \in 1..m : j <= i} = 1..i
    OBVIOUS
  <2>2. Cardinality(1..i) = i
    BY FS_Interval
  <2> QED
    BY <2>1, <2>2
<1>2. Cardinality(1..m) = m
  BY FS_Interval
<1>3. Picked(s, 1..m) = [p \in 1..Cardinality(1..m) |-> s[CHOOSE i \in 1..m : Place(i) = p]]
  BY DEF Picked
<1> HIDE DEF Place
<1>4. \A p \in 1..m : (CHOOSE i \in 1..m : Place(i) = p) = p
  BY <1>1
<1> QED
  BY <1>2, <1>3, <1>4

-----------------------------------------------------------------------------
(* Sums that compare *)

\* The less and the greater of two.
LEMMA OfTwo ==
  ASSUME NEW x \in Int, NEW y \in Int
  PROVE  /\ Min({x, y}) = IF x <= y THEN x ELSE y
         /\ Max({x, y}) = IF x <= y THEN y ELSE x
<1>1. IsFiniteSet({x, y}) /\ {x, y} \subseteq Int /\ {x, y} # {}
  <2>1. IsFiniteSet({x}) /\ IsFiniteSet({y}) /\ {x, y} = {x} \cup {y}
    BY FS_Singleton
  <2> QED
    BY <2>1, FS_Union
<1>2. /\ Min({x, y}) \in {x, y} /\ Min({x, y}) <= x /\ Min({x, y}) <= y
      /\ Max({x, y}) \in {x, y} /\ x <= Max({x, y}) /\ y <= Max({x, y})
  BY <1>1, MaxMin
<1> QED
  BY <1>2

\* A sum over nothing.
LEMMA SumOfNothing == ASSUME NEW f PROVE SumFunctionOnSet(f, {}) = 0
  BY FS_EmptySet, SumOf

\* What is more everywhere is more in sum.
LEMMA SumsCompare ==
  ASSUME NEW S, IsFiniteSet(S), NEW f, NEW g,
         \A x \in S : f[x] \in Int /\ g[x] \in Int /\ f[x] <= g[x]
  PROVE  SumFunctionOnSet(f, S) <= SumFunctionOnSet(g, S)
<1> DEFINE family == {T \in SUBSET S : SumFunctionOnSet(f, T) <= SumFunctionOnSet(g, T)}
<1>1. \A T \in SUBSET S :
        /\ SumFunctionOnSet(f, T) \in Int /\ SumFunctionOnSet(g, T) \in Int
        /\ \A x \in T : /\ SumFunctionOnSet(f, T) = f[x] + SumFunctionOnSet(f, T \ {x})
                         /\ SumFunctionOnSet(g, T) = g[x] + SumFunctionOnSet(g, T \ {x})
  <2> SUFFICES ASSUME NEW T \in SUBSET S
               PROVE  /\ SumFunctionOnSet(f, T) \in Int /\ SumFunctionOnSet(g, T) \in Int
                      /\ \A x \in T :
                           /\ SumFunctionOnSet(f, T) = f[x] + SumFunctionOnSet(f, T \ {x})
                           /\ SumFunctionOnSet(g, T) = g[x] + SumFunctionOnSet(g, T \ {x})
    OBVIOUS
  <2>1. IsFiniteSet(T)
    BY FS_Subset
  <2>2. \A x \in T : f[x] \in Int /\ g[x] \in Int
    OBVIOUS
  <2>3. /\ SumFunctionOnSet(f, T) \in Int
        /\ \A x \in T : SumFunctionOnSet(f, T) = f[x] + SumFunctionOnSet(f, T \ {x})
    BY <2>1, <2>2, SumOf
  <2>4. /\ SumFunctionOnSet(g, T) \in Int
        /\ \A x \in T : SumFunctionOnSet(g, T) = g[x] + SumFunctionOnSet(g, T \ {x})
    BY <2>1, <2>2, SumOf
  <2> QED
    BY <2>3, <2>4
<1>2. {} \in family
  <2>1. SumFunctionOnSet(f, {}) = 0 /\ SumFunctionOnSet(g, {}) = 0
    <3>1. (\A x \in S : f[x] \in Int) /\ (\A x \in S : g[x] \in Int)
      OBVIOUS
    <3>2. SumFunctionOnSet(f, {}) = 0
      BY <3>1, SumOf
    <3>3. SumFunctionOnSet(g, {}) = 0
      BY <3>1, SumOf
    <3> QED
      BY <3>2, <3>3
  <2> QED
    BY <2>1
<1>3. ASSUME NEW T \in SUBSET S, NEW x \in S \ T, T \in family
      PROVE  T \cup {x} \in family
  <2>1. T \cup {x} \in SUBSET S /\ x \in T \cup {x} /\ (T \cup {x}) \ {x} = T
    OBVIOUS
  <2>2. /\ SumFunctionOnSet(f, T \cup {x}) = f[x] + SumFunctionOnSet(f, T)
        /\ SumFunctionOnSet(g, T \cup {x}) = g[x] + SumFunctionOnSet(g, T)
    BY <1>1, <2>1
  <2>3. SumFunctionOnSet(f, T) \in Int /\ SumFunctionOnSet(g, T) \in Int
        /\ SumFunctionOnSet(f, T) <= SumFunctionOnSet(g, T)
    BY <1>1, <1>3
  <2>4. f[x] \in Int /\ g[x] \in Int /\ f[x] <= g[x]
    OBVIOUS
  <2>5. SumFunctionOnSet(f, T \cup {x}) <= SumFunctionOnSet(g, T \cup {x})
    BY <2>2, <2>3, <2>4
  <2> QED
    BY <2>1, <2>5
<1> HIDE DEF family
<1>4. S \in family
  BY <1>2, <1>3, FiniteInduction
<1> QED
  BY <1>4 DEF family

\* The things of a kind.
OfKind(D, kind, k) == {i \in D : kind[i] = k}

\* Things counted by their kind are counted once.
LEMMA KindsAddUp ==
  ASSUME NEW D, IsFiniteSet(D), NEW S, IsFiniteSet(S), NEW kind, NEW count,
         \A i \in D : kind[i] \in S,
         \A k \in S : count[k] = Cardinality(OfKind(D, kind, k))
  PROVE  /\ \A k \in S : count[k] \in Nat
         /\ \A k \in S : count[k] <= Cardinality(D)
         /\ SumFunctionOnSet(count, S) = Cardinality(D)
<1> DEFINE Of(T) == {i \in D : kind[i] \in T}
           family == {T \in SUBSET S : SumFunctionOnSet(count, T) = Cardinality(Of(T))}
<1>1. ASSUME NEW k \in S
      PROVE  count[k] \in Nat /\ count[k] <= Cardinality(D)
  <2>1. PICK E : E = OfKind(D, kind, k)
    OBVIOUS
  <2>2. E \subseteq D
    BY <2>1 DEF OfKind
  <2>3. IsFiniteSet(E) /\ Cardinality(E) <= Cardinality(D)
    BY <2>2, FS_Subset
  <2>4. Cardinality(E) \in Nat
    BY <2>3, FS_CardinalityType
  <2>5. count[k] = Cardinality(E)
    BY <2>1
  <2> QED
    BY <2>1, <2>3, <2>4, <2>5
<1>0. \A k \in S : count[k] \in Nat /\ count[k] \in Int /\ count[k] <= Cardinality(D)
  <2> TAKE k \in S
  <2>1. count[k] \in Nat /\ count[k] <= Cardinality(D)
    <3> HIDE DEF Of, family
    <3> QED
      BY <1>1
  <2> HIDE DEF Of, family
  <2> QED
    BY <2>1
<1>2. {} \in family
  <2>1. SumFunctionOnSet(count, {}) = 0
    BY <1>0, SumOf
  <2>2. Of({}) = {}
    OBVIOUS
  <2> QED
    BY <2>1, <2>2, FS_EmptySet
<1>3. ASSUME NEW T \in SUBSET S, NEW x \in S \ T, T \in family
      PROVE  T \cup {x} \in family
  <2>1. T \cup {x} \in SUBSET S /\ x \in T \cup {x} /\ (T \cup {x}) \ {x} = T
    OBVIOUS
  <2>2. SumFunctionOnSet(count, T \cup {x}) = count[x] + SumFunctionOnSet(count, T)
    <3>1. IsFiniteSet(T \cup {x})
      BY <2>1, FS_Subset
    <3>2. \A k \in T \cup {x} : count[k] \in Int
      BY <1>0, <2>1
    <3> QED
      BY <2>1, <3>1, <3>2, SumOf
  <2>3. SumFunctionOnSet(count, T) = Cardinality(Of(T))
    BY <1>3
  <2>4. PICK A, B : A = Of(T) /\ B = OfKind(D, kind, x)
    OBVIOUS
  <2>5. A \subseteq D /\ B \subseteq D /\ A \cap B = {} /\ Of(T \cup {x}) = A \cup B
    BY <1>3, <2>4 DEF OfKind
  <2>6. IsFiniteSet(A) /\ IsFiniteSet(B)
    BY <2>5, FS_Subset
  <2>7. Cardinality(A \cup B) = Cardinality(A) + Cardinality(B)
    <3>1. Cardinality(A \cup B) = Cardinality(A) + Cardinality(B) - Cardinality(A \cap B)
      BY <2>6, FS_Union
    <3>2. Cardinality(A \cap B) = 0
      BY <2>5, FS_EmptySet
    <3>3. Cardinality(A) \in Nat /\ Cardinality(B) \in Nat
      BY <2>6, FS_CardinalityType
    <3> QED
      BY <3>1, <3>2, <3>3
  <2>8. count[x] = Cardinality(B) /\ Cardinality(A) \in Nat /\ Cardinality(B) \in Nat
    BY <2>4, <2>6, FS_CardinalityType
  <2>9. SumFunctionOnSet(count, T \cup {x}) = Cardinality(Of(T \cup {x}))
    <3> HIDE DEF Of
    <3> QED
      BY <2>2, <2>3, <2>4, <2>5, <2>7, <2>8
  <2> QED
    BY <2>1, <2>9
<1> HIDE DEF family
<1>4. S \in family
  BY <1>2, <1>3, FiniteInduction
<1>5. SumFunctionOnSet(count, S) = Cardinality(Of(S))
  BY <1>4 DEF family
<1>6. Of(S) = D
  OBVIOUS
<1> HIDE DEF Of
<1>7. /\ \A k \in S : count[k] \in Nat
      /\ \A k \in S : count[k] <= Cardinality(D)
  BY <1>0
<1> QED
  BY <1>5, <1>6, <1>7

\* What holds of each kind holds of the sums.
LEMMA SharesAddUp ==
  ASSUME NEW S, IsFiniteSet(S), NEW n \in Nat, NEW c, NEW f, NEW g, NEW a,
         \A k \in S : c[k] \in Int, \A k \in S : f[k] \in Int,
         \A k \in S : g[k] \in Int, \A k \in S : a[k] \in Int,
         \A k \in S : 4 * c[k] <= n * (f[k] + g[k]) + 2 * (n * a[k])
  PROVE  4 * SumFunctionOnSet(c, S)
           <= n * (SumFunctionOnSet(f, S) + SumFunctionOnSet(g, S))
                + 2 * (n * SumFunctionOnSet(a, S))
<1> DEFINE family == {T \in SUBSET S :
             4 * SumFunctionOnSet(c, T)
               <= n * (SumFunctionOnSet(f, T) + SumFunctionOnSet(g, T))
                    + 2 * (n * SumFunctionOnSet(a, T))}
<1>1. ASSUME NEW h, \A k \in S : h[k] \in Int
      PROVE  /\ SumFunctionOnSet(h, {}) = 0
             /\ \A T \in SUBSET S : SumFunctionOnSet(h, T) \in Int
             /\ \A T \in SUBSET S : \A x \in S \ T :
                  SumFunctionOnSet(h, T \cup {x}) = h[x] + SumFunctionOnSet(h, T)
  <2>1. SumFunctionOnSet(h, {}) = 0
    BY <1>1, SumOf
  <2>2. ASSUME NEW T \in SUBSET S
        PROVE  /\ SumFunctionOnSet(h, T) \in Int
               /\ \A x \in T : SumFunctionOnSet(h, T) = h[x] + SumFunctionOnSet(h, T \ {x})
    <3>1. IsFiniteSet(T) /\ \A k \in T : h[k] \in Int
      BY <1>1, FS_Subset
    <3> QED
      BY <3>1, SumOf
  <2>3. ASSUME NEW T \in SUBSET S, NEW x \in S \ T
        PROVE  SumFunctionOnSet(h, T \cup {x}) = h[x] + SumFunctionOnSet(h, T)
    <3>1. T \cup {x} \in SUBSET S /\ x \in T \cup {x} /\ (T \cup {x}) \ {x} = T
      OBVIOUS
    <3> QED
      BY <2>2, <3>1
  <2> QED
    BY <2>1, <2>2, <2>3
<1>2. {} \in family
  <2>1. /\ SumFunctionOnSet(c, {}) = 0 /\ SumFunctionOnSet(f, {}) = 0
        /\ SumFunctionOnSet(g, {}) = 0 /\ SumFunctionOnSet(a, {}) = 0
    <3> HIDE DEF family
    <3> QED
      BY <1>1
  <2> QED
    BY <2>1
<1>3. ASSUME NEW T \in SUBSET S, NEW x \in S \ T, T \in family
      PROVE  T \cup {x} \in family
  <2>1. PICK C \in Int, F \in Int, G \in Int, A \in Int :
          /\ C = SumFunctionOnSet(c, T) /\ F = SumFunctionOnSet(f, T)
          /\ G = SumFunctionOnSet(g, T) /\ A = SumFunctionOnSet(a, T)
    <3> HIDE DEF family
    <3>1. SumFunctionOnSet(c, T) \in Int /\ SumFunctionOnSet(f, T) \in Int
          /\ SumFunctionOnSet(g, T) \in Int /\ SumFunctionOnSet(a, T) \in Int
      BY <1>1
    <3> QED
      BY <3>1
  <2>2. PICK cx \in Int, fx \in Int, gx \in Int, ax \in Int :
          cx = c[x] /\ fx = f[x] /\ gx = g[x] /\ ax = a[x]
    OBVIOUS
  <2>3. /\ SumFunctionOnSet(c, T \cup {x}) = cx + C
        /\ SumFunctionOnSet(f, T \cup {x}) = fx + F
        /\ SumFunctionOnSet(g, T \cup {x}) = gx + G
        /\ SumFunctionOnSet(a, T \cup {x}) = ax + A
    <3> HIDE DEF family
    <3>1. SumFunctionOnSet(c, T \cup {x}) = c[x] + SumFunctionOnSet(c, T)
      BY <1>1
    <3>2. SumFunctionOnSet(f, T \cup {x}) = f[x] + SumFunctionOnSet(f, T)
      BY <1>1
    <3>3. SumFunctionOnSet(g, T \cup {x}) = g[x] + SumFunctionOnSet(g, T)
      BY <1>1
    <3>4. SumFunctionOnSet(a, T \cup {x}) = a[x] + SumFunctionOnSet(a, T)
      BY <1>1
    <3> QED
      BY <2>1, <2>2, <3>1, <3>2, <3>3, <3>4
  <2>4. 4 * cx <= n * (fx + gx) + 2 * (n * ax)
    BY <2>2
  <2>5. 4 * C <= n * (F + G) + 2 * (n * A)
    BY <1>3, <2>1
  <2>6. 4 * (cx + C) <= n * ((fx + F) + (gx + G)) + 2 * (n * (ax + A))
    <3>1. n * ((fx + F) + (gx + G)) = n * (fx + gx) + n * (F + G)
      OBVIOUS
    <3>2. n * (ax + A) = n * ax + n * A
      OBVIOUS
    <3>3. n * (fx + gx) \in Int /\ n * (F + G) \in Int /\ n * ax \in Int /\ n * A \in Int
      OBVIOUS
    <3> QED
      BY <2>4, <2>5, <3>1, <3>2, <3>3
  <2> QED
    BY <2>3, <2>6
<1> HIDE DEF family
<1>4. S \in family
  BY <1>2, <1>3, FiniteInduction
<1> QED
  BY <1>4 DEF family

\* The product of two shares of n, and twice what they must have in common.
LEMMA ProductOfShares ==
  ASSUME NEW n \in Nat, NEW x \in Nat, NEW y \in Nat, NEW z \in Nat,
         x <= n, y <= n, x + y <= n + z
  PROVE  4 * (x * y) <= n * (x + y) + 2 * (n * z)
<1>1. PICK t \in Nat : t = x + y
  OBVIOUS
<1>2. 4 * (x * y) <= t * t
  <2>1. (x - y) * (x - y) >= 0
    OBVIOUS
  <2>2. (x - y) * (x - y) = x * x - 2 * (x * y) + y * y
    OBVIOUS
  <2>3. t * t = x * x + 2 * (x * y) + y * y
    BY <1>1
  <2>4. x * y \in Int /\ x * x \in Int /\ y * y \in Int
    OBVIOUS
  <2> QED
    BY <2>1, <2>2, <2>3, <2>4
<1>3. CASE t <= n
  <2>1. t * t <= n * t
    BY <1>3
  <2>2. n * z \in Nat
    OBVIOUS
  <2>3. 4 * (x * y) <= n * t
    <3>1. x * y \in Int /\ t * t \in Int /\ n * t \in Int
      OBVIOUS
    <3> QED
      BY <1>2, <2>1, <3>1
  <2> QED
    BY <1>1, <2>2, <2>3
<1>4. CASE t > n
  <2>1. (t - n) * (2 * n - t) >= 0
    BY <1>1, <1>4
  <2>2. (t - n) * (2 * n - t) = 3 * (n * t) - t * t - 2 * (n * n)
    OBVIOUS
  <2>3. n * z >= n * (t - n)
    BY <1>1, <1>4
  <2>4. n * (t - n) = n * t - n * n
    OBVIOUS
  <2>5. x * y \in Int /\ t * t \in Int /\ n * t \in Int /\ n * n \in Int /\ n * z \in Int
    OBVIOUS
  <2>6. 4 * (x * y) <= n * t + 2 * (n * z)
    BY <1>2, <2>1, <2>2, <2>3, <2>4, <2>5
  <2> QED
    BY <1>1, <2>6
<1> QED
  BY <1>1, <1>3, <1>4

\* What is a number of times as much everywhere is so in sum.
LEMMA SumScaled ==
  ASSUME NEW S, IsFiniteSet(S), NEW f, NEW g, NEW b \in Int,
         \A x \in S : f[x] \in Int, \A x \in S : g[x] = b * f[x]
  PROVE  SumFunctionOnSet(g, S) = b * SumFunctionOnSet(f, S)
<1> DEFINE family == {T \in SUBSET S : SumFunctionOnSet(g, T) = b * SumFunctionOnSet(f, T)}
<1>1. \A x \in S : g[x] \in Int
  <2> TAKE x \in S
  <2>1. PICK y \in Int : y = f[x]
    OBVIOUS
  <2>2. b * y \in Int
    OBVIOUS
  <2> QED
    BY <2>1, <2>2
<1>2. {} \in family
  <2>1. SumFunctionOnSet(f, {}) = 0 /\ SumFunctionOnSet(g, {}) = 0
    BY SumOfNothing
  <2> QED
    BY <2>1
<1>3. ASSUME NEW T \in SUBSET S, NEW x \in S \ T, T \in family
      PROVE  T \cup {x} \in family
  <2>1. T \cup {x} \in SUBSET S /\ x \in T \cup {x} /\ (T \cup {x}) \ {x} = T
    OBVIOUS
  <2>2. IsFiniteSet(T) /\ IsFiniteSet(T \cup {x})
    BY <2>1, FS_Subset
  <2>3. PICK U : U = T \cup {x}
    OBVIOUS
  <2>4. SumFunctionOnSet(f, T \cup {x}) = f[x] + SumFunctionOnSet(f, T)
    <3>1. IsFiniteSet(U) /\ (\A k \in U : f[k] \in Int) /\ x \in U /\ U \ {x} = T
      BY <2>1, <2>2, <2>3
    <3>2. SumFunctionOnSet(f, U) = f[x] + SumFunctionOnSet(f, U \ {x})
      BY <3>1, SumOf
    <3> QED
      BY <2>3, <3>1, <3>2
  <2>5. SumFunctionOnSet(g, T \cup {x}) = g[x] + SumFunctionOnSet(g, T)
    <3>1. IsFiniteSet(U) /\ (\A k \in U : g[k] \in Int) /\ x \in U /\ U \ {x} = T
      BY <1>1, <2>1, <2>2, <2>3
    <3>2. SumFunctionOnSet(g, U) = g[x] + SumFunctionOnSet(g, U \ {x})
      BY <3>1, SumOf
    <3> QED
      BY <2>3, <3>1, <3>2
  <2>6. PICK y \in Int, F \in Int : y = f[x] /\ F = SumFunctionOnSet(f, T)
    <3>1. \A k \in T : f[k] \in Int
      OBVIOUS
    <3>2. SumFunctionOnSet(f, T) \in Int
      BY <2>2, <3>1, SumOf
    <3> QED
      BY <3>2
  <2>7. SumFunctionOnSet(g, T) = b * F /\ g[x] = b * y
    BY <1>3, <2>6
  <2>8. b * (y + F) = b * y + b * F
    OBVIOUS
  <2>9. SumFunctionOnSet(g, T \cup {x}) = b * SumFunctionOnSet(f, T \cup {x})
    BY <2>4, <2>5, <2>6, <2>7, <2>8
  <2> QED
    BY <2>1, <2>9
<1> HIDE DEF family
<1>4. S \in family
  BY <1>2, <1>3, FiniteInduction
<1> QED
  BY <1>4 DEF family

\* What is positive everywhere is so in sum.
LEMMA SumPositive ==
  ASSUME NEW S, IsFiniteSet(S), S # {}, NEW f, \A x \in S : f[x] \in Nat \ {0}
  PROVE  SumFunctionOnSet(f, S) \in Nat \ {0}
<1>1. PICK x \in S : TRUE
  OBVIOUS
<1>2. IsFiniteSet(S \ {x}) /\ (\A k \in S : f[k] \in Int) /\ (\A k \in S \ {x} : f[k] \in Int)
      /\ \A k \in S \ {x} : f[k] \in Nat
  BY FS_Subset
<1>3. SumFunctionOnSet(f, S) = f[x] + SumFunctionOnSet(f, S \ {x})
  BY <1>2, SumOf
<1>4. SumFunctionOnSet(f, S \ {x}) \in Nat
  BY <1>2, SumOf
<1> QED
  BY <1>3, <1>4

\* As many ones as there are.
LEMMA OnesAddUp ==
  ASSUME NEW S, IsFiniteSet(S), NEW ones, \A x \in S : ones[x] = 1
  PROVE  SumFunctionOnSet(ones, S) = Cardinality(S)
<1>1. PICK kind : kind = [x \in S |-> x]
  OBVIOUS
<1>2. \A x \in S : kind[x] \in S
  BY <1>1
<1>3. \A x \in S : ones[x] = Cardinality(OfKind(S, kind, x))
  <2> TAKE x \in S
  <2>1. OfKind(S, kind, x) = {x}
    BY <1>1 DEF OfKind
  <2> QED
    BY <2>1, FS_Singleton
<1> QED
  BY <1>2, <1>3, KindsAddUp
===============================================================================
