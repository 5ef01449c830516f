--------------------------------- MODULE Lists ---------------------------------
(***************************************************************************)
(* What Python's list comprehensions and sorted() make of lists and sets.  *)
(***************************************************************************)
EXTENDS Integers, Sequences, FiniteSets

\* The elements at some places of a sequence, in order, and those that pass a test.
Picked(s, places) ==
  LET Place(i) == Cardinality({j \in places : j <= i})
  IN  [p \in 1..Cardinality(places) |-> s[CHOOSE i \in places : Place(i) = p]]

Filter(s, Test(_)) == Picked(s, {i \in DOMAIN s : Test(s[i])})

\* sorted() of a list: a stable sort.
StableSort(s, Before(_, _)) ==
  LET Precedes(i, j) == Before(s[i], s[j]) \/ (~Before(s[j], s[i]) /\ i < j)
      Place(i) == 1 + Cardinality({j \in DOMAIN s : Precedes(j, i)})
  IN  [p \in DOMAIN s |-> s[CHOOSE i \in DOMAIN s : Place(i) = p]]

\* sorted() of a set, by a strict total order.
Ordered(S, Before(_, _)) ==
  CHOOSE s \in [1..Cardinality(S) -> S] : \A i, j \in DOMAIN s : i < j => Before(s[i], s[j])
=============================================================================
