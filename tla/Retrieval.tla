------------------------------- MODULE Retrieval -------------------------------
(***************************************************************************)
(* Ranking: the hybrid retriever of retrieval/hybrid.py over a snapshot of *)
(* the graph's claims, and the control it is compared with, the windows of *)
(* retrieval/naive_rag.py over the transcripts.                            *)
(*                                                                         *)
(* Claim ids are numbers in their alphabetical order.  How near a text is  *)
(* to a query is a constant, and so are the words of both.                 *)
(***************************************************************************)
EXTENDS Lists, FiniteSetsExt, SequencesExt

CONSTANTS Query,
          Cosine,         \* by query and claim id
          Words,          \* of a query or a claim's text
          RrfK,           \* the damping of the fusion
          Unit,           \* a multiple of every RrfK + rank: scores are counted in it
          SeedK, Depth,   \* claims the traversal starts from, hops it goes
          Segments,       \* the transcript of an episode: labels and times
          WindowNearness, \* by query and window <<episode, number>>
          WindowSize,     \* segments in a window
          LabelToSpeaker, \* one map for all episodes
          EpisodeOrder    \* episodes by their ids

ASSUME RetrievalAssumption ==
  /\ RrfK \in Nat \ {0} /\ Unit \in Nat \ {0}
  /\ SeedK \in Nat /\ Depth \in Nat
  /\ WindowSize \in Nat \ {0}
  /\ IsFiniteSet(DOMAIN Segments)
  /\ \A e \in DOMAIN Segments :
       /\ Segments[e] \in Seq(Range(Segments[e]))
       /\ \A seg \in Range(Segments[e]) : seg.t_start \in Int /\ seg.t_end \in Int
       /\ EpisodeOrder[e] \in Int
  /\ \A e, f \in DOMAIN Segments : EpisodeOrder[e] = EpisodeOrder[f] => e = f

\* The place of an id in a ranking, 0 if it has none.
RankIn(list, id) == IF id \in Range(list) THEN CHOOSE i \in DOMAIN list : list[i] = id ELSE 0

\* The best score first, equal ones by id.
Ranking(score) ==
  LET items == Ordered({<<id, score[id]>> : id \in DOMAIN score},
                       LAMBDA a, b : a[2] > b[2] \/ (a[2] = b[2] /\ a[1] < b[1]))
  IN  [i \in DOMAIN items |-> items[i][1]]

-----------------------------------------------------------------------------
(* Fusion *)

Reciprocals(lists, id) == [i \in DOMAIN lists |-> Unit \div (RrfK + RankIn(lists[i], id))]

\* MUTANT of FusedScore: an id that a list does not have counts as before its first.
FusedScoreAbsentFirst(lists, id) ==
  SumFunctionOnSet(Reciprocals(lists, id), DOMAIN lists)

\* Reciprocal ranks, added up over the lists that have the id.  All weights are 1.
FusedScore(lists, id) ==
  SumFunctionOnSet(Reciprocals(lists, id), {i \in DOMAIN lists : RankIn(lists[i], id) # 0})

Fuse(lists) ==
  Ranking([id \in UNION {Range(lists[i]) : i \in DOMAIN lists} |-> FusedScore(lists, id)])

-----------------------------------------------------------------------------
(* Traversal *)

Sorted(ids) == Ordered(ids, LAMBDA a, b : a < b)

\* A level is visited in the order of ids; the next is what it leads to and is new.
NextLevel(walk, universe, neighbors) ==
  LET order == walk.order \o Sorted(walk.frontier)
  IN  [order |-> order,
       frontier |-> ((UNION {neighbors[c] : c \in walk.frontier}) \cap universe)
                      \ Range(order)]

\* Breadth first from the seeds, level by level, inside the universe only.
Walk(seeds, universe, neighbors) ==
  LET level[d \in 0..(Depth + 1)] ==
        IF d = 0 THEN [order |-> <<>>, frontier |-> seeds \cap universe]
        ELSE NextLevel(level[d - 1], universe, neighbors)
  IN  level

GraphRanking(seeds, universe, neighbors) == Walk(seeds, universe, neighbors)[Depth + 1].order

-----------------------------------------------------------------------------
(* The hybrid retriever *)

FirstOf(s, k) == SubSeq(s, 1, IF k < Len(s) THEN k ELSE Len(s))

\* The event-time window; a bound of 0 is open.
PassesTemporal(time, since, until) ==
  /\ since # 0 => time >= since
  /\ until # 0 => time <= until

Universe(surface, since, until) ==
  {c \in surface.claims : PassesTemporal(surface.time[c], since, until)}

\* BM25, by what it tells apart: the words a text shares with the query, the rarer in
\* the corpus the more each weighs.
Bm25(query, corpus, c) ==
  SumFunctionOnSet([w \in Words[query] |-> Cardinality({d \in corpus : w \notin Words[d]}) + 1],
                   Words[query] \cap Words[c])

\* MUTANT of Signals: the traversal starts from the best by meaning alone.
SignalsSeededByMeaning(surface, query, since, until) ==
  LET universe == Universe(surface, since, until)
      semantic == Ranking([c \in universe |-> Cosine[query][c]])
      lexical == Ranking([c \in universe |-> Bm25(query, universe, c)])
  IN  [semantic |-> semantic, lexical |-> lexical,
       graph |-> IF Depth = 0 THEN <<>>
                 ELSE GraphRanking(Range(FirstOf(semantic, SeedK)), universe,
                                   surface.neighbors)]

\* The rankings by content, and the ranking by hops from the best of both.
Signals(surface, query, since, until) ==
  LET universe == Universe(surface, since, until)
      semantic == Ranking([c \in universe |-> Cosine[query][c]])
      lexical == Ranking([c \in universe |-> Bm25(query, universe, c)])
      seeds == Range(FirstOf(Fuse(<<semantic, lexical>>), SeedK))
  IN  [semantic |-> semantic, lexical |-> lexical,
       graph |-> IF Depth = 0 THEN <<>>
                 ELSE GraphRanking(seeds, universe, surface.neighbors)]

\* retrieve(): the fused ranking's first k, each with the rank every signal gave it.
Retrieve(surface, query, k, since, until) ==
  LET s == Signals(surface, query, since, until)
      lists == <<s.semantic, s.lexical>> \o (IF s.graph = <<>> THEN <<>> ELSE <<s.graph>>)
      top == FirstOf(Fuse(lists), k)
  IN  [i \in DOMAIN top |->
         [id |-> top[i], semantic |-> RankIn(s.semantic, top[i]),
          lexical |-> RankIn(s.lexical, top[i]), graph |-> RankIn(s.graph, top[i])]]

-----------------------------------------------------------------------------
(* The control: windows of a transcript *)

Duration(seg) == IF seg.t_end > seg.t_start THEN seg.t_end - seg.t_start ELSE 0

\* The label that talks most, the first of equals.
DominantLabel(segments) ==
  LET time(l) == MapThenSumSet(LAMBDA i : Duration(segments[i]),
                               {i \in DOMAIN segments : segments[i].speaker = l})
      labels == {segments[i].speaker : i \in DOMAIN segments}
  IN  CHOOSE l \in labels : \A m \in labels \ {l} :
        time(l) > time(m) \/ (time(l) = time(m) /\ l < m)

WindowSegments(window) ==
  LET segments == Segments[window[1]]
      first == (window[2] - 1) * WindowSize + 1
      end == first + WindowSize - 1
  IN  SubSeq(segments, first, IF end < Len(segments) THEN end ELSE Len(segments))

WindowsOf(episode) ==
  {<<episode, n>> : n \in 1..((Len(Segments[episode]) + WindowSize - 1) \div WindowSize)}

ASSUME WindowAssumption ==
  \A query \in Query, e \in DOMAIN Segments : \A w \in WindowsOf(e) :
    WindowNearness[query][w] \in Int

\* A window is ascribed to whom its label means in any episode, or to the label itself.
WindowCitation(window) ==
  LET segments == WindowSegments(window)
      label == DominantLabel(segments)
  IN  [episode |-> window[1],
       t_start |-> segments[1].t_start, t_end |-> segments[Len(segments)].t_end,
       speaker |-> IF label \in DOMAIN LabelToSpeaker THEN LabelToSpeaker[label] ELSE label]

\* The nearest windows, equal ones by episode and time, then in the order of the index.
NaiveCitations(query, k) ==
  LET near(w) == WindowNearness[query][w]
      start(w) == WindowSegments(w)[1].t_start
      closer(v, w) ==
        \/ near(v) > near(w)
        \/ near(v) = near(w) /\ EpisodeOrder[v[1]] < EpisodeOrder[w[1]]
        \/ /\ near(v) = near(w) /\ v[1] = w[1]
           /\ start(v) < start(w) \/ (start(v) = start(w) /\ v[2] < w[2])
      order == Ordered(UNION {WindowsOf(e) : e \in DOMAIN Segments}, closer)
      top == FirstOf(order, k)
  IN  [i \in DOMAIN top |-> WindowCitation(top[i])]
=============================================================================
