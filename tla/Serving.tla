-------------------------------- MODULE Serving --------------------------------
(***************************************************************************)
(* What is made of the graph: batches of resolved claims are loaded, a     *)
(* surface is built over the store (pipeline.py, retrieval/hybrid.py), the *)
(* tools of mcp/server.py answer from it, and eval/runner.py compares four *)
(* arms, two of which read it (eval/arms.py).                              *)
(*                                                                         *)
(* The surface is a snapshot, the store goes on.  For search it has the    *)
(* whole store as it was, for consensus the claims of one run only.        *)
(***************************************************************************)
EXTENDS GraphStore, Consensus, Evaluation

CONSTANTS Results,        \* what runs hand to the loader: lists of claims, each its id
                          \* with the sign, sentiment and confidence it has this time
          SpanOf,         \* the times of a claim, which its id is a hash of
          TextRefs,       \* texts to look claims up by
          Holds,          \* the claims whose text holds one
          EntityOrder,    \* subjects by their ids
          TopK, WhoK, ArmK, \* how many hits a search, a roll-call and an arm take
          Width,          \* of a bucket
          Arms,           \* the arms in their order
          TextsOf,        \* what the model may write in an arm
          Rating,         \* by rater and text: a score for every dimension
          Shuffle,        \* by seed and query: an order of the arms
          Evaluations,    \* bound: evaluations by queries, seed and overlapping subset
          Corrected,      \* bound: the claims whose assertion somebody invalidates
          Periods         \* bound: the times since and until which tools are asked for

ASSUME ServingAssumption ==
  /\ Results \subseteq Seq([id : ClaimId, sign : Sign, sentiment : Int, confidence : Nat])
  /\ Cosine \in [Query -> [ClaimId -> Int]]
  /\ \A query \in Query : IsFiniteSet(Words[query])
  /\ TopK \in Nat /\ WhoK \in Nat /\ ArmK \in Nat /\ Width \in Nat \ {0}
  /\ IsFiniteSet(ClaimId)
  /\ \A n \in 1..Cardinality(ClaimId) : Unit % (RrfK + n) = 0
  /\ Arms \in Seq(DOMAIN TextsOf) /\ Arms # <<>>
  /\ \A i, j \in DOMAIN Arms : Arms[i] = Arms[j] => i = j
  /\ \A arm \in Range(Arms) : \A text \in TextsOf[arm], rater \in {"first", "second"} :
       Rating[rater][text] \in [Dimension -> Nat]
  /\ \A evaluation \in Evaluations :
       /\ evaluation.queries \in Seq(Query) /\ evaluation.subset \in Nat
       /\ \A query \in Query :
            Shuffle[evaluation.seed][query] \in Bijection(DOMAIN Arms, DOMAIN Arms)

VARIABLES
  result,     \* the claims of the last run and the event times of its episodes
  surface,    \* the last surface that was built
  answer,     \* what a tool has just answered
  eval        \* the evaluation under way

servingVars == <<vars, result, surface, answer, eval>>

NoResult == [claims |-> <<>>, times |-> [ep \in {} |-> 0]]
NoSurface == [claims |-> {}, time |-> [c \in {} |-> 0], neighbors |-> [c \in {} |-> {}],
              counted |-> <<>>, built |-> FALSE]
NoAnswer == [tool |-> "none"]
NoEval == [queries |-> <<>>, answers |-> <<>>, rows |-> <<>>, pairs |-> <<>>, running |-> FALSE]

ServeInit ==
  /\ Init
  /\ result = NoResult /\ surface = NoSurface
  /\ answer = NoAnswer /\ eval = NoEval

-----------------------------------------------------------------------------
(* Loading, and the surface *)

\* The first of the claims with an id is the one that is loaded.
FirstSign(list, c) == list[Min({i \in DOMAIN list : list[i].id = c})].sign

\* The end of a run: all its claims go to the graph and are handed on with the times.
LoadRun(list) ==
  LET batch == {list[i].id : i \in DOMAIN list}
  IN  /\ BulkLoad(batch, [c \in batch |-> FirstSign(list, c)])
      /\ result' = [claims |-> list, times |-> EventTimes]
      /\ UNCHANGED <<surface, answer, eval>>

\* A correction: somebody invalidates the assertion of a claim.
Correct(e) ==
  /\ e.dst \in Corrected /\ Invalidate(e, clock)
  /\ UNCHANGED <<result, surface, answer, eval>>

TimePasses ==
  /\ Tick
  /\ UNCHANGED <<result, surface, answer, eval>>

\* MUTANT of Retrievable: what is asserted as of now.
RetrievableAsOfNow == AnswerAsOf(clock)

\* claims_from_graph_store asks for the current state.
Retrievable == CurrentAnswer

\* What shares an edge with a claim, invalidated ones aside.
Adjacent(c) ==
  {x \in ClaimId \ {c} :
     \E e \in DOMAIN edges : {e.src, e.dst} = {c, x} /\ ~edges[e].invalidated}

\* What consensus reads of a claim: its subject, its speaker and the time it counts for.
Placed(claim, times) ==
  [id |-> claim.id, subject |-> SubjectOf[claim.id], speaker |-> SpeakerOf[claim.id],
   time |-> times[EpisodeOf[claim.id]],
   sentiment |-> claim.sentiment, confidence |-> claim.confidence]

\* build_retrieval_surface() of the last result, over the store as it is.
BuildSurface ==
  /\ result # NoResult
  /\ surface' = [claims |-> Retrievable,
                 time |-> [c \in Retrievable |-> edges[AssertsEdge(c)].from],
                 neighbors |-> [c \in Retrievable |-> Adjacent(c)],
                 counted |-> [i \in DOMAIN result.claims |->
                                Placed(result.claims[i], result.times)],
                 built |-> TRUE]
  /\ UNCHANGED <<vars, result, answer, eval>>

-----------------------------------------------------------------------------
(* The tools *)

Answers(reply) ==
  /\ answer' = reply
  /\ UNCHANGED <<vars, result, surface, eval>>

SearchDialogue(query, since, until) ==
  Answers([tool |-> "search_dialogue", query |-> query, since |-> since, until |-> until,
           hits |-> Retrieve(surface, query, TopK, since, until)])

\* Each speaker once, with the first of their hits.
Cast(hits) ==
  Filter([i \in DOMAIN hits |-> [speaker |-> SpeakerOf[hits[i].id], at |-> i,
                                 claim |-> hits[i].id]],
         LAMBDA m : \A j \in 1..(m.at - 1) : SpeakerOf[hits[j].id] # m.speaker)

WhoDiscussed(query, since) ==
  LET hits == Retrieve(surface, query, WhoK, since, 0)
  IN  Answers([tool |-> "who_discussed", query |-> query, since |-> since,
               mentions |-> Cast(hits)])

Trend(subject) == ConsensusOverTime(surface.counted, subject, Width)

ConsensusTrend(subject) ==
  Answers([tool |-> "consensus_trend", trend |-> Trend(subject)])

AskBeliefHistory(person, subject) ==
  Answers([tool |-> "belief_history", person |-> person, subject |-> subject,
           history |-> BeliefHistory(Trend(subject), person)])

\* By id, or the first claim whose text holds the reference; 0 if there is none.
Provenance(ref) ==
  IF ref \in surface.claims THEN ref
  ELSE IF ref \in TextRefs /\ Holds[ref] \cap surface.claims # {}
  THEN Min(Holds[ref] \cap surface.claims) ELSE 0

ProvenanceLookup(ref) ==
  Answers([tool |-> "provenance_lookup", ref |-> ref, claim |-> Provenance(ref)])

UseTool ==
  /\ surface.built /\ answer = NoAnswer /\ ~eval.running
  /\ \/ \E query \in Query, p \in Periods : SearchDialogue(query, p[1], p[2])
     \/ \E query \in Query, p \in Periods : WhoDiscussed(query, p[1])
     \/ \E subject \in Entity : ConsensusTrend(subject)
     \/ \E person \in Speaker, subject \in Entity : AskBeliefHistory(person, subject)
     \/ \E ref \in ClaimId \cup TextRefs : ProvenanceLookup(ref)

-----------------------------------------------------------------------------
(* The arms *)

CitationOf(c) == [episode |-> EpisodeOf[c], t_start |-> SpanOf[c].t_start,
                  t_end |-> SpanOf[c].t_end, speaker |-> SpeakerOf[c]]

HitsOf(query) == Retrieve(surface, query, ArmK, 0, 0)

\* The subject most of the hits are about, the first of equals.
DominantSubject(hits) ==
  LET count(x) == Cardinality({i \in DOMAIN hits : SubjectOf[hits[i].id] = x})
  IN  CHOOSE x \in {SubjectOf[hits[i].id] : i \in DOMAIN hits} :
        \A y \in Entity \ {x} :
           count(x) > count(y) \/ (count(x) = count(y) /\ EntityOrder[x] < EntityOrder[y])

\* The consensus the arm of the graph is told of: none without hits.
Context(query) ==
  IF HitsOf(query) = <<>> THEN <<>> ELSE <<Trend(DominantSubject(HitsOf(query)))>>

\* What an arm retrieves, and cites.
Citations(arm, query) ==
  CASE arm = "model_naive_rag" -> NaiveCitations(query, ArmK)
    [] arm = "model_dlogos"    -> [i \in DOMAIN HitsOf(query) |-> CitationOf(HitsOf(query)[i].id)]
    [] OTHER                   -> <<>>

ArmAnswer(arm, query, text) ==
  [arm |-> arm, text |-> text, citations |-> Citations(arm, query)]

Texts == {t \in [Range(Arms) -> UNION {TextsOf[a] : a \in Range(Arms)}] :
            \A a \in Range(Arms) : t[a] \in TextsOf[a]}

-----------------------------------------------------------------------------
(* An evaluation *)

StartEvaluation(evaluation) ==
  /\ surface.built /\ answer = NoAnswer /\ ~eval.running
  /\ eval' = [queries |-> evaluation.queries, seed |-> evaluation.seed,
              subset |-> evaluation.subset, answers |-> <<>>, rows |-> <<>>, pairs |-> <<>>,
              running |-> TRUE]
  /\ UNCHANGED <<vars, result, surface, answer>>

Scoring == Len(eval.rows) < Len(eval.queries)

\* Once all queries are scored, the first of them are run again for both raters.
Shared == Min({eval.subset, Len(eval.queries)})
Agreement == ~Scoring /\ Len(eval.pairs) < Shared * Len(Arms)

CurrentQuery ==
  eval.queries[IF Scoring THEN Len(eval.rows) + 1 ELSE Len(eval.pairs) \div Len(Arms) + 1]

\* All arms run at the same time and share nothing they change: their answers come in
\* the order of the arms, whichever is ready first.
RunArms(texts) ==
  /\ eval.running /\ eval.answers = <<>>
  /\ Scoring \/ Agreement
  /\ eval' = [eval EXCEPT !.answers =
                [i \in DOMAIN Arms |-> ArmAnswer(Arms[i], CurrentQuery, texts[Arms[i]])]]
  /\ UNCHANGED <<vars, result, surface, answer>>

Blinded == BlindAnswers(eval.answers, Shuffle[eval.seed][CurrentQuery])

Score(rater, blinded) ==
  ScoreAnswer(Rating[rater][blinded.text], blinded.citations)

\* run_query(): the answers are scored under their labels, and the labels undone.
ScoreQuery ==
  /\ eval.answers # <<>> /\ Scoring
  /\ LET labelOf(arm) == CHOOSE p \in DOMAIN Blinded.armOf : Blinded.armOf[p] = arm
     IN  eval' = [eval EXCEPT !.answers = <<>>, !.rows = Append(@,
                    [query |-> CurrentQuery, answers |-> eval.answers,
                     context |-> Context(CurrentQuery), labels |-> Blinded.armOf,
                     scores |-> [arm \in Range(Blinded.armOf) |->
                                   Score("first", Blinded.blinded[labelOf(arm)])]])]
  /\ UNCHANGED <<vars, result, surface, answer>>

\* _compute_agreement(): two raters' totals of each of the answers.
RateTwice ==
  /\ eval.answers # <<>> /\ Agreement
  /\ eval' = [eval EXCEPT !.answers = <<>>, !.pairs = @ \o
                [p \in DOMAIN Blinded.blinded |->
                   [of |-> Filter(eval.answers, LAMBDA x : x.arm = Blinded.armOf[p])[1],
                    a |-> Score("first", Blinded.blinded[p]).total,
                    b |-> Score("second", Blinded.blinded[p]).total]]]
  /\ UNCHANGED <<vars, result, surface, answer>>

\* An arm, or a rater, raises, and nothing of the evaluation is kept.
EvaluationFails ==
  /\ eval.running
  /\ Scoring \/ Agreement
  /\ eval' = NoEval
  /\ UNCHANGED <<vars, result, surface, answer>>

\* Bound: an evaluation or an answer is looked at before anything else happens.
Reported == /\ answer # NoAnswer \/ eval.running
            /\ eval.running => ~Scoring /\ ~Agreement
            /\ answer' = NoAnswer /\ eval' = NoEval
            /\ UNCHANGED <<vars, result, surface>>

\* Bound: the store changes while nobody is being answered.
StoreStep ==
  /\ answer = NoAnswer /\ ~eval.running
  /\ \/ \E list \in Results : LoadRun(list)
     \/ \E e \in DOMAIN edges : Correct(e)
     \/ TimePasses
     \/ BuildSurface

ServeNext ==
  \/ StoreStep
  \/ UseTool
  \/ \E evaluation \in Evaluations : StartEvaluation(evaluation)
  \/ \E texts \in Texts : RunArms(texts)
  \/ ScoreQuery \/ RateTwice
  \/ EvaluationFails
  \/ Reported

ServingSpec == ServeInit /\ [][ServeNext]_servingVars

-----------------------------------------------------------------------------
(* Properties *)

\* The rank a hit, or a claim that is none, has in a ranking, and behind all without.
Behind(list, c) == IF RankIn(list, c) = 0 THEN Len(list) + 1 ELSE RankIn(list, c)

\* Steps(n): what n hops from the seeds reach inside the universe.
Reach(seeds, universe) ==
  LET reach[n \in 0..Depth] ==
        IF n = 0 THEN seeds
        ELSE reach[n - 1] \cup (universe \cap UNION {surface.neighbors[c] : c \in reach[n - 1]})
  IN  reach

\* What a claim's places by meaning and by words are worth together.
ContentWorth(s, c) ==
  (Unit \div (RrfK + RankIn(s.semantic, c))) + (Unit \div (RrfK + RankIn(s.lexical, c)))

\* No signal is lost in the fusion: a hit that another claim beats by meaning, by words
\* and in the graph does not come before it, nor in its place.  The graph ranks what is
\* near its first places, all of it and nothing else, the nearer first; and its first
\* places, as many as the traversal starts from, are of the best by content.
RankedBySignals ==
  answer.tool = "search_dialogue" =>
    LET universe == Universe(surface, answer.since, answer.until)
        s == Signals(surface, answer.query, answer.since, answer.until)
        at(c) == IF \E i \in DOMAIN answer.hits : answer.hits[i].id = c
                 THEN CHOOSE i \in DOMAIN answer.hits : answer.hits[i].id = c
                 ELSE Len(answer.hits) + 1
        beats(c, d) == /\ Behind(s.semantic, c) < Behind(s.semantic, d)
                       /\ Behind(s.lexical, c) < Behind(s.lexical, d)
                       /\ Behind(s.graph, c) <= Behind(s.graph, d)
        seeds == {c \in universe : RankIn(s.graph, c) \in 1..SeedK}
        reach == Reach(seeds, universe)
    IN  /\ Len(answer.hits) = Min({TopK, Cardinality(universe)})
        /\ \A c, d \in universe : beats(c, d) => at(c) <= at(d)
        /\ Cardinality(seeds) = IF Depth = 0 THEN 0 ELSE Min({SeedK, Cardinality(universe)})
        /\ \A c \in seeds, d \in universe \ seeds : ContentWorth(s, c) >= ContentWorth(s, d)
        /\ Range(s.graph) = reach[Depth]
        /\ \A c, d \in Range(s.graph) :
             (\E n \in 0..Depth : c \in reach[n] /\ d \notin reach[n])
               => RankIn(s.graph, c) < RankIn(s.graph, d)

\* The trends that were told: by a tool, or to the arm of the graph.
ToldTrends ==
  (IF answer.tool = "consensus_trend" THEN {answer.trend} ELSE {})
    \cup UNION {Range(eval.rows[r].context) : r \in DOMAIN eval.rows}

CountedOf(subject) == {i \in DOMAIN surface.counted : surface.counted[i].subject = subject}

\* Search and consensus have their claims from different places and may be asked about
\* an old surface.  Still, a claim that a trend counts is one that search has, unless
\* its assertion has been invalidated; whatever search finds is in the store, asserted
\* by the speaker it is credited to, and found by its id.
CountedIsSearchable ==
  /\ \A trend \in ToldTrends : \A i \in CountedOf(trend.subject) :
       LET c == surface.counted[i].id
       IN  c \in surface.claims \/ edges[AssertsEdge(c)].invalidated
  /\ answer.tool = "search_dialogue" =>
       \A i \in DOMAIN answer.hits :
         LET c == answer.hits[i].id
         IN  /\ c \in DOMAIN claims /\ AssertsEdge(c) \in DOMAIN edges
             /\ Provenance(c) = c
  /\ answer.tool = "who_discussed" =>
       \A c \in Universe(surface, answer.since, 0) :
         WhoK >= Cardinality(surface.claims)
           => \E i \in DOMAIN answer.mentions : answer.mentions[i].speaker = SpeakerOf[c]

Opposite(direction) ==
  CASE direction = "rising" -> "falling" [] direction = "falling" -> "rising"
    [] OTHER -> direction

Inverted(counted) == [i \in DOMAIN counted |->
                        [counted[i] EXCEPT !.sentiment = -counted[i].sentiment]]

\* A trend takes no side, and nobody's claims are lost in it or counted twice: were all
\* sentiments the opposite, it would be the opposite; every claim of the run about the
\* subject is in one bucket, and under its speaker; and a person who is alone with the
\* subject is never said to have moved the other way.
TrendMirrors ==
  \A trend \in ToldTrends :
    LET subject == trend.subject
        told(person) == {k \in DOMAIN trend.buckets : person \in DOMAIN trend.buckets[k].breakdown}
        history(person) == BeliefHistory(trend, person).direction
    IN  /\ ConsensusOverTime(Inverted(surface.counted), subject, Width).direction
             = Opposite(trend.direction)
        /\ SumFunction([k \in DOMAIN trend.buckets |-> trend.buckets[k].count])
             = Cardinality(CountedOf(subject))
        /\ \A person \in Speaker :
             SumFunction([k \in told(person) |-> trend.buckets[k].breakdown[person].count])
               = Cardinality({i \in CountedOf(subject) : surface.counted[i].speaker = person})
        /\ \A person \in Speaker :
             (\A i \in CountedOf(subject) : /\ surface.counted[i].speaker = person
                                             /\ surface.counted[i].confidence = 1)
               => {trend.direction, history(person)} # {"rising", "falling"}

OwnTotal(rater, own) == ScoreAnswer(Rating[rater][own.text], own.citations).total

\* Through shuffling, blinding and sorting out again, every arm has the score of its own
\* answer; an arm that is never behind another on any query is not behind in the
\* means or the wins; and the two raters' agreement is about the same answers.
ScoredAsAnswered ==
  LET totals == [r \in DOMAIN eval.rows |->
                   [i \in DOMAIN Arms |-> OwnTotal("first", eval.rows[r].answers[i])]]
  IN  /\ \A r \in DOMAIN eval.rows : \A i \in DOMAIN Arms :
           eval.rows[r].scores[Arms[i]].total = totals[r][i]
      /\ eval.rows # <<>> /\ ~Scoring =>
           \A i, j \in DOMAIN Arms :
             (\A r \in DOMAIN eval.rows : totals[r][i] >= totals[r][j])
               => /\ MeanTotal(Arms[i], eval.rows)[1] >= MeanTotal(Arms[j], eval.rows)[1]
                  /\ WinCount(Arms[i], eval.rows) >= WinCount(Arms[j], eval.rows)
      /\ \A k \in DOMAIN eval.pairs :
           /\ eval.pairs[k].a = OwnTotal("first", eval.pairs[k].of)
           /\ eval.pairs[k].b = OwnTotal("second", eval.pairs[k].of)
      /\ eval.pairs # <<>> =>
           LET kappa == Kappa(eval.pairs)
           IN  /\ -kappa[2] <= kappa[1] /\ kappa[1] <= kappa[2]
               /\ (kappa[1] = kappa[2]) = (Agreeing(eval.pairs) = Len(eval.pairs))

\* Who else may be speaking at a citation: some other segment covers all of it, whose
\* speaker is another or not known.
Crosstalk(citation) ==
  LET truth == TruthOf[citation.episode]
      segments == Segments[citation.episode]
  IN  \E i \in DOMAIN segments :
        /\ segments[i].t_start <= citation.t_start /\ citation.t_end <= segments[i].t_end
        /\ i \notin DOMAIN truth \/ truth[i] # citation.speaker

\* The times and the speaker are those of a segment of a transcript that is checked.
IsTurn(citation) ==
  /\ citation.episode \in Transcribed \cap DOMAIN TruthOf
  /\ \E i \in DOMAIN TruthOf[citation.episode] \cap DOMAIN Segments[citation.episode] :
       LET seg == Segments[citation.episode][i]
       IN  /\ seg.t_start = citation.t_start /\ seg.t_end = citation.t_end
           /\ seg.t_end > seg.t_start
           /\ TruthOf[citation.episode][i] = citation.speaker

\* An answer is not made to pay for a neighbour: of its citations only those fail that
\* are no turn of their speaker, or are one that somebody else talks over.
CitationsPass ==
  \A r \in DOMAIN eval.rows : \A i \in DOMAIN Arms :
    LET citations == eval.rows[r].answers[i].citations
    IN  eval.rows[r].scores[Arms[i]].rejected
          <= Cardinality({k \in DOMAIN citations :
                            ~IsTurn(citations[k]) \/ Crosstalk(citations[k])})
=============================================================================
