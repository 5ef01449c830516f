------------------------------ MODULE Evaluation ------------------------------
(***************************************************************************)
(* Scoring: the citation check and the rubric (eval/rubric.py), blinding   *)
(* (eval/blind.py), the tallies of eval/runner.py and the agreement of two *)
(* raters (eval/agreement.py).                                             *)
(*                                                                         *)
(* Scores run from 0 to Full, which stands for 1; a total is the weighted  *)
(* sum, not yet divided by the sum of the weights.                         *)
(***************************************************************************)
EXTENDS Retrieval

CONSTANTS Transcribed,    \* the episodes whose transcripts there are to check by
          TruthOf,        \* by episode: the speakers of its segments, by index; some
                          \* segments and some episodes may have none
          Dimension, Weights, AttributionPrecision,
          Full,           \* divisible by every number of citations
          Edges           \* the totals a band ends below

ASSUME EvaluationAssumption ==
  /\ Transcribed \subseteq DOMAIN Segments
  /\ IsFiniteSet(Dimension) /\ Weights \in [Dimension -> Nat]
  /\ AttributionPrecision \in Dimension
  /\ Full \in Nat \ {0} /\ Edges \subseteq Nat /\ IsFiniteSet(Edges)

-----------------------------------------------------------------------------
(* The citation check *)

\* How long two spans overlap.
Overlap(a, b) ==
  Max({0, Min({a.t_end, b.t_end}) - Max({a.t_start, b.t_start})})

\* MUTANT of SpeakingAt: the first segment that overlaps, however little.
FirstSpeakingAt(span, segments) ==
  LET heard == {i \in DOMAIN segments : Overlap(span, segments[i]) > 0}
  IN  IF heard = {} THEN 0 ELSE Min(heard)

\* The segment that covers most of a span, the first of equals; 0 if none does.
SpeakingAt(span, segments) ==
  LET covered(i) == Overlap(span, segments[i])
      best == {i \in DOMAIN segments :
                 covered(i) > 0 /\ \A j \in DOMAIN segments : covered(i) >= covered(j)}
  IN  IF best = {} THEN 0 ELSE Min(best)

\* The speaker it is credited to is the one who speaks at the span that is cited.
VerifyCitation(citation) ==
  /\ citation.episode \in Transcribed \cap DOMAIN TruthOf
  /\ LET truth == TruthOf[citation.episode]
         at == SpeakingAt(citation, Segments[citation.episode])
     IN  at \in DOMAIN truth /\ truth[at] = citation.speaker

Verified(citations) == Cardinality({i \in DOMAIN citations : VerifyCitation(citations[i])})

-----------------------------------------------------------------------------
(* The rubric *)

\* Without any transcript, or any speaker of a segment, nothing is checked.
Unchecked == Transcribed = {} \/ DOMAIN TruthOf = {}

\* Credit for attribution is capped by the share of the citations that pass; without
\* citations, or where nothing is checked, the rater is believed.
Capped(rating, citations) ==
  IF citations = <<>> \/ Unchecked THEN rating
  ELSE [rating EXCEPT ![AttributionPrecision] =
          Min({@, (Full * Verified(citations)) \div Len(citations)})]

ScoreAnswer(rating, citations) ==
  LET raw == Capped(rating, citations)
      verified == IF Unchecked THEN 0 ELSE Verified(citations)
  IN  [total |-> SumFunction([d \in Dimension |-> Weights[d] * raw[d]]),
       verified |-> verified,
       rejected |-> IF Unchecked THEN 0 ELSE Len(citations) - verified]

-----------------------------------------------------------------------------
(* Blinding.  A label is a position in the shuffled order. *)

\* MUTANT of BlindAnswers: the map to the arms is in the order of the arms.
BlindUnshuffled(answers, order) ==
  [blinded |-> [p \in DOMAIN order |-> [text |-> answers[order[p]].text,
                                        citations |-> answers[order[p]].citations]],
   armOf |-> [p \in DOMAIN order |-> answers[p].arm]]

\* What the rater sees, and the map that recovers the arms.
BlindAnswers(answers, order) ==
  [blinded |-> [p \in DOMAIN order |-> [text |-> answers[order[p]].text,
                                        citations |-> answers[order[p]].citations]],
   armOf |-> [p \in DOMAIN order |-> answers[order[p]].arm]]

-----------------------------------------------------------------------------
(* Tallies over the rows, which have a score for every arm *)

\* The sum of an arm's totals, and of how many.
MeanTotal(arm, rows) ==
  LET scored == {r \in DOMAIN rows : arm \in DOMAIN rows[r].scores}
  IN  <<SumFunction([r \in scored |-> rows[r].scores[arm].total]), Cardinality(scored)>>

\* A tie credits no one.
Wins(arm, row) ==
  /\ arm \in DOMAIN row.scores
  /\ \A other \in DOMAIN row.scores \ {arm} :
       row.scores[arm].total > row.scores[other].total

WinCount(arm, rows) == Cardinality({r \in DOMAIN rows : Wins(arm, rows[r])})

-----------------------------------------------------------------------------
(* Agreement.  A pair is the totals two raters gave one answer. *)

\* A total at an edge is in the upper band.
Band(total) == Cardinality({e \in Edges : total >= e})

Agreeing(pairs) == Cardinality({i \in DOMAIN pairs : Band(pairs[i].a) = Band(pairs[i].b)})

\* Cohen's kappa, a fraction.  Two raters who only ever use the same band agree.
Kappa(pairs) ==
  LET n == Len(pairs)
      bands == 0..Cardinality(Edges)
      first(k) == Cardinality({i \in DOMAIN pairs : Band(pairs[i].a) = k})
      second(k) == Cardinality({i \in DOMAIN pairs : Band(pairs[i].b) = k})
      chance == SumFunction([k \in bands |-> first(k) * second(k)])
  IN  IF chance = n * n THEN <<IF Agreeing(pairs) = n THEN 1 ELSE 0, 1>>
      ELSE <<Agreeing(pairs) * n - chance, n * n - chance>>
=============================================================================
