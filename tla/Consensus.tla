------------------------------- MODULE Consensus -------------------------------
(***************************************************************************)
(* consensus_over_time() of retrieval/consensus.py, and what a person's    *)
(* belief history (mcp/server.py) makes of it.                             *)
(*                                                                         *)
(* A claim has a sentiment, in tenths, a confidence, a speaker, a subject  *)
(* and a time.  Its stance is averaged as its sentiment is, and left out.  *)
(* Means are fractions <<numerator, denominator>>.                         *)
(***************************************************************************)
EXTENDS Lists, FiniteSetsExt, SequencesExt

CONSTANTS FlatThreshold,   \* in tenths
          Bulk             \* how much a point of confidence outweighs none

ASSUME ConsensusAssumption == FlatThreshold \in Nat \ {0} /\ Bulk \in Nat \ {0}

\* A claim of no confidence still counts, for next to nothing.
Weight(claim) == IF claim.confidence > 0 THEN claim.confidence * Bulk ELSE 1

MeanSentiment(ids, claims) ==
  <<SumFunction([c \in ids |-> Weight(claims[c]) * claims[c].sentiment]),
    SumFunction([c \in ids |-> Weight(claims[c])])>>

PlainMean(ids, claims) ==
  <<SumFunction([c \in ids |-> claims[c].sentiment]), Cardinality(ids)>>

\* What a speaker's claims are in a bucket: how many, and their plain mean.
BucketOf(ids, claims, start, width) ==
  [start |-> start, end |-> start + width, count |-> Cardinality(ids),
   sentiment |-> MeanSentiment(ids, claims),
   breakdown |-> [s \in {claims[c].speaker : c \in ids} |->
                    LET own == {c \in ids : claims[c].speaker = s}
                    IN  [count |-> Cardinality(own), sentiment |-> PlainMean(own, claims)]]]

\* From fraction p to fraction q, as a fraction.
Step(p, q) == <<q[1] * p[2] - p[1] * q[2], p[2] * q[2]>>

Above(step) == step[1] > FlatThreshold * step[2]
Below(step) == step[1] < -FlatThreshold * step[2]

\* MUTANT of Direction: a fall is flat, for it is below the threshold.
DirectionUnsigned(series) ==
  LET delta == Step(series[1], series[Len(series)])
      steps == {Step(series[i], series[i + 1]) : i \in 1..(Len(series) - 1)}
  IN  IF Len(series) < 2 THEN "insufficient"
      ELSE IF (\E s \in steps : Above(s)) /\ (\E s \in steps : Below(s)) THEN "mixed"
      ELSE IF delta[1] < FlatThreshold * delta[2] THEN "flat"
      ELSE "rising"

\* A reversal is mixed; otherwise the first and the last bucket decide.
Direction(series) ==
  LET delta == Step(series[1], series[Len(series)])
      steps == {Step(series[i], series[i + 1]) : i \in 1..(Len(series) - 1)}
      little == /\ delta[1] < FlatThreshold * delta[2]
                /\ -delta[1] < FlatThreshold * delta[2]
  IN  IF Len(series) < 2 THEN "insufficient"
      ELSE IF (\E s \in steps : Above(s)) /\ (\E s \in steps : Below(s)) THEN "mixed"
      ELSE IF little THEN "flat"
      ELSE IF delta[1] > 0 THEN "rising" ELSE "falling"

\* The claims of the subject, all in the list of them, in buckets from the earliest on;
\* empty ones are left out.
ConsensusOverTime(claims, subject, width) ==
  LET ids == {c \in DOMAIN claims : claims[c].subject = subject}
      origin == Min({claims[c].time : c \in ids})
      index(c) == (claims[c].time - origin) \div width
      order == Ordered({index(c) : c \in ids}, LAMBDA i, j : i < j)
      buckets == [i \in DOMAIN order |->
                    BucketOf({c \in ids : index(c) = order[i]}, claims,
                             origin + order[i] * width, width)]
  IN  IF ids = {} THEN [subject |-> subject, buckets |-> <<>>, direction |-> "insufficient"]
      ELSE [subject |-> subject, buckets |-> buckets,
            direction |-> Direction([i \in DOMAIN buckets |-> buckets[i].sentiment])]

\* The buckets a person speaks in.  Unlike for a trend, a change by the threshold is flat.
BeliefHistory(trend, person) ==
  LET own == Filter(trend.buckets, LAMBDA b : person \in DOMAIN b.breakdown)
      points == [i \in DOMAIN own |-> own[i].breakdown[person]]
      delta == Step(points[1].sentiment, points[Len(points)].sentiment)
  IN  [points |-> points,
       direction |-> IF Len(points) < 2 THEN "insufficient"
                     ELSE IF Above(delta) THEN "rising"
                     ELSE IF Below(delta) THEN "falling" ELSE "flat"]
=============================================================================
