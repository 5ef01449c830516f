------------------------------- MODULE MCServing -------------------------------
(* Values for model checking Serving. *)
EXTENDS Serving

CONSTANTS ann, bob, ai, gpu, old, new, undated, q1, q2, ref

\* Ann speaks of ai in an old and a new episode, in the new one while Bob talks; Bob of
\* ai in an episode without a date, and of gpu in the old one.
Ids == 1..4
Speakers == (1 :> ann) @@ (2 :> bob) @@ (3 :> ann) @@ (4 :> bob)
Subjects == (1 :> ai) @@ (2 :> ai) @@ (3 :> ai) @@ (4 :> gpu)
Episodes == (1 :> new) @@ (2 :> undated) @@ (3 :> old) @@ (4 :> old)
Mentions == [c \in Ids |-> {}]
Dates == (old :> 1) @@ (new :> 3) @@ (undated :> Undated)
Order == (ai :> 1) @@ (gpu :> 2)
EpisodesInOrder == (new :> 1) @@ (old :> 2) @@ (undated :> 3)

Item(c, s, sentiment, confidence) ==
  [id |-> c, sign |-> s, sentiment |-> sentiment, confidence |-> confidence]

\* Bob's old claim; all of ai, where Ann changes her mind; and the later episodes with
\* Bob's old claim again, one claim twice, with two signs.
RunResults == {<<Item(4, -1, -4, 0)>>,
               <<Item(3, -1, -2, 1), Item(2, 1, 3, 1), Item(1, -1, -6, 1)>>,
               <<Item(1, 1, 2, 1), Item(1, -1, 4, 1), Item(2, 1, 3, 1), Item(4, 1, 0, 1)>>}

Seg(label, start, end) == [speaker |-> label, t_start |-> start, t_end |-> end]

Transcripts ==
  (old     :> <<Seg(1, 0, 10), Seg(2, 8, 20), Seg(1, 20, 30)>>) @@
  (new     :> <<Seg(1, 0, 12), Seg(2, 0, 10)>>) @@
  (undated :> <<Seg(1, 0, 10), Seg(2, 9, 14)>>)

\* In the new episode the labels are the other way round; the last segment of the old
\* one has no speaker, and neither has any of the undated one.
Truth == (old :> ((1 :> ann) @@ (2 :> bob))) @@
         (new :> ((1 :> bob) @@ (2 :> ann)))
RefHolds == (ref :> {2, 4})
Labels == (1 :> ann) @@ (2 :> bob)

Spans == (1 :> [t_start |-> 0, t_end |-> 10]) @@ (2 :> [t_start |-> 9, t_end |-> 14]) @@
         (3 :> [t_start |-> 0, t_end |-> 10]) @@ (4 :> [t_start |-> 8, t_end |-> 20])

Nearness == (q1 :> <<3, 5, 9, 4>>) @@ (q2 :> <<9, 8, 1, 8>>)
WordsOf == (q1 :> {"scaling", "laws"}) @@ (q2 :> {"shortage"}) @@
           (1 :> {"scaling"}) @@ (2 :> {"laws", "shortage"}) @@ (3 :> {"scaling", "laws"}) @@
           (4 :> {"shortage"})
Windows == (q1 :> ((<<old, 1>> :> 4) @@ (<<old, 2>> :> 4) @@ (<<new, 1>> :> 4) @@ (<<undated, 1>> :> 2))) @@
           (q2 :> ((<<old, 1>> :> 1) @@ (<<old, 2>> :> 2) @@ (<<new, 1>> :> 3) @@ (<<undated, 1>> :> 3)))

ArmOrder == <<"model_alone", "model_web_search", "model_naive_rag", "model_dlogos">>
TextsOfArms == [a \in {"model_alone", "model_web_search", "model_naive_rag", "model_dlogos"} |->
                  IF a = "model_dlogos" THEN {"poor", "good"}
                  ELSE IF a = "model_naive_rag" THEN {"good"} ELSE {"poor"}]

Scores(synthesis, attribution) ==
  [temporal_consensus_synthesis |-> synthesis, attribution_precision |-> attribution]
Ratings ==
  [first  |-> [poor |-> Scores(0, 3), good |-> Scores(4, 12)],
   second |-> [poor |-> Scores(1, 0), good |-> Scores(3, 12)]]
DimensionWeights == [temporal_consensus_synthesis |-> 2, attribution_precision |-> 1]

PeriodsAsked == {<<0, 0>>, <<2, 0>>, <<0, 1>>}

Orders == (1 :> ((q1 :> <<3, 1, 4, 2>>) @@ (q2 :> <<2, 4, 1, 3>>))) @@
          (2 :> ((q1 :> <<1, 2, 3, 4>>) @@ (q2 :> <<4, 3, 2, 1>>)))
EvaluationRuns == {[queries |-> <<q1, q2>>, seed |-> 1, subset |-> 1],
                   [queries |-> <<q2>>, seed |-> 2, subset |-> 2]}
=============================================================================
