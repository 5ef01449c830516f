---------------------------- MODULE MCGraphStore ----------------------------
(* Values for model checking GraphStore. *)
EXTENDS GraphStore, TLC

CONSTANTS ann, bob, ai, gpu, old, new, undated

\* Ann speaks of ai in two episodes with dates, and Bob in one without, where he
\* mentions gpu as well.
Ids == 1..3

Speakers == (1 :> ann) @@ (2 :> bob) @@ (3 :> ann)
Subjects == [c \in Ids |-> ai]
Episodes == (1 :> new) @@ (2 :> undated) @@ (3 :> old)
Mentions == [c \in Ids |-> IF c = 2 THEN {gpu, ai} ELSE {}]
Dates == (old :> 1) @@ (new :> 2) @@ (undated :> Undated)

\* The batch of the oldest episode, and of all.
EpisodeBatches == {{3}, {1, 2, 3}}
=============================================================================
