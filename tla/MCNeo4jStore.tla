---------------------------- MODULE MCNeo4jStore ----------------------------
(* Values for model checking Neo4jStore. *)
EXTENDS Neo4jStore, TLC

CONSTANTS ann, bob, ai, gpu, dated, undated

\* Ann's claim in an episode with a date, and Bob's in one without, where he
\* mentions what she talks of.
Ids == 1..2

Speakers == (1 :> ann) @@ (2 :> bob)
Subjects == [c \in Ids |-> ai]
Episodes == (1 :> dated) @@ (2 :> undated)
Mentions == (1 :> {}) @@ (2 :> {gpu})
Dates == (dated :> 1) @@ (undated :> Undated)
=============================================================================
