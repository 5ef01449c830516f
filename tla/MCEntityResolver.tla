-------------------------- MODULE MCEntityResolver --------------------------
(* Values for model checking EntityResolver. *)
EXTENDS EntityResolver, TLC

CONSTANTS person, org, concept, a, b, c, d, e, q1, q2

F(t, n) == [type |-> t, name |-> n]

\* Two names of one organization, one of which is also taken for a person's, and
\* another organization that is like the first; three concepts, each like the next.
Forms == {F(org, a), F(org, b), F(person, a), F(org, c),
          F(concept, c), F(concept, d), F(concept, e)}

\* The first organization and the person, its other name, and so with the concepts.
FormBatches == {{F(org, a), F(person, a), F(org, c)}, {F(org, b)},
                {F(concept, c), F(concept, e)}, {F(concept, c), F(concept, d)}}

Qids == [f \in Forms |-> CASE f.type = concept -> NoQid
                           [] f.name = c -> q2
                           [] OTHER -> q1]

Near(m, n) == {m, n} \in {{a, c}, {c, d}, {d, e}}

\* Alike, like enough to ask, and unlike.
Scores == [p \in {a, b, c, d, e} \X {a, b, c, d, e} |->
             CASE p[1] = p[2] -> 3
               [] Near(p[1], p[2]) -> 2
               [] {p[1], p[2]} = {b, c} -> 1
               [] OTHER -> 0]

Highs == [t \in {person, org, concept} |-> 2]
Lows == [t \in {person, org, concept} |-> 1]
=============================================================================
