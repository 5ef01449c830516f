\* Seven forms of three types, three batches.
CONSTANTS
  person = person
  org = org
  concept = concept
  a = a
  b = b
  c = c
  d = d
  e = e
  q1 = q1
  q2 = q2
  Name = {a, b, c, d, e}
  Type = {person, org, concept}
  Linkable = {person, org}
  Form <- Forms
  Qid = {q1, q2}
  NoQid = NoQid
  QidOf <- Qids
  MaxScore = 3
  Score <- Scores
  High <- Highs
  Low <- Lows
  Batches <- FormBatches
  MaxBatches = 3
SPECIFICATION Spec
INVARIANTS TypeOK OneRowPerQid IdsKnown UnlinkedStable
