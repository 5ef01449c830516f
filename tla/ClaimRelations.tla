--------------------------- MODULE ClaimRelations ---------------------------
(***************************************************************************)
(* graph/relations.py: the edges that hold between claims, derived over a  *)
(* batch when it is loaded.                                                *)
(*                                                                         *)
(* A claim id is the hash of the claim's speaker, predicate, subject,      *)
(* object, episode and start time, so it determines them; stance and       *)
(* sentiment are not hashed, and vary from one extraction to the next.  Of *)
(* both, relations only see a sign.  Ids are numbers here, for the order   *)
(* ties are broken by.                                                     *)
(***************************************************************************)
EXTENDS Integers, FiniteSets

CONSTANTS ClaimId,        \* claim ids
          Speaker,        \* canonical speaker ids
          Entity,         \* canonical entity ids
          Episode,        \* episode ids
          SpeakerOf,      \* the speaker, subject and episode a claim id
          SubjectOf,      \* is the hash of
          EpisodeOf

ASSUME ClaimAssumption ==
  /\ ClaimId \subseteq Nat
  /\ SpeakerOf \in [ClaimId -> Speaker]
  /\ SubjectOf \in [ClaimId -> Entity]
  /\ EpisodeOf \in [ClaimId -> Episode]

\* claim_polarity, by its sign: asserts and predicts are 1, disputes and retracts
\* -1, and hedges 0, whatever the sentiment.
Sign == {-1, 0, 1}

EdgeKey(type, src, dst) == [type |-> type, src |-> src, dst |-> dst]

\* MUTANT of Newer: the older claim comes first.
OlderFirst(a, b, time) ==
  \/ time[EpisodeOf[a]] < time[EpisodeOf[b]]
  \/ time[EpisodeOf[a]] = time[EpisodeOf[b]] /\ a < b

\* Claim a comes after claim b: by event time, then by id.
Newer(a, b, time) ==
  \/ time[EpisodeOf[a]] > time[EpisodeOf[b]]
  \/ time[EpisodeOf[a]] = time[EpisodeOf[b]] /\ a > b

-----------------------------------------------------------------------------
(* agrees_with and disputes *)

\* Two speakers' claims on one subject, neither of them neutral.
Comparable(a, b, sign) ==
  /\ SubjectOf[a] = SubjectOf[b]
  /\ SpeakerOf[a] # SpeakerOf[b]
  /\ sign[a] # 0 /\ sign[b] # 0

\* The pairs (a, b) and (c, d) say the same of the same two speakers.
SameRelation(a, b, c, d, sign) ==
  /\ SubjectOf[a] = SubjectOf[c]
  /\ {SpeakerOf[a], SpeakerOf[b]} = {SpeakerOf[c], SpeakerOf[d]}
  /\ (sign[a] = sign[b]) = (sign[c] = sign[d])

\* The pair is the first, in the order of ids, of those that say the same.
FirstOfItsKind(a, b, batch, sign) ==
  \A c, d \in batch :
     c < d /\ Comparable(c, d, sign) /\ SameRelation(a, b, c, d, sign)
        => a < c \/ (a = c /\ b <= d)

\* One edge for each relation of two speakers about a subject.
StanceEdges(batch, sign, time) ==
  {EdgeKey(IF sign[p[1]] = sign[p[2]] THEN "agrees_with" ELSE "disputes",
           p[1], p[2]) :
     p \in {q \in batch \X batch :
              /\ Newer(q[1], q[2], time)
              /\ Comparable(q[1], q[2], sign)
              /\ IF q[1] < q[2] THEN FirstOfItsKind(q[1], q[2], batch, sign)
                                ELSE FirstOfItsKind(q[2], q[1], batch, sign)}}

-----------------------------------------------------------------------------
(* supersedes *)

\* One speaker's claims on one subject, next to each other in time.
Consecutive(newer, older, batch, time) ==
  LET SameGroup(c) == /\ SpeakerOf[c] = SpeakerOf[newer]
                      /\ SubjectOf[c] = SubjectOf[newer]
  IN  /\ SameGroup(older)
      /\ Newer(newer, older, time)
      /\ ~ \E c \in batch : /\ SameGroup(c)
                            /\ Newer(newer, c, time)
                            /\ Newer(c, older, time)

\* A speaker reverses their position from one claim to the next.
SupersessionEdges(batch, sign, time) ==
  {EdgeKey("supersedes", p[1], p[2]) :
     p \in {q \in batch \X batch :
              /\ Consecutive(q[1], q[2], batch, time)
              /\ sign[q[1]] * sign[q[2]] = -1}}
=============================================================================
