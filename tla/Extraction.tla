------------------------------ MODULE Extraction ------------------------------
(***************************************************************************)
(* From a transcript's segments to claims: the windows of                  *)
(* extraction/chunking.py, the candidates extraction/extractor.py lets     *)
(* through, the evidence extraction/grounding.py finds for them, and the   *)
(* clusters resolution/subjects.py makes of the subjects of one batch.     *)
(*                                                                         *)
(* Times are whole seconds, so the extractor's tolerance of less than one  *)
(* does not show.  What a candidate has besides a label, a span, a subject *)
(* and an object is valid or it is not.                                    *)
(***************************************************************************)
EXTENDS SpeakerIdentity

CONSTANTS Length,         \* characters of a token
          Heading,        \* characters a segment's times and speaker take
          MaxChars,       \* the budget of a chunk
          OverlapSegments,   \* segments a chunk repeats of the one before
          MatchPercent,   \* how much of a segment evidence must be to be found there
          Subject, Blank, \* surface forms of subjects, and one that is only spaces
          TypeOf,         \* their types
          Rank,           \* their order: the longest first, then alphabetical
          Like,           \* how similar two of them are
          LikeEnough      \* when they are one subject

ASSUME ExtractionAssumption ==
  /\ Length \in [Token -> Nat] /\ Heading \in Nat
  /\ MaxChars \in Nat \ {0} /\ OverlapSegments \in Nat
  /\ MatchPercent \in 1..100
  /\ Blank \notin Subject
  /\ Rank \in [Subject -> Nat]
  /\ \A a, b \in Subject : a # b => Rank[a] # Rank[b]
  /\ Like \in [Subject \X Subject -> Nat] /\ LikeEnough \in Nat

-----------------------------------------------------------------------------
(* Chunks: the segments first to last *)

LineChars(seg) ==
  Heading + MapThenSumSet(LAMBDA i : Length[seg.text[i]], DOMAIN seg.text)

\* Lines are joined by one newline each.
Chars(segments, first, last) ==
  (last - first) + MapThenSumSet(LAMBDA i : LineChars(segments[i]), first..last)

\* As many whole segments as the budget has room for, and one that has not.
ChunkLast(segments, first) ==
  Max({first} \cup {l \in first..Len(segments) : Chars(segments, first, l) <= MaxChars})

\* MUTANT of NextFirst: the whole chunk may be repeated.
NextFirstRepeating(first, last) == last + 1 - Smaller(OverlapSegments, last - first + 1)

\* Where the next chunk starts: back by the overlap, but never to where this one did.
NextFirst(first, last) == last + 1 - Smaller(OverlapSegments, last - first)

ChunkStart(segments, chunk) ==
  Min({segments[i].t_start : i \in chunk.first..chunk.last})

ChunkEnd(segments, chunk) ==
  Max({segments[i].t_end : i \in chunk.first..chunk.last})

-----------------------------------------------------------------------------
(* Candidates *)

NoSubject == [type |-> 0, seed |-> Blank]

Item == [valid : BOOLEAN, label : Nat, t_start : Int, t_end : Int,
         subject : Subject \cup {Blank}, object : Token]

\* A candidate is kept if the chunk has its label, its span is one of the chunk's
\* times, and everything else about it is as it should be.
Keeps(segments, chunk, item) ==
  /\ item.valid
  /\ item.label \in {segments[i].speaker : i \in chunk.first..chunk.last}
  /\ item.t_start <= item.t_end
  /\ item.t_start >= ChunkStart(segments, chunk)
  /\ item.t_end <= ChunkEnd(segments, chunk)
  /\ item.subject # Blank

ClaimOf(episode, item) ==
  [episode |-> episode, label |-> item.label, speaker |-> NoId, subject |-> item.subject,
   canonical |-> NoSubject, object |-> item.object,
   t_start |-> item.t_start, t_end |-> item.t_end]

BuildClaims(episode, segments, chunk, items) ==
  LET kept == Filter(items, LAMBDA item : Keeps(segments, chunk, item))
  IN  [i \in DOMAIN kept |-> ClaimOf(episode, kept[i])]

-----------------------------------------------------------------------------
(* Grounding *)

\* How much of a segment the evidence is.  The real score blends two measures of it.
MatchScore(evidence, seg) ==
  IF evidence \in Range(seg.text) THEN 100 \div Cardinality(Range(seg.text)) ELSE 0

\* The segment the evidence matches best, the first of equals; 0 if it matches none.
BestSegment(evidence, segments) ==
  LET score(i) == MatchScore(evidence, segments[i])
      best == {i \in DOMAIN segments :
                 score(i) > 0 /\ \A j \in DOMAIN segments : score(j) <= score(i)}
  IN  IF best = {} THEN 0 ELSE Min(best)

\* A claim takes the times and the label of the segment of its evidence, wherever in
\* the episode that is; without one it stays as the model gave it.
GroundClaim(claim, segments) ==
  LET i == BestSegment(claim.object, segments)
  IN  IF i # 0 /\ MatchScore(claim.object, segments[i]) >= MatchPercent
      THEN [claim EXCEPT !.label = segments[i].speaker,
                         !.t_start = segments[i].t_start, !.t_end = segments[i].t_end]
      ELSE claim

-----------------------------------------------------------------------------
(* The subjects of a batch *)

\* The seed a form joins: of those like enough the one it is most like, and the last
\* one of equals.  0 if it opens a cluster of its own.
JoinedSeed(form, seeds) ==
  LET like(i) == Like[form, seeds[i]]
      near == {i \in DOMAIN seeds : like(i) >= LikeEnough}
  IN  IF near = {} THEN 0
      ELSE Max({i \in near : \A j \in near : like(j) <= like(i)})

\* Forms of one type in order of rank: the seeds, each the name of its cluster.
Seeds(forms) ==
  LET open(seeds, form) == IF JoinedSeed(form, seeds) # 0 THEN seeds ELSE Append(seeds, form)
  IN  FoldLeft(open, <<>>, SetToSortSeq(forms, LAMBDA a, b : Rank[a] < Rank[b]))

\* The id of a form in a batch of forms: that of the seed it joined when its turn came,
\* among the seeds of its type that had opened by then.
CanonicalId(form, forms) ==
  LET alike == {f \in forms : TypeOf[f] = TypeOf[form]}
      before == Seeds({f \in alike : Rank[f] < Rank[form]})
      i == JoinedSeed(form, before)
  IN  [type |-> TypeOf[form], seed |-> IF i = 0 THEN form ELSE before[i]]

\* Copies of all claims, in order, with the ids of their subjects.
StampSubjects(claims, ids) ==
  [i \in DOMAIN claims |-> [claims[i] EXCEPT !.canonical = ids[claims[i].subject]]]

\* MUTANT of ResolveSubjects: claims nobody is known to have made are left out.
ResolveSomeSubjects(claims) ==
  LET forms == {claims[i].subject : i \in DOMAIN claims}
  IN  Filter(StampSubjects(claims, [form \in forms |-> CanonicalId(form, forms)]),
             LAMBDA c : c.speaker # NoId)

\* Copies of all claims, in order, with the ids of the batch's clusters.
ResolveSubjects(claims) ==
  LET forms == {claims[i].subject : i \in DOMAIN claims}
  IN  StampSubjects(claims, [form \in forms |-> CanonicalId(form, forms)])
=============================================================================
