------------------------- MODULE BatchPipelineProofs -------------------------
(***************************************************************************)
(* Proofs about BatchPipeline, for any deployment, any episodes and any    *)
(* number of batches and restarts.                                         *)
(***************************************************************************)
EXTENDS BatchPipeline, DataLemmas

-----------------------------------------------------------------------------
(* Sorting *)

\* What is sorted by time is as long as it was, and of the same elements.
LEMMA SortedElements ==
  ASSUME NEW s \in Seq(Segment)
  PROVE  /\ StableSort(s, Sooner) \in Seq(Segment)
         /\ Len(StableSort(s, Sooner)) = Len(s)
<1> DEFINE n == Len(s)
           Precedes(i, j) == Sooner(s[i], s[j]) \/ (~Sooner(s[j], s[i]) /\ i < j)
           Place(i) == 1 + Cardinality({j \in 1..n : Precedes(j, i)})
           order == {q \in (1..n) \X (1..n) : Precedes(q[1], q[2])}
<1>1. DOMAIN s = 1..n /\ n \in Nat /\ n = Len(s) /\ \A i \in 1..n : s[i] \in Segment
  BY LenProperties
<1> HIDE DEF n
<1>2. IsFiniteSet(1..n) /\ Cardinality(1..n) = n
  <2>1. n \in Nat
    BY <1>1
  <2> QED
    BY <2>1, FS_Interval
<1>3. \A i \in 1..n : s[i].t_start \in Int /\ s[i].t_end \in Int
  BY <1>1 DEF Segment
<1> DEFINE start == [i \in 1..n |-> s[i].t_start]
           end == [i \in 1..n |-> s[i].t_end]
<1>10. /\ \A i \in 1..n : start[i] \in Int /\ end[i] \in Int
       /\ \A i, j \in 1..n : Sooner(s[i], s[j]) <=>
            start[i] < start[j] \/ (start[i] = start[j] /\ end[i] < end[j])
  BY <1>3 DEF Sooner
<1> HIDE DEF start, end
<1>11. /\ \A i \in 1..n : ~Precedes(i, i)
       /\ \A i, j \in 1..n : i # j => Precedes(i, j) \/ Precedes(j, i)
       /\ \A i, j, k \in 1..n : Precedes(i, j) /\ Precedes(j, k) => Precedes(i, k)
  <2>1. ASSUME NEW i \in 1..n, NEW j \in 1..n
        PROVE  Precedes(i, j) <=> \/ start[i] < start[j]
                                  \/ start[i] = start[j] /\ end[i] < end[j]
                                  \/ start[i] = start[j] /\ end[i] = end[j] /\ i < j
    BY <1>1, <1>10
  <2> HIDE DEF Precedes
  <2>2. ASSUME NEW i \in 1..n, NEW j \in 1..n, NEW k \in 1..n, Precedes(i, j), Precedes(j, k)
        PROVE  Precedes(i, k)
    <3>1. /\ start[i] \in Int /\ start[j] \in Int /\ start[k] \in Int
          /\ end[i] \in Int /\ end[j] \in Int /\ end[k] \in Int
      BY <1>10
    <3> QED
      BY <1>1, <2>1, <2>2, <3>1
  <2>3. ASSUME NEW i \in 1..n, NEW j \in 1..n, i # j PROVE Precedes(i, j) \/ Precedes(j, i)
    <3>1. start[i] \in Int /\ start[j] \in Int /\ end[i] \in Int /\ end[j] \in Int
      BY <1>10
    <3> QED
      BY <1>1, <2>1, <2>3, <3>1
  <2>4. ASSUME NEW i \in 1..n PROVE ~Precedes(i, i)
    <3>1. start[i] \in Int /\ end[i] \in Int
      BY <1>10
    <3> QED
      BY <1>1, <2>1, <3>1
  <2> QED
    BY <2>2, <2>3, <2>4
<1> HIDE DEF Precedes
<1>12. \A i, j \in 1..n : <<i, j>> \in order <=> Precedes(i, j)
  OBVIOUS
<1> HIDE DEF order
<1>4. /\ \A i \in 1..n : <<i, i>> \notin order
      /\ \A i, j \in 1..n : i # j => <<i, j>> \in order \/ <<j, i>> \in order
      /\ \A i, j, k \in 1..n : <<i, j>> \in order /\ <<j, k>> \in order => <<i, k>> \in order
  BY <1>11, <1>12
<1>5. ASSUME NEW i \in 1..n
      PROVE  Place(i) = Cardinality(UpTo(1..n, order, i))
  <2> DEFINE before == {j \in 1..n : Precedes(j, i)}
  <2>1. UpTo(1..n, order, i) = before \cup {i}
    BY <1>12 DEF UpTo
  <2>2. i \notin before
    BY <1>1, <1>11
  <2>3. before \in SUBSET 1..n
    OBVIOUS
  <2>6. Place(i) = 1 + Cardinality(before)
    OBVIOUS
  <2> HIDE DEF before, Place
  <2>4. IsFiniteSet(before) /\ Cardinality(before) \in Nat
    BY <1>2, <2>3, FS_Subset, FS_CardinalityType
  <2>5. Cardinality(before \cup {i}) = Cardinality(before) + 1
    BY <2>2, <2>4, FS_AddElement
  <2>7. Cardinality(UpTo(1..n, order, i)) = Cardinality(before \cup {i})
    BY <2>1, Zenon
  <2> QED
    BY <2>4, <2>5, <2>6, <2>7
<1>6. \A p \in 1..n : \E i \in 1..n : Place(i) = p
  <2>1. \A p \in 1..Cardinality(1..n) :
          \E i \in 1..n : Cardinality(UpTo(1..n, order, i)) = p
    BY <1>2, <1>4, PlacesTaken
  <2> HIDE DEF Place, n
  <2> QED
    BY <1>2, <1>5, <2>1, Zenon
<1>7. StableSort(s, Sooner) = [p \in 1..n |-> s[CHOOSE i \in 1..n : Place(i) = p]]
  BY <1>1 DEF StableSort, Precedes
<1> HIDE DEF Place
<1>8. ASSUME NEW p \in 1..n PROVE StableSort(s, Sooner)[p] \in Segment
  <2>1. (CHOOSE i \in 1..n : Place(i) = p) \in 1..n
    BY <1>6
  <2> QED
    BY <1>1, <1>7, <2>1
<1>9. StableSort(s, Sooner) \in [1..n -> Segment]
  BY <1>1, <1>7, <1>8
<1> QED
  BY <1>1, <1>9

-----------------------------------------------------------------------------
(* What the backends make of what they get *)

Transcript == [segments : Seq(Segment), words : Seq(Segment)]

\* Clamped, a sequence of segments is one as long.
LEMMA ClampedSegments ==
  ASSUME NEW s \in Seq(Segment)
  PROVE  ClampAll(s) \in Seq(Segment) /\ Len(ClampAll(s)) = Len(s)
<1>1. Len(s) \in Nat /\ DOMAIN s = 1..Len(s) /\ \A i \in 1..Len(s) : s[i] \in Segment
  BY LenProperties
<1>2. ASSUME NEW u \in Segment PROVE Clamped(u) \in Segment
  BY DEF Clamped, Segment, Larger
<1>3. ClampAll(s) \in [1..Len(s) -> Segment]
  BY <1>1, <1>2 DEF ClampAll
<1> QED
  BY <1>1, <1>3

\* A hosted result gives a transcript.
LEMMA HostedTyped ==
  ASSUME NEW result \in HostedResult
  PROVE  HostedTranscript(result) \in Transcript
<1>1. result.utterances \in Seq(Segment) /\ result.words \in Seq(Segment)
  BY DEF HostedResult
<1> DEFINE spoken == {i \in DOMAIN result.utterances : Spoken(result.utterances[i])}
<1>2. Filter(result.utterances, Spoken) = Picked(result.utterances, spoken)
  BY DEF Filter
<1>3. spoken \in SUBSET DOMAIN result.utterances
  OBVIOUS
<1> HIDE DEF spoken
<1>4. Filter(result.utterances, Spoken) \in Seq(Segment)
  BY <1>1, <1>2, <1>3, PickedElements
<1>5. PICK clamped \in Seq(Segment) : clamped = ClampAll(Filter(result.utterances, Spoken))
  BY <1>4, ClampedSegments
<1>6. StableSort(clamped, Sooner) \in Seq(Segment)
  BY SortedElements
<1>7. ClampAll(result.words) \in Seq(Segment)
  BY <1>1, ClampedSegments
<1>8. HostedTranscript(result) = [segments |-> StableSort(clamped, Sooner),
                                  words |-> ClampAll(result.words)]
  BY <1>5 DEF HostedTranscript
<1> QED
  BY <1>6, <1>7, <1>8 DEF Transcript

\* A label that is spelled out is a label or a name.
LEMMA FullNameTyped ==
  ASSUME NEW label \in Nat, NEW roster \in SUBSET Nat, IsFiniteSet(roster)
  PROVE  FullName(label, roster) \in Nat
<1> DEFINE meant(rule) == {k \in roster : <<label, k>> \in Spells[rule]}
           hits == {rule \in 1..4 : IF rule = 1 THEN Cardinality(meant(1)) = 1
                                             ELSE meant(rule) # {}}
           chosen == meant(Min(hits))
<1>1. chosen \in SUBSET roster
  OBVIOUS
<1>2. FullName(label, roster) = IF hits # {} /\ Cardinality(chosen) = 1
                                THEN CHOOSE k \in chosen : TRUE ELSE label
  BY DEF FullName
<1> HIDE DEF hits, chosen
<1>3. ASSUME Cardinality(chosen) = 1 PROVE (CHOOSE k \in chosen : TRUE) \in Nat
  <2>1. chosen # {}
    BY <1>3, FS_EmptySet
  <2> QED
    BY <1>1, <2>1
<1> QED
  BY <1>2, <1>3

\* A published page gives a transcript.
LEMMA TextTyped ==
  ASSUME NEW result \in TextResult, IsFiniteSet(result.roster)
  PROVE  TextTranscript(result) \in Transcript
<1>1. result.page \in Seq(Segment) /\ result.roster \in SUBSET Nat
  BY DEF TextResult
<1> DEFINE n == Len(result.page)
           enriched == [i \in DOMAIN result.page |->
                          [result.page[i] EXCEPT !.speaker = FullName(@, result.roster)]]
<1>2. DOMAIN result.page = 1..n /\ n \in Nat /\ \A i \in 1..n : result.page[i] \in Segment
  BY <1>1, LenProperties
<1>3. enriched \in Seq(Segment)
  <2>1. ASSUME NEW i \in 1..n
        PROVE  [result.page[i] EXCEPT !.speaker = FullName(@, result.roster)] \in Segment
    <3>1. result.page[i] \in Segment /\ result.page[i].speaker \in Nat
      BY <1>2 DEF Segment
    <3>2. FullName(result.page[i].speaker, result.roster) \in Nat
      BY <1>1, <3>1, FullNameTyped
    <3> QED
      BY <3>1, <3>2 DEF Segment
  <2>2. enriched \in [1..n -> Segment]
    BY <1>2, <2>1
  <2> QED
    BY <1>2, <2>2
<1>4. TextTranscript(result) = [segments |-> StableSort(enriched, Sooner), words |-> <<>>]
  BY DEF TextTranscript
<1> HIDE DEF enriched
<1>5. StableSort(enriched, Sooner) \in Seq(Segment)
  BY <1>3, SortedElements
<1> QED
  BY <1>4, <1>5, EmptySeq DEF Transcript

\* What has a start and an end overlaps a turn for some time, or is some way from it.
LEMMA OverlapTyped ==
  ASSUME NEW w, w.t_start \in Int, w.t_end \in Int, NEW t \in Turn
  PROVE  Overlap(w, t) \in Int /\ Gap(w, t) \in Int
  BY DEF Overlap, Gap, Larger, Smaller, Turn

\* A word, or a segment, has a speaker, whatever the turns.
LEMMA SpeakerTyped ==
  ASSUME NEW w, w.t_start \in Int, w.t_end \in Int, NEW turns \in SUBSET Turn,
         IsFiniteSet(turns)
  PROVE  SpeakerOf(w, turns) \in Nat
<1>1. CASE turns = {}
  BY <1>1, ShapingAssumption DEF SpeakerOf
<1>2. CASE turns # {}
  <2> DEFINE overlaps == \E x \in turns : Overlap(w, x) > 0
             Better(t, u) == IF overlaps THEN Overlap(w, t) > Overlap(w, u)
                                         ELSE Gap(w, t) < Gap(w, u)
             Beats(t, u) == Better(t, u) \/ (~Better(u, t) /\ EarlierTurn(t, u))
             cost == [t \in turns |-> IF overlaps THEN -Overlap(w, t) ELSE Gap(w, t)]
             order == {q \in turns \X turns : q[1] = q[2] \/ Beats(q[1], q[2])}
  <2>1. \A t \in turns : /\ cost[t] \in Int /\ t.t_start \in Int /\ t.t_end \in Int
                          /\ t.speaker \in Nat
    BY OverlapTyped DEF Turn
  <2>2. \A t, u \in turns : Better(t, u) <=> cost[t] < cost[u]
    BY OverlapTyped
  <2> HIDE DEF Better, cost
  <2>3. \A t, u \in turns :
          t # u => \/ t.t_start # u.t_start \/ t.t_end # u.t_end \/ t.speaker # u.speaker
    BY DEF Turn
  <2>4. \A t, u \in turns :
          Beats(t, u) <=>
            \/ cost[t] < cost[u]
            \/ cost[t] = cost[u] /\ t.t_start < u.t_start
            \/ cost[t] = cost[u] /\ t.t_start = u.t_start /\ t.t_end < u.t_end
            \/ /\ cost[t] = cost[u] /\ t.t_start = u.t_start /\ t.t_end = u.t_end
               /\ t.speaker < u.speaker
    BY <2>1, <2>2 DEF EarlierTurn, Sooner
  <2> HIDE DEF Beats
  <2>5. /\ \A t, u \in turns : t = u \/ Beats(t, u) \/ Beats(u, t)
        /\ \A t, u, v \in turns : Beats(t, u) /\ Beats(u, v) => Beats(t, v)
    BY <2>1, <2>3, <2>4
  <2>6. \A t, u \in turns : <<t, u>> \in order <=> t = u \/ Beats(t, u)
    OBVIOUS
  <2> HIDE DEF order
  <2>7. \E t \in turns : \A u \in turns : <<t, u>> \in order
    <3>1. \A t, u \in turns : <<t, u>> \in order \/ <<u, t>> \in order
      BY <2>5, <2>6
    <3>2. \A t, u, v \in turns : <<t, u>> \in order /\ <<u, v>> \in order => <<t, v>> \in order
      BY <2>5, <2>6
    <3> QED
      BY <1>2, <3>1, <3>2, BestExists
  <2>8. \E t \in turns : \A u \in turns \ {t} : Beats(t, u)
    BY <2>6, <2>7
  <2>9. SpeakerOf(w, turns) = (CHOOSE t \in turns : \A u \in turns \ {t} : Beats(t, u)).speaker
    BY <1>2 DEF SpeakerOf, Beats, Better
  <2> QED
    BY <2>1, <2>8, <2>9
<1> QED
  BY <1>1, <1>2

\* Times are numbers, and none is negative.
LEMMA DurationsTyped ==
  ASSUME NEW s \in Seq(Segment)
  PROVE  /\ DOMAIN Durations(s) = DOMAIN s /\ IsFiniteSet(DOMAIN s)
         /\ \A i \in DOMAIN s : Durations(s)[i] \in Nat
<1>1. DOMAIN s = 1..Len(s) /\ Len(s) \in Nat /\ \A i \in 1..Len(s) : s[i] \in Segment
  BY LenProperties
<1>2. IsFiniteSet(1..Len(s))
  BY <1>1, FS_Interval
<1>3. \A i \in DOMAIN s : s[i].t_start \in Int /\ s[i].t_end \in Int
  BY <1>1 DEF Segment
<1> QED
  BY <1>1, <1>2, <1>3 DEF Durations, Larger

\* An aligned segment has a speaker.
LEMMA SegmentSpeakerTyped ==
  ASSUME NEW seg \in Aligned, NEW turns \in SUBSET Turn, IsFiniteSet(turns)
  PROVE  SegmentSpeaker(seg, turns) \in Nat
<1> DEFINE D == DOMAIN seg.words
           of == [i \in D |-> SpeakerOf(seg.words[i], turns)]
           TimeOf(l) == SumFunctionOnSet(Durations(seg.words),
                                         {i \in D : SpeakerOf(seg.words[i], turns) = l})
           found == {SpeakerOf(seg.words[i], turns) : i \in D}
           Beats(l, m) == TimeOf(l) > TimeOf(m) \/ (TimeOf(l) = TimeOf(m) /\ l < m)
           order == {q \in found \X found : q[1] = q[2] \/ Beats(q[1], q[2])}
<1>1. /\ seg.words \in Seq(Segment) /\ seg.t_start \in Int /\ seg.t_end \in Int
      /\ \A i \in D : seg.words[i] \in Segment
  <2>1. seg.words \in Seq(Segment) /\ seg.t_start \in Int /\ seg.t_end \in Int
    BY DEF Aligned
  <2> QED
    BY <2>1, LenProperties
<1>2. IsFiniteSet(D) /\ \A i \in D : Durations(seg.words)[i] \in Nat
  BY <1>1, DurationsTyped
<1>3. SpeakerOf(seg, turns) \in Nat /\ \A i \in D : SpeakerOf(seg.words[i], turns) \in Nat
  BY <1>1, SpeakerTyped DEF Segment
<1>4. \A l \in found : l \in Nat
  BY <1>3
<1>5. IsFiniteSet(found)
  <2>1. IsFiniteSet({of[i] : i \in D})
    <3> HIDE DEF of, D
    <3> QED
      BY <1>2, ImageFinite
  <2>2. found = {of[i] : i \in D}
    OBVIOUS
  <2> HIDE DEF found, of
  <2> QED
    BY <2>1, <2>2, Zenon
<1>6. ASSUME NEW l PROVE TimeOf(l) \in Int
  <2> DEFINE his == {i \in D : SpeakerOf(seg.words[i], turns) = l}
  <2>1. his \in SUBSET D
    OBVIOUS
  <2> HIDE DEF his, D
  <2>2. IsFiniteSet(his) /\ \A i \in his : Durations(seg.words)[i] \in Int
    BY <1>2, <2>1, FS_Subset
  <2>3. SumFunctionOnSet(Durations(seg.words), his) \in Int
    BY <2>2, SumOf
  <2> QED
    BY <2>3 DEF his, D
<1> HIDE DEF TimeOf, found
<1>7. /\ \A l, m \in found : l = m \/ Beats(l, m) \/ Beats(m, l)
      /\ \A l, m, k \in found : Beats(l, m) /\ Beats(m, k) => Beats(l, k)
  BY <1>4, <1>6
<1> HIDE DEF Beats
<1>8. \A l, m \in found : <<l, m>> \in order <=> l = m \/ Beats(l, m)
  OBVIOUS
<1> HIDE DEF order
<1>9. ASSUME found # {} PROVE \E l \in found : \A m \in found \ {l} : Beats(l, m)
  <2>1. \A l, m \in found : <<l, m>> \in order \/ <<m, l>> \in order
    BY <1>7, <1>8
  <2>2. \A l, m, k \in found : <<l, m>> \in order /\ <<m, k>> \in order => <<l, k>> \in order
    BY <1>7, <1>8
  <2>3. \E l \in found : \A m \in found : <<l, m>> \in order
    BY <1>5, <1>9, <2>1, <2>2, BestExists
  <2> QED
    BY <1>8, <2>3
<1>10. SegmentSpeaker(seg, turns) =
         IF found = {} THEN SpeakerOf(seg, turns)
         ELSE CHOOSE l \in found : \A m \in found \ {l} : Beats(l, m)
  BY DEF SegmentSpeaker, found, Beats, TimeOf
<1> QED
  BY <1>3, <1>4, <1>9, <1>10

\* A turn more, or a longer last one.
LEMMA AddTurnTyped ==
  ASSUME NEW turns \in Seq(Segment), NEW seg \in Segment
  PROVE  AddTurn(turns, seg) \in Seq(Segment)
<1> DEFINE n == Len(turns)
           last == turns[n]
           longer == [last EXCEPT !.text = @ \o seg.text, !.t_end = Larger(@, seg.t_end)]
<1>1. n \in Nat
  BY LenProperties
<1>2. CASE turns # <<>> /\ last.speaker = seg.speaker
  <2>1. n \in 1..n /\ last \in Segment
    BY <1>1, <1>2, EmptySeq
  <2>2. longer \in Segment
    <3>1. last.text \o seg.text \in Seq(Token)
      BY <2>1, ConcatProperties DEF Segment
    <3>2. Larger(last.t_end, seg.t_end) \in Int
      BY <2>1 DEF Segment, Larger
    <3> HIDE DEF last
    <3> QED
      BY <2>1, <3>1, <3>2 DEF Segment
  <2>3. AddTurn(turns, seg) = [turns EXCEPT ![n] = longer]
    BY <1>2 DEF AddTurn
  <2> HIDE DEF longer
  <2> QED
    BY <2>1, <2>2, <2>3, ExceptSeq
<1>3. CASE ~(turns # <<>> /\ last.speaker = seg.speaker)
  <2>1. AddTurn(turns, seg) = Append(turns, Clamped(seg))
    BY <1>3 DEF AddTurn
  <2>2. Clamped(seg) \in Segment
    BY DEF Clamped, Segment, Larger
  <2> QED
    BY <2>1, <2>2, AppendProperties
<1> QED
  BY <1>2, <1>3

\* A local result gives a transcript.
LEMMA LocalTyped ==
  ASSUME NEW result \in LocalResult, IsFiniteSet(result.turns)
  PROVE  LocalTranscript(result) \in Transcript
<1> DEFINE labelled(seg) == [speaker |-> SegmentSpeaker(seg, result.turns), text |-> seg.text,
                             t_start |-> seg.t_start, t_end |-> seg.t_end]
           add(turns, seg) == AddTurn(turns, labelled(seg))
           spoken == {i \in DOMAIN result.aligned : Spoken(result.aligned[i])}
<1>1. result.aligned \in Seq(Aligned) /\ result.turns \in SUBSET Turn
  BY DEF LocalResult
<1>2. PICK q \in Seq(Aligned) : q = Filter(result.aligned, Spoken)
  <2>1. Filter(result.aligned, Spoken) = Picked(result.aligned, spoken)
    BY DEF Filter
  <2>2. spoken \in SUBSET DOMAIN result.aligned
    OBVIOUS
  <2> HIDE DEF spoken
  <2> QED
    BY <1>1, <2>1, <2>2, PickedElements
<1> DEFINE n == Len(q)
<1>3. n \in Nat /\ DOMAIN q = 1..n /\ \A i \in 1..n : q[i] \in Aligned
  BY LenProperties
<1>4. ASSUME NEW turns \in Seq(Segment), NEW i \in 1..n PROVE add(turns, q[i]) \in Seq(Segment)
  <2>1. labelled(q[i]) \in Segment
    <3>1. SegmentSpeaker(q[i], result.turns) \in Nat /\ q[i] \in Aligned
      BY <1>1, <1>3, SegmentSpeakerTyped
    <3> QED
      BY <3>1 DEF Aligned, Segment
  <2> HIDE DEF labelled
  <2> QED
    BY <2>1, AddTurnTyped
<1> DEFINE Rec(h) == h = [s \in SUBSET DOMAIN q |->
                            IF s = {} THEN <<>> ELSE add(h[s \ {Max(s)}], q[Max(s)])]
<1> HIDE DEF n
<1>5. \E h : Rec(h)
  <2> DEFINE step == [p \in Seq(Segment) \X (1..n) |-> add(p[1], q[p[2]])]
  <2> HIDE DEF add
  <2>1. step \in [Seq(Segment) \X (1..n) -> Seq(Segment)] /\ <<>> \in Seq(Segment)
    BY <1>4, EmptySeq
  <2>2. \A t \in Seq(Segment) : \A i \in 1..n : step[<<t, i>>] = add(t, q[i])
    OBVIOUS
  <2> HIDE DEF step
  <2>3. PICK g \in [SUBSET (1..n) -> Seq(Segment)] : LeftFolds(g, n, <<>>, step)
    <3>1. n \in Nat
      BY <1>3
    <3> HIDE DEF Rec
    <3>2. PICK none \in Seq(Segment) : none = <<>>
      BY <2>1
    <3>3. \E g \in [SUBSET (1..n) -> Seq(Segment)] : LeftFolds(g, n, none, step)
      BY <2>1, <3>1, FoldLeftExists
    <3> QED
      BY <3>2, <3>3
  <2>4. ASSUME NEW s \in SUBSET (1..n)
        PROVE  g[s] = IF s = {} THEN <<>> ELSE add(g[s \ {Max(s)}], q[Max(s)])
    <3>1. CASE s = {}
      BY <2>3, <3>1 DEF LeftFolds
    <3>2. CASE s # {}
      <4>1. IsFiniteSet(s) /\ s \subseteq Int
        <5>1. IsFiniteSet(1..n)
          BY <1>3, FS_Interval
        <5>2. s \subseteq Int
          BY <1>3
        <5> QED
          BY <5>1, <5>2, FS_Subset
      <4>2. Max(s) \in 1..n
        BY <3>2, <4>1, MaxMin
      <4>3. g[s \ {Max(s)}] \in Seq(Segment)
        OBVIOUS
      <4>4. g[s] = step[<<g[s \ {Max(s)}], Max(s)>>]
        BY <2>3, <3>2 DEF LeftFolds
      <4> QED
        BY <2>2, <3>2, <4>2, <4>3, <4>4
    <3> QED
      BY <3>1, <3>2
  <2>5. Rec(g)
    BY <1>3, <2>3, <2>4 DEF LeftFolds
  <2> QED
    BY <2>5
<1>6. PICK h : h = CHOOSE g : Rec(g)
  OBVIOUS
<1>7. Rec(h)
  <2> HIDE DEF Rec
  <2> QED
    BY <1>5, <1>6
<1>8. FoldLeft(add, <<>>, q) = h[DOMAIN q]
  BY <1>6 DEF FoldLeft, MapThenFoldSet
<1> HIDE DEF add
<1>9. h[{}] = <<>> /\ \A k \in Nat : k + 1 \in 1..n => h[1..(k + 1)] = add(h[1..k], q[k + 1])
  <2>1. h[{}] = <<>>
    BY <1>7
  <2>2. ASSUME NEW k \in Nat, k + 1 \in 1..n PROVE h[1..(k + 1)] = add(h[1..k], q[k + 1])
    <3>1. PICK s \in SUBSET (1..n) : s = 1..(k + 1)
      BY <1>3, <2>2
    <3>2. Max(s) = k + 1 /\ s \ {k + 1} = 1..k /\ s # {}
      BY <3>1, LastPlace
    <3>3. h[s] = add(h[s \ {Max(s)}], q[Max(s)])
      BY <1>3, <1>7, <3>2
    <3> QED
      BY <3>1, <3>2, <3>3, Zenon
  <2> QED
    BY <2>1, <2>2
<1>10. \A k \in Nat : k \in 0..n => h[1..k] \in Seq(Segment)
  <2> DEFINE N == {k \in Nat : k \in 0..n => h[1..k] \in Seq(Segment)}
  <2>1. 0 \in N
    <3>1. 1..0 = {}
      OBVIOUS
    <3> QED
      BY <1>9, <3>1, EmptySeq
  <2>2. ASSUME NEW k \in Nat, k \in N PROVE k + 1 \in N
    <3> SUFFICES ASSUME k + 1 \in 0..n PROVE h[1..(k + 1)] \in Seq(Segment)
      OBVIOUS
    <3>1. k \in 0..n /\ k + 1 \in 1..n
      BY <1>3
    <3> HIDE DEF Rec
    <3>2. h[1..k] \in Seq(Segment)
      BY <2>2, <3>1
    <3> QED
      BY <1>4, <1>9, <3>1, <3>2
  <2>3. \A k \in Nat : k \in N
    <3> HIDE DEF N
    <3> QED
      BY <2>1, <2>2, Induction
  <2> QED
    BY <2>3
<1>11. h[DOMAIN q] \in Seq(Segment)
  <2>1. h[1..n] \in Seq(Segment)
    BY <1>3, <1>10
  <2> QED
    BY <1>3, <2>1, Zenon
<1>12. LocalTranscript(result) = [segments |-> FoldLeft(add, <<>>, q), words |-> <<>>]
  BY <1>2 DEF LocalTranscript, add
<1> QED
  BY <1>8, <1>11, <1>12, EmptySeq DEF Transcript

-----------------------------------------------------------------------------
(* Who is left *)

\* The talk of a label, and of all, takes some time.
LEMMA TalkTimeTyped ==
  ASSUME NEW s \in Seq(Segment)
  PROVE  /\ \A l : TalkTime(s, l) \in Nat
         /\ TotalTalkTime(s) \in Nat
         /\ IsFiniteSet(Labels(s)) /\ Labels(s) \subseteq Nat
<1>1. IsFiniteSet(DOMAIN s) /\ \A i \in DOMAIN s : Durations(s)[i] \in Nat
  BY DurationsTyped
<1>2. ASSUME NEW l PROVE TalkTime(s, l) \in Nat
  <2> DEFINE his == {i \in DOMAIN s : s[i].speaker = l}
  <2>1. his \in SUBSET DOMAIN s
    OBVIOUS
  <2> HIDE DEF his
  <2>2. IsFiniteSet(his) /\ \A i \in his : Durations(s)[i] \in Nat
    BY <1>1, <2>1, FS_Subset
  <2>3. SumFunctionOnSet(Durations(s), his) \in Nat
    <3>1. \A i \in his : Durations(s)[i] \in Int
      BY <2>2
    <3> QED
      BY <2>2, <3>1, SumOf
  <2> QED
    BY <2>3 DEF TalkTime, his
<1>3. IsFiniteSet(Labels(s)) /\ Labels(s) \subseteq Nat
  <2> DEFINE f == [i \in DOMAIN s |-> s[i].speaker]
  <2>1. Labels(s) = {f[i] : i \in DOMAIN s}
    BY DEF Labels
  <2>2. \A i \in DOMAIN s : f[i] \in Nat
    <3>1. \A i \in DOMAIN s : s[i] \in Segment
      BY LenProperties
    <3> QED
      BY <3>1 DEF Segment
  <2> HIDE DEF f
  <2>3. IsFiniteSet({f[i] : i \in DOMAIN s})
    BY <1>1, ImageFinite
  <2>4. {f[i] : i \in DOMAIN s} \subseteq Nat
    BY <2>2
  <2> QED
    BY <2>1, <2>3, <2>4, Zenon
<1>4. TotalTalkTime(s) \in Nat
  <2> DEFINE f == [l \in Labels(s) |-> TalkTime(s, l)]
  <2>1. \A l \in Labels(s) : f[l] \in Nat /\ f[l] \in Int
    BY <1>2
  <2> HIDE DEF f
  <2>2. SumFunctionOnSet(f, Labels(s)) \in Nat
    BY <1>3, <2>1, SumOf
  <2> QED
    BY <2>2 DEF TotalTalkTime, f
<1> QED
  BY <1>2, <1>3, <1>4

\* Those who are left after the bar are those with their share of the talk.
LEMMA LeftAfterBar ==
  ASSUME NEW raw \in Transcript, NEW percent \in Nat
  PROVE  /\ DropLowTalkTime(raw, percent) \in Transcript
         /\ DropLowTalkTime(raw, percent).words = raw.words
         /\ Labels(DropLowTalkTime(raw, percent).segments) =
              {l \in Labels(raw.segments) :
                 100 * TalkTime(raw.segments, l) >= percent * TotalTalkTime(raw.segments)}
<1> DEFINE s == raw.segments
           total == TotalTalkTime(s)
           keeps(seg) == 100 * TalkTime(s, seg.speaker) >= percent * total
           places == {i \in DOMAIN s : keeps(s[i])}
           kept == Picked(s, places)
<1>1. s \in Seq(Segment) /\ raw.words \in Seq(Segment)
  BY DEF Transcript
<1>2. total \in Nat /\ (\A l : TalkTime(s, l) \in Nat)
  BY <1>1, TalkTimeTyped
<1>3. CASE total = 0 \/ percent = 0
  <2>1. DropLowTalkTime(raw, percent) = raw
    BY <1>3 DEF DropLowTalkTime
  <2>2. percent * total = 0
    BY <1>2, <1>3
  <2>3. \A l : 100 * TalkTime(s, l) >= percent * total
    <3> HIDE DEF s, total
    <3> QED
      BY <1>2, <2>2
  <2>4. {l \in Labels(s) : 100 * TalkTime(s, l) >= percent * total} = Labels(s)
    BY <2>3
  <2> QED
    BY <2>1, <2>4
<1>4. CASE ~(total = 0 \/ percent = 0)
  <2>1. DropLowTalkTime(raw, percent) = [raw EXCEPT !.segments = kept]
    BY <1>4 DEF DropLowTalkTime, Filter
  <2>2. /\ kept \in Seq(Segment)
        /\ \A p \in DOMAIN kept : \E i \in places : kept[p] = s[i]
        /\ \A i \in places : \E p \in DOMAIN kept : kept[p] = s[i]
    <3>1. places \in SUBSET DOMAIN s
      OBVIOUS
    <3> HIDE DEF places, s
    <3> QED
      BY <1>1, <3>1, PickedElements
  <2>3. Labels(kept) = {s[i].speaker : i \in places}
    <3> HIDE DEF kept, places
    <3> QED
      BY <2>2 DEF Labels
  <2>4. {s[i].speaker : i \in places} =
          {l \in Labels(s) : 100 * TalkTime(s, l) >= percent * total}
    <3> HIDE DEF total
    <3> QED
      BY DEF Labels
  <2> HIDE DEF kept
  <2>5. /\ [raw EXCEPT !.segments = kept].segments = kept
        /\ [raw EXCEPT !.segments = kept].words = raw.words
        /\ [raw EXCEPT !.segments = kept] \in Transcript
    BY <2>2 DEF Transcript
  <2>6. Labels(kept) = {l \in Labels(s) : 100 * TalkTime(s, l) >= percent * total}
    BY <2>3, <2>4
  <2> QED
    BY <2>1, <2>5, <2>6
<1> QED
  BY <1>3, <1>4

\* A word more: in a segment of its speaker's, or in one of its own.
LEMMA AddWordLabels ==
  ASSUME NEW segments \in Seq(Segment), NEW w \in Segment, NEW maxSeconds \in Nat
  PROVE  /\ AddWord(segments, w, maxSeconds) \in Seq(Segment)
         /\ Labels(AddWord(segments, w, maxSeconds)) = Labels(segments) \cup {WordLabel(w)}
<1> DEFINE n == Len(segments)
           last == segments[n]
           result == AddWord(segments, w, maxSeconds)
           longer == [last EXCEPT !.text = @ \o w.text, !.t_end = w.t_end]
           fresh == [w EXCEPT !.speaker = WordLabel(w)]
<1>1. n \in Nat /\ DOMAIN segments = 1..n /\ \A i \in 1..n : segments[i] \in Segment
  BY LenProperties
<1>2. WordLabel(w) \in Nat /\ fresh \in Segment /\ fresh.speaker = WordLabel(w)
  BY ShapingAssumption DEF WordLabel, Segment
<1>3. CASE result = Append(segments, fresh)
  <2> HIDE DEF fresh
  <2>1. /\ result \in Seq(Segment) /\ Len(result) = n + 1 /\ DOMAIN result = 1..(n + 1)
        /\ \A i \in 1..n : result[i] = segments[i]
        /\ result[n + 1] = fresh
    <3>1. /\ Append(segments, fresh) \in Seq(Segment) /\ Len(Append(segments, fresh)) = n + 1
          /\ \A i \in 1..n : Append(segments, fresh)[i] = segments[i]
          /\ Append(segments, fresh)[n + 1] = fresh
      BY <1>2, AppendProperties
    <3> HIDE DEF result
    <3> QED
      BY <1>3, <3>1, LenProperties
  <2>2. Labels(result) = Labels(segments) \cup {fresh.speaker}
    <3> HIDE DEF result
    <3> QED
      BY <1>1, <2>1 DEF Labels
  <2> QED
    BY <1>2, <2>1, <2>2
<1>4. CASE /\ result = [segments EXCEPT ![n] = longer]
           /\ segments # <<>> /\ WordLabel(w) = last.speaker
  <2>1. n \in 1..n /\ last \in Segment
    BY <1>1, <1>4, EmptySeq
  <2>2. longer \in Segment /\ longer.speaker = WordLabel(w)
    <3>1. last.text \o w.text \in Seq(Token)
      BY <2>1, ConcatProperties DEF Segment
    <3> HIDE DEF last
    <3> QED
      BY <1>4, <2>1, <3>1 DEF Segment
  <2> HIDE DEF longer
  <2>3. /\ result \in Seq(Segment) /\ DOMAIN result = 1..n
        /\ \A i \in 1..n : i # n => result[i] = segments[i]
        /\ result[n] = longer
    <3> DEFINE updated == [segments EXCEPT ![n] = longer]
    <3>1. /\ updated \in Seq(Segment) /\ Len(updated) = n
          /\ \A i \in 1..n : updated[i] = IF i = n THEN longer ELSE segments[i]
      BY <1>1, <2>1, <2>2, ExceptSeq
    <3> HIDE DEF updated
    <3>2. DOMAIN updated = 1..n
      BY <3>1, LenProperties
    <3> QED
      BY <1>4, <2>1, <3>1, <3>2 DEF updated
  <2>4. Labels(result) = Labels(segments) \cup {WordLabel(w)}
    <3> HIDE DEF result
    <3> QED
      BY <1>1, <1>4, <2>1, <2>2, <2>3 DEF Labels
  <2> QED
    BY <2>3, <2>4
<1>5. \/ result = Append(segments, fresh)
      \/ /\ result = [segments EXCEPT ![n] = longer]
         /\ segments # <<>> /\ WordLabel(w) = last.speaker
  BY DEF AddWord
<1> QED
  BY <1>3, <1>4, <1>5

\* Rebuilt from words, the transcript is of everybody a word is ascribed to.
LEMMA RebuiltLabels ==
  ASSUME NEW raw \in Transcript, NEW maxSeconds \in Nat
  PROVE  /\ Resegmented(raw, maxSeconds) \in Transcript
         /\ Labels(Resegmented(raw, maxSeconds).segments) =
              IF raw.words = <<>> THEN Labels(raw.segments)
              ELSE {WordLabel(raw.words[k]) : k \in DOMAIN raw.words}
<1> DEFINE q == raw.words
           n == Len(q)
           add(segments, w) == AddWord(segments, w, maxSeconds)
           Rec(h) == h = [s \in SUBSET DOMAIN q |->
                            IF s = {} THEN <<>> ELSE add(h[s \ {Max(s)}], q[Max(s)])]
<1>1. raw.segments \in Seq(Segment) /\ q \in Seq(Segment)
  BY DEF Transcript
<1>2. n \in Nat /\ DOMAIN q = 1..n /\ \A i \in 1..n : q[i] \in Segment
  BY <1>1, LenProperties
<1>3. ASSUME NEW segments \in Seq(Segment), NEW i \in 1..n
      PROVE  /\ add(segments, q[i]) \in Seq(Segment)
             /\ Labels(add(segments, q[i])) = Labels(segments) \cup {WordLabel(q[i])}
  BY <1>2, AddWordLabels
<1> HIDE DEF n
<1>4. \E h : Rec(h)
  <2> DEFINE step == [p \in Seq(Segment) \X (1..n) |-> add(p[1], q[p[2]])]
  <2> HIDE DEF add
  <2>1. step \in [Seq(Segment) \X (1..n) -> Seq(Segment)] /\ <<>> \in Seq(Segment)
    BY <1>3, EmptySeq
  <2>2. \A t \in Seq(Segment) : \A i \in 1..n : step[<<t, i>>] = add(t, q[i])
    OBVIOUS
  <2> HIDE DEF step
  <2>3. PICK g \in [SUBSET (1..n) -> Seq(Segment)] : LeftFolds(g, n, <<>>, step)
    <3>1. n \in Nat
      BY <1>2
    <3> HIDE DEF Rec
    <3>2. PICK none \in Seq(Segment) : none = <<>>
      BY <2>1
    <3>3. \E g \in [SUBSET (1..n) -> Seq(Segment)] : LeftFolds(g, n, none, step)
      BY <2>1, <3>1, FoldLeftExists
    <3> QED
      BY <3>2, <3>3
  <2>4. ASSUME NEW s \in SUBSET (1..n)
        PROVE  g[s] = IF s = {} THEN <<>> ELSE add(g[s \ {Max(s)}], q[Max(s)])
    <3>1. CASE s = {}
      BY <2>3, <3>1 DEF LeftFolds
    <3>2. CASE s # {}
      <4>1. IsFiniteSet(s) /\ s \subseteq Int
        <5>1. IsFiniteSet(1..n)
          BY <1>2, FS_Interval
        <5>2. s \subseteq Int
          BY <1>2
        <5> QED
          BY <5>1, <5>2, FS_Subset
      <4>2. Max(s) \in 1..n
        BY <3>2, <4>1, MaxMin
      <4>3. g[s \ {Max(s)}] \in Seq(Segment)
        OBVIOUS
      <4>4. g[s] = step[<<g[s \ {Max(s)}], Max(s)>>]
        BY <2>3, <3>2 DEF LeftFolds
      <4> QED
        BY <2>2, <3>2, <4>2, <4>3, <4>4
    <3> QED
      BY <3>1, <3>2
  <2>5. Rec(g)
    BY <1>2, <2>3, <2>4 DEF LeftFolds
  <2> QED
    BY <2>5
<1>5. PICK h : h = CHOOSE g : Rec(g)
  OBVIOUS
<1>6. Rec(h)
  <2> HIDE DEF Rec
  <2> QED
    BY <1>4, <1>5
<1>7. FoldLeft(add, <<>>, q) = h[DOMAIN q]
  BY <1>5 DEF FoldLeft, MapThenFoldSet
<1> HIDE DEF add
<1>8. h[{}] = <<>> /\ \A k \in Nat : k + 1 \in 1..n => h[1..(k + 1)] = add(h[1..k], q[k + 1])
  <2>1. h[{}] = <<>>
    BY <1>6
  <2>2. ASSUME NEW k \in Nat, k + 1 \in 1..n PROVE h[1..(k + 1)] = add(h[1..k], q[k + 1])
    <3>1. PICK s \in SUBSET (1..n) : s = 1..(k + 1)
      BY <1>2, <2>2
    <3>2. Max(s) = k + 1 /\ s \ {k + 1} = 1..k /\ s # {}
      BY <3>1, LastPlace
    <3>3. h[s] = add(h[s \ {Max(s)}], q[Max(s)])
      BY <1>2, <1>6, <3>2
    <3> QED
      BY <3>1, <3>2, <3>3, Zenon
  <2> QED
    BY <2>1, <2>2
<1> DEFINE Ascribed(k) == {WordLabel(q[j]) : j \in 1..k}
<1>9. \A k \in Nat : k \in 0..n => h[1..k] \in Seq(Segment) /\ Labels(h[1..k]) = Ascribed(k)
  <2> DEFINE N == {k \in Nat :
                     k \in 0..n => h[1..k] \in Seq(Segment) /\ Labels(h[1..k]) = Ascribed(k)}
  <2>1. 0 \in N
    <3>1. 1..0 = {}
      OBVIOUS
    <3>2. Labels(<<>>) = {} /\ Ascribed(0) = {}
      BY <3>1 DEF Labels
    <3> HIDE DEF Ascribed, Rec
    <3> QED
      BY <1>8, <3>1, <3>2, EmptySeq
  <2>2. ASSUME NEW k \in Nat, k \in N PROVE k + 1 \in N
    <3> SUFFICES ASSUME k + 1 \in 0..n
                 PROVE  h[1..(k + 1)] \in Seq(Segment) /\ Labels(h[1..(k + 1)]) = Ascribed(k + 1)
      OBVIOUS
    <3>1. k \in 0..n /\ k + 1 \in 1..n
      BY <1>2
    <3> HIDE DEF Rec
    <3>2. h[1..k] \in Seq(Segment) /\ Labels(h[1..k]) = Ascribed(k)
      BY <2>2, <3>1
    <3>3. Ascribed(k + 1) = Ascribed(k) \cup {WordLabel(q[k + 1])}
      <4>1. 1..(k + 1) = (1..k) \cup {k + 1}
        OBVIOUS
      <4> QED
        BY <4>1, Zenon
    <3> HIDE DEF Ascribed
    <3> QED
      BY <1>3, <1>8, <3>1, <3>2, <3>3
  <2>3. \A k \in Nat : k \in N
    <3> HIDE DEF N
    <3> QED
      BY <2>1, <2>2, Induction
  <2> QED
    BY <2>3
<1>10. h[DOMAIN q] \in Seq(Segment) /\ Labels(h[DOMAIN q]) = Ascribed(n)
  <2>1. h[1..n] \in Seq(Segment) /\ Labels(h[1..n]) = Ascribed(n)
    BY <1>2, <1>9
  <2> HIDE DEF Ascribed, q
  <2> QED
    BY <1>2, <2>1, Zenon
<1>11. CASE q = <<>>
  <2>1. Resegmented(raw, maxSeconds) = raw
    BY <1>11 DEF Resegmented
  <2> QED
    BY <1>11, <2>1
<1>12. CASE q # <<>>
  <2> DEFINE rebuilt == FoldLeft(add, <<>>, q)
  <2>1. Resegmented(raw, maxSeconds) = [raw EXCEPT !.segments = rebuilt]
    BY <1>12 DEF Resegmented, add
  <2>2. rebuilt \in Seq(Segment) /\ Labels(rebuilt) = Ascribed(n)
    BY <1>7, <1>10
  <2> HIDE DEF rebuilt
  <2>3. Ascribed(n) = {WordLabel(q[k]) : k \in DOMAIN q}
    BY <1>2, Zenon
  <2> HIDE DEF Ascribed
  <2>4. [raw EXCEPT !.segments = rebuilt] \in Transcript
        /\ [raw EXCEPT !.segments = rebuilt].segments = rebuilt
    BY <2>2 DEF Transcript
  <2> QED
    BY <1>12, <2>1, <2>2, <2>3, <2>4
<1> QED
  BY <1>11, <1>12

-----------------------------------------------------------------------------
(* Chunks *)

\* The last segment of a chunk: no earlier than its first, within the transcript, and
\* either the chunk fits or it has one segment only.
LEMMA ChunkReaches ==
  ASSUME NEW s \in Seq(Segment), NEW first \in 1..Len(s)
  PROVE  /\ ChunkLast(s, first) \in first..Len(s)
         /\ Chars(s, first, ChunkLast(s, first)) <= MaxChars \/ ChunkLast(s, first) = first
<1> DEFINE fits == {l \in first..Len(s) : Chars(s, first, l) <= MaxChars}
           all == {first} \cup fits
<1>1. Len(s) \in Nat
  BY LenProperties
<1>2. all \subseteq first..Len(s) /\ all # {}
  BY <1>1
<1>3. IsFiniteSet(all) /\ all \subseteq Int
  <2>1. IsFiniteSet(first..Len(s))
    BY <1>1, FS_Interval
  <2>2. first..Len(s) \subseteq Int
    BY <1>1
  <2> HIDE DEF all
  <2> QED
    BY <1>2, <2>1, <2>2, FS_Subset
<1>4. ChunkLast(s, first) = Max(all)
  BY DEF ChunkLast
<1>5. Max(all) \in all
  <2> HIDE DEF all
  <2> QED
    BY <1>2, <1>3, MaxMin
<1>6. PICK m : m = ChunkLast(s, first)
  OBVIOUS
<1>7. m \in all
  BY <1>4, <1>5, <1>6
<1> QED
  BY <1>2, <1>6, <1>7

\* The next chunk starts after this one did, and no later than right behind it.
LEMMA ChunkAdvances ==
  ASSUME NEW first \in Nat, NEW last \in Nat, first <= last
  PROVE  NextFirst(first, last) \in (first + 1)..(last + 1)
  BY ExtractionAssumption DEF NextFirst, Smaller

-----------------------------------------------------------------------------
(* Claims *)

\* All there is to a claim.
ClaimRow(claim) ==
  claim = [episode |-> claim.episode, label |-> claim.label, speaker |-> claim.speaker,
           subject |-> claim.subject, canonical |-> claim.canonical,
           object |-> claim.object, t_start |-> claim.t_start, t_end |-> claim.t_end]

\* What is kept of an answer is of the episode, and of somebody the chunk has.
LEMMA BuiltClaims ==
  ASSUME NEW s \in Seq(Segment), NEW episode, NEW items \in Seq(Item), NEW chunk,
         chunk.first \in 1..chunk.last, chunk.last \in 1..Len(s)
  PROVE  LET built == BuildClaims(episode, s, chunk, items)
         IN  /\ Listed(built)
             /\ \A i \in 1..Len(built) :
                  /\ ClaimRow(built[i]) /\ built[i].episode = episode
                  /\ built[i].label \in Labels(s)
<1> DEFINE places == {i \in DOMAIN items : Keeps(s, chunk, items[i])}
           kept == Picked(items, places)
           built == BuildClaims(episode, s, chunk, items)
<1>1. /\ kept \in Seq(Item) /\ \A p \in DOMAIN kept : \E i \in places : kept[p] = items[i]
  <2>1. places \in SUBSET DOMAIN items
    OBVIOUS
  <2> HIDE DEF places
  <2> QED
    BY <2>1, PickedElements
<1>2. built = [i \in DOMAIN kept |-> ClaimOf(episode, kept[i])]
  BY DEF BuildClaims, Filter
<1>3. \A p \in DOMAIN kept : Keeps(s, chunk, kept[p])
  <2> HIDE DEF kept
  <2> QED
    BY <1>1
<1> HIDE DEF kept
<1>4. DOMAIN kept = 1..Len(kept) /\ Len(kept) \in Nat
  BY <1>1, LenProperties
<1>5. Len(s) \in Nat /\ DOMAIN s = 1..Len(s)
  BY LenProperties
<1>6. chunk.first..chunk.last \subseteq DOMAIN s
  BY <1>5
<1>7. ASSUME NEW p \in DOMAIN kept
      PROVE  /\ ClaimRow(built[p]) /\ built[p].episode = episode
             /\ built[p].label \in Labels(s)
  <2>1. built[p] = ClaimOf(episode, kept[p])
    BY <1>2
  <2>2. kept[p].label \in {s[i].speaker : i \in chunk.first..chunk.last}
    BY <1>3 DEF Keeps
  <2>3. kept[p].label \in Labels(s)
    BY <1>6, <2>2 DEF Labels
  <2> QED
    BY <2>1, <2>3 DEF ClaimOf, ClaimRow
<1>8. Listed(built) /\ Len(built) = Len(kept)
  BY <1>2, <1>4 DEF Listed
<1> HIDE DEF built
<1>9. /\ Listed(built)
      /\ \A i \in 1..Len(built) :
           /\ ClaimRow(built[i]) /\ built[i].episode = episode
           /\ built[i].label \in Labels(s)
  BY <1>4, <1>7, <1>8
<1> QED
  BY <1>9 DEF built

\* A segment matches evidence by some share of itself.
LEMMA ScoreTyped ==
  ASSUME NEW evidence, NEW seg \in Segment
  PROVE  MatchScore(evidence, seg) \in Nat
<1>1. CASE evidence \in Range(seg.text)
  <2> DEFINE n == Cardinality(Range(seg.text))
  <2>1. seg.text \in Seq(Token) /\ DOMAIN seg.text = 1..Len(seg.text) /\ Len(seg.text) \in Nat
    <3>1. seg.text \in Seq(Token)
      BY DEF Segment
    <3> QED
      BY <3>1, LenProperties
  <2>2. IsFiniteSet(Range(seg.text))
    <3>1. IsFiniteSet(DOMAIN seg.text)
      <4>1. IsFiniteSet(1..Len(seg.text))
        BY <2>1, FS_Interval
      <4> QED
        BY <2>1, <4>1, Zenon
    <3>2. PICK f : f = seg.text
      OBVIOUS
    <3>3. IsFiniteSet({f[x] : x \in DOMAIN f})
      BY <3>1, <3>2, ImageFinite
    <3> QED
      BY <3>2, <3>3 DEF Range
  <2>3. n \in Nat /\ n # 0
    BY <1>1, <2>2, FS_CardinalityType, FS_EmptySet
  <2>4. MatchScore(evidence, seg) = 100 \div n
    BY <1>1 DEF MatchScore
  <2> HIDE DEF n
  <2>5. 100 \div n \in Nat
    BY <2>3
  <2> QED
    BY <2>4, <2>5
<1>2. CASE evidence \notin Range(seg.text)
  BY <1>2 DEF MatchScore
<1> QED
  BY <1>1, <1>2

\* A claim whose evidence is there takes the times and the label of a segment that holds
\* it; any claim keeps what it is about, and a label that the transcript has.
LEMMA GroundedClaim ==
  ASSUME NEW s \in Seq(Segment), NEW claim, ClaimRow(claim), claim.label \in Labels(s)
  PROVE  LET grounded == GroundClaim(claim, s)
             matching == {k \in DOMAIN s : MatchScore(claim.object, s[k]) >= MatchPercent}
         IN  /\ ClaimRow(grounded) /\ grounded.episode = claim.episode
             /\ grounded.object = claim.object /\ grounded.label \in Labels(s)
             /\ matching # {} =>
                  \E k \in matching : /\ grounded.label = s[k].speaker
                                      /\ grounded.t_start = s[k].t_start
                                      /\ grounded.t_end = s[k].t_end
<1> DEFINE score == [i \in DOMAIN s |-> MatchScore(claim.object, s[i])]
           best == {i \in DOMAIN s : score[i] > 0 /\ \A j \in DOMAIN s : score[j] <= score[i]}
           matching == {k \in DOMAIN s : MatchScore(claim.object, s[k]) >= MatchPercent}
           grounded == GroundClaim(claim, s)
<1>1. DOMAIN s = 1..Len(s) /\ Len(s) \in Nat /\ \A i \in DOMAIN s : s[i] \in Segment
  BY LenProperties
<1>2. IsFiniteSet(DOMAIN s) /\ DOMAIN s \subseteq Int
  <2>1. IsFiniteSet(1..Len(s)) /\ 1..Len(s) \subseteq Int
    BY <1>1, FS_Interval
  <2> QED
    BY <1>1, <2>1, Zenon
<1>3. \A i \in DOMAIN s : score[i] \in Nat /\ score[i] = MatchScore(claim.object, s[i])
  BY <1>1, ScoreTyped
<1> HIDE DEF score
<1>4. best \in SUBSET DOMAIN s /\ IsFiniteSet(best) /\ best \subseteq Int
  <2>1. best \in SUBSET DOMAIN s
    OBVIOUS
  <2> HIDE DEF best
  <2> QED
    BY <1>2, <2>1, FS_Subset
<1>5. BestSegment(claim.object, s) = IF best = {} THEN 0 ELSE Min(best)
  <2>1. BestSegment(claim.object, s) =
          LET b == {i \in DOMAIN s :
                      /\ MatchScore(claim.object, s[i]) > 0
                      /\ \A j \in DOMAIN s : MatchScore(claim.object, s[j])
                                               <= MatchScore(claim.object, s[i])}
          IN  IF b = {} THEN 0 ELSE Min(b)
    BY DEF BestSegment
  <2>2. best = {i \in DOMAIN s :
                  /\ MatchScore(claim.object, s[i]) > 0
                  /\ \A j \in DOMAIN s : MatchScore(claim.object, s[j])
                                           <= MatchScore(claim.object, s[i])}
    BY <1>3
  <2> HIDE DEF best
  <2> QED
    BY <2>1, <2>2
<1>6. MatchPercent \in Nat /\ MatchPercent > 0
  BY ExtractionAssumption
<1>7. ASSUME matching # {} PROVE best # {}
  <2> DEFINE order == {q \in (DOMAIN s) \X (DOMAIN s) : score[q[1]] >= score[q[2]]}
  <2>1. PICK k \in DOMAIN s : score[k] >= MatchPercent
    BY <1>3, <1>7
  <2>2. \A i, j \in DOMAIN s : <<i, j>> \in order <=> score[i] >= score[j]
    OBVIOUS
  <2> HIDE DEF order
  <2>3. \E i \in DOMAIN s : \A j \in DOMAIN s : <<i, j>> \in order
    <3>1. \A i, j \in DOMAIN s : <<i, j>> \in order \/ <<j, i>> \in order
      <4>1. \A i, j \in DOMAIN s : score[i] >= score[j] \/ score[j] >= score[i]
        BY <1>3
      <4> QED
        BY <2>2, <4>1
    <3>2. \A i, j, m \in DOMAIN s : <<i, j>> \in order /\ <<j, m>> \in order => <<i, m>> \in order
      BY <1>3, <2>2
    <3>3. DOMAIN s # {}
      BY <2>1
    <3> QED
      BY <1>2, <3>1, <3>2, <3>3, BestExists
  <2>4. PICK i \in DOMAIN s : \A j \in DOMAIN s : score[j] <= score[i]
    BY <1>3, <2>2, <2>3
  <2>5. score[i] > 0
    BY <1>3, <1>6, <2>1, <2>4
  <2> QED
    BY <2>4, <2>5
<1>8. PICK i : i = BestSegment(claim.object, s)
  OBVIOUS
<1>9. CASE i # 0 /\ MatchScore(claim.object, s[i]) >= MatchPercent
  <2>1. i \in best
    <3> HIDE DEF best
    <3> QED
      BY <1>4, <1>5, <1>8, <1>9, MaxMin
  <2>2. i \in matching
    BY <1>9, <2>1
  <2>3. grounded = [claim EXCEPT !.label = s[i].speaker,
                                 !.t_start = s[i].t_start, !.t_end = s[i].t_end]
    BY <1>8, <1>9 DEF GroundClaim
  <2>4. s[i].speaker \in Labels(s)
    BY <2>2 DEF Labels
  <2> HIDE DEF matching, best
  <2>5. /\ ClaimRow(grounded) /\ grounded.episode = claim.episode
        /\ grounded.object = claim.object /\ grounded.label = s[i].speaker
        /\ grounded.t_start = s[i].t_start /\ grounded.t_end = s[i].t_end
    BY <2>3 DEF ClaimRow
  <2> HIDE DEF grounded
  <2>6. /\ ClaimRow(grounded) /\ grounded.episode = claim.episode
        /\ grounded.object = claim.object /\ grounded.label \in Labels(s)
        /\ \E k \in matching : /\ grounded.label = s[k].speaker
                               /\ grounded.t_start = s[k].t_start
                               /\ grounded.t_end = s[k].t_end
    BY <2>2, <2>4, <2>5
  <2> QED
    BY <2>6 DEF grounded, matching
<1>10. CASE ~(i # 0 /\ MatchScore(claim.object, s[i]) >= MatchPercent)
  <2>1. grounded = claim
    BY <1>8, <1>10 DEF GroundClaim
  <2>2. matching = {}
    <3> SUFFICES ASSUME matching # {} PROVE FALSE
      OBVIOUS
    <3>1. i \in best
      <4>1. best # {}
        BY <1>7
      <4> HIDE DEF best
      <4> QED
        BY <1>4, <1>5, <1>8, <4>1, MaxMin
    <3>2. i # 0
      BY <1>1, <3>1
    <3>3. PICK k \in DOMAIN s : score[k] >= MatchPercent
      BY <1>3
    <3>4. score[k] <= score[i] /\ i \in DOMAIN s
      BY <3>1, <3>3
    <3>5. score[i] >= MatchPercent
      BY <1>3, <1>6, <3>3, <3>4
    <3> QED
      BY <1>3, <1>10, <3>2, <3>4, <3>5
  <2> HIDE DEF matching, grounded
  <2> QED
    BY <2>1, <2>2 DEF matching, grounded
<1> QED
  BY <1>9, <1>10

-----------------------------------------------------------------------------
(* Guests *)

\* What introduces a guest in a transcript is one of its tokens.
LEMMA IntroNamesTyped ==
  ASSUME NEW s \in Seq(Segment)
  PROVE  /\ IsFiniteSet(IntroNames(s))
         /\ \A n \in IntroNames(s) : n # 0 /\ \E t \in Token : n = GuestIntro[t]
<1> DEFINE Utter == [speaker : Nat, token : Token]
           spoken == [i \in DOMAIN s |-> [j \in DOMAIN s[i].text |->
                        [speaker |-> s[i].speaker, token |-> s[i].text[j]]]]
<1>1. DOMAIN s = 1..Len(s) /\ Len(s) \in Nat /\ \A i \in 1..Len(s) : s[i] \in Segment
  BY LenProperties
<1>2. ASSUME NEW i \in 1..Len(s) PROVE spoken[i] \in Seq(Utter)
  <2>1. s[i].text \in Seq(Token) /\ s[i].speaker \in Nat
    BY <1>1 DEF Segment
  <2>2. /\ DOMAIN s[i].text = 1..Len(s[i].text) /\ Len(s[i].text) \in Nat
        /\ \A j \in DOMAIN s[i].text : s[i].text[j] \in Token
    BY <2>1, LenProperties
  <2>3. spoken[i] \in [1..Len(s[i].text) -> Utter]
    BY <1>1, <2>1, <2>2
  <2> HIDE DEF spoken
  <2> QED
    BY <2>2, <2>3, SeqOfFunction
<1>3. PICK seqs \in Seq(Seq(Utter)) : seqs = spoken
  <2>1. spoken \in [1..Len(s) -> Seq(Utter)]
    BY <1>1, <1>2
  <2> HIDE DEF spoken
  <2>2. spoken \in Seq(Seq(Utter))
    BY <1>1, <2>1, SeqOfFunction
  <2> QED
    BY <2>2
<1> HIDE DEF Utter
<1>4. PICK flat \in Seq(Utter) : flat = FlattenSeq(seqs)
  <2>1. PICK lens : lens = [i \in 1..Len(seqs) |-> Len(seqs[i])]
    OBVIOUS
  <2>2. \A i \in 1..Len(seqs) : lens[i] = Len(seqs[i])
    BY <2>1
  <2>3. PICK before : Offsets(before, seqs)
    BY <2>2, OffsetsAreSums
  <2> QED
    BY <2>3, FlattenSlices
<1>5. Said(s) = flat
  BY <1>3, <1>4 DEF Said
<1>6. /\ DOMAIN flat = 1..Len(flat) /\ Len(flat) \in Nat
      /\ \A i \in DOMAIN flat : flat[i].token \in Token
  <2>1. /\ DOMAIN flat = 1..Len(flat) /\ Len(flat) \in Nat
        /\ \A i \in DOMAIN flat : flat[i] \in Utter
    BY LenProperties
  <2> QED
    BY <2>1 DEF Utter
<1> DEFINE f == [i \in DOMAIN flat |-> GuestIntro[flat[i].token]]
<1>7. IntroNames(s) = {f[i] : i \in DOMAIN flat} \ {0}
  BY <1>5 DEF IntroNames
<1>8. IsFiniteSet(DOMAIN flat)
  <2>1. IsFiniteSet(1..Len(flat))
    BY <1>6, FS_Interval
  <2> QED
    BY <1>6, <2>1, Zenon
<1>9. \A i \in DOMAIN flat : \E t \in Token : f[i] = GuestIntro[t]
  BY <1>6
<1> HIDE DEF f
<1>10. IsFiniteSet({f[i] : i \in DOMAIN flat})
  BY <1>8, ImageFinite
<1>11. IntroNames(s) \in SUBSET {f[i] : i \in DOMAIN flat}
  BY <1>7
<1>12. IsFiniteSet(IntroNames(s))
  BY <1>10, <1>11, FS_Subset
<1> QED
  BY <1>7, <1>9, <1>12

\* However an episode's names come out, they are its names.
LEMMA NamesInOrder ==
  ASSUME NEW metadata, IsFiniteSet(metadata), NEW spoken, IsFiniteSet(spoken),
         NEW names \in NameOrders(metadata, spoken)
  PROVE  names \in Seq(metadata \cup spoken)
<1>1. PICK m \in SetToSeqs(metadata), t \in SetToSeqs(spoken \ metadata) : names = m \o t
  BY DEF NameOrders
<1>2. m \in [1..Cardinality(metadata) -> metadata] /\ Cardinality(metadata) \in Nat
  BY FS_CardinalityType DEF SetToSeqs
<1>3. t \in [1..Cardinality(spoken \ metadata) -> spoken \ metadata]
      /\ Cardinality(spoken \ metadata) \in Nat
  <2>1. IsFiniteSet(spoken \ metadata)
    BY FS_Subset
  <2> QED
    BY <2>1, FS_CardinalityType DEF SetToSeqs
<1>4. m \in Seq(metadata \cup spoken) /\ t \in Seq(metadata \cup spoken)
  <2>1. m \in [1..Cardinality(metadata) -> metadata \cup spoken]
    BY <1>2
  <2>2. t \in [1..Cardinality(spoken \ metadata) -> metadata \cup spoken]
    BY <1>3
  <2> QED
    BY <1>2, <1>3, <2>1, <2>2, SeqOfFunction
<1> QED
  BY <1>1, <1>4, ConcatProperties

\* The label that is taken for the guest's is not a host's, and nobody else who is not
\* one talks more.
LEMMA InferredTalksMost ==
  ASSUME NEW s \in Seq(Segment), NEW hosts, NEW m \in Labels(s) \ DOMAIN hosts
  PROVE  TalkTime(s, m) <= TalkTime(s, InferGuestLabel(s, hosts))
<1> DEFINE others == Labels(s) \ DOMAIN hosts
           Beats(l, k) == \/ TalkTime(s, l) > TalkTime(s, k)
                          \/ TalkTime(s, l) = TalkTime(s, k) /\ l < k
           order == {q \in others \X others : q[1] = q[2] \/ Beats(q[1], q[2])}
<1>1. /\ \A l : TalkTime(s, l) \in Nat
      /\ IsFiniteSet(others) /\ others \subseteq Nat
  <2>1. others \in SUBSET Labels(s)
    OBVIOUS
  <2> HIDE DEF others
  <2> QED
    BY <2>1, TalkTimeTyped, FS_Subset
<1>2. m \in others
  OBVIOUS
<1> HIDE DEF others
<1>3. /\ \A l, k \in others : l = k \/ Beats(l, k) \/ Beats(k, l)
      /\ \A l, k, j \in others : Beats(l, k) /\ Beats(k, j) => Beats(l, j)
  BY <1>1
<1>4. ASSUME NEW l \in others, \A k \in others \ {l} : Beats(l, k)
      PROVE  TalkTime(s, m) <= TalkTime(s, l)
  BY <1>1, <1>2, <1>4
<1> HIDE DEF Beats
<1>5. \A l, k \in others : <<l, k>> \in order <=> l = k \/ Beats(l, k)
  OBVIOUS
<1> HIDE DEF order
<1>6. \E l \in others : \A k \in others \ {l} : Beats(l, k)
  <2>1. \A l, k \in others : <<l, k>> \in order \/ <<k, l>> \in order
    BY <1>3, <1>5
  <2>2. \A l, k, j \in others : <<l, k>> \in order /\ <<k, j>> \in order => <<l, j>> \in order
    BY <1>3, <1>5
  <2>3. others # {}
    BY <1>2
  <2>4. \E l \in others : \A k \in others : <<l, k>> \in order
    BY <1>1, <2>1, <2>2, <2>3, BestExists
  <2> QED
    BY <1>5, <2>4
<1>7. InferGuestLabel(s, hosts) = CHOOSE l \in others : \A k \in others \ {l} : Beats(l, k)
  <2>1. others # {}
    BY <1>2
  <2> QED
    BY <2>1 DEF InferGuestLabel, others, Beats
<1>8. PICK l \in others : l = InferGuestLabel(s, hosts) /\ \A k \in others \ {l} : Beats(l, k)
  BY <1>6, <1>7
<1> QED
  BY <1>4, <1>8

\* The gathered there are, each of a person the linker knows.
CandidatesTyped(gathered) ==
  /\ Listed(gathered)
  /\ \A i \in 1..Len(gathered) : gathered[i].name \in DOMAIN PersonQid

\* A guest has a candidate in the episode, whose label it is given, and as many episodes
\* as recurring takes.
LEMMA GuestChosen ==
  ASSUME NEW gathered, CandidatesTyped(gathered), NEW episode,
         GuestOf(gathered, episode) # NoGuest
  PROVE  \E n \in DOMAIN PersonQid : \E i \in DOMAIN gathered :
           /\ GuestOf(gathered, episode).id = GuestId(PersonQid[n])
           /\ GuestOf(gathered, episode).label = gathered[i].label
           /\ gathered[i].name = n /\ gathered[i].episode = episode
           /\ Recurs(gathered, n)
<1> DEFINE D == DOMAIN gathered
           Found(n) == {i \in D : gathered[i].name = n}
           added == [n \in DOMAIN PersonQid |-> FirstWhere(gathered, LAMBDA c : c.name = n)]
           names == {gathered[i].name : i \in D}
           guests == {n \in names : Recurs(gathered, n) /\ episode \in EpisodesOf(gathered, n)}
           last == CHOOSE n \in guests : \A k \in guests : added[k] <= added[n]
           chosen == CHOOSE n \in guests :
                       \A k \in guests : FirstWhere(gathered, LAMBDA c : c.name = k)
                                           <= FirstWhere(gathered, LAMBDA c : c.name = n)
           here == {i \in D : gathered[i].name = chosen /\ gathered[i].episode = episode}
<1>1. D = 1..Len(gathered) /\ Len(gathered) \in Nat /\ IsFiniteSet(D) /\ D \subseteq Int
  <2>1. D = 1..Len(gathered) /\ Len(gathered) \in Nat
    BY DEF CandidatesTyped, Listed
  <2>2. IsFiniteSet(1..Len(gathered))
    BY <2>1, FS_Interval
  <2> HIDE DEF D
  <2> QED
    BY <2>1, <2>2
<1>2. names \subseteq DOMAIN PersonQid
  BY <1>1 DEF CandidatesTyped
<1>3. GuestOf(gathered, episode) =
        IF guests = {} THEN NoGuest
        ELSE [name |-> chosen, id |-> GuestId(PersonQid[chosen]),
              label |-> gathered[FirstWhere(gathered,
                          LAMBDA c : c.name = chosen /\ c.episode = episode)].label]
  BY DEF GuestOf
<1>4. guests # {}
  BY <1>3
<1>5. chosen \in guests
  <2> DEFINE order == {q \in guests \X guests : added[q[2]] <= added[q[1]]}
  <2>1. IsFiniteSet(guests)
    <3> DEFINE f == [i \in D |-> gathered[i].name]
    <3>1. guests \in SUBSET {f[i] : i \in D}
      OBVIOUS
    <3> HIDE DEF f, guests, D
    <3> QED
      <4>1. IsFiniteSet({f[i] : i \in D})
        BY <1>1, ImageFinite
      <4> QED
        BY <3>1, <4>1, FS_Subset
  <2>2. \A n \in guests : n \in DOMAIN PersonQid
    BY <1>2
  <2>3. \A n \in guests : added[n] \in Int
    <3> SUFFICES ASSUME NEW n \in guests PROVE added[n] \in Int
      OBVIOUS
    <3>1. added[n] = IF Found(n) = {} THEN 0 ELSE Min(Found(n))
      BY <2>2 DEF FirstWhere
    <3>2. Found(n) \in SUBSET D
      OBVIOUS
    <3> HIDE DEF Found, added, D
    <3>3. IsFiniteSet(Found(n)) /\ Found(n) \subseteq Int
      BY <1>1, <3>2, FS_Subset
    <3> QED
      BY <3>1, <3>3, MaxMin
  <2>4. \A n \in guests : added[n] = FirstWhere(gathered, LAMBDA c : c.name = n)
    BY <2>2
  <2>5. \A n, k \in guests : <<n, k>> \in order <=> added[k] <= added[n]
    OBVIOUS
  <2> HIDE DEF order, added, guests
  <2>6. \E n \in guests : \A k \in guests : <<n, k>> \in order
    <3>1. \A n, k \in guests : <<n, k>> \in order \/ <<k, n>> \in order
      <4>1. \A n, k \in guests : added[k] <= added[n] \/ added[n] <= added[k]
        BY <2>3
      <4> QED
        BY <2>5, <4>1
    <3>2. \A n, k, j \in guests : <<n, k>> \in order /\ <<k, j>> \in order => <<n, j>> \in order
      <4>1. \A n, k, j \in guests : added[k] <= added[n] /\ added[j] <= added[k]
                                      => added[j] <= added[n]
        BY <2>3
      <4> QED
        BY <2>5, <4>1
    <3> QED
      BY <1>4, <2>1, <3>1, <3>2, BestExists
  <2>7. \E n \in guests : \A k \in guests : added[k] <= added[n]
    BY <2>5, <2>6
  <2> QED
    BY <2>4, <2>7
<1>6. here # {} /\ Recurs(gathered, chosen) /\ chosen \in DOMAIN PersonQid
  <2>1. episode \in EpisodesOf(gathered, chosen)
    BY <1>5
  <2>2. here # {}
    <3> HIDE DEF chosen
    <3> QED
      BY <2>1 DEF EpisodesOf
  <2> QED
    BY <1>2, <1>5, <2>2
<1> HIDE DEF chosen
<1>7. PICK i \in here : i = FirstWhere(gathered,
                               LAMBDA c : c.name = chosen /\ c.episode = episode)
  <2>1. FirstWhere(gathered, LAMBDA c : c.name = chosen /\ c.episode = episode) = Min(here)
    BY <1>6 DEF FirstWhere
  <2>2. here \in SUBSET D
    OBVIOUS
  <2> HIDE DEF here, D
  <2>3. IsFiniteSet(here) /\ here \subseteq Int
    BY <1>1, <2>2, FS_Subset
  <2> QED
    BY <1>6, <2>1, <2>3, MaxMin
<1>8. /\ GuestOf(gathered, episode).id = GuestId(PersonQid[chosen])
      /\ GuestOf(gathered, episode).label = gathered[i].label
  BY <1>3, <1>4, <1>7
<1>9. i \in DOMAIN gathered /\ gathered[i].name = chosen /\ gathered[i].episode = episode
  OBVIOUS
<1> HIDE DEF guests, here
<1> QED
  BY <1>6, <1>8, <1>9

\* Who recurs twice is in two episodes.
LEMMA RecursTwice ==
  ASSUME NEW gathered, CandidatesTyped(gathered), NEW n, Recurs(gathered, n),
         MinAppearances >= 2, NEW e \in EpisodesOf(gathered, n)
  PROVE  \E f \in EpisodesOf(gathered, n) : f # e
<1> DEFINE his == EpisodesOf(gathered, n)
<1>1. IsFiniteSet(his)
  <2> DEFINE g == [i \in DOMAIN gathered |-> gathered[i].episode]
             D == {j \in DOMAIN gathered : gathered[j].name = n}
  <2>1. DOMAIN gathered = 1..Len(gathered) /\ Len(gathered) \in Nat
    BY DEF CandidatesTyped, Listed
  <2>2. IsFiniteSet(D)
    <3>1. IsFiniteSet(1..Len(gathered)) /\ D \in SUBSET (1..Len(gathered))
      BY <2>1, FS_Interval
    <3> HIDE DEF D
    <3> QED
      BY <3>1, FS_Subset
  <2>3. his = {g[i] : i \in D}
    BY DEF EpisodesOf
  <2> HIDE DEF his, g, D
  <2>4. IsFiniteSet({g[i] : i \in D})
    BY <2>2, ImageFinite
  <2> QED
    BY <2>3, <2>4, Zenon
<1>2. Cardinality(his) >= 2
  <2>1. Cardinality(his) >= MinAppearances
    BY DEF Recurs
  <2> HIDE DEF his
  <2> QED
    BY <1>1, <2>1, FS_CardinalityType, IdentityAssumption
<1>3. Cardinality({e}) = 1
  BY FS_Singleton
<1>4. his # {e}
  <2> HIDE DEF his
  <2> QED
    BY <1>2, <1>3
<1> QED
  BY <1>4

-----------------------------------------------------------------------------
(* Many sequences as one, and back *)

\* The places of a whole cut into n lengths.
Slices(whole, lens, n) ==
  [i \in 1..n |-> SubSeq(whole, SumFunctionOnSet(lens, 1..(i - 1)) + 1,
                         Smaller(SumFunctionOnSet(lens, 1..(i - 1)) + lens[i], Len(whole)))]

\* They are as long as n sequences, have the whole's elements where those have the ones of
\* their own, and leave nothing of it out.
GivenBack(seqs, whole, slices) ==
  /\ FlattenSeq(slices) = whole
  /\ \A i \in 1..Len(seqs) :
       /\ Listed(slices[i])
       /\ Len(slices[i]) = Len(seqs[i]) /\ Len(seqs[i]) \in Nat
       /\ \A k \in 1..Len(seqs[i]) : \E p \in 1..Len(whole) :
            slices[i][k] = whole[p] /\ seqs[i][k] = FlattenSeq(seqs)[p]

\* As many places of a whole as each of the sequences it is as long as, one after the
\* other, are all of it.
LEMMA SlicedBack ==
  ASSUME NEW S, NEW seqs \in Seq(Seq(S)), NEW lens, \A i \in 1..Len(seqs) : lens[i] = Len(seqs[i]),
         NEW T, NEW whole \in Seq(T), Len(whole) = Len(FlattenSeq(seqs))
  PROVE  GivenBack(seqs, whole, Slices(whole, lens, Len(seqs)))
<1> DEFINE n == Len(seqs)
           slices == Slices(whole, lens, Len(seqs))
<1>1. PICK before : before = [i \in 1..(n + 1) |-> SumFunctionOnSet(lens, 1..(i - 1))]
                    /\ Offsets(before, seqs)
  BY OffsetsAreSums
<1>2. /\ n \in Nat /\ Len(whole) \in Nat
      /\ \A i \in 1..n : seqs[i] \in Seq(S) /\ Len(seqs[i]) \in Nat /\ lens[i] = Len(seqs[i])
  BY LenProperties
<1>3. /\ FlattenSeq(seqs) \in Seq(S)
      /\ Len(whole) = before[n + 1]
      /\ \A i \in 1..n : \A k \in 1..Len(seqs[i]) :
           /\ before[i] + k \in 1..Len(whole)
           /\ FlattenSeq(seqs)[before[i] + k] = seqs[i][k]
  <2>1. Offsets(before, seqs)
    BY <1>1
  <2>2. /\ FlattenSeq(seqs) \in Seq(S)
        /\ Len(FlattenSeq(seqs)) = before[Len(seqs) + 1]
        /\ \A i \in 1..Len(seqs) : \A k \in 1..Len(seqs[i]) :
             /\ before[i] + k \in 1..Len(FlattenSeq(seqs))
             /\ FlattenSeq(seqs)[before[i] + k] = seqs[i][k]
    BY <2>1, FlattenSlices
  <2> QED
    BY <2>2
<1>4. \A i \in 1..n : before[i] \in Nat /\ before[i] = SumFunctionOnSet(lens, 1..(i - 1))
  <2>1. \A i \in 1..n : i \in 1..(n + 1)
    BY <1>2
  <2> QED
    BY <1>1, <2>1 DEF Offsets
<1> HIDE DEF n, slices
<1>5. ASSUME NEW i \in 1..n
      PROVE  /\ slices[i] \in Seq(T) /\ Len(slices[i]) = Len(seqs[i])
             /\ \A k \in 1..Len(seqs[i]) : slices[i][k] = whole[before[i] + k]
  <2> DEFINE len == Len(seqs[i])
             from == before[i] + 1
             to == Smaller(before[i] + len, Len(whole))
  <2>1. slices[i] = SubSeq(whole, from, to)
    BY <1>2, <1>4 DEF n, slices, Slices
  <2>2. len \in Nat /\ before[i] \in Nat
    BY <1>2, <1>4
  <2>3. CASE len = 0
    <3>1. from \in Int /\ to \in Int /\ to < from
      BY <1>2, <2>2, <2>3 DEF Smaller
    <3>2. slices[i] = <<>>
      BY <2>1, <3>1, SubSeqEmpty
    <3>3. \A k \in 1..len : FALSE
      BY <2>3
    <3> HIDE DEF len
    <3>4. slices[i] \in Seq(T) /\ Len(slices[i]) = len
      BY <2>3, <3>2, EmptySeq
    <3> QED
      BY <3>3, <3>4 DEF len
  <2>4. CASE len # 0
    <3>1. len \in 1..len
      BY <2>2, <2>4
    <3>2. before[i] + len \in 1..Len(whole)
      BY <1>3, <3>1
    <3>3. to = before[i] + len /\ from \in Int /\ to \in Int
      BY <1>2, <2>2, <3>2 DEF Smaller
    <3>4. \A p \in from..to : whole[p] \in T
      <4>1. \A p \in from..to : p \in 1..Len(whole)
        BY <1>2, <2>2, <3>2, <3>3
      <4> QED
        BY <4>1, ElementOfSeq
    <3> HIDE DEF from, to
    <3>5. /\ SubSeq(whole, from, to) \in Seq(T)
          /\ Len(SubSeq(whole, from, to)) = IF from <= to THEN to - from + 1 ELSE 0
          /\ \A k \in 1..(to - from + 1) : SubSeq(whole, from, to)[k] = whole[from + k - 1]
      BY <3>3, <3>4, SubSeqProperties
    <3> HIDE DEF len
    <3>6. from <= to /\ to - from + 1 = len /\ \A k \in 1..len : from + k - 1 = before[i] + k
      <4>1. PICK b \in Nat, l \in Nat : b = before[i] /\ l = len /\ l # 0
        BY <2>2, <2>4
      <4>2. from = b + 1 /\ to = b + l
        BY <3>3, <4>1 DEF from
      <4>3. b + 1 <= b + l /\ (b + l) - (b + 1) + 1 = l
        BY <4>1
      <4>4. ASSUME NEW k \in 1..l PROVE (b + 1) + k - 1 = b + k
        <5>1. k \in Int /\ b \in Int
          BY <4>1
        <5> QED
          BY <5>1
      <4> QED
        BY <4>1, <4>2, <4>3, <4>4
    <3>7. Len(slices[i]) = len /\ slices[i] \in Seq(T)
      BY <2>1, <3>5, <3>6
    <3>8. \A k \in 1..len : slices[i][k] = whole[before[i] + k]
      BY <2>1, <3>5, <3>6
    <3> QED
      BY <3>7, <3>8 DEF len
  <2> QED
    BY <2>3, <2>4
<1>6. slices \in Seq(Seq(T)) /\ Len(slices) = n
  <2>1. slices \in [1..n -> Seq(T)]
    BY <1>5 DEF n, slices, Slices
  <2> QED
    BY <1>2, <2>1, SeqOfFunction
<1>7. Offsets(before, slices)
  BY <1>1, <1>2, <1>5, <1>6 DEF Offsets, n
<1>8. FlattenSeq(slices) = whole
  <2>1. \A i \in 1..Len(slices) : \A k \in 1..Len(slices[i]) : slices[i][k] = whole[before[i] + k]
    BY <1>5, <1>6
  <2>2. Len(whole) = before[Len(slices) + 1]
    BY <1>3, <1>6
  <2>3. PICK parts \in Seq(Seq(T)) : parts = slices
    BY <1>6
  <2>4. Offsets(before, parts)
    BY <1>7, <2>3
  <2>5. Len(whole) = before[Len(parts) + 1]
    BY <2>2, <2>3
  <2>6. \A i \in 1..Len(parts) : \A k \in 1..Len(parts[i]) : parts[i][k] = whole[before[i] + k]
    BY <2>1, <2>3
  <2>7. FlattenSeq(parts) = whole
    BY <2>4, <2>5, <2>6, FlattenOfSlices, SMTT(30)
  <2> QED
    BY <2>3, <2>7
<1>9. \A i \in 1..n : Listed(slices[i])
  <2>1. \A s \in Seq(T) : Listed(s)
    BY ListedSeq
  <2> QED
    BY <1>5, <2>1
<1> QED
  BY <1>2, <1>3, <1>5, <1>8, <1>9 DEF n, slices, GivenBack

-----------------------------------------------------------------------------
(* The hosted call *)

\* While a call is under way the clock is short of the deadline, but for one sleep.
Timed ==
  /\ CallTypeOK
  /\ call.at = "poll" => call.clock < PollTimeout + PollInterval
  /\ call.at = "sleep" => call.clock < PollTimeout
  /\ call.at \notin {"completed", "raised"} => call.why = "none"
  /\ call.at \in {"none", "submit"} => call.clock = 0

CallInv == Timed /\ InTimeIsSeen

\* A call that has not begun.
LEMMA CallInvInit == CallInit => CallInv
  BY HostedAssumption
  DEF CallInit, NoCall, CallInv, Timed, CallTypeOK, InTimeIsSeen, MaxClock

\* An answer counts before the deadline does, and the deadline is looked at again after
\* every sleep.
LEMMA PollSeesInTime ==
  ASSUME CallInv, NEW latency \in 0..MaxLatency, NEW looked \in 0..MaxLatency,
         Poll(latency, looked)
  PROVE  CallInv'
<1> USE HostedAssumption
<1>1. /\ call.at = "poll" /\ looked <= latency /\ call.why = "none"
      /\ call.clock \in 0..MaxClock /\ call.clock < PollTimeout + PollInterval
      /\ call.ready \in Nat /\ call.ready \in ReadyTimes \cup {0}
  BY DEF Poll, CallInv, Timed, CallTypeOK
<1>2. call.clock + latency \in 0..MaxClock
  BY <1>1 DEF MaxClock
<1> DEFINE asked == call.clock + latency
<1>3. CASE call' = [call EXCEPT !.at = "completed", !.clock = asked]
  BY <1>1, <1>2, <1>3 DEF CallInv, Timed, CallTypeOK, InTimeIsSeen
<1>4. CASE call' = Raised("error")
  BY <1>1, <1>4 DEF CallInv, Timed, CallTypeOK, InTimeIsSeen, Raised
<1>5. CASE ~(call.ready <= call.clock + looked)
  <2>1. CASE asked >= PollTimeout
    <3>1. call' = [Raised("timeout") EXCEPT !.clock = asked]
      BY <1>5, <2>1 DEF Poll
    <3>2. call'.ready = call.ready /\ call'.at = "raised"
      BY <3>1 DEF Raised, CallInv, Timed, CallTypeOK
    <3>3. call.ready > PollTimeout - MaxLatency
      BY <1>1, <1>5, <2>1
    <3>4. CallTypeOK'
      BY <1>1, <1>2, <3>1 DEF Raised, CallInv, Timed, CallTypeOK
    <3> QED
      BY <3>2, <3>3, <3>4 DEF CallInv, Timed, InTimeIsSeen
  <2>2. CASE ~(asked >= PollTimeout)
    <3>1. call' = [call EXCEPT !.at = "sleep", !.clock = asked]
      BY <1>5, <2>2 DEF Poll
    <3>2. CallTypeOK'
      BY <1>1, <1>2, <3>1 DEF CallInv, Timed, CallTypeOK
    <3> QED
      BY <1>1, <1>2, <2>2, <3>1, <3>2 DEF CallInv, Timed, CallTypeOK, InTimeIsSeen
  <2> QED
    BY <2>1, <2>2
<1> QED
  BY <1>3, <1>4, <1>5 DEF Poll

\* Every step of the call keeps what is known of it.
LEMMA CallInvStep == CallInv /\ CallStep => CallInv'
<1> SUFFICES ASSUME CallInv, CallStep PROVE CallInv'
  OBVIOUS
<1> USE HostedAssumption
<1>1. CASE Upload
  <2>1. /\ call.at = "none" /\ call.why = "none" /\ call.clock = 0 /\ 0 \in 0..MaxClock
        /\ call.ready \in ReadyTimes \cup {0}
    BY <1>1 DEF Upload, CallInv, Timed, CallTypeOK, MaxClock
  <2>2. CASE call' = [call EXCEPT !.at = "submit"]
    BY <2>1, <2>2 DEF CallInv, Timed, CallTypeOK, InTimeIsSeen
  <2>3. CASE call' = Raised("http")
    BY <2>1, <2>3 DEF CallInv, Timed, CallTypeOK, InTimeIsSeen, Raised
  <2> QED
    BY <1>1, <2>2, <2>3 DEF Upload
<1>2. ASSUME NEW ready \in ReadyTimes, Submit(ready) PROVE CallInv'
  <2>1. /\ call.at = "submit" /\ call.why = "none" /\ call.clock = 0 /\ 0 \in 0..MaxClock
        /\ call.ready \in ReadyTimes \cup {0} /\ 0 < PollTimeout + PollInterval
    BY <1>2 DEF Submit, CallInv, Timed, CallTypeOK, MaxClock
  <2>2. CASE call' = [call EXCEPT !.at = "poll", !.ready = ready]
    BY <1>2, <2>1, <2>2 DEF CallInv, Timed, CallTypeOK, InTimeIsSeen
  <2>3. CASE call' = Raised("http")
    BY <2>1, <2>3 DEF CallInv, Timed, CallTypeOK, InTimeIsSeen, Raised
  <2> QED
    BY <1>2, <2>2, <2>3 DEF Submit
<1>3. CASE PollFails
  BY <1>3 DEF PollFails, Raised, CallInv, Timed, CallTypeOK, InTimeIsSeen
<1>4. CASE Sleep
  <2>1. /\ call.at = "sleep" /\ call.clock \in Nat /\ call.clock < PollTimeout
        /\ call.why = "none" /\ call' = [call EXCEPT !.at = "poll", !.clock = @ + PollInterval]
    BY <1>4 DEF Sleep, CallInv, Timed, CallTypeOK
  <2>2. call.clock + PollInterval \in 0..MaxClock
    BY <2>1 DEF MaxClock
  <2>3. CallTypeOK'
    BY <2>1, <2>2 DEF CallInv, Timed, CallTypeOK
  <2>4. call'.at = "poll" /\ call'.why = "none" /\ call'.clock < PollTimeout + PollInterval
    BY <2>1 DEF CallInv, Timed, CallTypeOK
  <2> QED
    BY <2>3, <2>4 DEF CallInv, Timed, InTimeIsSeen
<1> QED
  BY <1>1, <1>2, <1>3, <1>4, PollSeesInTime DEF CallStep

\* The batch takes steps of the call, drops it, or leaves it alone.
LEMMA CallUse == [Next]_vars => CallStep \/ CallInit' \/ UNCHANGED call
<1> SUFFICES ASSUME [Next]_vars PROVE CallStep \/ CallInit' \/ UNCHANGED call
  OBVIOUS
<1>1. CASE RunStep
  <2>1. CASE TranscribeHosted
    BY <2>1 DEF TranscribeHosted
  <2>2. CASE RunRaises
    BY <2>2 DEF RunRaises, Lost, CallInit
  <2>3. ASSUME NEW result, TranscribeAtOnce(result) \/ HostedAnswers(result)
        PROVE  CallInit' \/ UNCHANGED call
    BY <2>3 DEF TranscribeAtOnce, HostedAnswers, CallInit
  <2>4. ASSUME NEW names, AddGuests(names) PROVE UNCHANGED call
    BY <2>4 DEF AddGuests
  <2>5. ASSUME NEW items, Extract(items) PROVE UNCHANGED call
    BY <2>5 DEF Extract
  <2>6. CASE Fetch \/ FetchFails \/ NotFetched \/ RunBegins
    BY <2>6 DEF Fetch, FetchFails, NotFetched, RunBegins
  <2>8. CASE TranscribeCached \/ TranscribeAnew
    BY <2>8 DEF TranscribeCached, TranscribeAnew
  <2>7. CASE Shape \/ NextChunk \/ Nudge \/ FinishEpisode \/ Load
    BY <2>7 DEF Shape, NextChunk, Nudge, FinishEpisode, Load
  <2> QED
    BY <1>1, <2>1, <2>2, <2>3, <2>4, <2>5, <2>6, <2>7, <2>8 DEF RunStep
<1>2. CASE Restart
  BY <1>2 DEF Restart, Lost, CallInit
<1>3. ASSUME NEW batch, Begin(batch) PROVE UNCHANGED call
  BY <1>3 DEF Begin
<1>4. ASSUME NEW url, Republish(url) PROVE UNCHANGED call
  BY <1>4 DEF Republish
<1>5. CASE Done \/ UNCHANGED vars
  BY <1>5 DEF Done, vars
<1> QED
  BY <1>1, <1>2, <1>3, <1>4, <1>5 DEF Next

\* No transcript is lost to the deadline that was ready a request's time before it,
\* whatever the intervals, the latencies and the batches.
THEOREM ReadyCallsAreSeen == Spec => []InTimeIsSeen
<1>1. Init => CallInv
  BY CallInvInit DEF Init
<1>2. CallInv /\ [Next]_vars => CallInv'
  <2>1. CallInv /\ UNCHANGED call => CallInv'
    BY DEF CallInv, Timed, CallTypeOK, InTimeIsSeen, MaxClock
  <2>2. CallInit' => CallInv'
    BY HostedAssumption
    DEF CallInit, NoCall, CallInv, Timed, CallTypeOK, InTimeIsSeen, MaxClock
  <2> QED
    BY <2>1, <2>2, CallUse, CallInvStep
<1>3. CallInv => InTimeIsSeen
  BY DEF CallInv
<1> QED
  BY <1>1, <1>2, <1>3, PTL DEF Spec

-----------------------------------------------------------------------------
(* The audio that is hashed and the audio that is heard *)

\* The content is what the publisher put under the URL first, or something else is there
\* by now.
AsPublished(url, content) == content = Published[url] \/ served[url] # Published[url]

\* An episode, or the run of one, has no hash or one of its URL's content.
Hashed(entry) ==
  /\ entry.id \in Episode
  /\ entry.hash = NoContent \/ AsPublished(UrlOf[entry.id], entry.hash)

Entry(entry) == entry = [id |-> entry.id, hash |-> entry.hash]

Row(run) == run = [id |-> run.id, heard |-> run.heard, hash |-> run.hash,
                   transcript |-> run.transcript, labels |-> run.labels,
                   claims |-> run.claims]

PublisherInv ==
  /\ setup \in Setups
  /\ served \in [Url -> Content]
  /\ \A url \in Url : served[url] \in {Published[url], Republished[url]}

RecordsInv == \A id \in DOMAIN records : id \in Episode /\ AsPublished(UrlOf[id], records[id])

\* A transcript that goes by its URL is of something that URL served.
DiskInv == \A key \in DOMAIN disk : ~setup.files => AsPublished(key, disk[key].of)

\* A file was not fetched, and has no hash.
Unhashed(row) == setup.files => row.hash = NoContent

EpisodesInv ==
  /\ todo \in Seq(Episode)
  /\ episodes \in Seq(Range(episodes))
  /\ \A i \in DOMAIN episodes :
       Entry(episodes[i]) /\ Hashed(episodes[i]) /\ Unhashed(episodes[i])

AtEpisode == {"guests", "transcribe", "chunk", "extract"}

\* While a stage is at an episode there is one, and its transcript is of its URL, or of
\* a file.
StageInv ==
  /\ pc = "fetch" => pos = 1
  /\ pc \in AtEpisode => pos \in 1..Len(episodes)
  /\ pc \in {"chunk", "extract"} => heard # NotHeard
  /\ heard # NotHeard => /\ pc \in AtEpisode
                         /\ ~setup.files => AsPublished(CurrentUrl, heard.of)

RunsInv ==
  /\ runs \in Seq(Range(runs))
  /\ \A i \in DOMAIN runs :
       /\ Row(runs[i]) /\ Hashed(runs[i]) /\ Unhashed(runs[i])
       /\ ~setup.files => AsPublished(UrlOf[runs[i].id], runs[i].heard.of)

HashInv ==
  PublisherInv /\ RecordsInv /\ DiskInv /\ EpisodesInv /\ StageInv /\ RunsInv

\* While a transcript is made its key is known, the URL's unless it is of a file.
KeyInv ==
  keptAs # NoKey =>
    /\ Transcribing /\ keptAs \in Url \cup Content
    /\ ~setup.files => keptAs = CurrentUrl

\* Nothing was fetched, kept or heard at first.
LEMMA HashInvInit == Init => HashInv /\ KeyInv
  BY PipelineAssumption
  DEF Init, Nothing, HashInv, PublisherInv, RecordsInv, DiskInv, EpisodesInv, StageInv, RunsInv,
      AtEpisode, Range, KeyInv

\* A sequence is one of its own elements, and so is what it is extended to.
LEMMA AppendElements ==
  ASSUME NEW seq, seq \in Seq(Range(seq)), NEW x
  PROVE  /\ Append(seq, x) \in Seq(Range(Append(seq, x)))
         /\ DOMAIN Append(seq, x) = 1..(Len(seq) + 1)
         /\ Append(seq, x)[Len(seq) + 1] = x
         /\ \A i \in DOMAIN seq : Append(seq, x)[i] = seq[i]
         /\ DOMAIN seq = 1..Len(seq) /\ Len(seq) \in Nat
<1> DEFINE S == Range(seq) \cup {x}
           longer == Append(seq, x)
<1>1. seq \in Seq(S)
  <2>1. Range(seq) \subseteq S
    OBVIOUS
  <2> QED
    BY <2>1, SeqMonotonic
<1>2. /\ longer \in Seq(S) /\ Len(longer) = Len(seq) + 1
      /\ \A i \in 1..Len(seq) : longer[i] = seq[i]
      /\ longer[Len(seq) + 1] = x
  <2>1. x \in S
    OBVIOUS
  <2> HIDE DEF S
  <2> QED
    BY <1>1, <2>1, AppendProperties
<1>3. DOMAIN seq = 1..Len(seq) /\ Len(seq) \in Nat
  BY LenProperties
<1>4. DOMAIN longer = 1..(Len(seq) + 1) /\ longer \in Seq(Range(longer))
  <2> HIDE DEF longer, S
  <2> QED
    BY <1>2, LenProperties, SeqOfRange
<1> QED
  BY <1>2, <1>3, <1>4

\* So is a list of as many values.
LEMMA MappedElements ==
  ASSUME NEW n \in Nat, NEW f, f = [i \in 1..n |-> f[i]]
  PROVE  f \in Seq(Range(f))
<1>1. f \in [1..n -> Range(f)]
  BY DEF Range
<1> HIDE DEF Range
<1> QED
  BY <1>1

\* What a step leaves alone stays as it is.
LEMMA Kept ==
  ASSUME HashInv, UNCHANGED <<setup, served>>
  PROVE  /\ PublisherInv'
         /\ UNCHANGED records => RecordsInv'
         /\ UNCHANGED disk => DiskInv'
         /\ UNCHANGED <<todo, episodes>> => EpisodesInv'
         /\ UNCHANGED <<pc, pos, episodes, heard>> => StageInv'
         /\ UNCHANGED runs => RunsInv'
<1>1. PublisherInv'
  BY DEF HashInv, PublisherInv
<1>2. UNCHANGED records => RecordsInv'
  BY DEF HashInv, RecordsInv, AsPublished
<1>3. UNCHANGED disk => DiskInv'
  BY DEF HashInv, DiskInv, AsPublished
<1>4. UNCHANGED <<todo, episodes>> => EpisodesInv'
  BY DEF HashInv, EpisodesInv, Hashed, Unhashed, Entry, AsPublished
<1>5. UNCHANGED <<pc, pos, episodes, heard>> => StageInv'
  BY DEF HashInv, StageInv, CurrentUrl, AsPublished
<1>6. UNCHANGED runs => RunsInv'
  BY DEF HashInv, RunsInv, Hashed, Unhashed, Row, AsPublished
<1> QED
  BY <1>1, <1>2, <1>3, <1>4, <1>5, <1>6

\* A batch begins with episodes to fetch and none fetched.
LEMMA BeginKeeps ==
  ASSUME HashInv, NEW batch \in setup.batches, Begin(batch)
  PROVE  HashInv'
<1>1. UNCHANGED <<setup, served, records, disk, heard>> /\ pc = "idle" /\ pc' = "fetch"
      /\ todo' = batch /\ episodes' = <<>> /\ pos' = 1 /\ runs' = <<>>
  BY DEF Begin, outside, perEpisode
<1>2. EpisodesInv'
  <2>1. batch \in Seq(Episode)
    BY PipelineAssumption DEF HashInv, PublisherInv
  <2> QED
    BY <1>1, <2>1 DEF EpisodesInv
<1>3. StageInv'
  BY <1>1 DEF HashInv, StageInv, AtEpisode
<1>4. RunsInv'
  BY <1>1 DEF RunsInv
<1> QED
  BY <1>1, <1>2, <1>3, <1>4, Kept DEF HashInv

\* An episode that enters the batch with a hash of its URL's content, or with none.
LEMMA EnteredKeeps ==
  ASSUME HashInv, UNCHANGED <<setup, served, pc, pos, heard>>, pc = "fetch", todo # <<>>,
         NEW id \in Episode, NEW hash, hash = NoContent \/ AsPublished(UrlOf[id], hash),
         setup.files => hash = NoContent, episodes' = Entered(id, hash), todo' = Tail(todo)
  PROVE  EpisodesInv' /\ StageInv'
<1>1. Tail(todo) \in Seq(Episode)
  BY DEF HashInv, EpisodesInv
<1>2. PICK entry : entry = [id |-> id, hash |-> hash]
  OBVIOUS
<1>3. Entry(entry) /\ Hashed(entry)' /\ Unhashed(entry)'
  BY <1>2 DEF Entry, Hashed, Unhashed, AsPublished
<1>4. /\ episodes' \in Seq(Range(episodes'))
      /\ DOMAIN episodes' = 1..(Len(episodes) + 1)
      /\ episodes'[Len(episodes) + 1] = entry
      /\ \A i \in DOMAIN episodes : episodes'[i] = episodes[i]
      /\ DOMAIN episodes = 1..Len(episodes) /\ Len(episodes) \in Nat
  <2>1. episodes \in Seq(Range(episodes))
    BY DEF HashInv, EpisodesInv
  <2>2. episodes' = Append(episodes, entry)
    BY <1>2 DEF Entered
  <2> QED
    BY <2>1, <2>2, AppendElements
<1>5. ASSUME NEW i \in DOMAIN episodes'
      PROVE  (Entry(episodes[i]) /\ Hashed(episodes[i]) /\ Unhashed(episodes[i]))'
  <2>1. CASE i = Len(episodes) + 1
    BY <1>3, <1>4, <2>1 DEF Entry, Hashed, Unhashed, AsPublished
  <2>2. CASE i # Len(episodes) + 1
    <3>1. i \in DOMAIN episodes
      BY <1>4, <2>2
    <3>2. Entry(episodes[i]) /\ Hashed(episodes[i]) /\ Unhashed(episodes[i])
      BY <3>1 DEF HashInv, EpisodesInv
    <3> QED
      BY <1>4, <3>1, <3>2 DEF Entry, Hashed, Unhashed, AsPublished
  <2> QED
    BY <2>1, <2>2
<1>6. StageInv'
  BY DEF HashInv, StageInv, AtEpisode
<1>7. EpisodesInv'
  BY <1>1, <1>4, <1>5 DEF EpisodesInv
<1> QED
  BY <1>6, <1>7

\* What is fetched now is what the URL serves; what was fetched before was served then.
LEMMA FetchKeeps ==
  ASSUME HashInv, Fetch \/ FetchFails \/ NotFetched
  PROVE  HashInv'
<1>1. UNCHANGED <<setup, served, disk, pc, pos, heard, runs>> /\ pc = "fetch" /\ todo # <<>>
      /\ todo' = Tail(todo) /\ Head(todo) \in Episode
  BY DEF Fetch, FetchFails, NotFetched, outside, perEpisode, HashInv, EpisodesInv
<1>2. CASE Fetch
  <2> DEFINE id == Head(todo)
             content == IF id \in DOMAIN records THEN records[id] ELSE served[UrlOf[id]]
  <2>1. AsPublished(UrlOf[id], content)
    BY <1>1, PipelineAssumption DEF HashInv, RecordsInv, AsPublished
  <2>2. /\ records' = [e \in DOMAIN records \cup {id} |-> IF e = id THEN content ELSE records[e]]
        /\ episodes' = Entered(id, content)
    BY <1>2 DEF Fetch
  <2>5. ~setup.files
    BY <1>2, PipelineAssumption DEF Fetch, HashInv, PublisherInv
  <2>3. RecordsInv'
    <3> HIDE DEF id, content
    <3> QED
      BY <1>1, <2>1, <2>2 DEF HashInv, RecordsInv, AsPublished, id
  <2>4. EpisodesInv' /\ StageInv'
    <3> HIDE DEF content
    <3> QED
      BY <1>1, <2>1, <2>2, <2>5, EnteredKeeps
  <2> QED
    BY <1>1, <2>3, <2>4, Kept DEF HashInv
<1>3. CASE FetchFails
  <2>1. UNCHANGED <<records, episodes>>
    BY <1>3 DEF FetchFails
  <2>2. EpisodesInv'
    BY <1>1, <2>1 DEF HashInv, EpisodesInv, Hashed, Unhashed, Entry, AsPublished
  <2> QED
    BY <1>1, <2>1, <2>2, Kept DEF HashInv
<1>4. CASE NotFetched
  <2>1. UNCHANGED records /\ episodes' = Entered(Head(todo), NoContent)
    BY <1>4 DEF NotFetched
  <2>2. EpisodesInv' /\ StageInv'
    BY <1>1, <2>1, EnteredKeeps
  <2> QED
    BY <1>1, <2>1, <2>2, Kept DEF HashInv
<1> QED
  BY <1>2, <1>3, <1>4

\* The run begins with its first episode, if there is one.
LEMMA RunBeginsKeeps ==
  ASSUME HashInv, RunBegins
  PROVE  HashInv'
<1>1. UNCHANGED <<setup, served, records, disk, todo, episodes, pos, heard, runs>>
      /\ pc = "fetch" /\ pc' = AfterFetch
  BY DEF RunBegins, outside, perEpisode
<1>2. pos = 1 /\ heard = NotHeard
  BY <1>1 DEF HashInv, StageInv, AtEpisode
<1>3. episodes # <<>> => 1 \in 1..Len(episodes)
  <2>1. episodes \in Seq(Range(episodes))
    BY DEF HashInv, EpisodesInv
  <2> QED
    BY <2>1, EmptySeq
<1>4. StageInv'
  BY <1>1, <1>2, <1>3 DEF StageInv, AfterFetch, AtEpisode
<1> QED
  BY <1>1, <1>4, Kept DEF HashInv

\* A transcript is of what its URL serves when the backend answers, and one that was kept
\* is of what it served then.
LEMMA HearingKeeps ==
  ASSUME HashInv, KeyInv,
         TranscribeCached \/ (\E result : TranscribeAtOnce(result) \/ HostedAnswers(result))
  PROVE  HashInv'
<1>1. UNCHANGED <<setup, served, records, pc, todo, episodes, pos, runs>>
      /\ pc \in {"guests", "transcribe"}
  BY DEF TranscribeCached, TranscribeAtOnce, HostedAnswers, Transcribing, Uncached, outside
<1>2. /\ ~setup.files => AsPublished(CurrentUrl, heard'.of)
      /\ DiskInv'
  <2>1. CASE TranscribeCached
    <3> DEFINE key == CacheKey(CurrentUrl)
    <3>1. key \in DOMAIN disk /\ heard' = disk[key] /\ disk' = disk
      BY <2>1 DEF TranscribeCached, Cached
    <3>2. DiskInv'
      BY <1>1, <3>1, Kept
    <3>3. ~setup.files => key = CurrentUrl
      BY DEF CacheKey
    <3>4. ~setup.files => AsPublished(CurrentUrl, heard'.of)
      <4> HIDE DEF key
      <4> QED
        BY <3>1, <3>3 DEF HashInv, DiskInv
    <3> QED
      BY <3>2, <3>4
  <2>2. CASE \E result : TranscribeAtOnce(result) \/ HostedAnswers(result)
    <3>1. keptAs # NoKey /\ \E result : Hear(result)
      BY <2>2 DEF TranscribeAtOnce, HostedAnswers, Uncached
    <3>2. PICK result : Hear(result)
      BY <3>1
    <3>3. heard'.of = served[CurrentUrl]
      BY <3>2 DEF Hear
    <3>4. AsPublished(CurrentUrl, heard'.of)
      BY <3>3 DEF AsPublished
    <3>5. CASE disk' = disk
      BY <1>1, <3>4, <3>5, Kept
    <3>6. CASE disk' = [u \in DOMAIN disk \cup {keptAs} |->
                          IF u = keptAs THEN heard' ELSE disk[u]]
      <4>1. ASSUME NEW u \in DOMAIN disk', ~setup.files
            PROVE  AsPublished(u, disk'[u].of)
        <5>1. CASE u = keptAs
          BY <3>1, <3>4, <3>6, <4>1, <5>1 DEF KeyInv
        <5>2. CASE u # keptAs
          BY <3>6, <4>1, <5>2 DEF HashInv, DiskInv
        <5> QED
          BY <5>1, <5>2
      <4>2. DiskInv'
        BY <1>1, <4>1 DEF DiskInv, AsPublished
      <4> QED
        BY <3>4, <4>2
    <3> QED
      BY <3>2, <3>5, <3>6 DEF Hear
  <2> QED
    BY <2>1, <2>2
<1>3. StageInv'
  BY <1>1, <1>2 DEF HashInv, StageInv, AtEpisode, CurrentUrl, AsPublished
<1> QED
  BY <1>1, <1>2, <1>3, Kept DEF HashInv

\* A stage that goes on with its episode, or on to the next, forgets what it heard.
LEMMA StageKeeps ==
  ASSUME HashInv, UNCHANGED <<setup, served, records, disk, todo, episodes, runs>>, StageInv'
  PROVE  HashInv'
  BY Kept DEF HashInv

\* The guests of the last episode are followed by the run of the first.
LEMMA GuestsKeep ==
  ASSUME HashInv, NEW names, AddGuests(names)
  PROVE  HashInv'
<1>1. UNCHANGED <<setup, served, records, disk, todo, episodes, runs>>
      /\ pc = "guests" /\ heard' = NotHeard
  BY DEF AddGuests, Cleared, outside
<1>2. pos \in 1..Len(episodes) /\ Len(episodes) \in Nat
  BY <1>1, LenProperties DEF HashInv, StageInv, AtEpisode, EpisodesInv
<1>3. StageInv'
  <2>1. CASE pos = Len(episodes)
    <3>1. pc' = "transcribe" /\ pos' = 1
      BY <2>1 DEF AddGuests
    <3> QED
      BY <1>1, <1>2, <2>1, <3>1 DEF StageInv, AtEpisode
  <2>2. CASE pos # Len(episodes)
    <3>1. pc' = "guests" /\ pos' = pos + 1
      BY <1>1, <2>2 DEF AddGuests
    <3> QED
      BY <1>1, <1>2, <2>2, <3>1 DEF StageInv, AtEpisode
  <2> QED
    BY <2>1, <2>2
<1> QED
  BY <1>1, <1>3, StageKeeps

\* Shaping, chunking and extracting are of one episode, with its transcript at hand.
LEMMA WorkKeeps ==
  ASSUME HashInv,
         \/ TranscribeAnew \/ TranscribeHosted \/ Shape \/ NextChunk \/ Nudge
         \/ \E items : Extract(items)
  PROVE  HashInv'
<1>1. UNCHANGED <<setup, served, records, disk, todo, episodes, runs, pos, heard>>
  BY DEF TranscribeAnew, TranscribeHosted, Shape, NextChunk, Nudge, Extract, outside,
         perEpisode
<1>2. StageInv'
  <2>1. CASE UNCHANGED pc
    BY <1>1, <2>1, Kept
  <2>2. CASE Shape
    <3>1. pc = "transcribe" /\ heard # NotHeard /\ pc' \in {"extract", "chunk"}
      BY <2>2 DEF Shape
    <3> QED
      BY <1>1, <3>1 DEF HashInv, StageInv, AtEpisode, CurrentUrl, AsPublished
  <2>3. CASE NextChunk
    <3>1. pc = "chunk" /\ pc' \in {"extract", "chunk"}
      BY <2>3 DEF NextChunk
    <3> QED
      BY <1>1, <3>1 DEF HashInv, StageInv, AtEpisode, CurrentUrl, AsPublished
  <2> QED
    BY <2>1, <2>2, <2>3 DEF TranscribeAnew, TranscribeHosted, Nudge, Extract
<1> QED
  BY <1>1, <1>2, StageKeeps

\* The run of an episode has its hash and what was heard of it.
LEMMA FinishKeeps ==
  ASSUME HashInv, FinishEpisode
  PROVE  HashInv'
<1>1. /\ UNCHANGED <<setup, served, records, disk, todo, episodes>>
      /\ pc = "extract" /\ heard' = NotHeard /\ pos' = pos + 1
      /\ pc' = IF pos = Len(episodes) THEN "load" ELSE "transcribe"
  BY DEF FinishEpisode, Cleared, outside
<1>2. pos \in 1..Len(episodes) /\ Len(episodes) \in Nat /\ pos \in DOMAIN episodes
  BY <1>1, LenProperties DEF HashInv, StageInv, AtEpisode, EpisodesInv
<1>3. StageInv'
  BY <1>1, <1>2 DEF StageInv, AtEpisode
<1>4. PICK run : /\ run = [id |-> episodes[pos].id, heard |-> heard,
                           hash |-> episodes[pos].hash, transcript |-> transcript,
                           labels |-> labels,
                           claims |-> [i \in DOMAIN claims |-> Attributed(claims[i])]]
                 /\ runs' = Append(runs, run)
  BY DEF FinishEpisode
<1>5. (/\ Row(run) /\ Hashed(run) /\ Unhashed(run)
       /\ ~setup.files => AsPublished(UrlOf[run.id], run.heard.of))'
  <2>1. /\ Hashed(episodes[pos]) /\ Unhashed(episodes[pos])
        /\ ~setup.files => AsPublished(CurrentUrl, heard.of)
    BY <1>1, <1>2 DEF HashInv, EpisodesInv, StageInv
  <2>2. run.id = episodes[pos].id /\ run.hash = episodes[pos].hash /\ run.heard = heard
        /\ Row(run)
    BY <1>4 DEF Row
  <2> QED
    BY <1>1, <2>1, <2>2 DEF Hashed, Unhashed, CurrentUrl, AsPublished, Row
<1>6. /\ runs' \in Seq(Range(runs'))
      /\ DOMAIN runs' = 1..(Len(runs) + 1)
      /\ runs'[Len(runs) + 1] = run
      /\ \A i \in DOMAIN runs : runs'[i] = runs[i]
      /\ DOMAIN runs = 1..Len(runs) /\ Len(runs) \in Nat
  <2>1. runs \in Seq(Range(runs))
    BY DEF HashInv, RunsInv
  <2> QED
    BY <1>4, <2>1, AppendElements
<1>7. ASSUME NEW i \in DOMAIN runs'
      PROVE  (/\ Row(runs[i]) /\ Hashed(runs[i]) /\ Unhashed(runs[i])
              /\ ~setup.files => AsPublished(UrlOf[runs[i].id], runs[i].heard.of))'
  <2>1. CASE i = Len(runs) + 1
    BY <1>1, <1>5, <1>6, <2>1 DEF Row, Hashed, Unhashed, AsPublished
  <2>2. CASE i # Len(runs) + 1
    <3>1. i \in DOMAIN runs
      BY <1>6, <2>2
    <3>2. /\ Row(runs[i]) /\ Hashed(runs[i]) /\ Unhashed(runs[i])
          /\ ~setup.files => AsPublished(UrlOf[runs[i].id], runs[i].heard.of)
      BY <3>1 DEF HashInv, RunsInv
    <3> QED
      BY <1>1, <1>6, <3>1, <3>2 DEF Row, Hashed, Unhashed, AsPublished
  <2> QED
    BY <2>1, <2>2
<1>8. RunsInv'
  BY <1>6, <1>7 DEF RunsInv
<1> QED
  BY <1>1, <1>3, <1>8, Kept DEF HashInv

\* A load gives the runs claims and changes nothing else of them.
LEMMA LoadsOnlyClaims ==
  ASSUME HashInv, Load
  PROVE  /\ DOMAIN runs' = 1..Len(runs) /\ DOMAIN runs = 1..Len(runs)
         /\ Len(runs') = Len(runs) /\ Len(runs) \in Nat
         /\ runs' \in Seq(Range(runs'))
         /\ \A i \in 1..Len(runs) :
              /\ Row(runs[i]) /\ Row(runs'[i])
              /\ runs'[i].id = runs[i].id /\ runs'[i].hash = runs[i].hash
              /\ runs'[i].heard = runs[i].heard
<1>1. PICK slices : runs' = [i \in DOMAIN runs |-> [runs[i] EXCEPT !.claims = slices[i]]]
  <2>3. PICK resolved \in Resolutions(AllClaims) :
          runs' = [i \in DOMAIN runs |-> [runs[i] EXCEPT !.claims =
                     SubSeq(resolved, ClaimsBefore(i) + 1,
                            Smaller(ClaimsBefore(i) + Len(runs[i].claims), Len(resolved)))]]
    BY DEF Load
  <2> DEFINE slice(i) == SubSeq(resolved, ClaimsBefore(i) + 1,
                                Smaller(ClaimsBefore(i) + Len(runs[i].claims), Len(resolved)))
             all == [i \in DOMAIN runs |-> slice(i)]
  <2>1. runs' = [i \in DOMAIN runs |-> [runs[i] EXCEPT !.claims = slice(i)]]
    BY <2>3
  <2>2. runs' = [i \in DOMAIN runs |-> [runs[i] EXCEPT !.claims = all[i]]]
    BY <2>1
  <2> HIDE DEF all
  <2> QED
    BY <2>2
<1>2. DOMAIN runs = 1..Len(runs) /\ Len(runs) \in Nat /\ DOMAIN runs' = 1..Len(runs)
  BY <1>1, LenProperties DEF HashInv, RunsInv
<1>3. runs' \in Seq(Range(runs'))
  <2>1. runs' = [i \in 1..Len(runs) |-> runs'[i]]
    BY <1>1, <1>2
  <2> QED
    BY <1>2, <2>1, MappedElements
<1>4. Len(runs') = Len(runs)
  BY <1>2, <1>3, LenProperties
<1>5. ASSUME NEW i \in 1..Len(runs)
      PROVE  /\ Row(runs[i]) /\ Row(runs'[i])
             /\ runs'[i].id = runs[i].id /\ runs'[i].hash = runs[i].hash
             /\ runs'[i].heard = runs[i].heard
  <2>1. Row(runs[i])
    BY <1>2 DEF HashInv, RunsInv
  <2>2. runs'[i] = [runs[i] EXCEPT !.claims = slices[i]]
    BY <1>1, <1>2
  <2> QED
    BY <2>1, <2>2 DEF Row
<1> QED
  BY <1>2, <1>3, <1>4, <1>5

\* So it changes nothing of where the runs were heard.
LEMMA LoadKeeps ==
  ASSUME HashInv, Load
  PROVE  HashInv'
<1>1. /\ UNCHANGED <<setup, served, records, disk, todo, episodes, pos, heard>>
      /\ pc = "load" /\ pc' = "idle"
  BY DEF Load, outside, perEpisode
<1>2. StageInv'
  BY <1>1 DEF HashInv, StageInv, AtEpisode
<1>3. ASSUME NEW i \in DOMAIN runs'
      PROVE  (/\ Row(runs[i]) /\ Hashed(runs[i]) /\ Unhashed(runs[i])
              /\ ~setup.files => AsPublished(UrlOf[runs[i].id], runs[i].heard.of))'
  <2>1. i \in DOMAIN runs /\ Row(runs'[i]) /\ runs'[i].id = runs[i].id
        /\ runs'[i].hash = runs[i].hash /\ runs'[i].heard = runs[i].heard
    BY LoadsOnlyClaims
  <2>2. /\ Hashed(runs[i]) /\ Unhashed(runs[i])
        /\ ~setup.files => AsPublished(UrlOf[runs[i].id], runs[i].heard.of)
    BY <2>1 DEF HashInv, RunsInv
  <2> QED
    BY <1>1, <2>1, <2>2 DEF Hashed, Unhashed, AsPublished, Row
<1>4. RunsInv'
  BY <1>3, LoadsOnlyClaims DEF RunsInv
<1> QED
  BY <1>1, <1>2, <1>4, Kept DEF HashInv

\* Whatever is lost of a batch, the records of the process and the cache are of what was
\* served.
LEMMA LossKeeps ==
  ASSUME HashInv, RunRaises \/ Restart
  PROVE  HashInv'
<1>1. /\ UNCHANGED <<setup, served, disk>> /\ pc' = "idle" /\ todo' = <<>>
      /\ episodes' = <<>> /\ heard' = NotHeard /\ runs' = <<>>
  BY DEF RunRaises, Restart, Lost, Cleared, outside
<1>2. RecordsInv'
  <2>1. CASE RunRaises
    BY <1>1, <2>1, Kept DEF RunRaises
  <2>2. CASE Restart
    BY <2>2 DEF Restart, Nothing, RecordsInv
  <2> QED
    BY <2>1, <2>2
<1>3. EpisodesInv' /\ RunsInv' /\ StageInv'
  BY <1>1 DEF EpisodesInv, RunsInv, StageInv, AtEpisode
<1> QED
  BY <1>1, <1>2, <1>3, Kept DEF HashInv

\* A URL that is put to another use once is never put back to its first.
LEMMA RepublishKeeps ==
  ASSUME HashInv, NEW url \in Url, Republish(url)
  PROVE  HashInv'
<1>1. /\ UNCHANGED <<setup, records, disk, todo, episodes, pc, pos, heard, runs>>
      /\ served' = [served EXCEPT ![url] = Republished[url]]
      /\ served[url] # Republished[url]
  BY DEF Republish, perEpisode
<1>2. PublisherInv'
  BY <1>1, PipelineAssumption DEF HashInv, PublisherInv
<1>3. ASSUME NEW u, NEW content, AsPublished(u, content)
      PROVE  content = Published[u] \/ served'[u] # Published[u]
  <2>1. CASE u = url
    BY <1>1, <1>3, <2>1 DEF HashInv, PublisherInv, AsPublished
  <2>2. CASE u # url
    BY <1>1, <1>3, <2>2 DEF HashInv, PublisherInv, AsPublished
  <2> QED
    BY <2>1, <2>2
<1>4. ASSUME NEW entry, Hashed(entry) PROVE Hashed(entry)'
  BY <1>3, <1>4 DEF Hashed, AsPublished
<1>5. RecordsInv' /\ DiskInv'
  <2>1. ASSUME NEW id \in DOMAIN records
        PROVE  id \in Episode /\ (AsPublished(UrlOf[id], records[id]))'
    BY <1>1, <1>3 DEF HashInv, RecordsInv, AsPublished
  <2>2. RecordsInv'
    BY <1>1, <2>1 DEF RecordsInv
  <2>3. DiskInv'
    BY <1>1, <1>3 DEF HashInv, DiskInv, AsPublished
  <2> QED
    BY <2>2, <2>3
<1>6. EpisodesInv'
  <2>1. ASSUME NEW i \in DOMAIN episodes
        PROVE  Entry(episodes[i]) /\ (Hashed(episodes[i]))' /\ Unhashed(episodes[i])
    <3>1. PICK entry : entry = episodes[i]
      OBVIOUS
    <3>2. Entry(entry) /\ Hashed(entry) /\ Unhashed(entry)
      BY <3>1 DEF HashInv, EpisodesInv
    <3>3. Hashed(entry)'
      BY <1>4, <3>2
    <3> QED
      BY <1>1, <3>1, <3>2, <3>3 DEF Hashed, AsPublished
  <2> QED
    BY <1>1, <2>1 DEF HashInv, EpisodesInv, Entry, Unhashed
<1>7. StageInv'
  <2>1. heard # NotHeard /\ ~setup.files => (AsPublished(CurrentUrl, heard.of))'
    BY <1>1, <1>3 DEF HashInv, StageInv, CurrentUrl, AsPublished
  <2> QED
    BY <1>1, <2>1 DEF HashInv, StageInv
<1>8. RunsInv'
  <2>1. ASSUME NEW i \in DOMAIN runs
        PROVE  /\ Row(runs[i]) /\ (Hashed(runs[i]))' /\ Unhashed(runs[i])
               /\ ~setup.files => (AsPublished(UrlOf[runs[i].id], runs[i].heard.of))'
    <3>1. PICK run : run = runs[i]
      OBVIOUS
    <3>2. /\ Row(run) /\ Hashed(run) /\ Unhashed(run)
          /\ ~setup.files => AsPublished(UrlOf[run.id], run.heard.of)
      BY <3>1 DEF HashInv, RunsInv
    <3>3. Hashed(run)' /\ (~setup.files => (AsPublished(UrlOf[run.id], run.heard.of))')
      BY <1>3, <1>4, <3>2 DEF AsPublished
    <3> QED
      BY <1>1, <3>1, <3>2, <3>3 DEF Hashed, AsPublished
  <2> QED
    BY <1>1, <2>1 DEF HashInv, RunsInv, Row, Unhashed
<1> QED
  BY <1>2, <1>5, <1>6, <1>7, <1>8 DEF HashInv

\* Every step keeps what is known of the audio.
LEMMA HashInvStep == HashInv /\ KeyInv /\ [Next]_vars => HashInv'
<1> SUFFICES ASSUME HashInv, KeyInv, [Next]_vars PROVE HashInv'
  OBVIOUS
<1>1. CASE RunStep
  BY <1>1, FetchKeeps, RunBeginsKeeps, HearingKeeps, GuestsKeep, WorkKeeps, FinishKeeps,
     LoadKeeps, LossKeeps DEF RunStep
<1>2. CASE \E batch \in setup.batches : Begin(batch)
  BY <1>2, BeginKeeps
<1>3. CASE Restart
  BY <1>3, LossKeeps
<1>4. CASE \E url \in Url : Republish(url)
  BY <1>4, RepublishKeeps
<1>5. CASE Done \/ UNCHANGED vars
  <2>1. UNCHANGED <<setup, served, records, disk, todo, episodes, pc, pos, heard, runs>>
    BY <1>5 DEF Done, vars, perEpisode
  <2> QED
    BY <2>1, Kept DEF HashInv
<1> QED
  BY <1>1, <1>2, <1>3, <1>4, <1>5 DEF Next

\* A key is kept from the call of the backend until it answers or raises.
LEMMA KeyInvStep == HashInv /\ KeyInv /\ [Next]_vars => KeyInv'
<1> SUFFICES ASSUME HashInv, KeyInv, [Next]_vars PROVE KeyInv'
  OBVIOUS
<1>1. CASE keptAs' = NoKey
  BY <1>1 DEF KeyInv
<1>2. CASE TranscribeAnew
  <2>1. /\ UNCHANGED <<setup, served, pc, pos, episodes, heard>>
        /\ Transcribing /\ keptAs' = CacheKey(CurrentUrl)
    BY <1>2 DEF TranscribeAnew, outside
  <2>2. CurrentUrl \in Url
    <3>1. pos \in DOMAIN episodes
      BY <2>1, LenProperties DEF Transcribing, HashInv, StageInv, AtEpisode, EpisodesInv
    <3> QED
      BY <3>1, PipelineAssumption DEF HashInv, EpisodesInv, Hashed, CurrentUrl
  <2>3. keptAs' \in Url \cup Content /\ (~setup.files => keptAs' = CurrentUrl)
    BY <2>1, <2>2 DEF CacheKey, HashInv, PublisherInv
  <2> QED
    BY <2>1, <2>3 DEF KeyInv, Transcribing, CurrentUrl
<1>3. CASE UNCHANGED <<setup, pc, pos, episodes, heard, keptAs>>
  BY <1>3 DEF KeyInv, Transcribing, CurrentUrl
<1>4. CASE keptAs = NoKey /\ UNCHANGED keptAs
  BY <1>4 DEF KeyInv
<1>5. CASE RunStep
  <2>1. CASE Fetch \/ FetchFails \/ NotFetched \/ RunBegins \/ Load \/ Shape \/ NextChunk
    <3>1. keptAs = NoKey
      BY <2>1 DEF Fetch, FetchFails, NotFetched, RunBegins, Load, Shape, NextChunk,
                  KeyInv, Transcribing
    <3>2. UNCHANGED keptAs
      BY <2>1 DEF Fetch, FetchFails, NotFetched, RunBegins, Load, Shape, NextChunk,
                  perEpisode
    <3> QED
      BY <1>4, <3>1, <3>2
  <2>2. CASE TranscribeCached \/ (\E items : Extract(items)) \/ Nudge
    <3>1. keptAs = NoKey
      BY <2>2 DEF TranscribeCached, Extract, Nudge, KeyInv, Transcribing
    <3>2. UNCHANGED keptAs
      BY <2>2 DEF TranscribeCached, Extract, Nudge
    <3> QED
      BY <1>4, <3>1, <3>2
  <2>3. CASE TranscribeHosted
    BY <1>3, <2>3 DEF TranscribeHosted, perEpisode
  <2>4. CASE \/ \E result : TranscribeAtOnce(result) \/ HostedAnswers(result)
             \/ \E names : AddGuests(names)
             \/ FinishEpisode \/ RunRaises
    BY <1>1, <2>4 DEF TranscribeAtOnce, HostedAnswers, Hear, AddGuests, FinishEpisode,
                      RunRaises, Lost, Cleared
  <2> QED
    BY <1>2, <1>5, <2>1, <2>2, <2>3, <2>4 DEF RunStep
<1>6. CASE \E batch \in setup.batches : Begin(batch)
  <2>1. keptAs = NoKey /\ UNCHANGED keptAs
    BY <1>6 DEF Begin, perEpisode, KeyInv, Transcribing
  <2> QED
    BY <1>4, <2>1
<1>7. CASE Restart
  BY <1>1, <1>7 DEF Restart, Lost, Cleared
<1>8. CASE (\E url \in Url : Republish(url)) \/ Done \/ UNCHANGED vars
  BY <1>3, <1>8 DEF Republish, Done, vars, perEpisode
<1> QED
  BY <1>5, <1>6, <1>7, <1>8 DEF Next

\* An episode whose hash is not that of the audio it was transcribed from is one whose
\* publisher changed what the URL serves, whatever was cached by URL or by content,
\* fetched before, or lost.
THEOREM HashedAudioIsHeard == Spec => []HashedIsHeard
<1>1. HashInv => HashedIsHeard
  BY DEF HashInv, RunsInv, Hashed, Unhashed, AsPublished, HashedIsHeard
<1>2. (HashInv /\ KeyInv) /\ [Next]_vars => (HashInv /\ KeyInv)'
  BY HashInvStep, KeyInvStep
<1> QED
  BY <1>1, <1>2, HashInvInit, PTL DEF Spec

-----------------------------------------------------------------------------
(* The stages, and the chunks of a transcript *)

\* What a backend made of a content.
Heard(entry) ==
  /\ entry = [of |-> entry.of, transcript |-> entry.transcript]
  /\ entry.of \in Content /\ entry.transcript \in Transcript

HearInv ==
  /\ DOMAIN disk \subseteq Url \cup Content
  /\ \A key \in DOMAIN disk : Heard(disk[key])
  /\ heard # NotHeard => Heard(heard)

AtWork == {"chunk", "extract"}

\* Who the labels of an episode's segments are to the pipeline, as it is told now.
SpeakersOf(id, segments) ==
  ResolveSpeakers(id, segments,
    IF setup.names THEN SpeakerNames(segments, setup.labelsAreNames) ELSE Nothing,
    HostsOf(segments, id), GuestOf(candidates, id), setup.fallback)

\* Nothing is known of an episode until it is shaped, and then what that gives.
WorkInv ==
  /\ pc \in Stages /\ pos \in 1..(Len(episodes) + 1)
  /\ nudged \in BOOLEAN /\ batches \in 0..MaxBatches /\ restarts \in 0..MaxRestarts
  /\ pc \notin AtWork => transcript = NoTranscript /\ labels = Nothing /\ chunks = <<>>
  /\ pc \notin AtWork \/ pc = "chunk" => answered = 0 /\ claims = <<>>
  /\ pc \in AtWork => /\ transcript = Shaped(heard.transcript)
                      /\ labels = SpeakersOf(episodes[pos].id, transcript.segments)

\* A chunk is of the transcript's segments, begins behind the one before and no later
\* than right after its end, and is too long only if it is one segment.
Follows(i) ==
  /\ chunks[i].first \in 1..chunks[i].last
  /\ chunks[i].last \in 1..Len(transcript.segments)
  /\ i = 1 => chunks[i].first = 1
  /\ i > 1 => /\ chunks[i].first > chunks[i - 1].first
              /\ chunks[i].first <= chunks[i - 1].last + 1
  /\ \/ Chars(transcript.segments, chunks[i].first, chunks[i].last) <= MaxChars
     \/ chunks[i].first = chunks[i].last

\* There are more to come just as long as the last one does not reach the end.
ChunkInv ==
  /\ chunks \in Seq([first : Nat, last : Nat])
  /\ \A i \in 1..Len(chunks) : Follows(i)
  /\ pc = "chunk" =>
       /\ transcript.segments # <<>>
       /\ chunks # <<>> => chunks[Len(chunks)].last < Len(transcript.segments)
  /\ pc = "extract" /\ transcript.segments # <<>> =>
       chunks # <<>> /\ chunks[Len(chunks)].last = Len(transcript.segments)
  /\ answered \in 0..Len(chunks)

StepInv == CallInv /\ HashInv /\ KeyInv /\ HearInv /\ WorkInv /\ ChunkInv

\* Nothing is heard, shaped or cut at first.
LEMMA StepInvInit == Init => StepInv
<1> SUFFICES ASSUME Init PROVE StepInv
  OBVIOUS
<1>1. CallInv /\ HashInv /\ KeyInv
  BY CallInvInit, HashInvInit DEF Init
<1>2. HearInv
  BY DEF Init, HearInv, Nothing
<1>3. WorkInv
  <2>1. 1 \in 1..(Len(episodes) + 1)
    BY EmptySeq DEF Init
  <2>2. 0 \in 0..MaxBatches /\ 0 \in 0..MaxRestarts
    BY PipelineAssumption
  <2> QED
    BY <2>1, <2>2, Zenon DEF Init, WorkInv, Stages, AtWork
<1>4. ChunkInv
  BY EmptySeq DEF Init, ChunkInv
<1> QED
  BY <1>1, <1>2, <1>3, <1>4 DEF StepInv

\* What a step leaves alone stays as it is.
LEMMA LeftAlone ==
  ASSUME StepInv
  PROVE  /\ UNCHANGED <<disk, heard>> => HearInv'
         /\ UNCHANGED <<disk>> /\ heard' = NotHeard => HearInv'
         /\ UNCHANGED <<pc, transcript, chunks, answered>> => ChunkInv'
         /\ pc' \notin AtWork /\ chunks' = <<>> /\ answered' = 0 => ChunkInv'
<1>1. UNCHANGED <<disk, heard>> => HearInv'
  BY DEF StepInv, HearInv, Heard
<1>2. UNCHANGED <<disk>> /\ heard' = NotHeard => HearInv'
  BY DEF StepInv, HearInv, Heard
<1>3. UNCHANGED <<pc, transcript, chunks, answered>> => ChunkInv'
  BY DEF StepInv, ChunkInv, Follows
<1>4. pc' \notin AtWork /\ chunks' = <<>> /\ answered' = 0 => ChunkInv'
  BY EmptySeq DEF ChunkInv, AtWork
<1> QED
  BY <1>1, <1>2, <1>3, <1>4

\* The sequences there are.
LEMMA BatchSequences ==
  ASSUME StepInv
  PROVE  /\ DOMAIN episodes = 1..Len(episodes) /\ Len(episodes) \in Nat
         /\ DOMAIN runs = 1..Len(runs) /\ Len(runs) \in Nat
         /\ DOMAIN chunks = 1..Len(chunks) /\ Len(chunks) \in Nat
  BY LenProperties DEF StepInv, HashInv, EpisodesInv, RunsInv, ChunkInv

\* A batch begins, and its episodes are fetched one by one.
LEMMA BatchSteps ==
  ASSUME StepInv,
         (\E batch : Begin(batch)) \/ Fetch \/ FetchFails \/ NotFetched \/ RunBegins
  PROVE  HearInv' /\ WorkInv' /\ ChunkInv'
<1>1. /\ UNCHANGED <<disk, heard, transcript, labels, chunks, answered, nudged, claims, restarts>>
      /\ pc \notin AtWork
  BY DEF Begin, Fetch, FetchFails, NotFetched, RunBegins, perEpisode, outside, AtWork
<1>2. /\ transcript = NoTranscript /\ labels = Nothing /\ chunks = <<>>
      /\ answered = 0 /\ claims = <<>>
  BY <1>1 DEF StepInv, WorkInv
<1>3. pc' \in Stages /\ pc' \notin AtWork
  BY DEF Begin, Fetch, FetchFails, NotFetched, RunBegins, AtWork, AfterFetch, StepInv, WorkInv,
         Stages
<1>4. pos' \in 1..(Len(episodes') + 1)
  <2>1. CASE \E batch : Begin(batch)
    <3>1. pos' = 1 /\ Len(episodes') = 0
      BY <2>1, EmptySeq DEF Begin
    <3> QED
      BY <3>1
  <2>2. CASE Fetch \/ NotFetched
    <3>1. pc = "fetch" /\ pos' = pos /\ \E id, hash : episodes' = Entered(id, hash)
      BY <2>2 DEF Fetch, NotFetched
    <3>2. pos = 1
      BY <3>1 DEF StepInv, HashInv, StageInv
    <3>3. Len(episodes') = Len(episodes) + 1 /\ Len(episodes) \in Nat
      <4>1. episodes \in Seq(Range(episodes))
        BY DEF StepInv, HashInv, EpisodesInv
      <4>2. PICK entry : episodes' = Append(episodes, entry)
        BY <3>1 DEF Entered
      <4>3. DOMAIN Append(episodes, entry) = 1..(Len(episodes) + 1)
            /\ Append(episodes, entry) \in Seq(Range(Append(episodes, entry)))
            /\ Len(episodes) \in Nat
        BY <4>1, AppendElements
      <4> QED
        BY <4>2, <4>3, LenProperties
    <3> QED
      BY <3>1, <3>2, <3>3
  <2>3. CASE FetchFails \/ RunBegins
    BY <2>3 DEF FetchFails, RunBegins, StepInv, WorkInv
  <2> QED
    BY <2>1, <2>2, <2>3
<1>5. batches' \in 0..MaxBatches
  BY PipelineAssumption
  DEF Begin, Fetch, FetchFails, NotFetched, RunBegins, StepInv, WorkInv
<1>6. WorkInv'
  <2>1. nudged' \in BOOLEAN /\ restarts' \in 0..MaxRestarts
    BY <1>1 DEF StepInv, WorkInv
  <2> QED
    BY <1>1, <1>2, <1>3, <1>4, <1>5, <2>1 DEF WorkInv
<1> QED
  BY <1>1, <1>2, <1>3, <1>6, LeftAlone

\* Any raw result that a content may give becomes a transcript.
LEMMA ResultTyped ==
  ASSUME NEW content \in Content, NEW result \in Hears[content]
  PROVE  TranscriptOf(result) \in Transcript
<1>1. result \in HostedResult \cup LocalResult \cup TextResult
      /\ (result.kind = "local" => IsFiniteSet(result.turns))
      /\ (result.kind = "text" => IsFiniteSet(result.roster))
  BY PipelineAssumption
<1>2. CASE result \in HostedResult
  <2>1. result.kind = "hosted"
    BY <1>2 DEF HostedResult
  <2> QED
    BY <1>2, <2>1, HostedTyped DEF TranscriptOf
<1>3. CASE result \in LocalResult
  <2>1. result.kind = "local"
    BY <1>3 DEF LocalResult
  <2> QED
    BY <1>1, <1>3, <2>1, LocalTyped DEF TranscriptOf
<1>4. CASE result \in TextResult
  <2>1. result.kind = "text"
    BY <1>4 DEF TextResult
  <2> QED
    BY <1>1, <1>4, <2>1, TextTyped DEF TranscriptOf
<1> QED
  BY <1>1, <1>2, <1>3, <1>4

\* While a stage is at an episode, there is one.
LEMMA AtAnEpisode ==
  ASSUME StepInv, pc \in AtEpisode
  PROVE  /\ pos \in 1..Len(episodes) /\ pos \in DOMAIN episodes
         /\ episodes[pos].id \in Episode /\ CurrentUrl \in Url
<1>1. pos \in 1..Len(episodes) /\ pos \in DOMAIN episodes
  BY BatchSequences DEF StepInv, HashInv, StageInv
<1>2. episodes[pos].id \in Episode
  BY <1>1 DEF StepInv, HashInv, EpisodesInv, Hashed
<1> QED
  BY <1>1, <1>2, PipelineAssumption DEF CurrentUrl

\* A transcript is heard, or found where it was kept.
LEMMA HearSteps ==
  ASSUME StepInv,
         TranscribeCached \/ (\E result \in Hears[served[CurrentUrl]] :
                                TranscribeAtOnce(result) \/ HostedAnswers(result))
  PROVE  HearInv' /\ WorkInv' /\ ChunkInv'
<1>1. /\ UNCHANGED <<pc, pos, episodes, transcript, labels, chunks, answered, nudged, claims,
                     batches, restarts>>
      /\ pc \in {"guests", "transcribe"}
  BY DEF TranscribeCached, TranscribeAtOnce, HostedAnswers, Transcribing, Uncached, outside
<1>2. WorkInv'
  BY <1>1 DEF StepInv, WorkInv, AtWork
<1>3. CurrentUrl \in Url /\ served[CurrentUrl] \in Content
  BY <1>1, AtAnEpisode DEF AtEpisode, StepInv, HashInv, PublisherInv
<1>4. HearInv'
  <2>1. CASE TranscribeCached
    <3>1. PICK key \in DOMAIN disk : heard' = disk[key] /\ disk' = disk
      BY <2>1 DEF TranscribeCached, Cached
    <3>2. Heard(disk[key])
      BY DEF StepInv, HearInv
    <3> QED
      BY <3>1, <3>2 DEF StepInv, HearInv, Heard
  <2>2. CASE \E result \in Hears[served[CurrentUrl]] :
               TranscribeAtOnce(result) \/ HostedAnswers(result)
    <3>1. PICK result \in Hears[served[CurrentUrl]] : Hear(result) /\ keptAs # NoKey
      BY <2>2 DEF TranscribeAtOnce, HostedAnswers, Uncached
    <3>2. TranscriptOf(result) \in Transcript
      BY <1>3, ResultTyped
    <3>3. heard' = [of |-> served[CurrentUrl], transcript |-> TranscriptOf(result)]
      BY <3>1 DEF Hear
    <3>4. Heard(heard')
      BY <1>3, <3>2, <3>3 DEF Heard
    <3>5. keptAs \in Url \cup Content
      BY <3>1 DEF StepInv, KeyInv
    <3>6. \/ disk' = disk
          \/ disk' = [u \in DOMAIN disk \cup {keptAs} |->
                        IF u = keptAs THEN heard' ELSE disk[u]]
      BY <3>1 DEF Hear
    <3>7. DOMAIN disk' \subseteq Url \cup Content
      BY <3>5, <3>6 DEF StepInv, HearInv
    <3>8. ASSUME NEW key \in DOMAIN disk' PROVE Heard(disk'[key])
      <4>1. disk'[key] = heard' \/ (key \in DOMAIN disk /\ disk'[key] = disk[key])
        BY <3>6
      <4>2. key \in DOMAIN disk => Heard(disk[key])
        BY DEF StepInv, HearInv
      <4> QED
        BY <3>4, <4>1, <4>2
    <3> QED
      BY <3>4, <3>7, <3>8 DEF HearInv, Heard
  <2> QED
    BY <2>1, <2>2
<1> QED
  BY <1>1, <1>2, <1>4, LeftAlone

\* Pruned, and cut if that is asked for, a transcript is one.
LEMMA ShapedTyped ==
  ASSUME NEW raw \in Transcript
  PROVE  Shaped(raw) \in Transcript
<1>1. DropLowTalkTime(raw, MinTalkPercent) \in Transcript
  BY LeftAfterBar, PipelineAssumption
<1> DEFINE pruned == DropLowTalkTime(raw, MinTalkPercent)
<1> HIDE DEF pruned
<1>2. Shaped(raw) = IF setup.resegment THEN Resegmented(pruned, MaxSegSeconds) ELSE pruned
  BY DEF Shaped, pruned
<1>3. pruned \in Transcript
  BY <1>1 DEF pruned
<1>4. Resegmented(pruned, MaxSegSeconds) \in Transcript
  BY <1>3, RebuiltLabels, PipelineAssumption
<1> QED
  BY <1>2, <1>3, <1>4

\* While an episode is worked on, its transcript is what was heard of it, shaped.
LEMMA WorkTyped ==
  ASSUME StepInv, pc \in AtWork
  PROVE  /\ Heard(heard) /\ transcript \in Transcript /\ transcript.segments \in Seq(Segment)
         /\ DOMAIN labels = Labels(transcript.segments)
<1>1. Heard(heard)
  BY DEF StepInv, HearInv, HashInv, StageInv, AtWork
<1>2. transcript = Shaped(heard.transcript)
      /\ labels = SpeakersOf(episodes[pos].id, transcript.segments)
  BY DEF StepInv, WorkInv
<1>3. transcript \in Transcript
  <2>1. heard.transcript \in Transcript
    BY <1>1 DEF Heard
  <2>2. PICK raw \in Transcript : raw = heard.transcript
    BY <2>1
  <2>3. Shaped(raw) \in Transcript
    BY ShapedTyped
  <2> QED
    BY <1>2, <2>2, <2>3
<1>4. DOMAIN labels = Labels(transcript.segments)
  BY <1>2 DEF SpeakersOf, ResolveSpeakers
<1> QED
  BY <1>1, <1>3, <1>4 DEF Transcript

\* The guests of an episode are added, or its transcript is shaped.
LEMMA BeforeChunks ==
  ASSUME StepInv,
         TranscribeAnew \/ TranscribeHosted \/ (\E names : AddGuests(names)) \/ Shape
  PROVE  HearInv' /\ WorkInv' /\ ChunkInv'
<1>1. CASE TranscribeAnew \/ TranscribeHosted
  <2>1. UNCHANGED <<disk, heard, pc, pos, episodes, transcript, labels, chunks, answered, nudged,
                    claims, batches, restarts, setup, candidates>>
    BY <1>1 DEF TranscribeAnew, TranscribeHosted, perEpisode, outside
  <2>2. pc \notin AtWork
    BY <1>1 DEF TranscribeAnew, TranscribeHosted, Uncached, Transcribing, AtWork
  <2>3. WorkInv'
    BY <2>1, <2>2 DEF StepInv, WorkInv
  <2> QED
    BY <2>1, <2>3, LeftAlone
<1>2. CASE \E names : AddGuests(names)
  <2>1. /\ UNCHANGED <<disk, episodes, batches, restarts>> /\ heard' = NotHeard
        /\ transcript' = NoTranscript /\ labels' = Nothing /\ chunks' = <<>>
        /\ answered' = 0 /\ nudged' = FALSE /\ claims' = <<>> /\ pc = "guests"
        /\ \/ pc' = "transcribe" /\ pos' = 1
           \/ pc' = "guests" /\ pos' = pos + 1
    BY <1>2 DEF AddGuests, Cleared, outside
  <2>2. pos \in 1..Len(episodes) /\ Len(episodes) \in Nat
    BY <2>1, AtAnEpisode, BatchSequences DEF AtEpisode
  <2>3. pos' \in 1..(Len(episodes) + 1)
    BY <2>1, <2>2
  <2>4. WorkInv'
    BY <2>1, <2>3 DEF StepInv, WorkInv, Stages, AtWork
  <2> QED
    BY <2>1, <2>4, LeftAlone DEF AtWork
<1>3. CASE Shape
  <2>1. /\ UNCHANGED <<disk, heard, pos, episodes, chunks, answered, nudged, claims, batches,
                       restarts, setup, candidates>>
        /\ pc = "transcribe" /\ transcript' = Shaped(heard.transcript)
        /\ labels' = SpeakersOf(episodes[pos].id, transcript'.segments)
        /\ pc' = IF transcript'.segments = <<>> THEN "extract" ELSE "chunk"
    BY <1>3, Zenon DEF Shape, outside, SpeakersOf
  <2>2. chunks = <<>> /\ answered = 0 /\ claims = <<>>
    BY <2>1 DEF StepInv, WorkInv, AtWork
  <2>3. WorkInv'
    <3>1. labels' = (SpeakersOf(episodes[pos].id, transcript.segments))'
          /\ (Shaped(heard.transcript))' = Shaped(heard.transcript)
      BY <2>1 DEF SpeakersOf, HostsOf, Shaped
    <3>2. pc' \in Stages /\ pc' \in AtWork
      BY <2>1 DEF Stages, AtWork
    <3> QED
      BY <2>1, <2>2, <3>1, <3>2 DEF StepInv, WorkInv
  <2>4. ChunkInv'
    BY <2>1, <2>2, EmptySeq DEF ChunkInv
  <2>5. HearInv'
    BY <2>1, LeftAlone
  <2> QED
    BY <2>3, <2>4, <2>5
<1> QED
  BY <1>1, <1>2, <1>3

\* A chunk more begins behind the last one, within reach, and is as long as it may be.
LEMMA ChunkSteps ==
  ASSUME StepInv, NextChunk
  PROVE  HearInv' /\ WorkInv' /\ ChunkInv'
<1>1. /\ UNCHANGED <<disk, heard, pos, episodes, transcript, labels, answered, nudged, claims,
                     batches, restarts, setup, candidates>>
      /\ pc = "chunk"
  BY DEF NextChunk, outside
<1>2. PICK segments \in Seq(Segment) : segments = transcript.segments
  BY <1>1, WorkTyped DEF AtWork
<1> DEFINE n == Len(chunks)
<1>3. n \in Nat /\ Len(segments) \in Nat /\ Len(segments) > 0
  <2>1. segments # <<>>
    BY <1>1, <1>2 DEF StepInv, ChunkInv
  <2> QED
    BY <2>1, BatchSequences, LenProperties, EmptySeq
<1>4. PICK first, last, row :
        /\ first = IF chunks = <<>> THEN 1 ELSE NextFirst(Last(chunks).first, Last(chunks).last)
        /\ last = ChunkLast(segments, first)
        /\ row = [first |-> first, last |-> last]
        /\ chunks' = Append(chunks, row)
        /\ pc' = IF last = Len(segments) THEN "extract" ELSE "chunk"
  BY <1>2, Zenon DEF NextChunk
<1>5. /\ first \in 1..Len(segments)
      /\ n = 0 => first = 1
      /\ n > 0 => first > chunks[n].first /\ first <= chunks[n].last + 1
  <2>1. CASE chunks = <<>>
    BY <1>3, <1>4, <2>1, EmptySeq
  <2>2. CASE chunks # <<>>
    <3>1. n > 0 /\ n \in 1..n
      BY <1>3, <2>2, EmptySeq DEF StepInv, ChunkInv
    <3>2. /\ Follows(n) /\ chunks[n] \in [first : Nat, last : Nat]
          /\ chunks[n].last < Len(segments)
      <4>1. chunks \in Seq([first : Nat, last : Nat])
        BY DEF StepInv, ChunkInv
      <4>2. chunks[n] \in [first : Nat, last : Nat]
        BY <3>1, <4>1, ElementOfSeq
      <4>3. Follows(n)
        BY <3>1 DEF StepInv, ChunkInv
      <4>4. chunks[n].last < Len(segments)
        BY <1>1, <1>2, <2>2 DEF StepInv, ChunkInv
      <4> QED
        BY <4>2, <4>3, <4>4
    <3>3. PICK f, l : f = chunks[n].first /\ l = chunks[n].last
      OBVIOUS
    <3>4. f \in Nat /\ l \in Nat /\ f <= l /\ f >= 1 /\ l < Len(segments)
      BY <3>2, <3>3 DEF Follows
    <3>5. first = NextFirst(f, l)
      BY <1>4, <2>2, <3>3 DEF Last
    <3>6. NextFirst(f, l) \in (f + 1)..(l + 1)
      BY <3>4, ChunkAdvances
    <3> QED
      BY <1>3, <3>1, <3>3, <3>4, <3>5, <3>6
  <2> QED
    BY <2>1, <2>2
<1>6. /\ last \in first..Len(segments)
      /\ Chars(segments, first, last) <= MaxChars \/ last = first
  BY <1>4, <1>5, ChunkReaches
<1>7. /\ chunks' \in Seq([first : Nat, last : Nat]) /\ Len(chunks') = n + 1
      /\ \A i \in 1..n : chunks'[i] = chunks[i]
      /\ chunks'[n + 1] = row
  <2>1. chunks \in Seq([first : Nat, last : Nat])
    BY DEF StepInv, ChunkInv
  <2>2. row \in [first : Nat, last : Nat]
    BY <1>3, <1>4, <1>5, <1>6
  <2> QED
    BY <1>4, <2>1, <2>2, AppendProperties
<1>8. ASSUME NEW i \in 1..(n + 1) PROVE Follows(i)'
  <2>1. CASE i = n + 1
    <3>1. chunks'[i].first = first /\ chunks'[i].last = last
      BY <1>4, <1>7, <2>1
    <3>2. i > 1 => chunks'[i - 1] = chunks[n]
      BY <1>3, <1>7, <2>1
    <3>3. first \in 1..last /\ last \in 1..Len(segments)
      BY <1>3, <1>5, <1>6
    <3>4. i = 1 => n = 0
      BY <1>3, <2>1
    <3>5. i > 1 => n > 0
      BY <1>3, <2>1
    <3> QED
      BY <1>1, <1>2, <1>5, <1>6, <3>1, <3>2, <3>3, <3>4, <3>5 DEF Follows
  <2>2. CASE i # n + 1
    <3>1. i \in 1..n /\ Follows(i)
      BY <1>3, <2>2 DEF StepInv, ChunkInv
    <3>2. chunks'[i] = chunks[i] /\ (i > 1 => chunks'[i - 1] = chunks[i - 1])
      <4>1. i > 1 => i - 1 \in 1..n
        BY <1>3, <3>1
      <4> HIDE DEF n
      <4> QED
        BY <1>7, <3>1, <4>1
    <3> QED
      BY <1>1, <3>1, <3>2 DEF Follows
  <2> QED
    BY <2>1, <2>2
<1>9. ChunkInv'
  <2>1. chunks'[Len(chunks')].last = last /\ chunks' # <<>>
    BY <1>3, <1>4, <1>7, EmptySeq
  <2>2. pc' = "chunk" => last < Len(segments)
    BY <1>3, <1>4, <1>5, <1>6
  <2>3. transcript'.segments = segments /\ segments # <<>>
    BY <1>1, <1>2, <1>3, EmptySeq
  <2>4. answered' \in 0..Len(chunks')
    BY <1>1, <1>3, <1>7 DEF StepInv, ChunkInv
  <2>5. pc' = "extract" => last = Len(segments)
    BY <1>4
  <2> QED
    BY <1>7, <1>8, <2>1, <2>2, <2>3, <2>4, <2>5 DEF ChunkInv
<1>10. WorkInv'
  <2>1. pc' \in Stages /\ pc' \in AtWork
    BY <1>4 DEF Stages, AtWork
  <2>2. answered = 0 /\ claims = <<>>
    BY <1>1 DEF StepInv, WorkInv
  <2>3. (SpeakersOf(episodes[pos].id, transcript.segments))'
          = SpeakersOf(episodes[pos].id, transcript.segments)
        /\ (Shaped(heard.transcript))' = Shaped(heard.transcript)
    BY <1>1 DEF SpeakersOf, HostsOf, Shaped
  <2>4. pc \in AtWork
    BY <1>1 DEF AtWork
  <2> QED
    BY <1>1, <2>1, <2>2, <2>3, <2>4 DEF StepInv, WorkInv
<1> QED
  BY <1>1, <1>9, <1>10, LeftAlone

\* The model answers, or is asked again, and at last the episode is done.
LEMMA ExtractSteps ==
  ASSUME StepInv, (\E items : Extract(items)) \/ Nudge \/ FinishEpisode
  PROVE  HearInv' /\ WorkInv' /\ ChunkInv'
<1>1. CASE (\E items : Extract(items)) \/ Nudge
  <2>1. /\ UNCHANGED <<disk, heard, pc, pos, episodes, transcript, labels, chunks, batches,
                       restarts, setup, candidates>>
        /\ pc = "extract" /\ answered < Len(chunks)
        /\ nudged' \in BOOLEAN /\ answered' \in {answered, answered + 1}
    BY <1>1 DEF Extract, Nudge, outside
  <2>2. ChunkInv'
    <3>1. answered' \in 0..Len(chunks)
      BY <2>1, BatchSequences DEF StepInv, ChunkInv
    <3> QED
      BY <2>1, <3>1 DEF StepInv, ChunkInv, Follows
  <2>3. WorkInv'
    <3>1. (SpeakersOf(episodes[pos].id, transcript.segments))'
            = SpeakersOf(episodes[pos].id, transcript.segments)
          /\ (Shaped(heard.transcript))' = Shaped(heard.transcript)
      BY <2>1 DEF SpeakersOf, HostsOf, Shaped
    <3> QED
      BY <2>1, <3>1 DEF StepInv, WorkInv, AtWork
  <2> QED
    BY <2>1, <2>2, <2>3, LeftAlone
<1>2. CASE FinishEpisode
  <2>1. /\ UNCHANGED <<disk, episodes, batches, restarts>> /\ heard' = NotHeard
        /\ transcript' = NoTranscript /\ labels' = Nothing /\ chunks' = <<>>
        /\ answered' = 0 /\ nudged' = FALSE /\ claims' = <<>> /\ pc = "extract"
        /\ pc' \in {"load", "transcribe"} /\ pos' = pos + 1
    BY <1>2 DEF FinishEpisode, Cleared, outside
  <2>2. pos' \in 1..(Len(episodes) + 1)
    <3>1. pos \in 1..Len(episodes) /\ Len(episodes) \in Nat
      BY <2>1, AtAnEpisode, BatchSequences DEF AtEpisode
    <3> QED
      BY <2>1, <3>1
  <2>3. WorkInv'
    BY <2>1, <2>2 DEF StepInv, WorkInv, Stages, AtWork
  <2>4. pc' \notin AtWork
    BY <2>1 DEF AtWork
  <2> QED
    BY <2>1, <2>3, <2>4, LeftAlone
<1> QED
  BY <1>1, <1>2

\* A batch ends, loaded or lost, or nothing happens to it.
LEMMA EndSteps ==
  ASSUME StepInv,
         \/ Load \/ RunRaises \/ Restart \/ (\E url : Republish(url)) \/ Done \/ UNCHANGED vars
  PROVE  HearInv' /\ WorkInv' /\ ChunkInv'
<1>1. CASE Load
  <2>1. /\ UNCHANGED <<disk, heard, pos, episodes, transcript, labels, chunks, answered, nudged,
                       claims, batches, restarts>>
        /\ pc = "load" /\ pc' = "idle"
    BY <1>1 DEF Load, perEpisode, outside
  <2>2. WorkInv' /\ ChunkInv'
    BY <2>1, LeftAlone DEF StepInv, WorkInv, AtWork, Stages
  <2> QED
    BY <2>1, <2>2, LeftAlone
<1>2. CASE RunRaises \/ Restart
  <2>1. /\ UNCHANGED disk /\ heard' = NotHeard /\ episodes' = <<>> /\ pos' = 1
        /\ transcript' = NoTranscript /\ labels' = Nothing /\ chunks' = <<>>
        /\ answered' = 0 /\ nudged' = FALSE /\ claims' = <<>> /\ pc' = "idle"
        /\ batches' = batches
        /\ restarts' = restarts \/ (restarts < MaxRestarts /\ restarts' = restarts + 1)
    BY <1>2 DEF RunRaises, Restart, Lost, Cleared, outside
  <2>2. pos' \in 1..(Len(episodes') + 1)
    BY <2>1, EmptySeq
  <2>3. restarts' \in 0..MaxRestarts
    BY <2>1, PipelineAssumption DEF StepInv, WorkInv
  <2>4. WorkInv'
    BY <2>1, <2>2, <2>3 DEF StepInv, WorkInv, Stages, AtWork
  <2> QED
    BY <2>1, <2>4, LeftAlone DEF AtWork
<1>3. CASE (\E url : Republish(url)) \/ Done \/ UNCHANGED vars
  <2>1. UNCHANGED <<disk, heard, pc, pos, episodes, transcript, labels, chunks, answered, nudged,
                    claims, batches, restarts, setup, candidates>>
    BY <1>3 DEF Republish, Done, vars, perEpisode
  <2>2. (SpeakersOf(episodes[pos].id, transcript.segments))'
          = SpeakersOf(episodes[pos].id, transcript.segments)
        /\ (Shaped(heard.transcript))' = Shaped(heard.transcript)
    BY <2>1 DEF SpeakersOf, HostsOf, Shaped
  <2>3. WorkInv'
    BY <2>1, <2>2 DEF StepInv, WorkInv
  <2> QED
    BY <2>1, <2>3, LeftAlone
<1> QED
  BY <1>1, <1>2, <1>3

\* Every step keeps what is known of the stages.
LEMMA StepInvStep == StepInv /\ [Next]_vars => StepInv'
<1> SUFFICES ASSUME StepInv, [Next]_vars PROVE StepInv'
  OBVIOUS
<1>1. CallInv' /\ HashInv' /\ KeyInv'
  <2>1. CallInv /\ UNCHANGED call => CallInv'
    BY DEF CallInv, Timed, CallTypeOK, InTimeIsSeen, MaxClock
  <2>2. CallInit' => CallInv'
    BY HostedAssumption
    DEF CallInit, NoCall, CallInv, Timed, CallTypeOK, InTimeIsSeen, MaxClock
  <2> QED
    BY <2>1, <2>2, CallUse, CallInvStep, HashInvStep, KeyInvStep DEF StepInv
<1>2. CASE RunStep
  <2>1. (\E result \in UNION {Hears[c] : c \in Content} :
           /\ Transcribing /\ result \in Hears[served[CurrentUrl]]
           /\ result.kind = setup.backend
           /\ TranscribeAtOnce(result) \/ HostedAnswers(result))
        => \E result \in Hears[served[CurrentUrl]] :
             TranscribeAtOnce(result) \/ HostedAnswers(result)
    OBVIOUS
  <2>2. HearInv' /\ WorkInv' /\ ChunkInv'
    BY <1>2, <2>1, BatchSteps, HearSteps, BeforeChunks, ChunkSteps, ExtractSteps, EndSteps
    DEF RunStep
  <2> QED
    BY <1>1, <2>2 DEF StepInv
<1>3. CASE ~RunStep
  BY <1>1, <1>3, BatchSteps, EndSteps DEF Next, StepInv
<1> QED
  BY <1>2, <1>3

\* What every theorem below starts from.
LEMMA Stepping == Spec => []StepInv
  BY StepInvInit, StepInvStep, PTL DEF Spec

\* The state of the pipeline is what it was declared to be, for any deployment.
THEOREM TypeIsOK == Spec => []TypeOK
<1>1. StepInv => TypeOK
  <2> SUFFICES ASSUME StepInv PROVE TypeOK
    OBVIOUS
  <2>1. CallTypeOK /\ setup \in Setups /\ served \in [Url -> Content]
        /\ DOMAIN records \subseteq Episode /\ DOMAIN disk \subseteq Url \cup Content
    BY DEF StepInv, CallInv, Timed, HashInv, PublisherInv, RecordsInv, HearInv
  <2>2. heard.of \in Content \cup {NoContent}
    BY DEF StepInv, HearInv, Heard, NotHeard
  <2>5. keptAs \in Url \cup Content \cup {NoKey}
    BY DEF StepInv, KeyInv
  <2>3. DOMAIN labels \subseteq Labels(transcript.segments)
    <3>1. CASE pc \in AtWork
      BY <3>1, WorkTyped
    <3>2. CASE pc \notin AtWork
      BY <3>2 DEF StepInv, WorkInv, Nothing
    <3> QED
      BY <3>1, <3>2
  <2>4. ASSUME NEW i \in DOMAIN chunks
        PROVE  chunks[i].first \in 1..chunks[i].last
               /\ chunks[i].last <= Len(transcript.segments)
    <3>1. Follows(i)
      BY BatchSequences DEF StepInv, ChunkInv
    <3> QED
      BY <3>1 DEF Follows
  <2> QED
    BY <2>1, <2>2, <2>3, <2>4, <2>5 DEF StepInv, WorkInv, ChunkInv, TypeOK
<1> QED
  BY <1>1, Stepping, PTL

\* No segment is left out of the chunks, and cutting always gets on, whatever the sizes of
\* segments, the budget and the overlap.
THEOREM NothingLeftOut == Spec => []ChunksCover
<1>1. StepInv => ChunksCover
  <2> SUFFICES ASSUME StepInv PROVE ChunksCover
    OBVIOUS
  <2>1. ASSUME NEW i \in DOMAIN chunks PROVE Follows(i)
    BY BatchSequences DEF StepInv, ChunkInv
  <2> QED
    BY <2>1 DEF StepInv, ChunkInv, ChunksCover, Follows
<1> QED
  BY <1>1, Stepping, PTL

-----------------------------------------------------------------------------
(* The runs of a batch, their claims, and what is loaded of them *)

\* So far the claims of an episode are its own, by labels it has.
ClaimInv ==
  /\ Listed(claims)
  /\ \A i \in 1..Len(claims) :
       /\ ClaimRow(claims[i]) /\ claims[i].episode = episodes[pos].id
       /\ claims[i].label \in Labels(transcript.segments)

\* A claim of a run is of its episode, and by the speaker of a label that, where the claim
\* was grounded and its evidence is in the transcript, is that of a segment that holds it.
Attribution(run, claim) ==
  /\ ClaimRow(claim) /\ claim.episode = run.id
  /\ claim.label \in Labels(run.transcript.segments)
  /\ claim.speaker = run.labels[claim.label]
  /\ setup.ground =>
       LET segments == run.transcript.segments
           matching == {k \in DOMAIN segments :
                          MatchScore(claim.object, segments[k]) >= MatchPercent}
       IN  matching # {} => \E k \in matching : /\ claim.label = segments[k].speaker
                                                /\ claim.t_start = segments[k].t_start
                                                /\ claim.t_end = segments[k].t_end

\* A run has the transcript of what was heard, its labels' speakers, and its claims.
Worked(run) ==
  /\ Heard(run.heard) /\ run.transcript = Shaped(run.heard.transcript)
  /\ run.labels = SpeakersOf(run.id, run.transcript.segments)
  /\ Listed(run.claims)
  /\ \A j \in 1..Len(run.claims) : Attribution(run, run.claims[j])

\* So does every run of a batch, of which there is none before its first episode.
DoneInv ==
  /\ pc \in {"fetch", "guests"} => runs = <<>>
  /\ \A i \in 1..Len(runs) : Worked(runs[i])

\* The graph has nothing of a batch until it is loaded, and then what can be loaded, with
\* one id for a subject.
LoadInv ==
  /\ loaded = IF pc = "idle" THEN Filter(AllClaims, Loadable) ELSE <<>>
  /\ \A i, j \in DOMAIN loaded :
       loaded[i].subject = loaded[j].subject => loaded[i].canonical = loaded[j].canonical

BatchInv == ClaimInv /\ DoneInv /\ LoadInv

\* No claims come of no runs, and nothing is loaded of no claims.
LEMMA NothingToLoad ==
  /\ \A rs : rs = <<>> => FlattenSeq([i \in DOMAIN rs |-> rs[i].claims]) = <<>>
  /\ Filter(<<>>, Loadable) = <<>>
  /\ Listed(<<>>)
<1>1. ASSUME NEW rs, rs = <<>>
      PROVE  FlattenSeq([i \in DOMAIN rs |-> rs[i].claims]) = <<>>
  <2>1. [i \in DOMAIN rs |-> rs[i].claims] = <<>>
    BY <1>1
  <2>2. FlattenSeq(<<>>) = <<>>
    BY DEF FlattenSeq
  <2> QED
    BY <2>1, <2>2, Zenon
<1>2. Filter(<<>>, Loadable) = <<>>
  <2> DEFINE places == {i \in DOMAIN <<>> : Loadable(<<>>[i])}
             kept == Picked(<<>>, places)
  <2>1. places = {} /\ Filter(<<>>, Loadable) = kept
    BY DEF Filter
  <2> HIDE DEF places
  <2>2. kept \in Seq({}) /\ \A p \in DOMAIN kept : \E i \in places : kept[p] = <<>>[i]
    <3>1. PICK none \in Seq({}) : none = <<>>
      BY EmptySeq
    <3>2. places \in SUBSET DOMAIN none
      BY <2>1
    <3> QED
      BY <3>1, <3>2, PickedElements
  <2>3. DOMAIN kept = {}
    BY <2>1, <2>2
  <2> HIDE DEF kept
  <2>4. kept = <<>>
    <3>1. DOMAIN kept = 1..Len(kept) /\ Len(kept) \in Nat
      BY <2>2, LenProperties
    <3>2. Len(kept) = 0
      BY <2>3, <3>1
    <3> QED
      BY <2>2, <3>2, EmptySeq
  <2> QED
    BY <2>1, <2>4
<1>3. Listed(<<>>)
  BY EmptySeq, ListedSeq
<1> QED
  BY <1>1, <1>2, <1>3

\* What a step leaves alone stays as it is, and what it clears is nothing.
LEMMA LeftToLoad ==
  ASSUME StepInv, BatchInv
  PROVE  /\ UNCHANGED <<claims, episodes, pos, transcript>> => ClaimInv'
         /\ claims' = <<>> => ClaimInv'
         /\ UNCHANGED <<setup, candidates, runs>> /\ (pc' \in {"fetch", "guests"} => runs = <<>>)
              => DoneInv'
         /\ runs' = <<>> => DoneInv'
         /\ UNCHANGED <<runs, loaded>> /\ (pc' = "idle" <=> pc = "idle") => LoadInv'
         /\ loaded' = <<>> /\ (pc' # "idle" \/ runs' = <<>>) => LoadInv'
<1>1. UNCHANGED <<claims, episodes, pos, transcript>> => ClaimInv'
  BY DEF BatchInv, ClaimInv
<1>2. claims' = <<>> => ClaimInv'
  BY NothingToLoad, EmptySeq DEF ClaimInv
<1>3. ASSUME UNCHANGED <<setup, candidates, runs>>, pc' \in {"fetch", "guests"} => runs = <<>>
      PROVE  DoneInv'
  <2>1. ASSUME NEW i \in 1..Len(runs) PROVE Worked(runs[i])'
    <3>1. Worked(runs[i])
      BY DEF BatchInv, DoneInv
    <3>2. (SpeakersOf(runs[i].id, runs[i].transcript.segments))'
            = SpeakersOf(runs[i].id, runs[i].transcript.segments)
          /\ (Shaped(runs[i].heard.transcript))' = Shaped(runs[i].heard.transcript)
      BY <1>3 DEF SpeakersOf, HostsOf, Shaped
    <3>3. ASSUME NEW j \in 1..Len(runs[i].claims)
          PROVE  (Attribution(runs[i], runs[i].claims[j]))'
      <4>1. Attribution(runs[i], runs[i].claims[j])
        BY <3>1 DEF Worked
      <4> QED
        BY <1>3, <4>1 DEF Attribution
    <3> QED
      BY <1>3, <3>1, <3>2, <3>3 DEF Worked, Heard
  <2> QED
    BY <1>3, <2>1 DEF DoneInv
<1>4. runs' = <<>> => DoneInv'
  BY EmptySeq DEF DoneInv
<1>5. UNCHANGED <<runs, loaded>> /\ (pc' = "idle" <=> pc = "idle") => LoadInv'
  BY DEF BatchInv, LoadInv, AllClaims
<1>6. ASSUME loaded' = <<>>, pc' # "idle" \/ runs' = <<>> PROVE LoadInv'
  <2>1. runs' = <<>> => AllClaims' = <<>>
    BY NothingToLoad DEF AllClaims
  <2>2. loaded' = IF pc' = "idle" THEN Filter(AllClaims', Loadable) ELSE <<>>
    BY <1>6, <2>1, NothingToLoad
  <2>3. DOMAIN loaded' = {}
    BY <1>6
  <2> QED
    BY <2>2, <2>3 DEF LoadInv
<1> QED
  BY <1>1, <1>2, <1>3, <1>4, <1>5, <1>6

\* It holds before the first batch.
LEMMA BatchInvInit == Init => BatchInv
<1> SUFFICES ASSUME Init PROVE BatchInv
  OBVIOUS
<1>1. claims = <<>> /\ runs = <<>> /\ loaded = <<>> /\ pc = "idle"
  BY DEF Init
<1>2. AllClaims = <<>>
  BY <1>1, NothingToLoad DEF AllClaims
<1>3. ClaimInv /\ DoneInv
  BY <1>1, NothingToLoad, EmptySeq DEF ClaimInv, DoneInv
<1>4. LoadInv
  <2>1. DOMAIN loaded = {}
    BY <1>1
  <2> QED
    BY <1>1, <1>2, <2>1, NothingToLoad DEF LoadInv
<1> QED
  BY <1>3, <1>4 DEF BatchInv

\* Up to its chunks, an episode has no claims; the runs of a batch wait for its guests.
LEMMA QuietSteps ==
  ASSUME StepInv, BatchInv,
         \/ (\E batch : Begin(batch)) \/ Fetch \/ FetchFails \/ NotFetched \/ RunBegins
         \/ TranscribeCached \/ TranscribeAnew \/ TranscribeHosted
         \/ (\E result : TranscribeAtOnce(result) \/ HostedAnswers(result))
         \/ (\E names : AddGuests(names)) \/ Shape \/ NextChunk \/ Nudge
  PROVE  BatchInv'
<1>1. CASE \E batch : Begin(batch)
  <2>1. pc = "idle" /\ claims' = claims /\ pc' = "fetch" /\ runs' = <<>> /\ loaded' = <<>>
    BY <1>1 DEF Begin, perEpisode
  <2>2. claims = <<>>
    BY <2>1 DEF StepInv, WorkInv, AtWork
  <2> QED
    BY <2>1, <2>2, LeftToLoad DEF BatchInv
<1>2. CASE Fetch \/ FetchFails \/ NotFetched \/ RunBegins
  <2>1. pc = "fetch" /\ pc' # "idle" /\ UNCHANGED <<claims, runs, loaded>>
    BY <1>2 DEF Fetch, FetchFails, NotFetched, RunBegins, perEpisode, AfterFetch
  <2>2. claims = <<>> /\ runs = <<>>
    BY <2>1 DEF StepInv, WorkInv, AtWork, BatchInv, DoneInv
  <2> QED
    BY <2>1, <2>2, LeftToLoad DEF BatchInv
<1>3. CASE \/ TranscribeCached \/ TranscribeAnew \/ TranscribeHosted
           \/ (\E result : TranscribeAtOnce(result) \/ HostedAnswers(result))
  <2>1. /\ UNCHANGED <<claims, episodes, pos, transcript, setup, candidates, runs, loaded, pc>>
        /\ pc \in {"guests", "transcribe"}
    BY <1>3 DEF TranscribeCached, TranscribeAnew, TranscribeAtOnce, HostedAnswers,
                TranscribeHosted, Transcribing, Uncached, perEpisode, outside
  <2>2. pc' \in {"fetch", "guests"} => runs = <<>>
    BY <2>1 DEF BatchInv, DoneInv
  <2> QED
    BY <2>1, <2>2, LeftToLoad DEF BatchInv
<1>4. CASE \E names : AddGuests(names)
  <2>1. pc = "guests" /\ claims' = <<>> /\ UNCHANGED <<runs, loaded>>
        /\ pc' \in {"guests", "transcribe"}
    BY <1>4 DEF AddGuests, Cleared
  <2>2. runs = <<>>
    BY <2>1 DEF BatchInv, DoneInv
  <2> QED
    BY <2>1, <2>2, LeftToLoad DEF BatchInv
<1>5. CASE Shape
  <2>1. pc = "transcribe" /\ UNCHANGED <<claims, setup, candidates, runs, loaded>>
        /\ pc' \in {"extract", "chunk"}
    BY <1>5 DEF Shape, outside
  <2>2. claims = <<>>
    BY <2>1 DEF StepInv, WorkInv, AtWork
  <2> QED
    BY <2>1, <2>2, LeftToLoad DEF BatchInv
<1>6. CASE NextChunk \/ Nudge
  <2>1. /\ UNCHANGED <<claims, episodes, pos, transcript, setup, candidates, runs, loaded>>
        /\ pc \in AtWork /\ pc' \in AtWork
    BY <1>6 DEF NextChunk, Nudge, outside, AtWork
  <2> QED
    BY <2>1, LeftToLoad DEF BatchInv, AtWork
<1> QED
  BY <1>1, <1>2, <1>3, <1>4, <1>5, <1>6

\* One list after another is a list and has the elements of both.
ListsBoth(s, t) ==
  /\ Listed(s \o t)
  /\ \A i \in 1..Len(s \o t) : \/ \E j \in 1..Len(s) : (s \o t)[i] = s[j]
                               \/ \E j \in 1..Len(t) : (s \o t)[i] = t[j]

\* So it is of any two lists.
LEMMA JoinedLists ==
  ASSUME NEW s, Listed(s), NEW t, Listed(t)
  PROVE  ListsBoth(s, t)
<1> DEFINE S == Range(s) \cup Range(t)
<1>1. s \in Seq(S) /\ t \in Seq(S)
  <2>1. s \in Seq(Range(s)) /\ t \in Seq(Range(t))
    BY MappedElements DEF Listed
  <2>2. Range(s) \subseteq S /\ Range(t) \subseteq S
    OBVIOUS
  <2> HIDE DEF S
  <2> QED
    BY <2>1, <2>2, SeqMonotonic
<1> HIDE DEF S
<1>2. /\ s \o t \in Seq(S) /\ Len(s \o t) = Len(s) + Len(t)
      /\ \A i \in 1..(Len(s) + Len(t)) : (s \o t)[i] = IF i <= Len(s) THEN s[i] ELSE t[i - Len(s)]
  BY <1>1, ConcatProperties
<1>3. Len(s) \in Nat /\ Len(t) \in Nat
  BY DEF Listed
<1>4. ASSUME NEW i \in 1..Len(s \o t)
      PROVE  \/ \E j \in 1..Len(s) : (s \o t)[i] = s[j]
             \/ \E j \in 1..Len(t) : (s \o t)[i] = t[j]
  <2>1. i <= Len(s) => i \in 1..Len(s)
    BY <1>2, <1>3
  <2>2. ~(i <= Len(s)) => i - Len(s) \in 1..Len(t)
    BY <1>2, <1>3
  <2>3. i \in 1..(Len(s) + Len(t))
    BY <1>2
  <2>4. (s \o t)[i] = IF i <= Len(s) THEN s[i] ELSE t[i - Len(s)]
    BY <1>2, <2>3
  <2> QED
    BY <2>1, <2>2, <2>4
<1> QED
  BY <1>2, <1>4, ListedSeq DEF ListsBoth

\* The claims of a chunk are of its episode.
LEMMA ExtractClaims ==
  ASSUME StepInv, BatchInv, NEW items \in Answers, Extract(items)
  PROVE  BatchInv'
<1>1. /\ UNCHANGED <<episodes, pos, transcript, setup, candidates, runs, loaded, pc, chunks>>
      /\ pc = "extract" /\ answered < Len(chunks)
      /\ claims' = claims \o BuildClaims(episodes[pos].id, transcript.segments,
                                         chunks[answered + 1], items)
  BY DEF Extract, outside
<1>2. PICK segments \in Seq(Segment) : segments = transcript.segments
  BY <1>1, WorkTyped DEF AtWork
<1>3. PICK chunk : /\ chunk = chunks[answered + 1]
                   /\ chunk.first \in 1..chunk.last /\ chunk.last \in 1..Len(segments)
  <2>1. answered + 1 \in 1..Len(chunks)
    BY <1>1, BatchSequences DEF StepInv, ChunkInv
  <2>2. Follows(answered + 1)
    BY <2>1 DEF StepInv, ChunkInv
  <2> QED
    BY <1>2, <2>2 DEF Follows
<1>4. PICK id, built : /\ id = episodes[pos].id
                       /\ built = BuildClaims(id, segments, chunk, items)
  OBVIOUS
<1>5. /\ Listed(built)
      /\ \A i \in 1..Len(built) : /\ ClaimRow(built[i]) /\ built[i].episode = id
                                  /\ built[i].label \in Labels(segments)
  <2>1. items \in Seq(Item)
    BY PipelineAssumption
  <2> QED
    BY <1>3, <1>4, <2>1, BuiltClaims
<1>6. /\ Listed(claims)
      /\ \A i \in 1..Len(claims) : /\ ClaimRow(claims[i]) /\ claims[i].episode = id
                                   /\ claims[i].label \in Labels(segments)
  BY <1>2, <1>4 DEF BatchInv, ClaimInv
<1>7. claims' = claims \o built
  BY <1>1, <1>2, <1>3, <1>4
<1>8. ListsBoth(claims, built)
  <2>1. PICK c : c = claims
    OBVIOUS
  <2>2. Listed(c) /\ Listed(built)
    BY <1>5, <1>6, <2>1
  <2>3. ListsBoth(c, built)
    BY <2>2, JoinedLists
  <2> QED
    BY <2>1, <2>3, Zenon
<1>9. ClaimInv'
  <2>1. ASSUME NEW i \in 1..Len(claims')
        PROVE  /\ ClaimRow(claims'[i]) /\ claims'[i].episode = id
               /\ claims'[i].label \in Labels(segments)
    BY <1>5, <1>6, <1>7, <1>8 DEF ListsBoth
  <2> QED
    BY <1>1, <1>2, <1>4, <1>7, <1>8, <2>1 DEF ClaimInv, ListsBoth
<1> QED
  BY <1>1, <1>9, LeftToLoad DEF BatchInv

\* A claim of the episode that is done is grounded, if that is asked for, and stamped with
\* the speaker of the label it then has.
LEMMA AttributedClaim ==
  ASSUME StepInv, BatchInv, pc = "extract", NEW i \in 1..Len(claims)
  PROVE  /\ ClaimRow(Attributed(claims[i])) /\ Attributed(claims[i]).episode = episodes[pos].id
         /\ Attributed(claims[i]).label \in Labels(transcript.segments)
         /\ Attributed(claims[i]).speaker = labels[Attributed(claims[i]).label]
         /\ setup.ground =>
              LET segments == transcript.segments
                  matching == {k \in DOMAIN segments :
                                 MatchScore(Attributed(claims[i]).object, segments[k])
                                   >= MatchPercent}
              IN  matching # {} =>
                    \E k \in matching : /\ Attributed(claims[i]).label = segments[k].speaker
                                        /\ Attributed(claims[i]).t_start = segments[k].t_start
                                        /\ Attributed(claims[i]).t_end = segments[k].t_end
<1>1. PICK s \in Seq(Segment) : s = transcript.segments
  BY WorkTyped DEF AtWork
<1>2. PICK claim : claim = claims[i]
  OBVIOUS
<1>3. ClaimRow(claim) /\ claim.episode = episodes[pos].id /\ claim.label \in Labels(s)
  BY <1>1, <1>2 DEF BatchInv, ClaimInv
<1>4. PICK kept : kept = IF setup.ground THEN GroundClaim(claim, s) ELSE claim
  OBVIOUS
<1> DEFINE matching(object) == {k \in DOMAIN s : MatchScore(object, s[k]) >= MatchPercent}
<1>5. /\ ClaimRow(kept) /\ kept.episode = episodes[pos].id /\ kept.label \in Labels(s)
      /\ setup.ground /\ matching(kept.object) # {} =>
           \E k \in matching(kept.object) : /\ kept.label = s[k].speaker
                                            /\ kept.t_start = s[k].t_start
                                            /\ kept.t_end = s[k].t_end
  <2>1. CASE setup.ground
    <3>1. /\ ClaimRow(GroundClaim(claim, s)) /\ GroundClaim(claim, s).episode = claim.episode
          /\ GroundClaim(claim, s).object = claim.object
          /\ GroundClaim(claim, s).label \in Labels(s)
          /\ matching(claim.object) # {} =>
               \E k \in matching(claim.object) : /\ GroundClaim(claim, s).label = s[k].speaker
                                                 /\ GroundClaim(claim, s).t_start = s[k].t_start
                                                 /\ GroundClaim(claim, s).t_end = s[k].t_end
      <4>1. ClaimRow(claim) /\ claim.label \in Labels(s)
        BY <1>3
      <4> QED
        BY <4>1, GroundedClaim
    <3> HIDE DEF matching
    <3>2. kept = GroundClaim(claim, s)
      BY <1>4, <2>1
    <3> QED
      BY <1>3, <3>1, <3>2
  <2>2. CASE ~setup.ground
    BY <1>3, <1>4, <2>2
  <2> QED
    BY <2>1, <2>2
<1>6. Attributed(claims[i]) = [kept EXCEPT !.speaker = labels[kept.label]]
  BY <1>1, <1>2, <1>4, Zenon DEF Attributed, Stamped
<1>7. PICK done : done = Attributed(claims[i])
  OBVIOUS
<1>8. /\ ClaimRow(done) /\ done.episode = kept.episode /\ done.label = kept.label
      /\ done.speaker = labels[kept.label] /\ done.object = kept.object
      /\ done.t_start = kept.t_start /\ done.t_end = kept.t_end
  BY <1>5, <1>6, <1>7 DEF ClaimRow
<1>9. matching(done.object) = matching(kept.object)
  BY <1>8
<1>10. /\ ClaimRow(done) /\ done.episode = episodes[pos].id /\ done.label \in Labels(s)
       /\ done.speaker = labels[done.label]
       /\ setup.ground /\ matching(done.object) # {} =>
            \E k \in matching(done.object) : /\ done.label = s[k].speaker
                                             /\ done.t_start = s[k].t_start
                                             /\ done.t_end = s[k].t_end
  <2> HIDE DEF matching
  <2> QED
    BY <1>5, <1>8, <1>9
<1> QED
  BY <1>1, <1>7, <1>10

\* What is known of a run depends on nothing but the deployment and the guests.
LEMMA WorkedStays ==
  ASSUME UNCHANGED <<setup, candidates>>, NEW run, Worked(run)
  PROVE  Worked(run)'
<1>1. (SpeakersOf(run.id, run.transcript.segments))'
        = SpeakersOf(run.id, run.transcript.segments)
      /\ (Shaped(run.heard.transcript))' = Shaped(run.heard.transcript)
  BY DEF SpeakersOf, HostsOf, Shaped
<1>2. ASSUME NEW j \in 1..Len(run.claims) PROVE (Attribution(run, run.claims[j]))'
  <2>1. Attribution(run, run.claims[j])
    BY DEF Worked
  <2> QED
    BY <2>1 DEF Attribution
<1> QED
  BY <1>1, <1>2 DEF Worked, Heard

\* The episode that is done has its claims, attributed.
LEMMA FinishClaims ==
  ASSUME StepInv, BatchInv, FinishEpisode
  PROVE  BatchInv'
<1>1. /\ UNCHANGED <<setup, candidates, loaded>> /\ claims' = <<>> /\ pc = "extract"
      /\ pc' \in {"load", "transcribe"}
  BY DEF FinishEpisode, Cleared, outside
<1>2. PICK run : /\ run = [id |-> episodes[pos].id, heard |-> heard,
                           hash |-> episodes[pos].hash, transcript |-> transcript,
                           labels |-> labels,
                           claims |-> [i \in DOMAIN claims |-> Attributed(claims[i])]]
                 /\ runs' = Append(runs, run)
  BY DEF FinishEpisode
<1>3. Worked(run)
  <2>1. /\ run.id = episodes[pos].id /\ run.heard = heard /\ run.transcript = transcript
        /\ run.labels = labels /\ run.claims = [i \in DOMAIN claims |-> Attributed(claims[i])]
    BY <1>2
  <2>2. Heard(heard) /\ transcript = Shaped(heard.transcript)
        /\ labels = SpeakersOf(episodes[pos].id, transcript.segments)
    <3>1. pc \in AtWork
      BY <1>1 DEF AtWork
    <3> QED
      BY <3>1, WorkTyped DEF StepInv, WorkInv
  <2>3. DOMAIN claims = 1..Len(claims) /\ Len(claims) \in Nat
    BY DEF BatchInv, ClaimInv, Listed
  <2>4. PICK done : done = run.claims
    OBVIOUS
  <2>5. done = [i \in 1..Len(claims) |-> Attributed(claims[i])]
    BY <2>1, <2>3, <2>4
  <2>6. Listed(done) /\ Len(done) = Len(claims)
    <3>1. PICK n \in Nat : n = Len(claims)
      BY <2>3
    <3>2. done = [i \in 1..n |-> done[i]]
      BY <2>5, <3>1
    <3>3. done \in Seq(Range(done))
      BY <3>1, <3>2, MappedElements
    <3>4. DOMAIN done = 1..n
      BY <3>2
    <3>5. Len(done) = n
      BY <3>1, <3>3, <3>4, LenProperties
    <3> QED
      BY <3>1, <3>3, <3>5, ListedSeq
  <2>7. ASSUME NEW j \in 1..Len(done) PROVE Attribution(run, done[j])
    <3>1. j \in 1..Len(claims) /\ done[j] = Attributed(claims[j])
      BY <2>5, <2>6
    <3>2. PICK claim : claim = Attributed(claims[j])
      OBVIOUS
    <3>3. /\ ClaimRow(claim) /\ claim.episode = episodes[pos].id
          /\ claim.label \in Labels(transcript.segments)
          /\ claim.speaker = labels[claim.label]
          /\ setup.ground =>
               LET segments == transcript.segments
                   matching == {k \in DOMAIN segments :
                                  MatchScore(claim.object, segments[k]) >= MatchPercent}
               IN  matching # {} => \E k \in matching : /\ claim.label = segments[k].speaker
                                                        /\ claim.t_start = segments[k].t_start
                                                        /\ claim.t_end = segments[k].t_end
      BY <1>1, <3>1, <3>2, AttributedClaim
    <3>4. Attribution(run, claim)
      BY <2>1, <3>3 DEF Attribution
    <3> QED
      BY <3>1, <3>2, <3>4
  <2> QED
    BY <2>1, <2>2, <2>4, <2>6, <2>7 DEF Worked
<1>4. Worked(run)'
  BY <1>1, <1>3, WorkedStays
<1>5. /\ runs' \in Seq(Range(runs')) /\ DOMAIN runs' = 1..(Len(runs) + 1)
      /\ runs'[Len(runs) + 1] = run
      /\ \A i \in DOMAIN runs : runs'[i] = runs[i]
      /\ DOMAIN runs = 1..Len(runs) /\ Len(runs) \in Nat
  <2>1. runs \in Seq(Range(runs))
    BY DEF StepInv, HashInv, RunsInv
  <2> QED
    BY <1>2, <2>1, AppendElements
<1>6. Len(runs') = Len(runs) + 1
  BY <1>5, LenProperties
<1>7. ASSUME NEW i \in 1..Len(runs') PROVE Worked(runs[i])'
  <2>1. PICK r : r = runs'[i]
    OBVIOUS
  <2>2. CASE i = Len(runs) + 1
    BY <1>4, <1>5, <2>1, <2>2, Zenon
  <2>3. CASE i # Len(runs) + 1
    <3>1. i \in DOMAIN runs
      BY <1>5, <1>6, <2>3
    <3>2. r = runs[i] /\ Worked(runs[i])
      BY <1>5, <2>1, <3>1 DEF BatchInv, DoneInv
    <3>3. Worked(r)
      BY <3>2, Zenon
    <3>4. Worked(r)'
      BY <1>1, <3>3, WorkedStays
    <3> QED
      BY <2>1, <3>4, Zenon
  <2> QED
    BY <2>2, <2>3
<1>8. DoneInv'
  BY <1>1, <1>7 DEF DoneInv
<1>9. loaded' = <<>>
  BY <1>1 DEF BatchInv, LoadInv
<1>10. ClaimInv' /\ LoadInv'
  BY <1>1, <1>9, LeftToLoad
<1> QED
  BY <1>8, <1>10 DEF BatchInv

\* The claims of runs.
ClaimsOf(rs) == UNION {Range(rs[i].claims) : i \in 1..Len(rs)}

\* All claims of the runs are claims of a run.
LEMMA ClaimsTogether ==
  ASSUME NEW rs, DOMAIN rs = 1..Len(rs), Len(rs) \in Nat,
         \A i \in 1..Len(rs) : Listed(rs[i].claims)
  PROVE  /\ [i \in DOMAIN rs |-> rs[i].claims] \in Seq(Seq(ClaimsOf(rs)))
         /\ Len([i \in DOMAIN rs |-> rs[i].claims]) = Len(rs)
         /\ FlattenSeq([i \in DOMAIN rs |-> rs[i].claims]) \in Seq(ClaimsOf(rs))
<1> DEFINE seqs == [i \in DOMAIN rs |-> rs[i].claims]
<1>1. ASSUME NEW i \in 1..Len(rs) PROVE rs[i].claims \in Seq(ClaimsOf(rs))
  <2>1. PICK s : s = rs[i].claims
    OBVIOUS
  <2>2. s \in Seq(Range(s))
    <3>1. Listed(s)
      BY <2>1, Zenon
    <3> QED
      BY <3>1, MappedElements DEF Listed
  <2>3. Range(s) \subseteq ClaimsOf(rs)
    BY <2>1 DEF ClaimsOf
  <2> QED
    BY <2>1, <2>2, <2>3, SeqMonotonic
<1>2. PICK n \in Nat : n = Len(rs)
  OBVIOUS
<1>3. seqs \in [1..n -> Seq(ClaimsOf(rs))]
  BY <1>1, <1>2
<1> HIDE DEF seqs
<1>4. seqs \in Seq(Seq(ClaimsOf(rs))) /\ Len(seqs) = n
  BY <1>3, SeqOfFunction
<1>5. FlattenSeq(seqs) \in Seq(ClaimsOf(rs))
  <2> DEFINE lens == [i \in 1..n |-> Len(seqs[i])]
             before == [i \in 1..(Len(seqs) + 1) |-> SumFunctionOnSet(lens, 1..(i - 1))]
  <2>1. \A i \in 1..Len(seqs) : lens[i] = Len(seqs[i])
    BY <1>4
  <2> HIDE DEF lens
  <2>2. Offsets(before, seqs)
    BY <1>4, <2>1, OffsetsAreSums
  <2> HIDE DEF before
  <2> QED
    BY <1>4, <2>2, FlattenSlices
<1> QED
  BY <1>2, <1>4, <1>5 DEF seqs

\* One claim is the other, but for the id of its subject.
Copy(claim, copy) == copy = [claim EXCEPT !.canonical = copy.canonical]

\* Resolving subjects gives copies in the same order, and one id to one subject.
LEMMA ResolvedCopies ==
  ASSUME NEW S, NEW flat \in Seq(S), \A p \in 1..Len(flat) : ClaimRow(flat[p]),
         NEW whole \in Resolutions(flat)
  PROVE  /\ whole \in Seq(Range(whole)) /\ Len(whole) = Len(flat)
         /\ \A p \in 1..Len(flat) : Copy(flat[p], whole[p])
         /\ \A p, q \in 1..Len(flat) :
              whole[p].subject = whole[q].subject => whole[p].canonical = whole[q].canonical
<1>1. PICK n \in Nat : n = Len(flat) /\ DOMAIN flat = 1..n
  BY LenProperties
<1>2. PICK ids : whole = StampSubjects(flat, ids)
  BY DEF Resolutions, ResolveSubjects
<1>3. whole = [i \in 1..n |-> [flat[i] EXCEPT !.canonical = ids[flat[i].subject]]]
  BY <1>1, <1>2 DEF StampSubjects
<1>4. ASSUME NEW p \in 1..n
      PROVE  /\ Copy(flat[p], whole[p])
             /\ whole[p].subject = flat[p].subject /\ whole[p].canonical = ids[flat[p].subject]
  <2>1. whole[p] = [flat[p] EXCEPT !.canonical = ids[flat[p].subject]]
    BY <1>3
  <2>2. ClaimRow(flat[p])
    BY <1>1
  <2> QED
    BY <2>1, <2>2 DEF Copy, ClaimRow
<1>5. whole \in Seq(Range(whole)) /\ Len(whole) = n
  <2>1. DOMAIN whole = 1..n /\ whole = [i \in 1..n |-> whole[i]]
    BY <1>3
  <2>2. whole \in Seq(Range(whole))
    BY <2>1, MappedElements
  <2> QED
    BY <2>1, <2>2, LenProperties
<1>6. ASSUME NEW p \in 1..n, NEW q \in 1..n, whole[p].subject = whole[q].subject
      PROVE  whole[p].canonical = whole[q].canonical
  BY <1>4, <1>6
<1> QED
  BY <1>1, <1>4, <1>5, <1>6

\* The claims of all runs in order, and how many each has.
Joined(rs) == FlattenSeq([i \in DOMAIN rs |-> rs[i].claims])
Lengths(rs) == [j \in DOMAIN rs |-> Len(rs[j].claims)]

\* What the runs have back are copies of their own claims, with one id for a subject, and
\* all there are of them.
Reclaimed(rs, whole, slices) ==
  /\ FlattenSeq(slices) = whole
  /\ whole \in Seq(Range(whole))
  /\ \A p, q \in 1..Len(whole) :
       whole[p].subject = whole[q].subject => whole[p].canonical = whole[q].canonical
  /\ \A i \in 1..Len(rs) :
       /\ Listed(slices[i]) /\ Len(slices[i]) = Len(rs[i].claims)
       /\ \A k \in 1..Len(slices[i]) : Copy(rs[i].claims[k], slices[i][k])

\* A load leaves the runs as they were, but for copies of their claims; and these are all
\* the copies in order.
LEMMA RunsGetCopies ==
  ASSUME NEW rs, DOMAIN rs = 1..Len(rs), Len(rs) \in Nat,
         \A i \in 1..Len(rs) : Row(rs[i]) /\ Listed(rs[i].claims),
         \A i \in 1..Len(rs) : \A k \in 1..Len(rs[i].claims) : ClaimRow(rs[i].claims[k]),
         NEW whole \in Resolutions(Joined(rs)),
         NEW slices, slices = Slices(whole, Lengths(rs), Len(rs))
  PROVE  Reclaimed(rs, whole, slices)
<1> DEFINE seqs == [i \in DOMAIN rs |-> rs[i].claims]
           flat == FlattenSeq(seqs)
           lens == [j \in DOMAIN rs |-> Len(rs[j].claims)]
           S == ClaimsOf(rs)
<1>1. seqs \in Seq(Seq(S)) /\ Len(seqs) = Len(rs) /\ flat \in Seq(S)
  BY ClaimsTogether
<1>2. \A i \in 1..Len(rs) : seqs[i] = rs[i].claims /\ lens[i] = Len(rs[i].claims)
  OBVIOUS
<1>3. \A x \in S : ClaimRow(x)
  <2> SUFFICES ASSUME NEW x \in S PROVE ClaimRow(x)
    OBVIOUS
  <2>1. PICK i \in 1..Len(rs) : x \in Range(rs[i].claims)
    BY DEF ClaimsOf
  <2>2. PICK s : s = rs[i].claims
    OBVIOUS
  <2>3. DOMAIN s = 1..Len(s)
    BY <2>2 DEF Listed
  <2> QED
    BY <2>1, <2>2, <2>3 DEF Range
<1>4. whole \in Resolutions(flat)
  BY DEF Joined
<1>5. slices = Slices(whole, lens, Len(seqs))
  BY <1>1 DEF Lengths
<1> HIDE DEF flat, S
<1>6. \A p \in 1..Len(flat) : ClaimRow(flat[p])
  BY <1>1, <1>3
<1>7. /\ whole \in Seq(Range(whole)) /\ Len(whole) = Len(flat)
      /\ \A p \in 1..Len(flat) : Copy(flat[p], whole[p])
      /\ \A p, q \in 1..Len(flat) :
           whole[p].subject = whole[q].subject => whole[p].canonical = whole[q].canonical
  BY <1>1, <1>4, <1>6, ResolvedCopies
<1> HIDE DEF seqs, lens
<1>8. GivenBack(seqs, whole, slices)
  <2>1. \A i \in 1..Len(seqs) : lens[i] = Len(seqs[i])
    BY <1>1, <1>2
  <2>2. seqs \in Seq(Seq(S)) /\ whole \in Seq(Range(whole))
    BY <1>1, <1>7
  <2>3. Len(whole) = Len(FlattenSeq(seqs))
    BY <1>7 DEF flat
  <2>4. GivenBack(seqs, whole, Slices(whole, lens, Len(seqs)))
    BY <2>1, <2>2, <2>3, SlicedBack
  <2> QED
    BY <1>5, <2>4, Zenon
<1>9. ASSUME NEW i \in 1..Len(rs)
      PROVE  /\ Listed(slices[i]) /\ Len(slices[i]) = Len(rs[i].claims)
             /\ \A k \in 1..Len(slices[i]) : Copy(rs[i].claims[k], slices[i][k])
  <2>1. i \in 1..Len(seqs) /\ seqs[i] = rs[i].claims
    BY <1>1, <1>2
  <2>2. Listed(slices[i]) /\ Len(slices[i]) = Len(rs[i].claims)
    BY <1>8, <2>1 DEF GivenBack
  <2>3. ASSUME NEW k \in 1..Len(slices[i]) PROVE Copy(rs[i].claims[k], slices[i][k])
    <3>1. k \in 1..Len(seqs[i])
      BY <1>8, <2>1 DEF GivenBack
    <3>2. \E p \in 1..Len(whole) : slices[i][k] = whole[p] /\ seqs[i][k] = FlattenSeq(seqs)[p]
      BY <1>8, <2>1, <3>1 DEF GivenBack
    <3>3. PICK p \in 1..Len(whole) : slices[i][k] = whole[p] /\ seqs[i][k] = flat[p]
      BY <3>2 DEF flat
    <3>4. Copy(flat[p], whole[p])
      BY <1>7
    <3> QED
      BY <2>1, <3>3, <3>4, Zenon
  <2> QED
    BY <2>2, <2>3
<1>10. FlattenSeq(slices) = whole
  BY <1>8 DEF GivenBack
<1>11. \A p, q \in 1..Len(whole) :
         whole[p].subject = whole[q].subject => whole[p].canonical = whole[q].canonical
  BY <1>7
<1> QED
  BY <1>7, <1>9, <1>10, <1>11, Zenon DEF Reclaimed

\* A load leaves every run the claims it had, but for the ids of their subjects, and the
\* graph what can be loaded of them.
LEMMA LoadClaims ==
  ASSUME StepInv, BatchInv, Load
  PROVE  BatchInv'
<1>1. /\ UNCHANGED <<setup, candidates, claims, episodes, pos, transcript>>
      /\ pc = "load" /\ pc' = "idle"
  BY DEF Load, perEpisode, outside
<1>2. PICK rs : rs = runs
  OBVIOUS
<1>3. DOMAIN rs = 1..Len(rs) /\ Len(rs) \in Nat
  BY <1>2, BatchSequences
<1>4. ASSUME NEW i \in 1..Len(rs)
      PROVE  /\ Row(rs[i]) /\ Worked(rs[i]) /\ Listed(rs[i].claims)
             /\ \A k \in 1..Len(rs[i].claims) :
                  ClaimRow(rs[i].claims[k]) /\ Attribution(rs[i], rs[i].claims[k])
  <2>1. Row(rs[i])
    BY <1>2, <1>3 DEF StepInv, HashInv, RunsInv
  <2>2. Worked(rs[i])
    BY <1>2 DEF BatchInv, DoneInv
  <2> QED
    BY <2>1, <2>2 DEF Worked, Attribution
<1>5. PICK lens : lens = Lengths(rs)
  OBVIOUS
<1>6. PICK whole \in Resolutions(Joined(rs)) :
        /\ runs' = [i \in DOMAIN rs |-> [rs[i] EXCEPT !.claims =
                      SubSeq(whole, ClaimsBefore(i) + 1,
                             Smaller(ClaimsBefore(i) + Len(rs[i].claims), Len(whole)))]]
        /\ loaded' = Filter(whole, Loadable)
  BY <1>2 DEF Load, AllClaims, Joined
<1>7. PICK slices : slices = Slices(whole, lens, Len(rs))
  OBVIOUS
<1>9. \A i : ClaimsBefore(i) = SumFunctionOnSet(lens, 1..(i - 1))
  BY <1>2, <1>5 DEF ClaimsBefore, Lengths
<1>10. /\ runs' = [i \in 1..Len(rs) |-> [rs[i] EXCEPT !.claims = slices[i]]]
       /\ loaded' = Filter(whole, Loadable)
  <2> DEFINE slice(i) == SubSeq(whole, ClaimsBefore(i) + 1,
                                Smaller(ClaimsBefore(i) + Len(rs[i].claims), Len(whole)))
  <2>2. runs' = [i \in 1..Len(rs) |-> [rs[i] EXCEPT !.claims = slice(i)]]
    BY <1>3, <1>6
  <2>3. loaded' = Filter(whole, Loadable)
    BY <1>6
  <2>4. \A i \in 1..Len(rs) : slices[i] = slice(i)
    BY <1>3, <1>5, <1>7, <1>9 DEF Slices, Lengths
  <2> HIDE DEF slice
  <2> QED
    BY <2>2, <2>3, <2>4
<1>11. Reclaimed(rs, whole, slices)
  <2>1. \A i \in 1..Len(rs) : Row(rs[i]) /\ Listed(rs[i].claims)
    BY <1>4
  <2>2. \A i \in 1..Len(rs) : \A k \in 1..Len(rs[i].claims) : ClaimRow(rs[i].claims[k])
    BY <1>4
  <2>3. slices = Slices(whole, Lengths(rs), Len(rs))
    BY <1>5, <1>7
  <2> QED
    BY <1>3, <1>6, <2>1, <2>2, <2>3, RunsGetCopies
<1>12. PICK now : now = runs'
  OBVIOUS
<1>13. DOMAIN now = 1..Len(rs) /\ Len(now) = Len(rs)
  <2>1. DOMAIN now = 1..Len(rs) /\ now = [i \in 1..Len(rs) |-> now[i]]
    BY <1>10, <1>12
  <2>2. now \in Seq(Range(now))
    BY <1>3, <2>1, MappedElements
  <2> QED
    BY <1>3, <2>1, <2>2, LenProperties
<1>14. ASSUME NEW i \in 1..Len(rs)
       PROVE  /\ now[i] = [rs[i] EXCEPT !.claims = slices[i]]
              /\ now[i].claims = slices[i] /\ Row(now[i])
              /\ now[i].id = rs[i].id /\ now[i].heard = rs[i].heard
              /\ now[i].transcript = rs[i].transcript /\ now[i].labels = rs[i].labels
  <2>1. now[i] = [rs[i] EXCEPT !.claims = slices[i]]
    BY <1>10, <1>12
  <2>2. Row(rs[i])
    BY <1>4
  <2> QED
    BY <2>1, <2>2 DEF Row
<1>15. ASSUME NEW i \in 1..Len(rs), NEW k \in 1..Len(slices[i])
       PROVE  Attribution(now[i], slices[i][k])
  <2>1. PICK old, new : /\ old = rs[i].claims[k] /\ new = slices[i][k]
                        /\ Copy(old, new) /\ ClaimRow(old) /\ Attribution(rs[i], old)
    <3>1. Copy(rs[i].claims[k], slices[i][k]) /\ k \in 1..Len(rs[i].claims)
      BY <1>11 DEF Reclaimed
    <3> QED
      BY <1>4, <3>1
  <2>2. /\ ClaimRow(new) /\ new.episode = old.episode /\ new.label = old.label
        /\ new.speaker = old.speaker /\ new.object = old.object
        /\ new.t_start = old.t_start /\ new.t_end = old.t_end
    BY <2>1 DEF Copy, ClaimRow
  <2>3. PICK run, later : /\ run = rs[i] /\ later = now[i] /\ Attribution(run, old)
                          /\ later.id = run.id /\ later.heard = run.heard
                          /\ later.transcript = run.transcript /\ later.labels = run.labels
    BY <1>14, <2>1
  <2>4. Attribution(later, new)
    BY <2>2, <2>3 DEF Attribution
  <2> QED
    BY <2>1, <2>3, <2>4, Zenon
<1>16. ASSUME NEW i \in 1..Len(runs') PROVE Worked(runs[i])'
  <2>1. i \in 1..Len(rs)
    BY <1>12, <1>13
  <2>2. Listed(slices[i]) /\ Worked(rs[i])
    BY <1>4, <1>11, <2>1 DEF Reclaimed
  <2>3. Worked(now[i])
    BY <1>14, <1>15, <2>1, <2>2 DEF Worked
  <2>4. PICK run : run = now[i]
    OBVIOUS
  <2>5. Worked(run)
    BY <2>3, <2>4, Zenon
  <2>6. Worked(run)'
    BY <1>1, <2>5, WorkedStays
  <2> QED
    BY <1>12, <2>4, <2>6, Zenon
<1>17. DoneInv'
  BY <1>1, <1>16 DEF DoneInv
<1>18. LoadInv'
  <2>1. AllClaims' = whole
    <3>1. [i \in DOMAIN now |-> now[i].claims] = slices
      <4>1. slices = [i \in 1..Len(rs) |-> slices[i]]
        BY <1>7 DEF Slices
      <4> QED
        BY <1>13, <1>14, <4>1
    <3>2. AllClaims' = FlattenSeq([i \in DOMAIN now |-> now[i].claims])
      BY <1>12 DEF AllClaims
    <3> QED
      BY <1>11, <3>1, <3>2, Zenon DEF Reclaimed
  <2>2. loaded' = Filter(whole, Loadable)
    BY <1>10
  <2>3. ASSUME NEW i \in DOMAIN loaded' PROVE \E p \in 1..Len(whole) : loaded'[i] = whole[p]
    <3> DEFINE places == {p \in DOMAIN whole : Loadable(whole[p])}
    <3>1. loaded' = Picked(whole, places) /\ places \in SUBSET DOMAIN whole
      BY <2>2 DEF Filter
    <3> HIDE DEF places
    <3>2. whole \in Seq(Range(whole))
      BY <1>11 DEF Reclaimed
    <3>3. \A j \in DOMAIN Picked(whole, places) :
            \E p \in places : Picked(whole, places)[j] = whole[p]
      BY <3>1, <3>2, PickedElements
    <3>4. DOMAIN whole = 1..Len(whole)
      BY <3>2, LenProperties
    <3> QED
      BY <3>1, <3>3, <3>4
  <2>4. ASSUME NEW i \in DOMAIN loaded', NEW j \in DOMAIN loaded',
               loaded'[i].subject = loaded'[j].subject
        PROVE  loaded'[i].canonical = loaded'[j].canonical
    <3>1. PICK p \in 1..Len(whole), q \in 1..Len(whole) :
            loaded'[i] = whole[p] /\ loaded'[j] = whole[q]
      BY <2>3
    <3> QED
      BY <1>11, <2>4, <3>1 DEF Reclaimed
  <2>5. Filter(whole, Loadable)' = Filter(whole, Loadable)
    BY DEF Filter, Loadable
  <2> QED
    BY <1>1, <2>1, <2>2, <2>4 DEF LoadInv
<1>19. ClaimInv'
  BY <1>1, LeftToLoad
<1> QED
  BY <1>17, <1>18, <1>19 DEF BatchInv

\* What is lost is lost of the runs and the claims alike.
LEMMA LossClaims ==
  ASSUME StepInv, BatchInv,
         RunRaises \/ Restart \/ (\E url : Republish(url)) \/ Done \/ UNCHANGED vars
  PROVE  BatchInv'
<1>1. CASE RunRaises \/ Restart
  <2>1. claims' = <<>> /\ runs' = <<>> /\ loaded' = <<>>
    BY <1>1 DEF RunRaises, Restart, Lost, Cleared
  <2> QED
    BY <2>1, LeftToLoad DEF BatchInv
<1>2. CASE (\E url : Republish(url)) \/ Done \/ UNCHANGED vars
  <2>1. UNCHANGED <<claims, episodes, pos, transcript, setup, candidates, runs, loaded, pc>>
    BY <1>2 DEF Republish, Done, vars, perEpisode
  <2>2. pc' \in {"fetch", "guests"} => runs = <<>>
    BY <2>1 DEF BatchInv, DoneInv
  <2> QED
    BY <2>1, <2>2, LeftToLoad DEF BatchInv
<1> QED
  BY <1>1, <1>2

\* Every step keeps what is known of claims, runs and what is loaded.
LEMMA BatchInvStep == StepInv /\ BatchInv /\ [Next]_vars => BatchInv'
<1> SUFFICES ASSUME StepInv, BatchInv, [Next]_vars PROVE BatchInv'
  OBVIOUS
<1>1. CASE RunStep
  <2>1. (\E result \in UNION {Hears[c] : c \in Content} :
           /\ Transcribing /\ result \in Hears[served[CurrentUrl]]
           /\ result.kind = setup.backend
           /\ TranscribeAtOnce(result) \/ HostedAnswers(result))
        => \E result : TranscribeAtOnce(result) \/ HostedAnswers(result)
    OBVIOUS
  <2>2. (/\ pc = "guests" /\ heard # NotHeard
         /\ \E names \in NameOrders(Input[episodes[pos].id].metadata,
                                    IntroNames(heard.transcript.segments)) : AddGuests(names))
        => \E names : AddGuests(names)
    OBVIOUS
  <2> QED
    BY <1>1, <2>1, <2>2, QuietSteps, ExtractClaims, FinishClaims, LoadClaims, LossClaims
    DEF RunStep
<1>2. CASE ~RunStep
  BY <1>2, QuietSteps, LossClaims DEF Next
<1> QED
  BY <1>1, <1>2

\* The same of what comes of a batch.
LEMMA Batching == Spec => [](StepInv /\ BatchInv)
  BY StepInvInit, StepInvStep, BatchInvInit, BatchInvStep, PTL DEF Spec

\* "The canonical id derives from the grounded label, not the model's guess": also when a
\* batch's subjects were resolved, and whatever the matcher's bar.
THEOREM EvidenceIsTheSpeakers == Spec => []SpeakerOfEvidence
<1>1. StepInv /\ BatchInv => SpeakerOfEvidence
  <2> SUFFICES ASSUME StepInv, BatchInv, setup.ground,
                      NEW i \in DOMAIN runs, NEW j \in DOMAIN runs[i].claims
               PROVE  LET claim == runs[i].claims[j]
                          matching == {k \in DOMAIN runs[i].transcript.segments :
                                         MatchScore(claim.object,
                                                    runs[i].transcript.segments[k])
                                           >= MatchPercent}
                          held(seg) == /\ seg.t_start = claim.t_start
                                       /\ seg.t_end = claim.t_end
                                       /\ claim.speaker = runs[i].labels[seg.speaker]
                      IN  matching # {} =>
                            \E k \in matching : held(runs[i].transcript.segments[k])
    BY DEF SpeakerOfEvidence
  <2>1. Worked(runs[i])
    BY BatchSequences DEF BatchInv, DoneInv
  <2>2. Attribution(runs[i], runs[i].claims[j])
    BY <2>1 DEF Worked, Listed
  <2> QED
    BY <2>2 DEF Attribution
<1> QED
  BY <1>1, Batching, PTL

\* "The per-episode runs and the batch agree", whatever the episodes of a batch and their
\* claims.
THEOREM RunsAndBatchAgree == Spec => []RunsAgree
<1>1. StepInv /\ BatchInv => RunsAgree
  <2> SUFFICES ASSUME StepInv, BatchInv PROVE RunsAgree
    OBVIOUS
  <2>1. ASSUME NEW i \in DOMAIN runs, NEW j \in DOMAIN runs[i].claims
        PROVE  runs[i].claims[j].episode = runs[i].id
    <3>1. Worked(runs[i])
      BY BatchSequences DEF BatchInv, DoneInv
    <3>2. Attribution(runs[i], runs[i].claims[j])
      BY <3>1 DEF Worked, Listed
    <3> QED
      BY <3>2 DEF Attribution
  <2>2. pc = "idle" => loaded = Filter(AllClaims, Loadable)
    BY DEF BatchInv, LoadInv
  <2>3. \A i, j \in DOMAIN loaded :
          loaded[i].subject = loaded[j].subject => loaded[i].canonical = loaded[j].canonical
    BY DEF BatchInv, LoadInv
  <2> QED
    BY <2>1, <2>2, <2>3 DEF RunsAgree
<1> QED
  BY <1>1, Batching, PTL

\* Pruning leaves those who have their share of the talk, and rebuilding from words brings
\* back everyone a word is ascribed to, whatever the transcript.
THEOREM WhoIsLeft == Spec => []SpeakersLeft
<1>1. StepInv /\ BatchInv => SpeakersLeft
  <2> SUFFICES ASSUME StepInv, BatchInv, NEW i \in DOMAIN runs
               PROVE  LET raw == runs[i].heard.transcript
                          time(l) == TalkTime(raw.segments, l)
                          total == TotalTalkTime(raw.segments)
                      IN  Labels(runs[i].transcript.segments) =
                            IF setup.resegment /\ raw.words # <<>>
                            THEN {WordLabel(raw.words[k]) : k \in DOMAIN raw.words}
                            ELSE {l \in Labels(raw.segments) :
                                    100 * time(l) >= MinTalkPercent * total}
    BY DEF SpeakersLeft
  <2>1. Heard(runs[i].heard) /\ runs[i].transcript = Shaped(runs[i].heard.transcript)
    BY BatchSequences DEF BatchInv, DoneInv, Worked
  <2>2. PICK raw \in Transcript : raw = runs[i].heard.transcript
    BY <2>1 DEF Heard
  <2>3. PICK pruned : pruned = DropLowTalkTime(raw, MinTalkPercent)
    OBVIOUS
  <2>4. /\ pruned \in Transcript /\ pruned.words = raw.words
        /\ Labels(pruned.segments) =
             {l \in Labels(raw.segments) :
                100 * TalkTime(raw.segments, l) >= MinTalkPercent * TotalTalkTime(raw.segments)}
    <3>1. MinTalkPercent \in Nat
      BY PipelineAssumption
    <3> QED
      BY <2>3, <3>1, LeftAfterBar
  <2>5. /\ Labels(Resegmented(pruned, MaxSegSeconds).segments) =
             IF pruned.words = <<>> THEN Labels(pruned.segments)
             ELSE {WordLabel(pruned.words[k]) : k \in DOMAIN pruned.words}
    <3>1. MaxSegSeconds \in Nat /\ pruned \in Transcript
      BY <2>4, PipelineAssumption
    <3> QED
      BY <3>1, RebuiltLabels
  <2>6. runs[i].transcript
          = IF setup.resegment THEN Resegmented(pruned, MaxSegSeconds) ELSE pruned
    BY <2>1, <2>2, <2>3 DEF Shaped
  <2> QED
    BY <2>2, <2>4, <2>5, <2>6
<1> QED
  BY <1>1, Batching, PTL

-----------------------------------------------------------------------------
(* The guests of all batches *)

\* What a URL was transcribed to once is what it is transcribed to.
Lasting == setup.cached /\ ~setup.files

\* A candidate is a person the linker knows, in an episode; a label it was not given is
\* that of the episode's transcript.
Candidate(c) ==
  /\ c.name \in DOMAIN PersonQid /\ c.episode \in Episode
  /\ Lasting /\ Input[c.episode].guestLabel = 0 =>
       /\ UrlOf[c.episode] \in DOMAIN disk
       /\ c.label = InferGuestLabel(disk[UrlOf[c.episode]].transcript.segments,
                                    HostsOf(disk[UrlOf[c.episode]].transcript.segments,
                                            c.episode))

\* All that was gathered about guests is.
GuestInv == Listed(candidates) /\ \A i \in 1..Len(candidates) : Candidate(candidates[i])

\* The transcript at hand is the one that was kept.
HeardKept == heard # NotHeard => CurrentUrl \in DOMAIN disk /\ heard = disk[CurrentUrl]

\* So is that of a run.
RunsKept ==
  \A i \in 1..Len(runs) : /\ UrlOf[runs[i].id] \in DOMAIN disk
                          /\ runs[i].heard = disk[UrlOf[runs[i].id]]

\* A call is under way only for what was not kept.
CallKept == call.at # "none" => Uncached /\ setup.backend = "hosted"

\* A key is remembered only for what was not kept.
KeyKept == keptAs # NoKey => CurrentUrl \notin DOMAIN disk

\* A cache by URL is what everything heard is looked up in.
KeptInv == Lasting => HeardKept /\ RunsKept /\ CallKept /\ KeyKept

LastingInv == GuestInv /\ KeptInv

\* What was kept is kept.
Grows ==
  Lasting => /\ DOMAIN disk \subseteq DOMAIN disk'
             /\ \A u \in DOMAIN disk : disk'[u] = disk[u]

\* A cache by URL does not ask what the URL serves.
LEMMA LastingKeys ==
  ASSUME Lasting
  PROVE  \A url : CacheKey(url) = url
  BY DEF Lasting, CacheKey

\* Where no transcript is asked for, no key is remembered and no call under way.
LEMMA NotAsked ==
  ASSUME StepInv, LastingInv, ~Transcribing
  PROVE  keptAs = NoKey /\ (Lasting => call.at = "none")
  BY DEF StepInv, KeyInv, LastingInv, KeptInv, CallKept, Uncached

\* It holds before the first batch.
LEMMA LastingInvInit == Init => LastingInv
<1> SUFFICES ASSUME Init PROVE LastingInv
  OBVIOUS
<1>1. candidates = <<>> /\ runs = <<>> /\ heard = NotHeard /\ call.at = "none"
      /\ keptAs = NoKey
  BY DEF Init, CallInit, NoCall
<1>2. GuestInv
  BY <1>1, NothingToLoad, EmptySeq DEF GuestInv
<1>3. HeardKept /\ RunsKept /\ CallKept /\ KeyKept
  BY <1>1, EmptySeq DEF HeardKept, RunsKept, CallKept, KeyKept
<1> QED
  BY <1>2, <1>3 DEF LastingInv, KeptInv

\* A candidate stays one as the cache grows.
LEMMA CandidateStays ==
  ASSUME UNCHANGED setup, Grows, NEW c, Candidate(c)
  PROVE  Candidate(c)'
<1>1. \A s : HostsOf(s, c.episode)' = HostsOf(s, c.episode)
  BY DEF HostsOf
<1>2. Lasting' <=> Lasting
  BY DEF Lasting
<1>3. CASE Lasting /\ Input[c.episode].guestLabel = 0
  <2>1. /\ UrlOf[c.episode] \in DOMAIN disk'
        /\ disk'[UrlOf[c.episode]] = disk[UrlOf[c.episode]]
    BY <1>3 DEF Candidate, Grows
  <2>2. PICK s : s = disk[UrlOf[c.episode]].transcript.segments
    OBVIOUS
  <2>3. c.label = InferGuestLabel(s, HostsOf(s, c.episode))
    BY <1>3, <2>2 DEF Candidate
  <2>4. c.label = InferGuestLabel(s, HostsOf(s, c.episode)')
    BY <1>1, <2>3
  <2>5. (HostsOf(disk[UrlOf[c.episode]].transcript.segments, c.episode))'
          = HostsOf(s, c.episode)'
    BY <2>1, <2>2 DEF HostsOf
  <2> QED
    BY <2>1, <2>2, <2>4, <2>5 DEF Candidate
<1>4. CASE ~(Lasting /\ Input[c.episode].guestLabel = 0)
  BY <1>2, <1>4 DEF Candidate
<1> QED
  BY <1>3, <1>4

\* What a step leaves alone is still as it was kept.
LEMMA StillKept ==
  ASSUME StepInv, LastingInv, UNCHANGED setup, Grows
  PROVE  /\ UNCHANGED candidates => GuestInv'
         /\ candidates' = <<>> => GuestInv'
         /\ Lasting' <=> Lasting
         /\ Lasting /\ UNCHANGED <<heard, pos, episodes>> => HeardKept'
         /\ heard' = NotHeard => HeardKept'
         /\ Lasting /\ UNCHANGED runs => RunsKept'
         /\ runs' = <<>> => RunsKept'
         /\ Lasting /\ UNCHANGED <<call, pc, heard, keptAs>> => CallKept'
         /\ call'.at = "none" => CallKept'
         /\ Lasting /\ UNCHANGED <<keptAs, pos, episodes, disk>> => KeyKept'
         /\ keptAs' = NoKey => KeyKept'
<1>1. ASSUME UNCHANGED candidates PROVE GuestInv'
  <2>1. ASSUME NEW i \in 1..Len(candidates) PROVE Candidate(candidates[i])'
    <3>1. PICK c : c = candidates[i]
      OBVIOUS
    <3>2. Candidate(c)
      BY <3>1 DEF LastingInv, GuestInv
    <3>3. Candidate(c)'
      BY <3>2, CandidateStays
    <3> QED
      BY <1>1, <3>1, <3>3, Zenon
  <2> QED
    BY <1>1, <2>1 DEF LastingInv, GuestInv
<1>2. candidates' = <<>> => GuestInv'
  BY NothingToLoad, EmptySeq DEF GuestInv
<1>3. Lasting' <=> Lasting
  BY DEF Lasting
<1>4. Lasting /\ UNCHANGED <<heard, pos, episodes>> => HeardKept'
  BY DEF LastingInv, KeptInv, HeardKept, Grows, CurrentUrl
<1>5. heard' = NotHeard => HeardKept'
  BY DEF HeardKept
<1>6. Lasting /\ UNCHANGED runs => RunsKept'
  BY DEF LastingInv, KeptInv, RunsKept, Grows
<1>7. runs' = <<>> => RunsKept'
  BY EmptySeq DEF RunsKept
<1>8. Lasting /\ UNCHANGED <<call, pc, heard, keptAs>> => CallKept'
  BY DEF LastingInv, KeptInv, CallKept, Uncached, Transcribing
<1>9. call'.at = "none" => CallKept'
  BY DEF CallKept
<1>10. Lasting /\ UNCHANGED <<keptAs, pos, episodes, disk>> => KeyKept'
  BY DEF LastingInv, KeptInv, KeyKept, CurrentUrl
<1>11. keptAs' = NoKey => KeyKept'
  BY DEF KeyKept
<1> QED
  BY <1>1, <1>2, <1>3, <1>4, <1>5, <1>6, <1>7, <1>8, <1>9, <1>10, <1>11

\* What was transcribed is kept, and was not kept before.
LEMMA HearLasts ==
  ASSUME StepInv, LastingInv,
         TranscribeCached \/ TranscribeAnew \/ TranscribeHosted
         \/ (\E result : TranscribeAtOnce(result) \/ HostedAnswers(result))
  PROVE  LastingInv'
<1>1. UNCHANGED <<setup, candidates, pc, pos, episodes, runs>>
  BY DEF TranscribeCached, TranscribeAnew, TranscribeHosted, TranscribeAtOnce, HostedAnswers,
         outside
<1>2. CurrentUrl' = CurrentUrl
  BY <1>1 DEF CurrentUrl
<1>3. CASE TranscribeCached \/ TranscribeAnew
  <2>1. UNCHANGED <<disk, call>> /\ keptAs = NoKey
    BY <1>3 DEF TranscribeCached, TranscribeAnew
  <2>2. Grows
    BY <2>1 DEF Grows
  <2>3. Lasting => CallKept'
    BY <2>1 DEF LastingInv, KeptInv, CallKept, Uncached
  <2>4. Lasting => HeardKept' /\ KeyKept'
    <3>1. CASE TranscribeCached
      <4>1. keptAs' = NoKey /\ CacheKey(CurrentUrl) \in DOMAIN disk
            /\ heard' = disk[CacheKey(CurrentUrl)]
        BY <2>1, <3>1 DEF TranscribeCached, Cached
      <4> QED
        BY <1>2, <2>1, <4>1, LastingKeys DEF HeardKept, KeyKept
    <3>2. CASE TranscribeAnew
      <4>1. UNCHANGED heard /\ ~Cached
        BY <3>2 DEF TranscribeAnew
      <4>2. Lasting => CurrentUrl \notin DOMAIN disk
        BY <4>1, LastingKeys DEF Cached, Lasting
      <4>3. Lasting => HeardKept'
        BY <1>1, <2>2, <4>1, StillKept
      <4> QED
        BY <1>2, <2>1, <4>2, <4>3 DEF KeyKept
    <3> QED
      BY <1>3, <3>1, <3>2
  <2> QED
    BY <1>1, <2>2, <2>3, <2>4, StillKept DEF LastingInv, KeptInv
<1>4. CASE TranscribeHosted
  <2>1. UNCHANGED <<disk, heard, keptAs>> /\ Uncached /\ setup.backend = "hosted"
    BY <1>4 DEF TranscribeHosted, perEpisode
  <2>2. Grows
    BY <2>1 DEF Grows
  <2>3. CallKept'
    BY <1>1, <2>1 DEF CallKept, Uncached, Transcribing
  <2> QED
    BY <1>1, <2>1, <2>2, <2>3, StillKept DEF LastingInv, KeptInv
<1>5. CASE \E result : TranscribeAtOnce(result) \/ HostedAnswers(result)
  <2>1. PICK result : TranscribeAtOnce(result) \/ HostedAnswers(result)
    BY <1>5
  <2>2. Hear(result) /\ keptAs # NoKey /\ keptAs' = NoKey
    BY <2>1 DEF TranscribeAtOnce, HostedAnswers, Hear, Uncached
  <2>3. ASSUME Lasting
        PROVE  /\ CurrentUrl \notin DOMAIN disk /\ call'.at = "none"
               /\ disk' = [u \in DOMAIN disk \cup {CurrentUrl} |->
                             IF u = CurrentUrl THEN heard' ELSE disk[u]]
    <3>1. CurrentUrl \notin DOMAIN disk /\ keptAs = CurrentUrl /\ setup.cached
      BY <2>2, <2>3 DEF Lasting, LastingInv, KeptInv, KeyKept, StepInv, KeyInv
    <3>2. call'.at = "none"
      <4>1. CASE TranscribeAtOnce(result)
        <5>1. setup.backend # "hosted" /\ call' = call
          BY <4>1 DEF TranscribeAtOnce
        <5> QED
          BY <2>3, <5>1 DEF LastingInv, KeptInv, CallKept
      <4>2. CASE HostedAnswers(result)
        BY <4>2 DEF HostedAnswers, NoCall
      <4> QED
        BY <2>1, <4>1, <4>2
    <3> QED
      BY <2>2, <3>1, <3>2 DEF Hear
  <2>4. Grows
    BY <2>3 DEF Grows
  <2>5. Lasting => HeardKept' /\ CallKept'
    BY <1>2, <2>3 DEF HeardKept, CallKept
  <2> QED
    BY <1>1, <2>2, <2>4, <2>5, StillKept DEF LastingInv, KeptInv
<1> QED
  BY <1>3, <1>4, <1>5

\* A name of the metadata or of the transcript is one the linker knows.
LEMMA NamesKnown ==
  ASSUME StepInv, pc = "guests", heard # NotHeard,
         NEW names \in NameOrders(Input[episodes[pos].id].metadata,
                                  IntroNames(heard.transcript.segments))
  PROVE  names \in Seq(DOMAIN PersonQid)
<1>1. PICK id \in Episode : id = episodes[pos].id
  BY AtAnEpisode DEF AtEpisode
<1>2. PICK s \in Seq(Segment) : s = heard.transcript.segments
  BY DEF StepInv, HearInv, Heard, Transcript
<1>3. PICK metadata, spoken : metadata = Input[id].metadata /\ spoken = IntroNames(s)
  OBVIOUS
<1>4. IsFiniteSet(metadata) /\ metadata \subseteq DOMAIN PersonQid
  BY <1>3, PipelineAssumption
<1>5. IsFiniteSet(spoken) /\ spoken \subseteq DOMAIN PersonQid
  <2>1. /\ IsFiniteSet(IntroNames(s))
        /\ \A n \in IntroNames(s) : n # 0 /\ \E t \in Token : n = GuestIntro[t]
    BY IntroNamesTyped
  <2>2. \A t \in Token : GuestIntro[t] \in DOMAIN PersonQid \cup {0}
    BY PipelineAssumption
  <2> QED
    BY <1>3, <2>1, <2>2
<1>6. names \in NameOrders(metadata, spoken)
  BY <1>1, <1>2, <1>3
<1>7. names \in Seq(metadata \cup spoken)
  BY <1>4, <1>5, <1>6, NamesInOrder
<1> QED
  BY <1>4, <1>5, <1>7, SeqMonotonic

\* An episode's candidates are known, and their label is that of what was kept of it.
LEMMA GuestsLast ==
  ASSUME StepInv, LastingInv,
         NEW names \in NameOrders(Input[episodes[pos].id].metadata,
                                  IntroNames(heard.transcript.segments)),
         AddGuests(names)
  PROVE  LastingInv'
<1>1. /\ UNCHANGED <<setup, disk, call, episodes, runs>>
      /\ pc = "guests" /\ heard # NotHeard /\ heard' = NotHeard /\ keptAs' = NoKey
  BY DEF AddGuests, Cleared, outside
<1>2. Grows
  BY <1>1 DEF Grows
<1>3. PICK id \in Episode : id = episodes[pos].id
  BY <1>1, AtAnEpisode DEF AtEpisode
<1>4. PICK label : /\ label = IF Input[id].guestLabel # 0 THEN Input[id].guestLabel
                              ELSE InferGuestLabel(heard.transcript.segments,
                                                   HostsOf(heard.transcript.segments, id))
                   /\ candidates' = AddEpisode(candidates, id, names, label)
  BY <1>3 DEF AddGuests
<1>5. names \in Seq(DOMAIN PersonQid)
  BY <1>1, NamesKnown
<1>6. Input[id].guestLabel \in Nat
  BY PipelineAssumption
<1> DEFINE one(n) == [name |-> n, episode |-> id, label |-> label]
           added == [i \in DOMAIN names |-> one(names[i])]
<1>7. ASSUME NEW n \in DOMAIN PersonQid PROVE Candidate(one(n))
  <2>1. one(n).name = n /\ one(n).episode = id /\ one(n).label = label
    OBVIOUS
  <2>2. ASSUME Lasting, Input[id].guestLabel = 0
        PROVE  /\ UrlOf[id] \in DOMAIN disk
               /\ label = InferGuestLabel(disk[UrlOf[id]].transcript.segments,
                                          HostsOf(disk[UrlOf[id]].transcript.segments, id))
    <3>1. CurrentUrl \in DOMAIN disk /\ heard = disk[CurrentUrl]
      BY <1>1, <2>2 DEF LastingInv, KeptInv, HeardKept
    <3>2. CurrentUrl = UrlOf[id]
      BY <1>3 DEF CurrentUrl
    <3> QED
      BY <1>4, <2>2, <3>1, <3>2
  <2> HIDE DEF one
  <2> QED
    BY <2>1, <2>2 DEF Candidate
<1>8. Listed(added) /\ \A i \in 1..Len(added) : \E n \in DOMAIN PersonQid : added[i] = one(n)
  <2>1. PICK m \in Nat : m = Len(names) /\ DOMAIN names = 1..m
    BY <1>5, LenProperties
  <2>2. \A i \in 1..m : names[i] \in DOMAIN PersonQid
    BY <1>5, <2>1
  <2> HIDE DEF one
  <2>3. added = [i \in 1..m |-> added[i]]
    BY <2>1
  <2>4. added \in Seq(Range(added))
    <3> HIDE DEF added
    <3> QED
      BY <2>1, <2>3, MappedElements
  <2>5. DOMAIN added = 1..Len(added)
    BY <2>4, LenProperties
  <2>6. DOMAIN added = 1..m
    BY <2>1
  <2>7. Listed(added)
    <3> HIDE DEF added
    <3> QED
      BY <2>4, ListedSeq
  <2> QED
    BY <2>1, <2>2, <2>5, <2>6, <2>7
<1> HIDE DEF added, one
<1>9. PICK old : old = candidates /\ Listed(old)
  BY DEF LastingInv, GuestInv
<1>10. ListsBoth(old, added)
  <2>1. Listed(old) /\ Listed(added)
    BY <1>8, <1>9
  <2> QED
    BY <2>1, JoinedLists
<1>11. candidates' = old \o added
  BY <1>4, <1>9 DEF AddEpisode, added, one
<1>12. ASSUME NEW i \in 1..Len(candidates') PROVE Candidate(candidates[i])'
  <2>1. PICK c : c = candidates'[i]
    OBVIOUS
  <2>2. Candidate(c)
    <3>1. CASE \E j \in 1..Len(old) : c = old[j]
      BY <1>9, <3>1 DEF LastingInv, GuestInv
    <3>2. CASE \E j \in 1..Len(added) : c = added[j]
      BY <1>7, <1>8, <3>2
    <3>3. i \in 1..Len(old \o added) /\ c = (old \o added)[i]
      BY <1>11, <2>1
    <3> QED
      BY <1>10, <3>1, <3>2, <3>3 DEF ListsBoth
  <2>3. Candidate(c)'
    BY <1>1, <1>2, <2>2, CandidateStays
  <2> QED
    BY <2>1, <2>3, Zenon
<1>13. GuestInv'
  <2>1. Listed(candidates')
    BY <1>10, <1>11 DEF ListsBoth
  <2> QED
    BY <1>12, <2>1 DEF GuestInv
<1>14. Lasting => CallKept'
  <2>1. Lasting => call.at = "none"
    BY <1>1, NotAsked DEF Transcribing
  <2> QED
    BY <1>1, <2>1 DEF CallKept
<1> QED
  BY <1>1, <1>2, <1>13, <1>14, StillKept DEF LastingInv, KeptInv

\* A run has the transcript that was kept, and keeps it when it is loaded.
LEMMA RunsLast ==
  ASSUME StepInv, LastingInv, FinishEpisode \/ Load
  PROVE  LastingInv'
<1>1. UNCHANGED <<setup, candidates, disk, call, episodes>>
  BY DEF FinishEpisode, Load, outside
<1>2. Grows
  BY <1>1 DEF Grows
<1>3. pc \notin {"guests", "transcribe"} /\ (keptAs' = NoKey \/ keptAs' = keptAs)
  BY DEF FinishEpisode, Load, Cleared, perEpisode
<1>7. keptAs' = NoKey
  BY <1>3, NotAsked DEF Transcribing
<1>4. Lasting => CallKept'
  <2>1. Lasting => call.at = "none"
    BY <1>3, NotAsked DEF Transcribing
  <2> QED
    BY <1>1, <2>1 DEF CallKept
<1>5. CASE FinishEpisode
  <2>1. PICK run : /\ run = [id |-> episodes[pos].id, heard |-> heard,
                             hash |-> episodes[pos].hash, transcript |-> transcript,
                             labels |-> labels,
                             claims |-> [i \in DOMAIN claims |-> Attributed(claims[i])]]
                   /\ runs' = Append(runs, run)
    BY <1>5 DEF FinishEpisode
  <2>2. heard # NotHeard /\ heard' = NotHeard /\ run.id = episodes[pos].id /\ run.heard = heard
    BY <1>5, <2>1 DEF FinishEpisode, Cleared, StepInv, HashInv, StageInv
  <2>3. /\ runs' \in Seq(Range(runs')) /\ DOMAIN runs' = 1..(Len(runs) + 1)
        /\ runs'[Len(runs) + 1] = run
        /\ \A i \in DOMAIN runs : runs'[i] = runs[i]
        /\ DOMAIN runs = 1..Len(runs) /\ Len(runs) \in Nat
    <3>1. runs \in Seq(Range(runs))
      BY DEF StepInv, HashInv, RunsInv
    <3> QED
      BY <2>1, <3>1, AppendElements
  <2>4. Len(runs') = Len(runs) + 1
    BY <2>3, LenProperties
  <2>5. ASSUME Lasting, NEW i \in 1..Len(runs')
        PROVE  UrlOf[runs'[i].id] \in DOMAIN disk /\ runs'[i].heard = disk[UrlOf[runs'[i].id]]
    <3>1. CASE i = Len(runs) + 1
      <4>1. CurrentUrl \in DOMAIN disk /\ heard = disk[CurrentUrl] /\ CurrentUrl = UrlOf[run.id]
        BY <2>2, <2>5 DEF LastingInv, KeptInv, HeardKept, CurrentUrl
      <4> QED
        BY <2>2, <2>3, <3>1, <4>1
    <3>2. CASE i # Len(runs) + 1
      <4>1. i \in 1..Len(runs) /\ i \in DOMAIN runs
        BY <2>3, <2>4, <3>2
      <4> QED
        BY <2>3, <2>5, <4>1 DEF LastingInv, KeptInv, RunsKept
    <3> QED
      BY <3>1, <3>2
  <2>6. Lasting => RunsKept'
    BY <1>1, <2>5 DEF RunsKept
  <2> QED
    BY <1>1, <1>2, <1>4, <1>7, <2>2, <2>6, StillKept DEF LastingInv, KeptInv
<1>6. CASE Load
  <2>1. UNCHANGED <<heard, pos>>
    BY <1>6 DEF Load, perEpisode
  <2>2. /\ Len(runs') = Len(runs)
        /\ \A i \in 1..Len(runs) : runs'[i].id = runs[i].id /\ runs'[i].heard = runs[i].heard
    BY <1>6, LoadsOnlyClaims DEF StepInv
  <2>3. Lasting => RunsKept'
    BY <1>1, <2>2 DEF LastingInv, KeptInv, RunsKept
  <2> QED
    BY <1>1, <1>2, <1>4, <1>7, <2>1, <2>3, StillKept DEF LastingInv, KeptInv
<1> QED
  BY <1>5, <1>6

\* Nothing else has to do with the guests or what was kept.
LEMMA OthersLast ==
  ASSUME StepInv, LastingInv,
         \/ (\E batch : Begin(batch)) \/ Fetch \/ FetchFails \/ NotFetched \/ RunBegins
         \/ Shape \/ NextChunk \/ (\E items : Extract(items)) \/ Nudge \/ RunRaises \/ Restart
         \/ (\E url : Republish(url)) \/ Done \/ UNCHANGED vars
  PROVE  LastingInv'
<1>1. UNCHANGED <<setup, disk>>
  BY DEF Begin, Fetch, FetchFails, NotFetched, RunBegins, Shape, NextChunk, Extract, Nudge,
         RunRaises, Restart, Republish, Done, vars, outside
<1>2. Grows
  BY <1>1 DEF Grows
<1>3. CASE \/ (\E batch : Begin(batch)) \/ Fetch \/ FetchFails \/ NotFetched \/ RunBegins
  <2>1. UNCHANGED <<call, candidates, heard, keptAs>> /\ pc \in {"idle", "fetch"}
        /\ (runs' = runs \/ runs' = <<>>)
    BY <1>3 DEF Begin, Fetch, FetchFails, NotFetched, RunBegins, perEpisode
  <2>2. heard = NotHeard
    BY <2>1 DEF StepInv, HashInv, StageInv, AtEpisode
  <2>3. keptAs' = NoKey /\ (Lasting => call.at = "none")
    BY <2>1, NotAsked DEF Transcribing
  <2>4. Lasting => CallKept'
    BY <2>1, <2>3 DEF CallKept
  <2> QED
    BY <1>1, <1>2, <2>1, <2>2, <2>3, <2>4, StillKept DEF LastingInv, KeptInv
<1>4. CASE Shape \/ NextChunk \/ (\E items : Extract(items)) \/ Nudge
  <2>1. /\ UNCHANGED <<call, candidates, heard, keptAs, pos, episodes, runs>>
        /\ pc \in AtWork \/ heard # NotHeard
    BY <1>4 DEF Shape, NextChunk, Extract, Nudge, AtWork
  <2>2. keptAs' = NoKey /\ (Lasting => call.at = "none")
    BY <2>1, NotAsked DEF Transcribing, AtWork
  <2>3. Lasting => CallKept'
    BY <2>1, <2>2 DEF CallKept
  <2> QED
    BY <1>1, <1>2, <2>1, <2>2, <2>3, StillKept DEF LastingInv, KeptInv
<1>5. CASE RunRaises \/ Restart
  <2>1. /\ heard' = NotHeard /\ keptAs' = NoKey /\ runs' = <<>> /\ call'.at = "none"
        /\ candidates' = candidates \/ candidates' = <<>>
    BY <1>5 DEF RunRaises, Restart, Lost, Cleared, NoCall
  <2> QED
    BY <1>1, <1>2, <2>1, StillKept DEF LastingInv, KeptInv
<1>6. CASE (\E url : Republish(url)) \/ Done \/ UNCHANGED vars
  <2>1. UNCHANGED <<call, pc, candidates, heard, keptAs, pos, episodes, runs>>
    BY <1>6 DEF Republish, Done, vars, perEpisode
  <2> QED
    BY <1>1, <1>2, <2>1, StillKept DEF LastingInv, KeptInv
<1> QED
  BY <1>3, <1>4, <1>5, <1>6

\* Every step keeps what is known of the guests and what was kept.
LEMMA LastingInvStep == StepInv /\ LastingInv /\ [Next]_vars => LastingInv'
<1> SUFFICES ASSUME StepInv, LastingInv, [Next]_vars PROVE LastingInv'
  OBVIOUS
<1>1. CASE RunStep
  <2>1. (\E result \in UNION {Hears[c] : c \in Content} :
           /\ Transcribing /\ result \in Hears[served[CurrentUrl]]
           /\ result.kind = setup.backend
           /\ TranscribeAtOnce(result) \/ HostedAnswers(result))
        => \E result : TranscribeAtOnce(result) \/ HostedAnswers(result)
    OBVIOUS
  <2> QED
    BY <1>1, <2>1, HearLasts, GuestsLast, RunsLast, OthersLast DEF RunStep
<1>2. CASE ~RunStep
  BY <1>2, OthersLast DEF Next
<1> QED
  BY <1>1, <1>2

\* The same over all batches.
LEMMA Lasts == Spec => [](StepInv /\ BatchInv /\ LastingInv)
  BY StepInvInit, StepInvStep, BatchInvInit, BatchInvStep, LastingInvInit, LastingInvStep, PTL
  DEF Spec

\* Only a guest's label is a guest's, and only one that nothing else identifies.
LEMMA GuestComesLast ==
  ASSUME NEW episode, NEW s, NEW names, NEW hosts, NEW guest, NEW fallback, NEW l \in Labels(s),
         ResolveSpeakers(episode, s, names, hosts, guest, fallback)[l][1] = "guest"
  PROVE  /\ guest.label = l
         /\ ResolveSpeakers(episode, s, names, hosts, guest, fallback)[l] = guest.id
         /\ l \notin DOMAIN names /\ l \notin DOMAIN hosts
<1> DEFINE id == ResolveSpeakers(episode, s, names, hosts, guest, fallback)[l]
<1>1. CASE l \in DOMAIN names
  <2>1. id = NamedId(names[l])
    BY <1>1 DEF ResolveSpeakers
  <2> QED
    BY <2>1 DEF NamedId
<1>2. CASE l \notin DOMAIN names /\ l \in DOMAIN hosts
  <2>1. id = HostId(hosts[l])
    BY <1>2 DEF ResolveSpeakers
  <2> QED
    BY <2>1 DEF HostId
<1>3. CASE l \notin DOMAIN names \cup DOMAIN hosts /\ guest.label = l
  <2>1. id = guest.id
    BY <1>3 DEF ResolveSpeakers
  <2> QED
    BY <1>3, <2>1
<1>4. CASE l \notin DOMAIN names \cup DOMAIN hosts /\ guest.label # l
  <2>1. id = IF fallback THEN FallbackId(episode, l) ELSE NoId
    BY <1>4 DEF ResolveSpeakers
  <2> QED
    BY <2>1 DEF FallbackId, NoId
<1> QED
  BY <1>1, <1>2, <1>3, <1>4

\* A guest that an episode of a run is given recurs, and was added with this episode.
LEMMA GuestOfRun ==
  ASSUME StepInv, BatchInv, LastingInv, NEW r \in 1..Len(runs),
         NEW l \in Labels(runs[r].transcript.segments), runs[r].labels[l][1] = "guest"
  PROVE  /\ l \notin DOMAIN HostsOf(runs[r].transcript.segments, runs[r].id)
         /\ setup.names => l \notin DOMAIN LabelNames(runs[r].transcript.segments)
         /\ \E n \in DOMAIN PersonQid : \E i \in DOMAIN candidates :
              /\ GuestId(PersonQid[n]) = runs[r].labels[l]
              /\ candidates[i].label = l /\ candidates[i].name = n
              /\ candidates[i].episode = runs[r].id /\ Candidate(candidates[i])
              /\ Recurs(candidates, n)
<1>1. PICK id, s : id = runs[r].id /\ s = runs[r].transcript.segments
  OBVIOUS
<1>2. PICK names : names = IF setup.names THEN SpeakerNames(s, setup.labelsAreNames) ELSE Nothing
  OBVIOUS
<1>3. PICK hosts, guest : hosts = HostsOf(s, id) /\ guest = GuestOf(candidates, id)
  OBVIOUS
<1>4. runs[r].labels = ResolveSpeakers(id, s, names, hosts, guest, setup.fallback)
  BY <1>1, <1>2, <1>3 DEF BatchInv, DoneInv, Worked, SpeakersOf
<1>5. /\ guest.label = l /\ runs[r].labels[l] = guest.id
      /\ l \notin DOMAIN names /\ l \notin DOMAIN hosts
  <2>1. PICK fallback : fallback = setup.fallback
    OBVIOUS
  <2>2. l \in Labels(s)
    BY <1>1
  <2>3. ResolveSpeakers(id, s, names, hosts, guest, fallback)[l][1] = "guest"
    BY <1>4, <2>1
  <2>4. /\ guest.label = l
        /\ ResolveSpeakers(id, s, names, hosts, guest, fallback)[l] = guest.id
        /\ l \notin DOMAIN names /\ l \notin DOMAIN hosts
    BY <2>2, <2>3, GuestComesLast
  <2> QED
    BY <1>4, <2>1, <2>4
<1>6. setup.names => l \notin DOMAIN LabelNames(s)
  <2>1. CASE setup.names /\ setup.labelsAreNames
    <3>1. DOMAIN names = Labels(s)
      BY <1>2, <2>1 DEF SpeakerNames
    <3> QED
      BY <1>1, <1>5, <3>1
  <2>2. CASE setup.names /\ ~setup.labelsAreNames
    <3>1. names = LabelNames(s)
      BY <1>2, <2>2 DEF SpeakerNames
    <3> QED
      BY <1>5, <3>1
  <2> QED
    BY <2>1, <2>2
<1>7. PICK all : all = candidates
  OBVIOUS
<1>8. CandidatesTyped(all)
  BY <1>7 DEF LastingInv, GuestInv, Candidate, CandidatesTyped
<1>9. GuestOf(all, id) # NoGuest
  <2>1. NoGuest.id[1] = "none"
    BY DEF NoGuest, NoId
  <2>2. guest.id[1] = "guest"
    BY <1>5
  <2> QED
    BY <1>3, <1>7, <2>1, <2>2
<1>10. PICK n \in DOMAIN PersonQid : \E i \in DOMAIN all :
         /\ GuestOf(all, id).id = GuestId(PersonQid[n])
         /\ GuestOf(all, id).label = all[i].label
         /\ all[i].name = n /\ all[i].episode = id
         /\ Recurs(all, n)
  BY <1>8, <1>9, GuestChosen
<1>11. PICK i \in DOMAIN all :
         /\ GuestOf(all, id).id = GuestId(PersonQid[n])
         /\ GuestOf(all, id).label = all[i].label
         /\ all[i].name = n /\ all[i].episode = id
         /\ Recurs(all, n)
  BY <1>10
<1>12. Candidate(candidates[i])
  <2>1. i \in 1..Len(candidates)
    BY <1>7, <1>11 DEF LastingInv, GuestInv, Listed
  <2> QED
    BY <2>1 DEF LastingInv, GuestInv
<1>13. /\ GuestId(PersonQid[n]) = runs[r].labels[l]
       /\ candidates[i].label = l /\ candidates[i].name = n
       /\ candidates[i].episode = runs[r].id
       /\ Recurs(candidates, n) /\ i \in DOMAIN candidates
  BY <1>1, <1>3, <1>5, <1>7, <1>11
<1> QED
  BY <1>1, <1>3, <1>5, <1>6, <1>12, <1>13

\* Nobody is given a guest's id that lasts on the strength of one episode, through however
\* many batches, if the pipeline asks for two appearances at least, as it does unless told
\* otherwise.
THEOREM GuestsAreRecurring ==
  ASSUME MinAppearances >= 2
  PROVE  Spec => []GuestsRecur
<1>1. StepInv /\ BatchInv /\ LastingInv => GuestsRecur
  <2> SUFFICES ASSUME StepInv, BatchInv, LastingInv,
                      NEW i \in DOMAIN loaded, loaded[i].speaker[1] = "guest"
               PROVE  \E n \in DOMAIN PersonQid :
                        /\ GuestId(PersonQid[n]) = loaded[i].speaker
                        /\ \E e, f \in EpisodesOf(candidates, n) :
                             e # f /\ loaded[i].episode = e
    BY DEF GuestsRecur
  <2>1. PICK rs : rs = runs
    OBVIOUS
  <2>2. PICK whole : whole = AllClaims
    OBVIOUS
  <2>3. whole \in Seq(ClaimsOf(rs))
    <3>1. DOMAIN rs = 1..Len(rs) /\ Len(rs) \in Nat
      BY <2>1, BatchSequences
    <3>2. \A r \in 1..Len(rs) : Listed(rs[r].claims)
      BY <2>1 DEF BatchInv, DoneInv, Worked
    <3>3. FlattenSeq([r \in DOMAIN rs |-> rs[r].claims]) \in Seq(ClaimsOf(rs))
      BY <3>1, <3>2, ClaimsTogether
    <3> QED
      BY <2>1, <2>2, <3>3 DEF AllClaims
  <2>4. \E p \in DOMAIN whole : loaded[i] = whole[p]
    <3> DEFINE places == {p \in DOMAIN whole : Loadable(whole[p])}
    <3>1. loaded = Picked(whole, places) /\ places \in SUBSET DOMAIN whole
      <4>1. pc = "idle" => loaded = Filter(whole, Loadable)
        BY <2>2 DEF BatchInv, LoadInv
      <4>2. pc # "idle" => DOMAIN loaded = {}
        BY DEF BatchInv, LoadInv
      <4> QED
        BY <4>1, <4>2 DEF Filter
    <3> HIDE DEF places
    <3>2. \A j \in DOMAIN Picked(whole, places) :
            \E p \in places : Picked(whole, places)[j] = whole[p]
      BY <2>3, <3>1, PickedElements
    <3> QED
      BY <3>1, <3>2
  <2>5. loaded[i] \in ClaimsOf(rs)
    BY <2>3, <2>4, LenProperties, ElementOfSeq
  <2>6. PICK r \in 1..Len(rs) : loaded[i] \in Range(rs[r].claims)
    BY <2>5 DEF ClaimsOf
  <2>7. PICK k \in 1..Len(rs[r].claims) : loaded[i] = rs[r].claims[k]
    <3>1. Listed(rs[r].claims)
      BY <2>1, <2>6 DEF BatchInv, DoneInv, Worked
    <3> QED
      BY <2>6, <3>1 DEF Listed, Range
  <2>8. /\ loaded[i].episode = runs[r].id
        /\ loaded[i].label \in Labels(runs[r].transcript.segments)
        /\ loaded[i].speaker = runs[r].labels[loaded[i].label]
    BY <2>1, <2>6, <2>7 DEF BatchInv, DoneInv, Worked, Attribution
  <2>9. PICK n \in DOMAIN PersonQid : \E j \in DOMAIN candidates :
          /\ GuestId(PersonQid[n]) = loaded[i].speaker
          /\ candidates[j].name = n /\ candidates[j].episode = loaded[i].episode
          /\ Recurs(candidates, n)
    <3>1. PICK l : l = loaded[i].label
      OBVIOUS
    <3>2. l \in Labels(runs[r].transcript.segments) /\ runs[r].labels[l][1] = "guest"
          /\ r \in 1..Len(runs)
      BY <2>1, <2>6, <2>8, <3>1
    <3>3. \E n \in DOMAIN PersonQid : \E j \in DOMAIN candidates :
            /\ GuestId(PersonQid[n]) = runs[r].labels[l]
            /\ candidates[j].label = l /\ candidates[j].name = n
            /\ candidates[j].episode = runs[r].id /\ Candidate(candidates[j])
            /\ Recurs(candidates, n)
      BY <3>2, GuestOfRun
    <3> QED
      BY <2>8, <3>1, <3>3
  <2>10. loaded[i].episode \in EpisodesOf(candidates, n) /\ Recurs(candidates, n)
    BY <2>9 DEF EpisodesOf
  <2>11. PICK all, e : all = candidates /\ e = loaded[i].episode
    OBVIOUS
  <2>12. \E f \in EpisodesOf(all, n) : f # e
    <3>1. CandidatesTyped(all)
      BY <2>11 DEF LastingInv, GuestInv, Candidate, CandidatesTyped
    <3>2. Recurs(all, n) /\ e \in EpisodesOf(all, n)
      BY <2>10, <2>11
    <3> QED
      BY <3>1, <3>2, RecursTwice
  <2> QED
    BY <2>9, <2>10, <2>11, <2>12
<1> QED
  BY <1>1, Lasts, PTL

\* A guest's id goes to no label that a host's voice or a spoken name identifies, and an
\* inferred label is that of who talks most besides the hosts, whatever the transcript.
THEOREM GuestsTalkMost == Spec => []GuestTurns
<1>1. StepInv /\ BatchInv /\ LastingInv => GuestTurns
  <2> SUFFICES ASSUME StepInv, BatchInv, LastingInv,
                      NEW i \in DOMAIN runs, NEW l \in DOMAIN runs[i].labels,
                      runs[i].labels[l][1] = "guest"
               PROVE  LET heardIn == runs[i].heard.transcript.segments
                          segments == runs[i].transcript.segments
                      IN  /\ l \notin DOMAIN HostsOf(segments, runs[i].id)
                          /\ setup.names => l \notin DOMAIN LabelNames(segments)
                          /\ /\ setup.cached /\ ~setup.files
                             /\ Input[runs[i].id].guestLabel = 0
                             => \A m \in Labels(heardIn) \ DOMAIN HostsOf(heardIn, runs[i].id) :
                                  TalkTime(heardIn, m) <= TalkTime(heardIn, l)
    BY DEF GuestTurns
  <2>1. i \in 1..Len(runs)
    BY BatchSequences
  <2>2. l \in Labels(runs[i].transcript.segments)
    BY <2>1 DEF BatchInv, DoneInv, Worked, SpeakersOf, ResolveSpeakers
  <2>3. /\ l \notin DOMAIN HostsOf(runs[i].transcript.segments, runs[i].id)
        /\ setup.names => l \notin DOMAIN LabelNames(runs[i].transcript.segments)
        /\ \E n \in DOMAIN PersonQid : \E j \in DOMAIN candidates :
             /\ GuestId(PersonQid[n]) = runs[i].labels[l]
             /\ candidates[j].label = l /\ candidates[j].name = n
             /\ candidates[j].episode = runs[i].id /\ Candidate(candidates[j])
             /\ Recurs(candidates, n)
    BY <2>1, <2>2, GuestOfRun
  <2>4. ASSUME setup.cached, ~setup.files, Input[runs[i].id].guestLabel = 0,
               NEW m \in Labels(runs[i].heard.transcript.segments)
                           \ DOMAIN HostsOf(runs[i].heard.transcript.segments, runs[i].id)
        PROVE  TalkTime(runs[i].heard.transcript.segments, m)
                 <= TalkTime(runs[i].heard.transcript.segments, l)
    <3>1. PICK j \in DOMAIN candidates :
            /\ candidates[j].label = l /\ candidates[j].episode = runs[i].id
            /\ Candidate(candidates[j])
      BY <2>3
    <3>2. PICK s \in Seq(Segment) : s = runs[i].heard.transcript.segments
      BY <2>1 DEF BatchInv, DoneInv, Worked, Heard, Transcript
    <3>3. runs[i].heard = disk[UrlOf[runs[i].id]]
      BY <2>1, <2>4 DEF LastingInv, KeptInv, Lasting, RunsKept
    <3>4. PICK hosts : hosts = HostsOf(s, runs[i].id)
      OBVIOUS
    <3>5. l = InferGuestLabel(s, hosts)
      BY <2>4, <3>1, <3>2, <3>3, <3>4 DEF Candidate, Lasting
    <3>6. m \in Labels(s) \ DOMAIN hosts
      BY <3>2, <3>4
    <3>7. TalkTime(s, m) <= TalkTime(s, InferGuestLabel(s, hosts))
      BY <3>6, InferredTalksMost
    <3> QED
      BY <3>2, <3>5, <3>7
  <2> QED
    BY <2>3, <2>4
<1> QED
  BY <1>1, Lasts, PTL
=============================================================================
