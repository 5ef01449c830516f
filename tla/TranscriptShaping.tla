-------------------------- MODULE TranscriptShaping --------------------------
(***************************************************************************)
(* What the transcription backends make of what they get, and what the     *)
(* pipeline does to a transcript before anything is extracted from it:     *)
(* asr/hosted_backend.py, asr/whisperx_backend.py, asr/diarization.py,     *)
(* ingestion/transcript_source.py with speaker_enrich.py, asr/base.py and  *)
(* asr/word_segmentation.py.                                               *)
(*                                                                         *)
(* A token is what is said in one go.  A text is a sequence of tokens; a   *)
(* word is one token with its time and speaker.  Labels and names are      *)
(* numbers, in alphabetical order, and 0 is none.  Times are seconds.      *)
(***************************************************************************)
EXTENDS Lists, FiniteSetsExt, SequencesExt

CONSTANTS Token,      \* what is said
          Ends,       \* the tokens that end with a full stop
          DefaultLabel,     \* "A" of words, "SPEAKER_00" of turns: labels like others
          Spells      \* per rule (exact, first name, surname, part): label-name pairs

ASSUME ShapingAssumption ==
  /\ Ends \subseteq Token
  /\ DefaultLabel \in Nat \ {0}
  /\ Spells \in [1..4 -> SUBSET (Nat \X Nat)]

Larger(a, b) == IF a >= b THEN a ELSE b
Smaller(a, b) == IF a <= b THEN a ELSE b

\* Who says what from when to when: an utterance, a word, a segment.
Segment == [speaker : Nat, text : Seq(Token), t_start : Int, t_end : Int]

Sooner(a, b) == a.t_start < b.t_start \/ (a.t_start = b.t_start /\ a.t_end < b.t_end)

Labels(segments) == {segments[i].speaker : i \in DOMAIN segments}

Durations(segments) ==
  [i \in DOMAIN segments |-> Larger(0, segments[i].t_end - segments[i].t_start)]

-----------------------------------------------------------------------------
(* The hosted service *)

\* An utterance or a word that ends before it starts takes no time.
Clamped(u) == [u EXCEPT !.t_end = Larger(u.t_start, u.t_end)]

ClampAll(s) == [i \in DOMAIN s |-> Clamped(s[i])]

Spoken(u) == u.text # <<>>

HostedResult == [kind : {"hosted"}, utterances : Seq(Segment), words : Seq(Segment)]

\* Utterances sorted by time, the empty ones left out; words as they come.
HostedTranscript(result) ==
  [segments |-> StableSort(ClampAll(Filter(result.utterances, Spoken)), Sooner),
   words    |-> ClampAll(result.words)]

-----------------------------------------------------------------------------
(* The local backend: diarization turns mapped onto aligned segments *)

Overlap(a, b) ==
  Larger(0, Smaller(a.t_end, b.t_end) - Larger(a.t_start, b.t_start))

\* Twice the gap between the middle of a word and a turn.
Gap(w, t) ==
  LET twice == w.t_start + w.t_end
  IN  Larger(0, Larger(2 * t.t_start - twice, twice - 2 * t.t_end))

EarlierTurn(t, u) == Sooner(t, u) \/ (~Sooner(u, t) /\ t.speaker < u.speaker)

\* The turn that overlaps the word most, or else the nearest one; of equals the first.
SpeakerOf(w, turns) ==
  IF turns = {} THEN DefaultLabel
  ELSE LET Better(t, u) == IF \E x \in turns : Overlap(w, x) > 0
                           THEN Overlap(w, t) > Overlap(w, u)
                           ELSE Gap(w, t) < Gap(w, u)
       IN  (CHOOSE t \in turns : \A u \in turns \ {t} :
              Better(t, u) \/ (~Better(u, t) /\ EarlierTurn(t, u))).speaker

\* The speaker of most of a segment's words by time, or of all of it if it has none.
SegmentSpeaker(seg, turns) ==
  LET TimeOf(l) == SumFunctionOnSet(
                     Durations(seg.words),
                     {i \in DOMAIN seg.words : SpeakerOf(seg.words[i], turns) = l})
      found == {SpeakerOf(seg.words[i], turns) : i \in DOMAIN seg.words}
  IN  IF found = {} THEN SpeakerOf(seg, turns)
      ELSE CHOOSE l \in found : \A m \in found \ {l} :
             TimeOf(l) > TimeOf(m) \/ (TimeOf(l) = TimeOf(m) /\ l < m)

\* One more aligned segment: joined to the turn before it if that is the same speaker's.
AddTurn(turns, seg) ==
  LET last == turns[Len(turns)]
  IN  IF turns # <<>> /\ last.speaker = seg.speaker
      THEN [turns EXCEPT ![Len(turns)] =
              [last EXCEPT !.text = @ \o seg.text, !.t_end = Larger(@, seg.t_end)]]
      ELSE Append(turns, Clamped(seg))

Turn == [speaker : Nat, t_start : Int, t_end : Int]

Aligned == [text : Seq(Token), t_start : Int, t_end : Int, words : Seq(Segment)]

LocalResult == [kind : {"local"}, turns : SUBSET Turn, aligned : Seq(Aligned)]

\* Segments that are labelled, nonempty and collapsed into turns; there are no words.
LocalTranscript(result) ==
  LET labelled(seg) == [speaker |-> SegmentSpeaker(seg, result.turns), text |-> seg.text,
                        t_start |-> seg.t_start, t_end |-> seg.t_end]
      add(turns, seg) == AddTurn(turns, labelled(seg))
  IN  [segments |-> FoldLeft(add, <<>>, Filter(result.aligned, Spoken)), words |-> <<>>]

-----------------------------------------------------------------------------
(* Published transcripts *)

\* A label as the name it must be by the first rule that says anything.  An ambiguous
\* match leaves it alone; only after an ambiguous exact one the other rules are tried.
FullName(label, roster) ==
  LET meant(rule) == {k \in roster : <<label, k>> \in Spells[rule]}
      hits == {rule \in 1..4 : IF rule = 1 THEN Cardinality(meant(1)) = 1
                                           ELSE meant(rule) # {}}
  IN  IF hits # {} /\ Cardinality(meant(Min(hits))) = 1
      THEN CHOOSE k \in meant(Min(hits)) : TRUE
      ELSE label

TextResult == [kind : {"text"}, roster : SUBSET Nat, page : Seq(Segment)]

\* The parsed page, its labels spelled out, sorted by time.
TextTranscript(result) ==
  LET enriched == [i \in DOMAIN result.page |->
                     [result.page[i] EXCEPT !.speaker = FullName(@, result.roster)]]
  IN  [segments |-> StableSort(enriched, Sooner), words |-> <<>>]

-----------------------------------------------------------------------------
(* Before extraction *)

TalkTime(segments, label) ==
  SumFunctionOnSet(Durations(segments), {i \in DOMAIN segments : segments[i].speaker = label})

TotalTalkTime(segments) ==
  SumFunctionOnSet([l \in Labels(segments) |-> TalkTime(segments, l)], Labels(segments))

\* MUTANT of DropLowTalkTime: the bar is passed by those strictly above it only.
DropAtBar(transcript, percent) ==
  LET total == TotalTalkTime(transcript.segments)
      keeps(s) == 100 * TalkTime(transcript.segments, s.speaker) > percent * total
  IN  IF total = 0 \/ percent = 0 THEN transcript
      ELSE [transcript EXCEPT !.segments = Filter(@, keeps)]

\* Segments of speakers below the bar go.  Words stay, whoever says them.
DropLowTalkTime(transcript, percent) ==
  LET total == TotalTalkTime(transcript.segments)
      keeps(s) == 100 * TalkTime(transcript.segments, s.speaker) >= percent * total
  IN  IF total = 0 \/ percent = 0 THEN transcript
      ELSE [transcript EXCEPT !.segments = Filter(@, keeps)]

WordLabel(w) == IF w.speaker = 0 THEN DefaultLabel ELSE w.speaker

\* A word goes to the segment being built, unless its speaker is another one, it would
\* make it too long, or the segment ended its sentence.
AddWord(segments, w, maxSeconds) ==
  LET last == segments[Len(segments)]
      breaks == \/ segments = <<>>
                \/ WordLabel(w) # last.speaker
                \/ w.t_end - last.t_start > maxSeconds
                \/ last.text[Len(last.text)] \in Ends
  IN  IF breaks THEN Append(segments, [w EXCEPT !.speaker = WordLabel(w)])
      ELSE [segments EXCEPT ![Len(segments)].text = @ \o w.text,
                            ![Len(segments)].t_end = w.t_end]

\* Segments rebuilt from the words, if there are any.
Resegmented(transcript, maxSeconds) ==
  LET add(segments, w) == AddWord(segments, w, maxSeconds)
  IN  IF transcript.words = <<>> THEN transcript
      ELSE [transcript EXCEPT !.segments = FoldLeft(add, <<>>, transcript.words)]
=============================================================================
