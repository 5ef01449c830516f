--------------------------- MODULE SpeakerIdentity ---------------------------
(***************************************************************************)
(* Who the diarization labels of an episode are: the host gallery of       *)
(* speakers/identity.py, the recurring guests of speakers/guests.py, the   *)
(* names of speakers/speaker_store.py, and the order in which              *)
(* pipeline.py asks them.                                                  *)
(*                                                                         *)
(* Voiceprints are points on a line, and two are as similar as they are    *)
(* near.  A name stands for all spellings that normalize to it.            *)
(***************************************************************************)
EXTENDS TranscriptShaping

CONSTANTS SelfIntro,      \* what "I'm X" tokens name, 0 for other tokens
          GuestIntro,     \* what "my guest today is X" tokens name
          Qid, NoQid,     \* Wikidata ids, and none
          PersonQid,      \* what the linker answers for a person's name
          Nearest,        \* the similarity of a voice to itself
          Threshold, Margin,   \* of the gallery
          MinAppearances  \* episodes a recurring guest has

ASSUME IdentityAssumption ==
  /\ SelfIntro \in [Token -> Nat] /\ GuestIntro \in [Token -> Nat]
  /\ NoQid \notin Qid
  /\ \A name \in DOMAIN PersonQid : PersonQid[name] \in Qid \cup {NoQid}
  /\ Nearest \in Nat /\ Threshold \in Nat /\ Margin \in Nat \ {0}
  /\ MinAppearances \in Nat

\* Ids of hosts, guests, named speakers and speakers of one episode; and none.
HostId(name) == <<"host", name>>
GuestId(qid) == <<"guest", qid>>
NamedId(name) == <<"spk", name>>
FallbackId(episode, label) == <<"spk-episode", episode, label>>
NoId == <<"none">>

\* Who says what in which order.
Said(segments) ==
  FlattenSeq([i \in DOMAIN segments |->
    [j \in DOMAIN segments[i].text |->
       [speaker |-> segments[i].speaker, token |-> segments[i].text[j]]]])

FirstWhere(s, Test(_)) ==
  LET found == {i \in DOMAIN s : Test(s[i])}
  IN  IF found = {} THEN 0 ELSE Min(found)

-----------------------------------------------------------------------------
(* The host gallery *)

Similar(v, w) == Larger(0, Nearest - Larger(v - w, w - v))

Mean(s) == FoldLeft(LAMBDA a, b : a + b, 0, s) \div Len(s)

\* A seed's samples are averaged with the centroid there is, which counts as one.
AddHost(gallery, seed) ==
  LET known == seed.name \in DOMAIN gallery
      stacked == (IF known THEN <<gallery[seed.name]>> ELSE <<>>) \o seed.samples
  IN  IF seed.samples = <<>> THEN gallery
      ELSE [h \in DOMAIN gallery \cup {seed.name} |->
              IF h = seed.name THEN Mean(stacked) ELSE gallery[h]]

Gallery(seeds) == FoldLeft(AddHost, [h \in {} |-> 0], seeds)

\* The one host whose centroid is near enough and nearer than any other by the margin.
HostOf(voice, gallery) ==
  LET clear(h) == /\ Similar(voice, gallery[h]) >= Threshold
                  /\ \A k \in DOMAIN gallery \ {h} :
                       Similar(voice, gallery[h]) - Similar(voice, gallery[k]) >= Margin
      hosts == {h \in DOMAIN gallery : clear(h)}
  IN  IF hosts = {} THEN 0 ELSE CHOOSE h \in hosts : TRUE

\* The labels the gallery recognizes by their voice samples, and the hosts they are.
HostLabels(segments, samples, gallery) ==
  LET heard == Labels(segments) \cap DOMAIN samples
  IN  [l \in {m \in heard : HostOf(samples[m], gallery) # 0} |-> HostOf(samples[l], gallery)]

-----------------------------------------------------------------------------
(* Names spoken *)

\* The first label in order of appearance that is another one's.
FirstOther(segments, label) ==
  LET i == FirstWhere(segments, LAMBDA s : s.speaker # label)
  IN  IF i = 0 THEN 0 ELSE segments[i].speaker

\* A label is called what it first calls itself; or else what the label it is the
\* first other one of calls its guest.
LabelNames(segments) ==
  LET said == Said(segments)
      self(l) == FirstWhere(said, LAMBDA u : u.speaker = l /\ SelfIntro[u.token] # 0)
      guest(l) == FirstWhere(said, LAMBDA u : /\ GuestIntro[u.token] # 0
                                              /\ FirstOther(segments, u.speaker) = l)
      named == {l \in Labels(segments) : self(l) # 0 \/ guest(l) # 0}
  IN  [l \in named |-> IF self(l) # 0 THEN SelfIntro[said[self(l)].token]
                                      ELSE GuestIntro[said[guest(l)].token]]

\* Names win over labels also where labels are names.
SpeakerNames(segments, labelsAreNames) ==
  LET mined == LabelNames(segments)
  IN  IF labelsAreNames
      THEN [l \in Labels(segments) |-> IF l \in DOMAIN mined THEN mined[l] ELSE l]
      ELSE mined

IntroNames(segments) ==
  LET said == Said(segments)
  IN  {GuestIntro[said[i].token] : i \in DOMAIN said} \ {0}

-----------------------------------------------------------------------------
(* Recurring guests *)

\* The label that talks most of those that no voice sample shows to be a host's.
InferGuestLabel(segments, hosts) ==
  LET others == Labels(segments) \ DOMAIN hosts
  IN  IF others = {} THEN 0
      ELSE CHOOSE l \in others : \A m \in others \ {l} :
             \/ TalkTime(segments, l) > TalkTime(segments, m)
             \/ TalkTime(segments, l) = TalkTime(segments, m) /\ l < m

\* The orders in which an episode's names may come out of two sets: those of the
\* metadata before those that are only spoken.
NameOrders(metadata, spoken) ==
  {p[1] \o p[2] : p \in SetToSeqs(metadata) \X SetToSeqs(spoken \ metadata)}

\* add_episode(): one candidate per name.  Candidates are kept for as long as the
\* resolver lives.
AddEpisode(candidates, episode, names, label) ==
  candidates \o [i \in DOMAIN names |->
                   [name |-> names[i], episode |-> episode, label |-> label]]

EpisodesOf(candidates, name) ==
  {candidates[i].episode : i \in {j \in DOMAIN candidates : candidates[j].name = name}}

\* MUTANT of Recurs: appearances are counted, not episodes.
RecursByAppearance(candidates, name) ==
  /\ Cardinality({j \in DOMAIN candidates : candidates[j].name = name}) >= MinAppearances
  /\ PersonQid[name] # NoQid

Recurs(candidates, name) ==
  /\ Cardinality(EpisodesOf(candidates, name)) >= MinAppearances
  /\ PersonQid[name] # NoQid

NoGuest == [name |-> 0, id |-> NoId, label |-> 0]

\* The guest an episode is given: of those that recur the one whose name was added
\* last, at the label of its first candidate in this episode.
GuestOf(candidates, episode) ==
  LET added(n) == FirstWhere(candidates, LAMBDA c : c.name = n)
      names == {candidates[i].name : i \in DOMAIN candidates}
      guests == {n \in names : /\ Recurs(candidates, n)
                               /\ episode \in EpisodesOf(candidates, n)}
      last == CHOOSE n \in guests : \A k \in guests : added(k) <= added(n)
      first == FirstWhere(candidates, LAMBDA c : c.name = last /\ c.episode = episode)
  IN  IF guests = {} THEN NoGuest
      ELSE [name |-> last, id |-> GuestId(PersonQid[last]),
            label |-> candidates[first].label]

-----------------------------------------------------------------------------
(* The chain *)

\* MUTANT of ResolveSpeakers: the guest comes before the host gallery.
ResolveGuestFirst(episode, segments, names, hosts, guest, fallback) ==
  [l \in Labels(segments) |->
     CASE l \in DOMAIN names -> NamedId(names[l])
       [] l \notin DOMAIN names /\ guest.label = l -> guest.id
       [] l \notin DOMAIN names /\ guest.label # l /\ l \in DOMAIN hosts -> HostId(hosts[l])
       [] OTHER -> IF fallback THEN FallbackId(episode, l) ELSE NoId]

\* A name spoken, or else a host's voice, or else the guest's label, or else an id of
\* this episode's own if the caller provides any.
ResolveSpeakers(episode, segments, names, hosts, guest, fallback) ==
  [l \in Labels(segments) |->
     CASE l \in DOMAIN names -> NamedId(names[l])
       [] l \notin DOMAIN names /\ l \in DOMAIN hosts -> HostId(hosts[l])
       [] l \notin DOMAIN names \cup DOMAIN hosts /\ guest.label = l -> guest.id
       [] OTHER -> IF fallback THEN FallbackId(episode, l) ELSE NoId]
=============================================================================
