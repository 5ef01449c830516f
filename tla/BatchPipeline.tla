----------------------------- MODULE BatchPipeline -----------------------------
(***************************************************************************)
(* Pipeline.run() of pipeline.py over batches of episodes, with the fetch  *)
(* that comes before it (ingestion/fetch.py), the caches the scripts wrap  *)
(* around transcription, and the hosted service's protocol inside it.      *)
(*                                                                         *)
(* One process runs one batch after another.  Whatever raises takes the    *)
(* whole batch with it.  The process may end at any time; what it has in   *)
(* memory is lost, the transcript cache is on disk.  Publishers may put    *)
(* other bytes under a URL at any time.                                    *)
(***************************************************************************)
EXTENDS Extraction, HostedTranscription

CONSTANTS Episode,        \* guids
          Url, Content,
          Published,      \* what a URL serves at first
          Republished,    \* what it may serve later
          Hears,          \* the raw results a backend may return for a content
          UrlOf,          \* the URL of an episode
          Input,          \* the caller's guest names, guest label and voice samples
          Answers,        \* bound: the candidates the model may answer a chunk with
          Setups,         \* bound: deployments, by what they inject and the batches they get
          MaxBatches,     \* bound: so many in a behaviour
          MaxRestarts,    \* bound: the process ends at most this often
          MinTalkPercent, MaxSegSeconds, NoContent

ASSUME PipelineAssumption ==
  /\ UrlOf \in [Episode -> Url]
  /\ Published \in [Url -> Content] /\ Republished \in [Url -> Content]
  /\ NoContent \notin Content \cup Url
  /\ Hears \in [Content -> SUBSET (HostedResult \cup LocalResult \cup TextResult)]
  /\ \A c \in Content : \A result \in Hears[c] :
       /\ result.kind = "local" => IsFiniteSet(result.turns)
       /\ result.kind = "text" => IsFiniteSet(result.roster)
  /\ \A e \in Episode :
       /\ Input[e].metadata \subseteq DOMAIN PersonQid /\ IsFiniteSet(Input[e].metadata)
       /\ Input[e].guestLabel \in Nat
  /\ \A t \in Token : GuestIntro[t] \in DOMAIN PersonQid \cup {0}
  /\ Answers \subseteq Seq(Item)
  /\ \A s \in Setups : s.batches \subseteq Seq(Episode)
  \* An episode that is fetched is transcribed by its URL, not as a file.
  /\ \A s \in Setups : s.files => ~s.fetches
  /\ MinTalkPercent \in Nat /\ MaxSegSeconds \in Nat
  /\ MaxBatches \in Nat /\ MaxRestarts \in Nat

VARIABLES
  setup,       \* what this deployment injects
  served,      \* what each URL serves now
  records,     \* _by_guid: the content each guid was fetched with
  disk,        \* cached transcripts by URL or content
  candidates,  \* what the guest resolver has been told
  pc, todo,    \* the stage of run(), and the episodes yet to be fetched
  episodes,    \* the batch: episodes with the hashes they were fetched with
  pos,         \* the one the stage is at
  keptAs,      \* the cache key of the transcript that is being made
  heard,       \* its transcript as the backend gave it, with the content it is of
  transcript,  \* the same pruned and cut
  labels,      \* its labels' speakers
  chunks, answered,   \* its chunks, and how many the model has answered
  nudged,      \* whether the model was told that its last reply was no JSON
  claims,      \* its claims so far
  runs,        \* the episodes done
  loaded,      \* the claims of the batch that went to the graph
  batches, restarts

perEpisode == <<keptAs, heard, transcript, labels, chunks, answered, nudged, claims>>
outside == <<setup, served, restarts>>
vars == <<call, setup, served, records, disk, candidates, pc, todo, episodes, pos,
          perEpisode, runs, loaded, batches, restarts>>

NoTranscript == [segments |-> <<>>, words |-> <<>>]
NotHeard == [of |-> NoContent, transcript |-> NoTranscript]
Nothing == [x \in {} |-> 0]
NoKey == NoContent

Stages == {"idle", "fetch", "guests", "transcribe", "chunk", "extract", "load"}

TypeOK ==
  /\ CallTypeOK
  /\ setup \in Setups /\ served \in [Url -> Content]
  /\ DOMAIN records \subseteq Episode /\ DOMAIN disk \subseteq Url \cup Content
  /\ pc \in Stages
  /\ pos \in 1..(Len(episodes) + 1)
  /\ keptAs \in Url \cup Content \cup {NoKey}
  /\ heard.of \in Content \cup {NoContent}
  /\ DOMAIN labels \subseteq Labels(transcript.segments)
  /\ \A i \in DOMAIN chunks :
       chunks[i].first \in 1..chunks[i].last /\ chunks[i].last <= Len(transcript.segments)
  /\ answered \in 0..Len(chunks) /\ nudged \in BOOLEAN
  /\ batches \in 0..MaxBatches /\ restarts \in 0..MaxRestarts

Init ==
  /\ CallInit
  /\ setup \in Setups
  /\ served = Published
  /\ records = Nothing /\ disk = Nothing
  /\ candidates = <<>>
  /\ pc = "idle" /\ todo = <<>> /\ episodes = <<>> /\ pos = 1
  /\ keptAs = NoKey
  /\ heard = NotHeard /\ transcript = NoTranscript /\ labels = Nothing
  /\ chunks = <<>> /\ answered = 0 /\ nudged = FALSE /\ claims = <<>>
  /\ runs = <<>> /\ loaded = <<>>
  /\ batches = 0 /\ restarts = 0

\* MUTANT of Cleared: the count of answers is kept from one episode to the next.
ClearedButAnswers ==
  /\ keptAs' = NoKey
  /\ heard' = NotHeard /\ transcript' = NoTranscript /\ labels' = Nothing
  /\ chunks' = <<>> /\ nudged' = FALSE /\ claims' = <<>> /\ UNCHANGED answered

\* Nothing is left of the episode a stage was at.
Cleared ==
  /\ keptAs' = NoKey
  /\ heard' = NotHeard /\ transcript' = NoTranscript /\ labels' = Nothing
  /\ chunks' = <<>> /\ answered' = 0 /\ nudged' = FALSE /\ claims' = <<>>

-----------------------------------------------------------------------------
(* The batch, and its audio *)

Begin(batch) ==
  /\ pc = "idle" /\ batches < MaxBatches
  /\ batches' = batches + 1
  /\ pc' = "fetch" /\ todo' = batch
  /\ episodes' = <<>> /\ pos' = 1 /\ runs' = <<>> /\ loaded' = <<>>
  /\ UNCHANGED <<call, records, disk, candidates, perEpisode, outside>>

Entered(id, hash) == Append(episodes, [id |-> id, hash |-> hash])

\* The next episode's enclosure.  A guid that was fetched before is not fetched again,
\* whatever its URL serves now.
Fetch ==
  /\ pc = "fetch" /\ todo # <<>> /\ setup.fetches
  /\ LET id == Head(todo)
         content == IF id \in DOMAIN records THEN records[id] ELSE served[UrlOf[id]]
     IN  /\ records' = [e \in DOMAIN records \cup {id} |->
                          IF e = id THEN content ELSE records[e]]
         /\ episodes' = Entered(id, content)
  /\ todo' = Tail(todo)
  /\ UNCHANGED <<call, disk, candidates, pc, pos, perEpisode, runs, loaded, batches, outside>>

\* A fetch that fails fails its job only; the batch goes on without the episode.
FetchFails ==
  /\ pc = "fetch" /\ todo # <<>> /\ setup.fetches
  /\ Head(todo) \notin DOMAIN records
  /\ todo' = Tail(todo)
  /\ UNCHANGED <<call, records, disk, candidates, pc, episodes, pos, perEpisode, runs,
                 loaded, batches, outside>>

\* Without a fetcher the episode has no hash.
NotFetched ==
  /\ pc = "fetch" /\ todo # <<>> /\ ~setup.fetches
  /\ episodes' = Entered(Head(todo), NoContent)
  /\ todo' = Tail(todo)
  /\ UNCHANGED <<call, records, disk, candidates, pc, pos, perEpisode, runs, loaded,
                 batches, outside>>

\* Where run() goes with its episodes: to the guests, if it has a resolver for them.
AfterFetch == IF episodes = <<>> THEN "load"
              ELSE IF setup.guests THEN "guests" ELSE "transcribe"

RunBegins ==
  /\ pc = "fetch" /\ todo = <<>>
  /\ pc' = AfterFetch
  /\ UNCHANGED <<call, records, disk, candidates, todo, episodes, pos, perEpisode, runs,
                 loaded, batches, outside>>

-----------------------------------------------------------------------------
(* Transcription, which the guests and the run ask for separately *)

Transcribing == pc \in {"guests", "transcribe"} /\ heard = NotHeard

CurrentUrl == UrlOf[episodes[pos].id]

TranscriptOf(result) ==
  CASE result.kind = "hosted" -> HostedTranscript(result)
    [] result.kind = "local"  -> LocalTranscript(result)
    [] OTHER                  -> TextTranscript(result)

\* MUTANT of CacheKey: all URLs have one entry.
OneCacheKey(url) == CHOOSE u \in Url : TRUE

\* A cache of files on this machine goes by what is in them, any other by URL.
CacheKey(url) == IF setup.files THEN served[url] ELSE url

\* The backend returns: what it heard is kept under the key the call began with.
Hear(result) ==
  /\ heard' = [of |-> served[CurrentUrl], transcript |-> TranscriptOf(result)]
  /\ disk' = IF setup.cached
             THEN [u \in DOMAIN disk \cup {keptAs} |->
                     IF u = keptAs THEN heard' ELSE disk[u]]
             ELSE disk
  /\ keptAs' = NoKey

Cached == setup.cached /\ CacheKey(CurrentUrl) \in DOMAIN disk

\* transcribe() is called: it takes the transcript that was made of this URL once...
TranscribeCached ==
  /\ Transcribing /\ keptAs = NoKey /\ Cached
  /\ heard' = disk[CacheKey(CurrentUrl)]
  /\ UNCHANGED <<call, keptAs, records, disk, candidates, pc, todo, episodes, pos,
                 transcript, labels, chunks, answered, nudged, claims, runs, loaded,
                 batches, outside>>

\* ... or remembers the key, and asks the backend.
TranscribeAnew ==
  /\ Transcribing /\ keptAs = NoKey /\ ~Cached
  /\ keptAs' = CacheKey(CurrentUrl)
  /\ UNCHANGED <<call, heard, records, disk, candidates, pc, todo, episodes, pos,
                 transcript, labels, chunks, answered, nudged, claims, runs, loaded,
                 batches, outside>>

Uncached == Transcribing /\ keptAs # NoKey

\* A backend that answers in one call: the local one, or a published transcript.
TranscribeAtOnce(result) ==
  /\ Uncached /\ setup.backend # "hosted"
  /\ Hear(result)
  /\ UNCHANGED <<call, records, candidates, pc, todo, episodes, pos, transcript, labels,
                 chunks, answered, nudged, claims, runs, loaded, batches, outside>>

\* The hosted service: a step of the call, and its end.  What it hears is what the URL
\* serves when the call ends, not what was fetched.
TranscribeHosted ==
  /\ Uncached /\ setup.backend = "hosted"
  /\ CallStep
  /\ UNCHANGED <<setup, served, records, disk, candidates, pc, todo, episodes, pos,
                 perEpisode, runs, loaded, batches, restarts>>

HostedAnswers(result) ==
  /\ Uncached /\ call.at = "completed"
  /\ Hear(result)
  /\ call' = NoCall
  /\ UNCHANGED <<records, candidates, pc, todo, episodes, pos, transcript, labels,
                 chunks, answered, nudged, claims, runs, loaded, batches, outside>>

-----------------------------------------------------------------------------
(* Guests: every episode of the batch, before any is run *)

HostsOf(segments, id) == HostLabels(segments, Input[id].samples, Gallery(setup.seeds))

\* The label is that of the transcript as it is now, neither pruned nor cut.
AddGuests(names) ==
  /\ pc = "guests" /\ heard # NotHeard
  /\ LET id == episodes[pos].id
         segments == heard.transcript.segments
         label == IF Input[id].guestLabel # 0 THEN Input[id].guestLabel
                  ELSE InferGuestLabel(segments, HostsOf(segments, id))
     IN  candidates' = AddEpisode(candidates, id, names, label)
  /\ Cleared
  /\ IF pos = Len(episodes) THEN pc' = "transcribe" /\ pos' = 1
                            ELSE pc' = pc /\ pos' = pos + 1
  /\ UNCHANGED <<call, records, disk, todo, episodes, runs, loaded, batches, outside>>

-----------------------------------------------------------------------------
(* One episode after the other *)

Shaped(raw) ==
  LET pruned == DropLowTalkTime(raw, MinTalkPercent)
  IN  IF setup.resegment THEN Resegmented(pruned, MaxSegSeconds) ELSE pruned

\* Pruned, cut into sentences, and its labels resolved.
Shape ==
  /\ pc = "transcribe" /\ heard # NotHeard
  /\ transcript' = Shaped(heard.transcript)
  /\ LET id == episodes[pos].id
         segments == transcript'.segments
         names == IF setup.names THEN SpeakerNames(segments, setup.labelsAreNames) ELSE Nothing
     IN  labels' = ResolveSpeakers(id, segments, names, HostsOf(segments, id),
                                   GuestOf(candidates, id), setup.fallback)
  /\ pc' = IF transcript'.segments = <<>> THEN "extract" ELSE "chunk"
  /\ UNCHANGED <<call, records, disk, candidates, todo, episodes, pos, keptAs, heard,
                 chunks, answered, nudged, claims, runs, loaded, batches, outside>>

NextChunk ==
  /\ pc = "chunk"
  /\ LET segments == transcript.segments
         first == IF chunks = <<>> THEN 1
                  ELSE NextFirst(Last(chunks).first, Last(chunks).last)
         last == ChunkLast(segments, first)
     IN  /\ chunks' = Append(chunks, [first |-> first, last |-> last])
         /\ pc' = IF last = Len(segments) THEN "extract" ELSE "chunk"
  /\ UNCHANGED <<call, records, disk, candidates, todo, episodes, pos, keptAs, heard,
                 transcript, labels, answered, nudged, claims, runs, loaded, batches, outside>>

\* The model answers about the next chunk, and some of its candidates are kept.
Extract(items) ==
  /\ pc = "extract" /\ answered < Len(chunks)
  /\ claims' = claims \o BuildClaims(episodes[pos].id, transcript.segments,
                                     chunks[answered + 1], items)
  /\ answered' = answered + 1 /\ nudged' = FALSE
  /\ UNCHANGED <<call, records, disk, candidates, pc, todo, episodes, pos, keptAs, heard,
                 transcript, labels, chunks, runs, loaded, batches, outside>>

\* A reply that is no JSON object: the model is asked once more.
Nudge ==
  /\ pc = "extract" /\ answered < Len(chunks) /\ ~nudged
  /\ nudged' = TRUE
  /\ UNCHANGED <<call, records, disk, candidates, pc, todo, episodes, pos, keptAs, heard,
                 transcript, labels, chunks, answered, claims, runs, loaded, batches, outside>>

Stamped(claim) == [claim EXCEPT !.speaker = labels[claim.label]]

\* MUTANT of Attributed: speakers are stamped before the labels are corrected.
StampedFirst(claim) ==
  IF setup.ground THEN GroundClaim(Stamped(claim), transcript.segments) ELSE Stamped(claim)

\* Grounded if that is asked for, then stamped with the speaker of its label.
Attributed(claim) ==
  Stamped(IF setup.ground THEN GroundClaim(claim, transcript.segments) ELSE claim)

FinishEpisode ==
  /\ pc = "extract" /\ answered = Len(chunks)
  /\ runs' = Append(runs, [id |-> episodes[pos].id, heard |-> heard,
                           hash |-> episodes[pos].hash, transcript |-> transcript,
                           labels |-> labels,
                           claims |-> [i \in DOMAIN claims |-> Attributed(claims[i])]])
  /\ Cleared
  /\ pos' = pos + 1
  /\ pc' = IF pos = Len(episodes) THEN "load" ELSE "transcribe"
  /\ UNCHANGED <<call, records, disk, candidates, todo, episodes, loaded, batches, outside>>

-----------------------------------------------------------------------------
(* The batch as a whole *)

AllClaims == FlattenSeq([i \in DOMAIN runs |-> runs[i].claims])

\* How many claims the runs before the i-th have.
ClaimsBefore(i) ==
  SumFunctionOnSet([j \in DOMAIN runs |-> Len(runs[j].claims)], 1..(i - 1))

Loadable(claim) == claim.speaker # NoId /\ claim.canonical # NoSubject

\* The ids rows of the persistent store may have: that of the form they were made for.
RowIds == {[type |-> TypeOf[form], seed |-> form] : form \in Subject}

\* The claims with the ids of their subjects: those the batch's own clusters have, or
\* the rows an injected subject_resolver finds or makes, one for each form.  Which
\* rows these are is EntityResolver's matter; here they are any.
Resolutions(batch) ==
  IF setup.resolver
  THEN {StampSubjects(batch, ids) : ids \in [Subject -> RowIds]}
  ELSE {ResolveSubjects(batch)}

\* Subjects of the whole batch are resolved at once, the runs get their claims back,
\* and what has a speaker and a subject is loaded in one call.
Load ==
  /\ pc = "load"
  /\ \E resolved \in Resolutions(AllClaims) :
       LET slice(i) == SubSeq(resolved, ClaimsBefore(i) + 1,
                              Smaller(ClaimsBefore(i) + Len(runs[i].claims), Len(resolved)))
       IN  /\ runs' = [i \in DOMAIN runs |-> [runs[i] EXCEPT !.claims = slice(i)]]
           /\ loaded' = Filter(resolved, Loadable)
  /\ pc' = "idle"
  /\ UNCHANGED <<call, records, disk, candidates, todo, episodes, pos, perEpisode,
                 batches, outside>>

Lost ==
  /\ pc' = "idle" /\ todo' = <<>> /\ episodes' = <<>> /\ pos' = 1
  /\ Cleared
  /\ runs' = <<>> /\ loaded' = <<>>
  /\ call' = NoCall

\* Something raises: the service, a parser, a second bad reply, the store.
RunRaises ==
  /\ \/ call.at = "raised"
     \/ Uncached /\ setup.backend # "hosted"
     \/ pc = "extract" /\ answered < Len(chunks)
     \/ pc = "load"
  /\ Lost
  /\ UNCHANGED <<records, disk, candidates, batches, outside>>

\* The process ends, and another one starts.
Restart ==
  /\ restarts < MaxRestarts
  /\ restarts' = restarts + 1
  /\ Lost
  /\ records' = Nothing /\ candidates' = <<>>
  /\ UNCHANGED <<disk, batches, setup, served>>

Republish(url) ==
  /\ served[url] # Republished[url]
  /\ served' = [served EXCEPT ![url] = Republished[url]]
  /\ UNCHANGED <<call, setup, records, disk, candidates, pc, todo, episodes, pos,
                 perEpisode, runs, loaded, batches, restarts>>

\* Bound: no more batches.
Done ==
  /\ pc = "idle" /\ batches = MaxBatches
  /\ UNCHANGED vars

RunStep ==
  \/ Fetch \/ FetchFails \/ NotFetched \/ RunBegins
  \/ TranscribeCached \/ TranscribeAnew
  \/ \E result \in UNION {Hears[c] : c \in Content} :
       /\ Transcribing /\ result \in Hears[served[CurrentUrl]]
       /\ result.kind = setup.backend
       /\ TranscribeAtOnce(result) \/ HostedAnswers(result)
  \/ TranscribeHosted
  \/ /\ pc = "guests" /\ heard # NotHeard
     /\ \E names \in NameOrders(Input[episodes[pos].id].metadata,
                                IntroNames(heard.transcript.segments)) : AddGuests(names)
  \/ Shape \/ NextChunk
  \/ \E items \in Answers : Extract(items)
  \/ Nudge \/ FinishEpisode \/ Load
  \/ RunRaises

Next ==
  \/ \E batch \in setup.batches : Begin(batch)
  \/ RunStep
  \/ Restart
  \/ \E url \in Url : Republish(url)
  \/ Done

Spec == Init /\ [][Next]_vars

\* Weak fairness of RunStep: while a batch is under way some step of it is possible (or
\* there would be a deadlock), and a step that changes nothing outside is one of it.
Fairness == <>[](pc # "idle") => []<><<UNCHANGED outside>>_vars

FairSpec == Spec /\ Fairness

-----------------------------------------------------------------------------
(* Properties *)

\* Chunks leave no segment out and each starts later than the one before, whatever
\* the sizes of segments, the budget and the overlap; only a lone segment is too long.
ChunksCover ==
  /\ \A i \in DOMAIN chunks :
       /\ i = 1 => chunks[i].first = 1
       /\ i > 1 => /\ chunks[i].first > chunks[i - 1].first
                   /\ chunks[i].first <= chunks[i - 1].last + 1
       /\ \/ Chars(transcript.segments, chunks[i].first, chunks[i].last) <= MaxChars
          \/ chunks[i].first = chunks[i].last
  /\ pc = "extract" /\ transcript.segments # <<>>
       => chunks[Len(chunks)].last = Len(transcript.segments)

\* "The canonical id derives from the grounded label, not the model's guess": a claim
\* whose evidence is in the episode has the times of a segment that holds it, and is
\* attributed to the speaker of that segment, also after the batch was resolved.
SpeakerOfEvidence ==
  setup.ground =>
    \A i \in DOMAIN runs : \A j \in DOMAIN runs[i].claims :
      LET claim == runs[i].claims[j]
          matching == {k \in DOMAIN runs[i].transcript.segments :
                         MatchScore(claim.object, runs[i].transcript.segments[k])
                           >= MatchPercent}
          held(seg) == /\ seg.t_start = claim.t_start /\ seg.t_end = claim.t_end
                       /\ claim.speaker = runs[i].labels[seg.speaker]
      IN  matching # {} => \E k \in matching : held(runs[i].transcript.segments[k])

\* "The per-episode runs and the batch agree": every run has the claims of its own
\* episode, the graph got all of them that have a speaker, in order, and one subject of
\* a batch has one id.
RunsAgree ==
  /\ \A i \in DOMAIN runs : \A j \in DOMAIN runs[i].claims :
       runs[i].claims[j].episode = runs[i].id
  /\ pc = "idle" => loaded = Filter(AllClaims, Loadable)
  /\ \A i, j \in DOMAIN loaded :
       loaded[i].subject = loaded[j].subject => loaded[i].canonical = loaded[j].canonical

\* Nobody is given a guest's id that lasts across episodes on the strength of one
\* episode, however often it comes and through however many batches.
GuestsRecur ==
  \A i \in DOMAIN loaded :
    loaded[i].speaker[1] = "guest" =>
      \E n \in DOMAIN PersonQid :
        /\ GuestId(PersonQid[n]) = loaded[i].speaker
        /\ \E e, f \in EpisodesOf(candidates, n) : e # f /\ loaded[i].episode = e

\* A guest's id goes to no label that a host's voice or a spoken name identifies; and
\* where the label was inferred, on a transcript that is kept by its URL and is hence the
\* same in every batch, it goes to the one that talks most of those that are not hosts.
GuestTurns ==
  \A i \in DOMAIN runs : \A l \in DOMAIN runs[i].labels :
    LET heardIn == runs[i].heard.transcript.segments
        segments == runs[i].transcript.segments
    IN  runs[i].labels[l][1] = "guest" =>
          /\ l \notin DOMAIN HostsOf(segments, runs[i].id)
          /\ setup.names => l \notin DOMAIN LabelNames(segments)
          /\ setup.cached /\ ~setup.files /\ Input[runs[i].id].guestLabel = 0 =>
               \A m \in Labels(heardIn) \ DOMAIN HostsOf(heardIn, runs[i].id) :
                 TalkTime(heardIn, m) <= TalkTime(heardIn, l)

\* Who is left of an episode: those with their share of the talk, if utterances are
\* kept; everyone a word is ascribed to, those that were pruned too, if segments are
\* rebuilt from words.
SpeakersLeft ==
  \A i \in DOMAIN runs :
    LET raw == runs[i].heard.transcript
        time(l) == TalkTime(raw.segments, l)
        total == TotalTalkTime(raw.segments)
    IN  Labels(runs[i].transcript.segments) =
          IF setup.resegment /\ raw.words # <<>>
          THEN {WordLabel(raw.words[k]) : k \in DOMAIN raw.words}
          ELSE {l \in Labels(raw.segments) : 100 * time(l) >= MinTalkPercent * total}

\* An episode is transcribed from the audio its hash was taken of, unless the publisher
\* has put something else under its URL in between.
HashedIsHeard ==
  \A i \in DOMAIN runs :
    LET run == runs[i]
    IN  run.hash # NoContent /\ run.hash # run.heard.of
          => served[UrlOf[run.id]] # Published[UrlOf[run.id]]

\* A batch ends, loaded or lost: no call is polled for ever, and no chunk is a dead end.
BatchEnds == pc # "idle" ~> pc = "idle"
=============================================================================
