# Verification of the dLogos claim graph

dLogos turns podcast episodes into a graph of claims: who said what about what, when,
and who disputes it.  The modules here describe the parts of the program that keep
state across calls, processes and runs.  TLC checks them on small instances, TLAPS
proves the properties that matter most for instances of any size.  Paths are relative
to the repository, `src/dlogos/` being its Python package.

- [The system](#the-system)
- [Modules and code](#modules-and-code)
- [Runs](#runs)
- [Where the code and its documents disagree](#where-the-code-and-its-documents-disagree)
- [Proofs](#proofs)
- [What is not modelled](#what-is-not-modelled)
- [Plan](#plan)

## The system

An episode takes this way through the program:

    feed -> job queue -> fetch -> transcribe, diarize -> name the speakers
         -> chunk, extract claims, ground them -> resolve entities -> load the graph
         -> retrieval, consensus, UI

The pipeline runs in Python processes without threads, and awaits one call at a time;
only the evaluation gathers several, and its arms change nothing that they share.
Concurrency comes from several such processes on one SQLite file or one Neo4j server,
from crashes and restarts, from services that answer late or not at all, and from the
world outside: a publisher replaces a file, a feed gets an item, somebody corrects the
graph while a surface built over it is still being asked.

| Component | State | Operations | What is hard | What makes it correct |
|---|---|---|---|---|
| Job queue, `ingestion/queue.py` | one row per episode: status, attempts, lease deadline, place in the order | `enqueue`, `lease`, `ack`, `nack` | processes between look-up and insert, leases that run out under a worker, an implicit transaction left open by an exception | one job per key; a lease is respected until its deadline; first come first served; the backends keep the interface's contract |
| Ingest, `pipeline.py` (`ingest`, `run_from_manifest`) | the batch a process collects, in memory | poll, enqueue, drain, fetch, run | a crash or an exception between `ack` and load; a fetch longer than its lease; two pollers | nothing is forgotten by the queue; no more runs than leases; an episode a process has in hand is settled |
| Batch run, `pipeline.py` (`run`) | the episodes of the batch with what each stage made of them | transcribe, prune, resegment, name speakers, chunk, extract, ground, resolve subjects, load | an error of one chunk ends the batch; two transcriptions of one episode; labels inferred before pruning and used after; claims given back by position | claims are those of who said them; runs and graph agree; every batch ends |
| Speaker identity, `speakers/` | gallery of voices; guest candidates across batches | seed hosts, match, mine names, name guests | order of seeds, of names and of batches | a guest who gets a lasting id recurs, and is not a host |
| Extraction, `extraction/` | none | chunk, extract with one retry, ground | overlap and budget; evidence said twice | chunks cover the transcript; evidence has the speaker and the times of where it is |
| Transcription, `asr/` | job at the hosted service; a cache on disk | upload, submit, poll; shape utterances, words, turns | deadline against a late answer; labels that differ between calls | ends, with the answer if there was one in time |
| Audio fetch, `ingestion/fetch.py` | records by GUID | fetch | a file replaced after it was fetched | what is heard is what was hashed |
| Entity resolution, `resolution/` | canonical entities, the linker's cache | resolve a batch form by form, look up, merge | lookups that fail and are cached, rows whose QID, name and type change, a crash between two forms | one entity per QID and type; ids do not dangle; the same form, the same id |
| Claim relations, `graph/relations.py` | none | derive stance and supersession edges over a batch | ties in time, duplicates | supersession follows time |
| Graph loader and store, `graph/loader.py`, `fake_store.py`, `temporal.py` | nodes; edges with the interval in which they hold | load a batch or a claim, invalidate, query as of a time | reloading what was invalidated, undated episodes | the graph hangs together, history is kept |
| Neo4j store, `graph/neo4j_store.py` | the same, on a server | the same, a load in two statements | a load that dies between its statements; what the driver makes of a record | the edges stored mirror the fake store's |
| Retrieval, `retrieval/hybrid.py`, `naive_rag.py` | none, over a snapshot | rank by meaning and by words, traverse, fuse; windows of the naive arm | claims that a signal does not rank; ties; a map of labels for all episodes | no signal is lost in the fusion |
| Consensus, `retrieval/consensus.py` | none | buckets, weighted means, direction | signs, weights near nothing, a claim twice | no claim lost or counted twice; no side taken |
| MCP server, `mcp/server.py` | the surface: a snapshot of the store, beside the claims of one run | build, five tools | the store goes on; search and consensus have different sources | what is counted can be found |
| Evaluation, `eval/` | answers, scores and pairs under way | run arms, blind, check citations, score, tally, rate twice | shuffled labels; overlapping speech | every arm has the score of its own answer |

The queue connects processes; the batch connects `ingest` and `run`; the canonical
store connects the batches of all runs, since the ids it gives out end up in the ids
of claims and so of edges; the graph is written by the loader only, and invalidated by
its callers; the surface connects the graph, and the claims of the last run, to the
tools and to two of the four arms.

`PROJECT.json` lists all components, those without a module too, and under `hazards`
the places in the code where these things bite, with the properties about each.  Where a
hazard has no property its note says why: most often the code does go wrong there, and
no document of the repository says otherwise.

## Modules and code

    JobQueueContract      what the abstract class JobQueue promises
      SqliteQueue           SQLiteJobQueue, several processes     implements the contract
      JobQueue              InMemoryJobQueue, calls as operators
        Ingest                ingest and run_from_manifest        its queue keeps the contract
    ClaimRelations        graph/relations.py, pure
      GraphStore            loader, FakeGraphStore, temporal.py
        Neo4jStore            Neo4jStore beside FakeGraphStore
    EntityResolver        incremental.py, cascade.py, wikidata.py, canonical_store.py
    Lists                 Python's comprehensions and sorted(), pure
      TranscriptShaping, Retrieval and Consensus are written with it
    TranscriptShaping     what backends and run() make of a transcript, pure
      SpeakerIdentity       gallery, guests, names, the fallback chain, pure
        Extraction            chunks, candidates, grounding, subjects, pure
          BatchPipeline         run(), with fetch, caches and the hosted call
    HostedTranscription   one call of the hosted service      used by BatchPipeline
    Retrieval             hybrid.py over a snapshot, naive_rag.py, pure
      Evaluation            citation check, rubric, blinding, tallies, agreement, pure
    Consensus             consensus.py and belief histories, pure
    Serving               store, surface, tools and evaluations: composes GraphStore,
                          Consensus and Evaluation

`*Proofs` modules hold the theorems, `MC*` modules the values for TLC.  A definition
whose name ends a comment beginning with `MUTANT of` is a wrong version of the one that
follows it; nothing uses it.  It documents which mistake in the code a property notices.

**JobQueueContract** is the specification of a queue as its callers may think of it:
under each key one job, which is stored once, claimed for at most `LeaseSeconds`, and
settled.  A deadline is represented by the time left until it, which makes the states
finite while time goes on.

**SqliteQueue** has a step for each statement that another connection can come
before.  `enqueue` is `LookUp`, `ReadSeq` and `Insert` or `InsertLosesRace`.  `lease`
reads the time (`ReadClock`) before it opens its immediate transaction (`ClaimOldest`,
`ClaimNothing`).  `ack` and `nack` are one statement each (`Settle`).  The `sqlite3`
module opens a transaction before an INSERT; when the INSERT fails, `commit()` is never
reached, so the connection keeps the write lock: `writer`.  Other writers wait for it
or get "database is locked" (`Busy`).  A process may end anywhere and be replaced
(`Restart`); that rolls back its transaction.  `rows[i].seen` and `rows[i].stale` are
history and guard nothing.  Payloads are left out.  A look-up that finds its key changes
nothing, and is no step.  `ack` and `nack` are called for a job the process got from
`lease()` and has not settled yet, as the callers in `pipeline.py` do, however late.

**JobQueue** is the in-memory queue.  Job ids are fresh UUIDs kept one-to-one with
keys, so the key stands for both.  **Ingest** composes it with any number of processes
that poll (`Poll`, `EnqueueItem`, `EnqueuedAll`), drain (`Lease`, `FetchOk`,
`FetchFails`, `StartRun`) and run (`Load`, `RunRaises`).  Its queue is durable and
atomic; that the table of SqliteQueue is such a queue is what `KeepsContract` of
SqliteQueue says.  A poll gets a window of the feed (`RecentEpisodes`): of the items
later than `since`, any time, the newest `MaxEpisodes`.  An item that newer ones push out
of the window between two polls is never enqueued, and no property says it is.  `run()`
is one step, which loads the whole batch or, when any stage raises, nothing.  That is its shape in the code: the load is its last stage.  Nothing in
the repository starts a process again: `Poll` may happen, and need not.

**ClaimRelations** gives, for a batch, the edges that `stance_relation_edges` and
`supersession_edges` derive.  Claim ids are numbers, because ties are broken by the
order of ids; the speaker, subject and episode are functions of the id, because the id
is a hash of them.  Stance and sentiment are not in the hash: a claim's sign is given
per load.  Of `claim_polarity` only the sign is ever looked at.

**GraphStore** has a step per call of the store.  `BulkLoad` and `LoadClaim` are the
loader's two entry points with everything they do to the store, `Invalidate` is the
call that changes something (on an unknown or dead edge it does nothing), `Tick` is the
clock, which is the event time of episodes without a date.  An edge id is a hash of
type and ends, which `EdgeKey` stands for.  Aliases of an entity are named by the claims
that use them.  `AnswerAsOf` and `CurrentAnswer` are the temporal part of `query`.

**Neo4jStore** gives the same calls to both stores.  A load is `WriteNodes` and then
`WriteEdges`; between the two another process may invalidate an edge, or the load ends
(`LoadDies`).  The fake store gets the call when it returns.  Statements of the server
are atomic.  `MergedEdge` is the SET clause of the edge statement, `Matched` its two
MATCH clauses.  A query is `AssertsRows` (the rows the server returns), `RecordData` (what
the driver's `record.data()` makes of them: a relationship becomes a triple), `NodeProps`
and the test of liveness (`NeoAnswerAsOf`, `NeoCurrentAnswer`).  That conversion drops
every claim, as `neo4j_query` shows, so the other runs are about the stored edges, which
the `edges` accessor reads whole (`properties(r)`), and not about what `query()` answers.

**EntityResolver** resolves forms (a type and a normalized name) one after the other,
each with its own commit.  `Anchors` is what the Wikidata linker may say of a form: what
its cache has, or the answer, or nothing when the search fails, which is cached like an
answer.  `Resolved` is the cascade: by QID, by name or alias, by similarity, with an
adjudicating model that may answer anything, or a new id.  `Merged` is the upsert.
Similarities are a constant, `Score`, between names: the embedding kept in a row is that
of its canonical name.

**TranscriptShaping** holds what is done to transcripts: the hosted service's utterances
and words, whisperX's segments with the diarization's turns (the speaker with the most
overlap), published transcripts whose labels are spelled out to names of the roster, the
bar on talk time, and segments rebuilt from words.  A *token* is what is said in one go;
a text is a sequence of tokens, a word is one token with a time and a speaker.  Labels
and names are numbers in alphabetical order, since ties go by it.

**SpeakerIdentity** holds who the labels are.  `Gallery` averages the seeds the way
`HostGallery` does, `HostLabels` matches voices with threshold and margin,
`InferGuestLabel` takes the most talkative label that is no host, `AddEpisode` and
`GuestOf` are the guest resolver's candidates, `LabelNames` and `SpeakerNames` mine names
from introductions, and `ResolveSpeakers` is the order in which `_resolve_speakers` asks
them.  Voiceprints are points on a line.

**Extraction** holds the windows of `chunk_segments` (`ChunkLast`, `NextFirst`), the
candidates `BuildClaims` lets through, `GroundClaim`, and `ResolveSubjects`, the
clustering of one batch's subjects around seeds, the longest form first.

**HostedTranscription** is one call: upload, submit, and rounds of poll and sleep.  When
the job gets ready is settled when it is submitted; every request takes up to
`MaxLatency`, and the service looks at the job somewhere in between.

**BatchPipeline** is `run()` with a step for whatever can be interrupted, fail or change
what is read: fetching an episode (`Fetch`, `FetchFails`, `NotFetched`), the guests'
pass over all episodes (`AddGuests`), the run's own transcription (`TranscribeCached`,
`TranscribeAtOnce`, `TranscribeHosted` with `HostedAnswers`), `Shape` (prune, resegment,
resolve speakers), a chunk at a time (`NextChunk`), a reply at a time (`Extract`,
`Nudge`), `FinishEpisode` (ground and stamp), and `Load`, which resolves the subjects of
the whole batch, gives the runs their claims back by position, and loads.  Subjects get
the ids of the batch's own clusters, or, where a `subject_resolver` is injected, those of
any rows of the persistent store, one for each form (`Resolutions`): which rows is
EntityResolver's matter.  A transcription that is not in the cache takes its key before it
asks the backend (`TranscribeAnew`), and what it hears is kept under that key.  `RunRaises`
and `Restart` lose what is in memory; `Republish` puts another file under a URL.  A
deployment is a record in `Setups`: the parts of `PipelineDeps` are injected, and the
records are what the scripts and `pipeline.py` combine.  Guests and the run ask for the
transcript separately, so without a cache one episode may be heard twice with the labels
swapped.

**Retrieval**, **Consensus** and **Evaluation** are the algorithms that read.  A cosine,
the words of a text and the rating of an answer are constants; ranking, fusion,
traversal, windows, buckets, means, directions, citation checks, blinding, tallies and
Cohen's kappa are computed, in fractions where the code has floats.

**Serving** puts them around GraphStore.  `LoadRun` is the end of a run: all its claims go
to the graph, and the list is handed on.  `BuildSurface` is `build_retrieval_surface`: for
search the current answer of the store with its adjacency, for consensus the claims of
that one run.  After that the store goes on (`LoadRun`, `Correct`, `TimePasses`) and the
surface does not.  `UseTool` is a call of one of the five tools; `StartEvaluation`,
`RunArms`, `ScoreQuery` and `RateTwice` are the evaluation, which any arm or rater may
end (`EvaluationFails`).  The second rater scores answers the arms gave a second time, and
the code pairs the totals by label and never unblinds them: the arm that goes with a pair
in the model (`armOf`) is a ghost there, so that `ScoredAsAnswered` can say whose answer
the two totals are of.

## Runs

All runs use two workers and end within a minute.

| Run | Module | Distinct states | Question |
|---|---|---|---|
| `sqlite_queue` | MCSqliteQueue | 144,061 | Is the table one queue, whatever several processes do to it at once? |
| `ingest` | MCIngest | 298,911 | Is every episode in hand accounted for and settled, with crashes and expired leases? |
| `graph_store` | MCGraphStore | 32,615 | Is the graph whole and its history kept over repeated loads? |
| `neo4j_store` | MCNeo4jStore | 59,741 | Does what Neo4j stores say what the fake store answers? |
| `entity_resolver` | MCEntityResolver | 245,540 | Are entities unique and ids good, with failures and restarts? |
| `batch_pipeline` | MCBatchPipeline | 105,832 | Do claims, speakers, hashes and runs belong together, whatever is injected, fails or changes, and does every batch end? |
| `serving` | MCServing | 12,945 | Is what is ranked, counted, told and scored what was loaded and answered? |
| `enqueue_race`, `double_process`, `superseded`, `neo4j_query`, `entity_stable` | | | Five statements of the documents that the code does not keep; see below. |

**`sqlite_queue`.**  `OneRowPerKey`: concurrent enqueues leave one row.
`LeaseRespected`: a worker whose deadline has not passed still has its job, unless a
worker whose own lease was given away settled it; the exception is the code's, since
`ack` does not ask who leases the job.  `ServesInOrder`: numbers are read outside the
inserting transaction, so two jobs may share one; all the same no job is claimed before
one whose enqueue had committed when this one was numbered.  `KeepsContract`: each step
of the table is a call of the contract, or nothing.  *Bounds:* two processes and two
keys are the least with which calls interleave and jobs compete; the clock reaches 3
with leases of 1, so that a lease runs out, the job is leased again, and that lease runs
out; two attempts allow a second holder.  Processes and keys are symmetric: nothing
tells one from another.

**`ingest`.**  `AckedIsAccounted`: a job that is done has its episode in a batch, in
the graph, or lost with a batch: a run that raised or a crash is the only way an episode
gets lost.  (Such episodes are lost for good: the queue does not offer a job that is
done again.)  `RunsBoundedByLeases`: an episode goes through at most as many runs as it
was leased, so polling again runs nothing.  `FailedDespiteFetch`: an episode marked
failed which someone did fetch was leased twice.  `SettledForGood`, `KeepsContract`, and
the liveness property `InHandIsSettled`: an episode that some process is fetching, can
lease before it stops draining, or was given by a poll and has not enqueued yet, is
settled in the end, unless another process crashes on the way.  A job whose worker died
is settled if its lease runs out while somebody still drains the queue.  More is not
true: the loop ends when nothing can be leased, and a job that is leased by a dead worker
then waits for whoever runs the program next.  *Bounds:* two processes, a feed of four
items, one repeated and one without a GUID, windows of at most two items, so that an item
can be missed, one crash, leases of 1: enough for an expired lease to meet a late `ack`,
a late `nack` and a crash.  *Fairness:* `WF(Work(p))`, and nothing else: a process that
was started goes on, because `ingest` and `run` are one sequential program no stage of
which waits for ever (HTTP calls and the transcription poll have deadlines, the queue's
lock a timeout).  Polling is not fair, for the repository has no scheduler, nor are time,
publishing, crashing, or the choice between a fetch that works and one that fails.

**`graph_store`.**  `Linked`: edges end at nodes and claims have their assertion and
subject, whatever was loaded in which pieces.  `SupersedesForward`: over all batches
together a claim of a dated episode supersedes only an earlier one of its speaker on
its subject, so there is no circle.  `HistoryKept`: nothing is deleted, and an edge that
was invalidated is never changed again.  `PastIsKept`: a claim of a dated episode leaves
the answer as of `t` only when its assertion is invalidated at `t` or earlier.  Undated
episodes are excluded because reloading them does move the past, as
the differences below say.  *Bounds:* three claims of two speakers in an old, a new and an
undated episode on one subject give both kinds of relation and a tie between the clock
and a date; two loads are a load and a reload with other signs; two instants separate
before and after.  `superseded` is of the same instance.
Only assertions are invalidated, since queries look at no other
edges; `Invalidated` is a constant, and the proofs allow every type.

**`neo4j_store`.**  `EdgesMirrored`: both stores have the same edges, open and
invalidated alike and ended at the same time, but those that end at an episode: no store
has nodes for episodes, so the server's MATCH finds none and writes no edge.
`AssertedMirrored`: the claims the stored edges assert now are the fake store's current
answer, and of dated episodes those they assert as of any time are its answer as of that
time; nothing asserts the claims that a dead load left behind.  This is about what is
stored: `query()` itself answers nothing (`neo4j_query`).  *Bounds:* two claims, one of
them undated and mentioning what the other is about, loaded together or one by one,
three loads: one that dies, one that is invalidated, one that loads again.

**`entity_resolver`.**  `OneRowPerQid`: one entity per QID and type.  `IdsKnown`: an id
on a claim is that of an entity which still knows the claim's form by name, however
often it was merged.  `UnlinkedStable`: a form of a type that is not looked up keeps its
id.  *Bounds:* seven forms: two names of one organization, one of which is also taken
for a person's, a second organization like the first, and three concepts each like the
next, which is what makes canonical names drift; three batches, restarts anywhere.

**`batch_pipeline`.**  `ChunksCover`: chunks leave no segment out, each starts later than
the one before, and only a lone segment is over the budget.  `SpeakerOfEvidence`: a
grounded claim whose evidence is in the episode has the times of a segment that holds it
and that segment's speaker, also after the batch's subjects were resolved.  `RunsAgree`:
each run has the claims of its own episode, the graph got all that have a speaker and a
subject, in order, and a subject of one batch has one id; nothing of a batch that raised
is half loaded.  `GuestsRecur`: a lasting guest id is only given to someone the candidates
know from two episodes.  `GuestTurns`: it goes to no label that is a host's voice or a
spoken name, and, if it was inferred where transcripts are kept by URL, to the one that
talks most of those that are no hosts.  `SpeakersLeft`: who is left after pruning, and
who comes back when segments are rebuilt from words.  `InTimeIsSeen`: a call that timed
out was for a job that was not ready a request's time before the deadline.
`HashedIsHeard`: an episode is transcribed from the audio it was hashed from, unless its
publisher changed it.  `BatchEnds`: every batch ends, loaded or lost.

*Deployments:* `Backfill` (hosted, fetched, with guests, a gallery, grounding and
resegmentation, no cache), `Slice` (hosted, files on this machine cached by content, no
fetch, names, a fallback speaker and a persistent resolver of subjects), `LocalSetup` (whisperX, fetched, cached by URL, with
guests, segments kept) and `TextSetup` (published transcripts whose labels are names).
*Bounds:* batches of two episodes, one of them the same episode twice, and a second batch
after the first: what a second appearance, a kept candidate and a stale record need; one
restart; one URL whose content may change.  The transcripts have somebody below the bar
for talk time and somebody exactly at it, an empty turn, a word without a speaker,
overlapping turns, and a first episode whose labels may come either way round.  The
deadline of 3 with polls every 2 and latencies up to 1 lets a poll be answered before, at
and after it, for jobs that are ready at once, in time, and never.  The model's answers
name the wrong speaker at the wrong time, one who is below the bar, and nobody.
*Fairness:* while a batch is under way the process goes on with it, which is weak
fairness of `RunStep`: some step of a batch that is under way is always possible (TLC
finds no deadlock, not even where restarts and publishers are used up), and the steps that are not of the batch are those that change
`outside`.  It is stated as `<>[](pc # "idle") => []<><<UNCHANGED outside>>_vars`, which
TLC checks without evaluating `ENABLED` of the whole step.  Publishers and restarts are
not fair, nor is the choice among outcomes: a service may be asked until the deadline,
and a model may answer badly every time.

**`serving`.**  `RankedBySignals`: a claim that another beats in every signal does not
come before it; the traversal's ranking is what hops from its first places reach, the
nearer first; those places, as many as it starts from, are of the best by content; and no
hit is missing.  `CountedIsSearchable`: a claim that a trend counts is one
that search has, unless its assertion was invalidated; what search finds is in the store
and found by its id; a roll-call that takes all claims names all speakers.
`TrendMirrors`: with all sentiments turned round, a trend is turned round; every claim of
the run on the subject is in one bucket and under its speaker; and a person who is alone
with the subject never moves the other way.  `ScoredAsAnswered`: through shuffling,
blinding and sorting out again each arm has the score of its own answer, means and wins
respect dominance, the agreement pairs are about the same answers, and kappa is in its
range, 1 just for full agreement.  `CitationsPass`: only a citation that is no turn of
its speaker, or one somebody else talks over all of, can fail.
*Bounds:* four claims of two speakers on two subjects, in an old, a new and an undated
episode, in three results, one of which has a claim twice with two signs and two
sentiments, and one a claim of no confidence; two loads, one before and one after a
surface is built, so that it grows old; `Corrected` is one claim; `Periods` are all time,
since, and until.  Four arms, two queries, two raters, two shuffles, overlapping
speech, one episode with the labels the other way round, one without a checked
transcript.  (Where there are no transcripts, or no speakers of segments, nothing is
checked at all: `Unchecked`.)  An answer, or an evaluation, is looked at before anything else happens
(`Reported`, `StoreStep`), and the arms of a query are one step: the surface is a value,
and neither arms nor tools write anything the others read.

`graph_store`, `neo4j_store` and `neo4j_query` turn the deadlock check off: when no load is left and
there is nothing to invalidate the model stops, as a store may.

## Where the code and its documents disagree

Each of these runs states what a document says and ends with a behaviour that breaks it.

- `enqueue_race`.  "Concurrent enqueues of the same key collapse to one row"
  (`ingestion/queue.py:179`).  There is one row, but the second caller gets
  `sqlite3.IntegrityError`, and its connection keeps the write lock: every other writer
  times out until the process ends.
- `double_process`.  "Re-ingesting a feed never double-processes" (`pipeline.py:579`).
  A fetch that takes longer than its lease puts one episode into the runs of two
  processes; each acks.
- `superseded`.  "Contradiction/supersession sets `valid_to` + `invalidated`"
  (`docs/dlogos-graph-architecture.md:52`).  The edge is added, and no caller
  invalidates the older assertion.
- `neo4j_query`.  "Byte-for-byte the same rule the fake store uses"
  (`graph/neo4j_store.py:456`).  `record.data()` of the driver turns the asserting
  relationship into a triple, `_node_props` makes `None` of it, and every claim is
  dropped: over a server, `query()` is empty, and so is a retrieval surface built over it.
  The driver is not in the repository; the model follows version 6.2.0, which `uv.lock`
  names.
- `entity_stable`.  "Episode N resolves against episodes 1..N-1, stably and
  re-runnably" (`resolution/incremental.py:10`).  A failed search counts as "no QID";
  and `wd-<QID>` does not hold the type, so an entity of another type takes the row
  over.  Either way one form gets two ids.

Three more differences of Neo4jStore are in the model and contradict no property: it has
no `appears_in` edges, overwrites the aliases of an entity where the fake store merges
them, and, when an invalidated edge of an undated episode is loaded again, sets its
`valid_from` anew (`graph/neo4j_store.py:241`) where the fake store leaves the edge alone,
although the edge upsert is said to mirror `FakeGraphStore._upsert_edge` (227-230).  That
is why `EdgesMirrored` compares the starts of open edges only, and `AssertedMirrored` the
past of dated episodes only.

GraphStore does these too, and its properties make room for them:

- "Re-loading the same claim is idempotent" (`graph/loader.py:21`): an episode without a
  usable date has the time of ingestion as its event time (`pipeline.py:1003`), so a second
  load moves the time from which its live edges hold, and answers as of times between the
  two loads lose its claims.  `PastIsKept` is about dated episodes.
- "Mind-changes are first-class via `supersedes`" (`docs/dlogos-graph-architecture.md:122`),
  in a pipeline that is "incremental, not batch" (88): relations are derived within one
  load, so a reversal that comes in a later one has no edge.  `SupersedesForward` is about
  the edges there are.
- Agreement and dispute are between claims "whose stance polarity aligns / opposes"
  (`graph/relations.py:12`): a claim extracted again with another stance replaces its node,
  and the edges derived from the old stance stay.

The rest was met while the later modules were written.  The models do what the code does,
and no run is made of them:

- `PipelineDeps` is copied field by field in `from_manifest` (`pipeline.py:560-573`), and
  `labels_are_names` is not among the fields: a pipeline built from a manifest mines
  names even from transcripts whose labels are names.
- `_infer_guest_label` "returns None when there's no gallery" (`pipeline.py:741`); without
  a gallery it returns the most talkative label.
- "The diarization label already IS the speaker's name ... so map each label to itself"
  (`pipeline.py:879`): a name mined from an introduction comes first, and the label is
  mapped to that.
- "Shared-entity via about/mentions are all collapsed into adjacency"
  (`retrieval/hybrid.py:142`): the entity becomes a neighbour, but is no claim of the
  universe, so traversal does not get from one claim of an entity to another.
- Consensus claims are "the same ExtractedClaims loaded into the graph"
  (`mcp/server.py:475`): they are those of the last run, while the graph also has those
  of earlier ones.
- Consecutive steps of a trend are compared with 0.1 strictly, its total change is flat
  only below 0.1 (`retrieval/consensus.py:356`), and a belief history is flat at 0.1 too
  (`mcp/server.py:378`): one person alone with a subject, moving by exactly 0.1, may be
  rising in one and flat in the other.
- "The same input always yields the same ids regardless of input ordering"
  (`resolution/subjects.py:28`): of spellings that differ in case the first in the input
  is the one that is embedded and compared.
- The overlap is "strictly less than the producing chunk's length"
  (`extraction/chunking.py:132`), so that a chunk advances by a segment; a chunk may still
  add nothing new when the repeated segments alone fill the budget.

## Proofs

| Module | Theorems |
|---|---|
| SqliteQueueProofs | TypeCorrect, OneRow, LeasesRespected, InOrder, TableKeepsContract |
| GraphStoreProofs | TypeCorrect, GraphLinked, SupersessionFollowsTime, HistoryIsKept, ThePastIsKept |
| Neo4jStoreProofs | NeoTypeCorrect, NeoMirrorsEdges, NeoMirrorsAssertions |
| EntityResolverProofs | TypeCorrect, OneNodePerQid, IdsResolve, UnlinkedFormsStable |
| IngestProofs | TypeCorrect, NothingIsForgotten, RunsWereLeased, FailedWasLeasedTwice, SettledStaysSettled, QueueKeepsContract |
| BatchPipelineProofs | TypeIsOK, ReadyCallsAreSeen, HashedAudioIsHeard, NothingLeftOut, EvidenceIsTheSpeakers, RunsAndBatchAgree, WhoIsLeft, GuestsAreRecurring, GuestsTalkMost |
| ServingProofs | WhatCountsIsSearchable, SearchRanksBySignals, TurnsPass, ArmsScoredByOwn, TrendsTakeNoSide |

Each safety property that a passing run checks is stated by one of these.

These hold for any number of processes, keys, feed items, claims, batches, episodes,
deployments, runs loaded, queries, arms, forms and types, any similarities, ratings,
thresholds, intervals and deadlines, and any bounds.  DataLemmas has the lemmas about numbers, finite
sets, sequences, sorting, folds and sums that the batch pipeline and serving rest on;
BatchPipelineProofs begins with what the operators of TranscriptShaping, SpeakerIdentity
and Extraction return, ServingProofs with those of Retrieval, and has
those of Evaluation and Consensus before the theorems that need them.  The assumptions are those
the modules declare about their constants; TLC evaluates them in the runs.  Some
say something about the code:  what a backend, a page and a model return has the form their parsers
accept (`PipelineAssumption`: nothing else is assumed of it, neither order, nor
times that make sense, nor labels that occur in the transcript);  `LeaseSeconds` is positive (a lease of 0 is claimable at once);
publication dates are natural numbers or `Undated`; an episode id is the id of no node
(`NodeIdAssumption`: ids of speakers, entities and claims begin with prefixes of their
own, ids of episodes come from the feed);  a run's claims have a sign, a sentiment and a
confidence, and there are finitely many claim ids, as they are hashes of fixed length
(`ServingAssumption`).  The last one also takes the unit in which scores are counted to be
a multiple of every `RrfK` plus a rank, so that `1 / (k + rank)` is a whole number of
units: without it two ranks could round to one score, which the code's floats do not do
for any list that fits in memory.  Of evaluations it says that arms have different names
(they are constants of the program), that what a query is shuffled by is a permutation of
the arms (`random.shuffle`), that ratings are natural numbers, and that buckets are wider
than nothing (`consensus_over_time` raises otherwise).  `RetrievalAssumption` and
`WindowAssumption` say that a transcript's segments are a list with times and that a
window's nearness is a number; `EvaluationAssumption`, that there are finitely many
dimensions and edges of bands.  `ConsensusAssumption` has `FlatThreshold` positive: it is
0.1, and no caller passes another.  The proof showed that this matters.  With a threshold of
0 a total change of nothing is not below the threshold, so `_classify_trend` calls a
series that did not move "falling", and its mirror image too.  One theorem has a hypothesis of its own:
`GuestsAreRecurring` asks for `MinAppearances >= 2`, the default of `GuestResolver`; with
1 the property is false by design.

*SqliteQueue.*  None of the safety properties is inductive.  `OneRowPerKey` is once the
insert requires the key to be absent, but a lease is respected only if the record of who
holds it is right: `IInv` adds that the attempts a holder remembers are never more than
its row's (`Counted`), that one lease of a row and attempt has one holder (`OneHolder`),
that a current lease has the row's deadline (`Deadline`), that no process read a time
later than the clock (`NoLaterThanClock`), and that rows known when a number was read
have smaller numbers (`RowsNumbered`, `NextNumbered`).  A current lease whose deadline
lies ahead is not `Available` to a process whose time is at most the clock's, which is
why the clock read before the transaction does no harm.  `TableKeepsContract` is a
step-by-step refinement: `Insert` is `Add`, `ClaimOldest` is `Claim`, `Settle` is
`Settle`, `Tick` is `Elapse`, and all others leave the jobs alone.  The claim's `ttl`
may be less than `LeaseSeconds`, by the time the process waited for the lock.

*GraphStore.*  What the edges of a load are is stated once (`KeyOf`, `KeysOfLoad`): their
types and ends, and for `supersedes` the order of the two claims.  `StepKinds` says that
to the graph every step is an upsert of such edges, an invalidation, or nothing
(`GraphStep`), and the step lemmas are about that, so that they serve Neo4jStore as well.
`PastIsKept` needs `Intervals`: an edge that was not invalidated is open, and an
assertion of a dated episode starts at its date.

*Neo4jStore.*  `Pending` says that the load between its statements has its nodes written
already and its edges are those of a load now, for the clock waits; so the edge statement
matches exactly the edges that do not end at an episode (`MatchedEdges`).
`EdgesMirrored` is inductive given that.  `AssertedMirrored` follows from it with
`Intervals`, its counterpart `NeoIntervals`, and `ClaimsShared`: what is asserted is a
claim of both stores.

*EntityResolver.*  `IInv` adds that a row's name is one of its aliases
(`NameIsAlias`); that a row whose id was made from a form keeps the form's type and
name, so that the form is found by name (`ContentRows`); that a row with a Wikidata id
changes its type only to one that is looked up (`WikidataRows`); and that of the rows of
a type that is not looked up only one knows a name, and the ids of its forms keep that
type (`UnlinkedOnce`, `UnlinkedTyped`).  `FiniteRows` makes the choices of the first and the most similar row
well defined.

*Ingest.*  That runs are no more than leases is inductive only when claims to an episode
are counted with its runs: `Counted` says that the runs of an episode and the processes
that have leased it, or have it in a batch not yet run, are together at most its
attempts.  A lease adds one to both sides, a run moves its process from one count to the
other, and whatever else happens makes the claims fewer.  `FailedDespiteFetch` follows:
`FetchedSettled` says that what was fetched is settled, so a process whose fetch fails
after another's fetch of the same episode worked has a claim of its own, beside the claim
or the run of the other (`RunCounted`, `LeasedOnce`): two attempts at least.  `QueueKeepsContract` maps each call to the
contract's, for the queue as Ingest uses it.

*BatchPipeline.*  `ReadyCallsAreSeen` needs that the clock of a call that is asleep is
short of the deadline (`Timed`), so that a poll that follows is at most one interval late,
and that the batch only takes steps of a call, drops it, or leaves it alone (`CallUse`).
`HashedAudioIsHeard` rests on one relation, `AsPublished`: a content is what was first
published under a URL, or the URL serves something else by now.  Publishers keep it true
of everything (`RepublishKeeps`), and `HashInv` says it of the fetcher's records, the
batch, the cache (where a cache of files goes by content, an entry is of its own key), the
transcript at hand and the runs.

The other theorems about the batch rest on three invariants, each above the one before.
`StepInv` is about the episode at hand: every variable has its type (`WorkInv`), the
transcript is what the backend's answer was shaped into (`HearInv`), and the chunks cut so
far cover all segments before the next chunk's first (`ChunkInv`).  `TypeIsOK` and
`NothingLeftOut` follow.  `BatchInv` is about the batch: a claim's attribution is that of
the segment it was grounded in (`ClaimInv`), so is that of every claim of the runs that are
done (`DoneInv`), and what is loaded is what the runs have that can be (`LoadInv`);
`EvidenceIsTheSpeakers`, `RunsAndBatchAgree` and `WhoIsLeft` follow.  The step that matters
is `Load`: `_refresh_run_claims` cuts the resolved list up by the runs' lengths, and
`SlicedBack` shows that each run gets back its own claims in their order, because
resolving changes neither the number of claims nor anything but the ids of subjects
(`Reclaimed`).  `LastingInv` is about what outlives a batch: each candidate of the resolver
was put there by an appearance with the label inferred then (`GuestInv`), and where a cache
keeps transcripts by URL for good, whatever is at hand is what the cache has (`KeptInv`);
`GuestsAreRecurring` and `GuestsTalkMost` need it.

`GuestTurns` says nothing of a label that was inferred where a cache goes by the content
of files: there another file under the same name is another transcript, and the
candidate keeps the label inferred on the first one.  No script of the repository combines
that cache with a guest resolver.

*Serving.*  `ServeInv` has three parts.  `StoreKept`: every step of serving is, to the
graph, a `GraphStep` (`ServeKinds`), so `TypeOK` and `Linked` of GraphStore carry over.
`Derived`: the claims of the last run and those of the surface are in the store, and each
claim the surface counts is among those it searches, or its assertion was invalidated.
That is what makes `CountedIsSearchable` inductive: assertions are only ever invalidated,
never revived or deleted (`KeepsHistory`), so a surface may get arbitrarily old.  And
`Answered`: an answer to a search is what the surface that is still there gives.

`RankedBySignals` is then a statement about `Retrieve` over any surface.  A ranking is a
list that has everything once (`Ranks`), the best first (`RankingSorts`), and so are a walk
(`WalkLevels`) and a fusion (`FusionRanks`).  By induction over the hops a level of the walk
has what that many hops reach and fewer do not (`LevelReached`), so the graph's list has the
seeds, then the nearer before the farther (`GraphRanked`, `GraphByHops`), and its first
`SeedK` places give the seeds back (`SeedsByRank`).  The seeds are the first of the fusion
of both rankings by content, so no other claim is worth more there (`ContentFused`,
`FirstPlacesAreBest`, `SeedsAreBest`).  For the fusion, the share a list gives
falls strictly with the rank (`WorthFalls`), a list without the claim gives nothing, and a
claim that is beaten in every signal adds up to less (`BeatenIsWorthLess`): hence it
comes later (`WorthMoreIsBefore`).

`TurnsPass` and `ArmsScoredByOwn` need `Evaluated`: an evaluation that is under way has
answers that are each an arm's (`IsAnswerOf`), rows in which each arm's score is that of its
own answer (`RowIsOwn`), and pairs of the two raters' totals of one answer (`PairIsOwn`).
The step that matters is unblinding: the labels are positions of a permutation, so the
label found for an arm is the position its answer was shuffled to (`BlindingUndone`,
`Shuffled`), and a second shuffle for the second rater is undone the same way.
A citation with the times of a segment has an overlap with it that no other segment
exceeds; only a segment that covers all of it can tie and come first (`OverlapMeasures`,
`TurnVerifies`).  Means and wins are sums over the same rows and compare row by row
(`MeansCompare`, `WinsCompare`).  That kappa is at least -1 is the hard bound, since chance
may be large where agreement is small: of `n` pairs let `x` and `y` be those the raters
put in a band, and `z` those both did; then `x + y <= n + z`, so
`4xy <= n(x + y) + 2nz` (`ProductOfShares`).  Summed over the bands (`KindsAddUp`,
`SharesAddUp`) twice the chance is at most `n * n` plus `n` times the agreement, which
gives the bounds of `KappaBounded`.

`TrendsTakeNoSide` needs `Told`: a trend that was told, by a tool or to an arm, is the
trend of the surface that is still there.  The rest is about `ConsensusOverTime`.  Every
claim about the subject is in the bucket of its time and in no other
(`BucketsPartition`), and under its speaker there, so counts add up
(`ClaimsCountedOnce`, `SpeakersCountedOnce`).  Mirrored sentiments leave times and weights
alone, so the buckets are the same (`GroupsInverted`), each mean is the negative
(`MeanInverted`), each step turns round (`StepMirrored`), and `DirectionMirrors` goes
through the cases: rises become falls, a series with both is "mixed" either way, and what
is left is decided by the total.  A person who is alone with a subject, and always sure,
is in every bucket, with a mean that is the trend's, numerator and denominator divided by
`Bulk` (`SureMeans`).  Both directions then go by the sign of one total change, and differ
only in whether it counts as flat (`HistorySays`, `AloneAgrees`).

*Folds, sums and sorting.*  Stable sorting, merging of adjacent segments, sums of talk
time, best matches and flattening are defined by folds of the community modules.  No
theorem of the library can be instantiated with an operator, so DataLemmas proves the
induction that is needed over sets of numbers and sets of sets: that the recursive
function inside a fold exists (`FoldExists` and its kind), and its recursion equations,
which are cited one step at a time.  `Filter` and `Ordered` of Lists stand for the
library's `SelectSeq` and `SetToSortSeq`, which rest on recursive operators and cannot be
reasoned about here; that sets can be sorted, and that the sorted list has everything once,
is proved (`SortedExists`, `SortedHasAll`).

*Checked by TLC only.*  Liveness (`InHandIsSettled`, `BatchEnds`): fairness and
`ENABLED` are out of the prover's reach.  The five runs that end with a counterexample
need no proof.

## What is not modelled

`PROJECT.json` gives the reason for each component.  Those without a module:

- *feed discovery*, the *hosted embedder*: HTTP clients, external to what calls them;
- *graph export*, *UI*: read the graph and write HTML;
- *spike comparison*: a comparison of stores made once;
- *configuration*: settings from the environment.

Left out of what is modelled:

- queue, graph, resolver: payloads of jobs; texts, embeddings and names beyond what
  tells them apart; Neo4j's schema set-up and the properties of its records; filters of
  `query` other than time; `GraphitiStore`, which hands its calls to a library that is
  not in the repository; the resolver without a linker; two processes that resolve at once;
- transcription: loading models, mock results, the parsers of pages, the flags for
  crosstalk, which `run()` does not read;
- speakers: the tables of `speaker_store.py`, whose ids are functions of the name;
- fetch: that equal bytes share one file on disk, since nothing reads it;
- extraction: what a claim has besides a label, a span, a subject and an object; the
  normalization of predicates; the scripts' cache of extractions;
- retrieval and consensus: weights other than 1, the window by validity, the stance
  mean, trends of no given subject, kept empty buckets: nothing calls for them;
- evaluation: the fragmentation count, the golden set, the rendered report.

## Plan

1. *Two resolvers at once* on one canonical store, whose upsert reads the aliases and
   writes their union in two statements with no transaction around them.
2. *Composition of Ingest and BatchPipeline*: the run of Ingest, one step there, as an
   abstraction of the batch.
3. *Persistence around the batch*: the scripts' cache of extractions, and the tables of
   the speaker store.
4. *Proofs*: what the modules above add; that `SqliteQueue` and `JobQueue` both keep the
   contract is proved, and the abstraction of item 2 would be the next refinement.
