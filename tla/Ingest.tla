------------------------------- MODULE Ingest -------------------------------
(***************************************************************************)
(* Pipeline.ingest and run_from_manifest of pipeline.py: processes that    *)
(* poll a window of the feed, drain one durable job queue between them     *)
(* into an in-memory batch of episodes, and run and load that batch.       *)
(* Processes crash and may be started again; a fetch may outlast the lease *)
(* it is done under.  SqliteQueue shows that the queue's calls, made by    *)
(* several processes at once, are the atomic calls used here.              *)
(***************************************************************************)
EXTENDS JobQueue, FiniteSets

CONSTANTS Process,        \* processes running the pipeline on one queue
          FeedItems,      \* the feed's items, in the order they are published
          MaxEpisodes,    \* max_episodes_per_feed (None: Len(FeedItems) or more)
          NoGuid,         \* an item without a GUID
          NoJob,          \* the process has leased no job
          MaxCrashes      \* bound: this many crashes in a behaviour

ASSUME FeedAssumption  == FeedItems \in Seq(Key \cup {NoGuid})
ASSUME WindowAssumption == MaxEpisodes \in Nat
ASSUME NoneAssumption  == NoGuid \notin Key /\ NoJob \notin Key
ASSUME CrashAssumption == MaxCrashes \in Nat

VARIABLES
  published,  \* how many of FeedItems the feed shows
  pc,         \* where each process is in run_from_manifest
  todo,       \* feed items it has still to enqueue
  current,    \* the job it leased and is fetching
  batch,      \* the EpisodeInputs it has collected
  loaded,     \* episodes whose claims are in the graph
  crashes,    \* how many crashes there have been
  lost,       \* history: episodes that were in the batch of a run that ended
              \* before its load
  runs        \* history: how many runs each episode has been part of

procVars == <<pc, todo, current, batch>>
histVars == <<lost, runs>>
vars == <<jobs, order, published, pc, todo, current, batch, loaded, crashes,
          lost, runs>>

PcStates == {"idle", "enqueue", "lease", "fetch", "run"}

TypeOK ==
  /\ QueueTypeOK
  /\ published \in 0..Len(FeedItems)
  /\ pc \in [Process -> PcStates]
  /\ todo \in [Process -> Seq(Key \cup {NoGuid})]
  /\ current \in [Process -> Key \cup {NoJob}]
  /\ batch \in [Process -> SUBSET Key]
  /\ loaded \subseteq Key
  /\ crashes \in 0..MaxCrashes
  /\ lost \subseteq Key
  /\ runs \in [Key -> Nat]

Init ==
  /\ QueueInit
  /\ published = 0
  /\ pc = [p \in Process |-> "idle"]
  /\ todo = [p \in Process |-> <<>>]
  /\ current = [p \in Process |-> NoJob]
  /\ batch = [p \in Process |-> {}]
  /\ loaded = {}
  /\ crashes = 0
  /\ lost = {}
  /\ runs = [k \in Key |-> 0]

\* The feed gets its next item.
Publish ==
  /\ published < Len(FeedItems)
  /\ published' = published + 1
  /\ UNCHANGED <<jobs, order, procVars, loaded, crashes, histVars>>

\* podcast_index.recent_episodes: of the items the feed shows, those later than
\* since (0: no lower bound), newest first, and max_results of them at most.
RecentEpisodes(since) ==
  LET shown == published - since
  IN  [i \in 1..(IF shown < MaxEpisodes THEN shown ELSE MaxEpisodes) |->
         FeedItems[published + 1 - i]]

\* A process is started and asks for its window of the feed.
Poll(p) ==
  /\ pc[p] = "idle"
  /\ pc' = [pc EXCEPT ![p] = "enqueue"]
  /\ \E since \in 0..published :
        todo' = [todo EXCEPT ![p] = RecentEpisodes(since)]
  /\ UNCHANGED <<jobs, order, published, current, batch, loaded, crashes, histVars>>

\* One turn of the loop over the items: an item without a GUID is skipped.
EnqueueItem(p) ==
  /\ pc[p] = "enqueue"
  /\ todo[p] # <<>>
  /\ IF Head(todo[p]) = NoGuid
     THEN UNCHANGED queueVars
     ELSE Enqueue(Head(todo[p]))
  /\ todo' = [todo EXCEPT ![p] = Tail(@)]
  /\ UNCHANGED <<published, pc, current, batch, loaded, crashes, histVars>>

EnqueuedAll(p) ==
  /\ pc[p] = "enqueue"
  /\ todo[p] = <<>>
  /\ pc' = [pc EXCEPT ![p] = "lease"]
  /\ UNCHANGED <<jobs, order, published, todo, current, batch, loaded, crashes,
                 histVars>>

Lease(p) ==
  /\ pc[p] = "lease"
  /\ \E k \in Key : /\ LeaseJob(k)
                    /\ current' = [current EXCEPT ![p] = k]
  /\ pc' = [pc EXCEPT ![p] = "fetch"]
  /\ UNCHANGED <<published, todo, batch, loaded, crashes, histVars>>

\* _episode_input_from_job returns: the episode joins the batch, and its job is
\* acked before the episode has been through any stage of run().
FetchOk(p) ==
  /\ pc[p] = "fetch"
  /\ Ack(current[p])
  /\ batch' = [batch EXCEPT ![p] = @ \cup {current[p]}]
  /\ current' = [current EXCEPT ![p] = NoJob]
  /\ pc' = [pc EXCEPT ![p] = "lease"]
  /\ UNCHANGED <<published, todo, loaded, crashes, histVars>>

\* MUTANT of FetchFails: the episode is collected before the fetch can fail.
FetchFailsCollected(p) ==
  /\ pc[p] = "fetch"
  /\ Nack(current[p], FALSE)
  /\ batch' = [batch EXCEPT ![p] = @ \cup {current[p]}]
  /\ current' = [current EXCEPT ![p] = NoJob]
  /\ pc' = [pc EXCEPT ![p] = "lease"]
  /\ UNCHANGED <<published, todo, loaded, crashes, histVars>>

\* MUTANT of FetchFails: the except branch acks instead of continuing.
FetchFailsAcked(p) ==
  /\ pc[p] = "fetch"
  /\ Ack(current[p])
  /\ current' = [current EXCEPT ![p] = NoJob]
  /\ pc' = [pc EXCEPT ![p] = "lease"]
  /\ UNCHANGED <<published, todo, batch, loaded, crashes, histVars>>

\* It raises: nack(requeue=False), and on to the next job.
FetchFails(p) ==
  /\ pc[p] = "fetch"
  /\ Nack(current[p], FALSE)
  /\ current' = [current EXCEPT ![p] = NoJob]
  /\ pc' = [pc EXCEPT ![p] = "lease"]
  /\ UNCHANGED <<published, todo, batch, loaded, crashes, histVars>>

\* lease() returns None: ingest returns the batch, and run starts on it.
StartRun(p) ==
  /\ pc[p] = "lease"
  /\ NothingToLease
  /\ pc' = [pc EXCEPT ![p] = "run"]
  /\ runs' = [k \in Key |-> IF k \in batch[p] THEN runs[k] + 1 ELSE runs[k]]
  /\ UNCHANGED <<jobs, order, published, todo, current, batch, loaded, crashes, lost>>

\* MUTANT of Load: the batch outlives its run.
LoadKeepsBatch(p) ==
  /\ pc[p] = "run"
  /\ loaded' = loaded \cup batch[p]
  /\ pc' = [pc EXCEPT ![p] = "idle"]
  /\ UNCHANGED <<jobs, order, published, todo, current, batch, crashes, histVars>>

\* run() reaches its last stage, the one bulk load of the whole batch.
Load(p) ==
  /\ pc[p] = "run"
  /\ loaded' = loaded \cup batch[p]
  /\ batch' = [batch EXCEPT ![p] = {}]
  /\ pc' = [pc EXCEPT ![p] = "idle"]
  /\ UNCHANGED <<jobs, order, published, todo, current, crashes, histVars>>

\* Any stage of run() raises for any episode: nothing of the batch is loaded.
RunRaises(p) ==
  /\ pc[p] = "run"
  /\ batch[p] # {}
  /\ lost' = lost \cup batch[p]
  /\ batch' = [batch EXCEPT ![p] = {}]
  /\ pc' = [pc EXCEPT ![p] = "idle"]
  /\ UNCHANGED <<jobs, order, published, todo, current, loaded, crashes, runs>>

\* The process dies, or the feed index raises, which ingest does not catch.
\* The queue is durable; everything else the process had is gone.
Crash(p) ==
  /\ pc[p] # "idle"
  /\ crashes < MaxCrashes
  /\ crashes' = crashes + 1
  /\ lost' = lost \cup batch[p]
  /\ pc' = [pc EXCEPT ![p] = "idle"]
  /\ todo' = [todo EXCEPT ![p] = <<>>]
  /\ current' = [current EXCEPT ![p] = NoJob]
  /\ batch' = [batch EXCEPT ![p] = {}]
  /\ UNCHANGED <<jobs, order, published, loaded, runs>>

Elapse ==
  /\ LeasesRunDown
  /\ UNCHANGED <<published, procVars, loaded, crashes, histVars>>

\* What a process that was started does while it does not crash.
Work(p) ==
  \/ EnqueueItem(p)
  \/ EnqueuedAll(p)
  \/ Lease(p)
  \/ FetchOk(p)
  \/ FetchFails(p)
  \/ StartRun(p)
  \/ Load(p)
  \/ RunRaises(p)

Next ==
  \/ Publish
  \/ \E p \in Process : Poll(p) \/ Work(p) \/ Crash(p)
  \/ Elapse

Spec == Init /\ [][Next]_vars

\* A process that was started goes on: ingest and run are one sequential program,
\* and its HTTP clients and the ASR poll have deadlines.  Nothing starts a process:
\* the repository has no scheduler, so Poll is not fair, nor is time.
Fairness == \A p \in Process : WF_vars(Work(p))

FairSpec == Spec /\ Fairness

-----------------------------------------------------------------------------
(* Properties *)

InABatch(k) == \E p \in Process : k \in batch[p]

\* A job that is done has its episode in some process's batch, in the graph, or
\* lost with a batch: the queue never forgets an episode by itself.
AckedIsAccounted ==
  \A k \in Key : jobs[k].status = "done" => InABatch(k) \/ k \in loaded \/ k \in lost

\* An episode goes through as many runs as it was leased at most: polling the feed
\* again, by any process, starts no run of it.
RunsBoundedByLeases == \A k \in Key : runs[k] <= jobs[k].attempts

\* A job marked failed whose episode some process did fetch was leased twice: only
\* a worker that lost its lease can take another's success away.
FailedDespiteFetch ==
  \A k \in Key : jobs[k].status = "failed" /\ (InABatch(k) \/ k \in loaded)
                   => jobs[k].attempts > 1

\* Once settled, a job is never work again: neither done nor failed is undone by
\* polling, by an expired lease or by a late answer.
SettledForGood ==
  [][\A k \in Key : jobs[k].status \in {"done", "failed"}
                      => jobs'[k].status \in {"done", "failed"}]_vars

\* The in-memory queue keeps the contract of JobQueue under these callers.
KeepsContract == Contract!ContractSpec

\* An episode some process will come to: it is fetching it, it is draining the
\* queue while the job can be claimed, or a poll gave it a new item.
InHand(k) ==
  \E p \in Process :
     \/ current[p] = k
     \/ pc[p] \in {"enqueue", "lease", "fetch"} /\ Contract!Claimable(k)
     \/ ~Known(k) /\ \E i \in DOMAIN todo[p] : todo[p][i] = k

\* An episode in hand is settled in the end, also one whose former worker died and
\* left it to expire, unless another process crashes: whoever drains the queue does
\* not stop before it.
InHandIsSettled ==
  \A k \in Key, c \in 0..MaxCrashes :
     crashes = c /\ InHand(k)
        ~> crashes # c \/ jobs[k].status \in {"done", "failed"}

\* "so re-ingesting a feed never double-processes" (the docstring of ingest).
NeverDoubleProcessed == \A k \in Key : runs[k] <= 1
=============================================================================
