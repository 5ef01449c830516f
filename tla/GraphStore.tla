----------------------------- MODULE GraphStore -----------------------------
(***************************************************************************)
(* The claim graph: FakeGraphStore of graph/fake_store.py with the rules   *)
(* of graph/temporal.py, as ClaimLoader of graph/loader.py fills it.       *)
(*                                                                         *)
(* Every step is one call on the store.  A batch is the claims it loads,   *)
(* each with the sign of its polarity in this extraction.  Episodes may    *)
(* have no date in the feed: their event time is then the time they were   *)
(* ingested, so another at each load.                                      *)
(***************************************************************************)
EXTENDS ClaimRelations

CONSTANTS MentionsOf,     \* the secondary entities of a claim id
          PublishedAt,    \* the date of an episode, or Undated
          Undated,
          Batches,        \* the batches that may be loaded: sets of claim ids
          Invalidated,    \* bound: the types of the edges callers invalidate
          MaxLoads,       \* bound: this many loads in a behaviour
          MaxClock        \* bound: the clock stops here

ASSUME GraphAssumption ==
  /\ MentionsOf \in [ClaimId -> SUBSET Entity]
  /\ Undated \notin Nat
  /\ PublishedAt \in [Episode -> Nat \cup {Undated}]
  /\ Batches \subseteq SUBSET ClaimId
  /\ MaxLoads \in Nat /\ MaxClock \in Nat \ {0}

VARIABLES
  clock,      \* the time
  loads,      \* how many loads there have been
  speakers,   \* the ids of the Speaker nodes
  entities,   \* the surface forms (aliases) of each Entity node, each named by
              \* a claim that uses it; none for an entity that has no node
  claims,     \* the sign of each Claim node
  edges       \* the edge under each key

storeVars == <<speakers, entities, claims, edges>>
vars == <<clock, loads, storeVars>>

Time == 1..MaxClock

Open == 0     \* valid_to is None

\* valid_from is the event time, in every edge the code builds.
Edge == [from : Nat, to : Nat, invalidated : BOOLEAN]

KeyOfType(type, S, T) == {EdgeKey(type, s, t) : s \in S, t \in T}

EdgeKeys == UNION {KeyOfType("asserts", Speaker, ClaimId),
                   KeyOfType("about", ClaimId, Entity),
                   KeyOfType("appears_in", Speaker, Episode),
                   KeyOfType("mentions", ClaimId, Entity),
                   KeyOfType("agrees_with", ClaimId, ClaimId),
                   KeyOfType("disputes", ClaimId, ClaimId),
                   KeyOfType("supersedes", ClaimId, ClaimId)}

TypeOK ==
  /\ clock \in Time /\ loads \in 0..MaxLoads
  /\ speakers \subseteq Speaker
  /\ entities \in [Entity -> SUBSET ClaimId]
  /\ DOMAIN claims \subseteq ClaimId /\ \A c \in DOMAIN claims : claims[c] \in Sign
  /\ DOMAIN edges \subseteq EdgeKeys /\ \A e \in DOMAIN edges : edges[e] \in Edge

Init ==
  /\ clock = 1 /\ loads = 0
  /\ speakers = {}
  /\ entities = [x \in Entity |-> {}]
  /\ claims = [c \in {} |-> 0]
  /\ edges = [e \in {} |-> 0]

-----------------------------------------------------------------------------
(* What the loader makes of claims *)

\* MUTANT of EventTimes: every episode takes the time it is ingested.
IngestionTimes == [ep \in Episode |-> clock]

EventTimes == [ep \in Episode |->
                 IF PublishedAt[ep] = Undated THEN clock ELSE PublishedAt[ep]]

Mentioned(c) == MentionsOf[c] \ {SubjectOf[c]}

\* The edges to_triplet builds for one claim.
TripletEdges(c) ==
  {EdgeKey("asserts", SpeakerOf[c], c),
   EdgeKey("about", c, SubjectOf[c]),
   EdgeKey("appears_in", SpeakerOf[c], EpisodeOf[c])}
  \cup {EdgeKey("mentions", c, x) : x \in Mentioned(c)}

\* bulk_load's edges: the claims' own, and those derived over the whole batch.
BatchEdges(batch, sign) ==
  (UNION {TripletEdges(c) : c \in batch})
  \cup StanceEdges(batch, sign, EventTimes)
  \cup SupersessionEdges(batch, sign, EventTimes)

\* When what an edge says became true: the publication of the episode of the claim
\* it comes from, the newer one of a relation.
EventTime(e) ==
  EventTimes[CASE e.type = "asserts"    -> EpisodeOf[e.dst]
               [] e.type = "appears_in" -> e.dst
               [] OTHER                 -> EpisodeOf[e.src]]

\* MUTANT of NewEdge: valid_to is left out.
NewEdgeUnending(e) == [from |-> EventTime(e), invalidated |-> FALSE]

NewEdge(e) == [from |-> EventTime(e), to |-> Open, invalidated |-> FALSE]

-----------------------------------------------------------------------------
(* The store *)

UpsertSpeakers(batch) ==
  speakers' = speakers \cup {SpeakerOf[c] : c \in batch}

\* A node that is there keeps its aliases and gets the new ones.
UpsertEntities(batch) ==
  entities' = [x \in Entity |->
                 entities[x] \cup {c \in batch : x \in {SubjectOf[c]} \cup Mentioned(c)}]

UpsertClaims(batch, sign) ==
  claims' = [c \in DOMAIN claims \cup batch |-> IF c \in batch THEN sign[c] ELSE claims[c]]

\* An edge that was invalidated stays as it is; any other is replaced.
UpsertEdges(keys) ==
  edges' = [e \in DOMAIN edges \cup keys |->
              IF e \in DOMAIN edges /\ (e \notin keys \/ edges[e].invalidated)
              THEN edges[e]
              ELSE NewEdge(e)]

\* MUTANT of Upsert: claims are loaded before the nodes they refer to.
UpsertClaimsOnly(batch, sign, keys) ==
  /\ UpsertClaims(batch, sign)
  /\ UpsertEdges(keys)
  /\ UNCHANGED <<speakers, entities>>

Upsert(batch, sign, keys) ==
  /\ UpsertSpeakers(batch)
  /\ UpsertEntities(batch)
  /\ UpsertClaims(batch, sign)
  /\ UpsertEdges(keys)

Count == /\ loads < MaxLoads
         /\ loads' = loads + 1
         /\ UNCHANGED clock

\* ClaimLoader.bulk_load over a batch of resolved claims.
BulkLoad(batch, sign) ==
  /\ Count
  /\ Upsert(batch, sign, BatchEdges(batch, sign))

\* ClaimLoader.load_claim: one claim, and no relation to any other.
LoadClaim(c, s) ==
  /\ Count
  /\ Upsert({c}, [x \in {c} |-> s], TripletEdges(c))

\* MUTANT of Invalidate: an invalidated edge is invalidated again.
InvalidateAgain(e, at) ==
  /\ e \in DOMAIN edges /\ e.type \in Invalidated
  /\ edges' = [edges EXCEPT ![e].to = at, ![e].invalidated = TRUE]
  /\ UNCHANGED <<clock, loads, speakers, entities, claims>>

\* invalidate(): only an edge that is there and was not invalidated changes.
Invalidate(e, at) ==
  /\ e \in DOMAIN edges /\ e.type \in Invalidated
  /\ ~edges[e].invalidated
  /\ edges' = [edges EXCEPT ![e].to = at, ![e].invalidated = TRUE]
  /\ UNCHANGED <<clock, loads, speakers, entities, claims>>

Tick ==
  /\ clock < MaxClock
  /\ clock' = clock + 1
  /\ UNCHANGED <<loads, storeVars>>

Next ==
  \/ \E batch \in Batches : \E sign \in [batch -> Sign] : BulkLoad(batch, sign)
  \/ \E c \in ClaimId, s \in Sign : LoadClaim(c, s)
  \/ \E e \in DOMAIN edges, at \in Time : Invalidate(e, at)
  \/ Tick

Spec == Init /\ [][Next]_vars

-----------------------------------------------------------------------------
(* Queries *)

IsLiveAt(edge, asOf) ==
  /\ edge.from <= asOf
  /\ edge.to = Open \/ edge.to > asOf

\* query(as_of = t): the claims that somebody asserts at that time.
AnswerAsOf(t) ==
  {c \in DOMAIN claims :
     \E e \in DOMAIN edges : e.type = "asserts" /\ e.dst = c /\ IsLiveAt(edges[e], t)}

\* query(): the current state.
CurrentAnswer ==
  {c \in DOMAIN claims :
     \E e \in DOMAIN edges : e.type = "asserts" /\ e.dst = c /\ ~edges[e].invalidated}

-----------------------------------------------------------------------------
(* Properties *)

AssertsEdge(c) == EdgeKey("asserts", SpeakerOf[c], c)

Nodes == speakers \cup {x \in Entity : entities[x] # {}} \cup DOMAIN claims

\* Whatever was loaded in whatever pieces, the graph hangs together: an edge ends at
\* nodes (an episode has none), and a claim has its assertion and its subject.
Linked ==
  /\ \A e \in DOMAIN edges :
        e.src \in Nodes /\ (e.type # "appears_in" => e.dst \in Nodes)
  /\ \A c \in DOMAIN claims :
        {AssertsEdge(c), EdgeKey("about", c, SubjectOf[c])} \subseteq DOMAIN edges

\* Nothing is ever deleted, and what was invalidated stays as it was: a claim that
\* is loaded again does not come back to life, nor does the end of its interval move.
HistoryKept ==
  [][/\ speakers \subseteq speakers'
     /\ \A x \in Entity : entities[x] \subseteq entities'[x]
     /\ DOMAIN claims \subseteq DOMAIN claims'
     /\ DOMAIN edges \subseteq DOMAIN edges'
     /\ \A e \in DOMAIN edges : edges[e].invalidated => edges'[e] = edges[e]]_vars

Dated(c) == PublishedAt[EpisodeOf[c]] # Undated

\* "A point-in-time query that predates the invalidation still sees the fact": a
\* claim of a dated episode, once in the answer as of some time, leaves it only
\* when its assertion is invalidated at that time or earlier.
PastIsKept ==
  [][\A t \in Time : \A c \in AnswerAsOf(t) \ AnswerAsOf(t)' :
        Dated(c) => /\ edges'[AssertsEdge(c)].invalidated
                    /\ edges'[AssertsEdge(c)].to <= t]_vars

\* A claim only supersedes an earlier one of the same speaker about the same
\* subject, over all batches together, so that no claim is superseded by itself,
\* directly or around a circle.
SupersedesForward ==
  \A e \in DOMAIN edges :
     e.type = "supersedes" /\ Dated(e.src) /\ Dated(e.dst) =>
        /\ SpeakerOf[e.src] = SpeakerOf[e.dst]
        /\ SubjectOf[e.src] = SubjectOf[e.dst]
        /\ \/ PublishedAt[EpisodeOf[e.src]] > PublishedAt[EpisodeOf[e.dst]]
           \/ /\ PublishedAt[EpisodeOf[e.src]] = PublishedAt[EpisodeOf[e.dst]]
              /\ e.src > e.dst

\* "Contradiction/supersession sets valid_to + invalidated" (the architecture
\* document): the assertion of a claim that is superseded is no longer current.
SupersededIsPast ==
  \A e \in DOMAIN edges :
     e.type = "supersedes" => edges[AssertsEdge(e.dst)].invalidated
=============================================================================
