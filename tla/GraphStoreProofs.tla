-------------------------- MODULE GraphStoreProofs --------------------------
(***************************************************************************)
(* Proofs about GraphStore, for every set of claims, whatever batches they *)
(* come in and whatever callers invalidate.                                *)
(***************************************************************************)
EXTENDS GraphStore, TLAPS

-----------------------------------------------------------------------------
(* The edges of a load *)

\* The edges that bulk_load or load_claim write for a batch.
LoadKeys(batch, sign) ==
  {BatchEdges(batch, sign)} \cup {TripletEdges(c) : c \in {d \in ClaimId : batch = {d}}}

\* Dated episodes have one event time, whenever they are loaded.
LEMMA EventTimesTyped ==
  ASSUME TypeOK
  PROVE  /\ EventTimes \in [Episode -> Nat]
         /\ \A ep \in Episode : PublishedAt[ep] # Undated => EventTimes[ep] = PublishedAt[ep]
  BY GraphAssumption DEF TypeOK, EventTimes, Time

\* The edges of one claim.
LEMMA TripletKeys ==
  ASSUME NEW c \in ClaimId, NEW e \in TripletEdges(c)
  PROVE  /\ e \in EdgeKeys
         /\ e.type # "supersedes"
         /\ e.type = "asserts" => e = AssertsEdge(c) /\ e.dst = c
         /\ e.src \in {SpeakerOf[c], c}
         /\ e.type # "appears_in" => e.dst \in {c, SubjectOf[c]} \cup Mentioned(c)
<1>1. SpeakerOf[c] \in Speaker /\ SubjectOf[c] \in Entity /\ EpisodeOf[c] \in Episode
      /\ Mentioned(c) \subseteq Entity
  BY ClaimAssumption, GraphAssumption DEF Mentioned
<1>2. CASE e = EdgeKey("asserts", SpeakerOf[c], c)
  BY <1>1, <1>2 DEF EdgeKey, EdgeKeys, KeyOfType, AssertsEdge
<1>3. CASE e = EdgeKey("about", c, SubjectOf[c])
  BY <1>1, <1>3 DEF EdgeKey, EdgeKeys, KeyOfType
<1>4. CASE e = EdgeKey("appears_in", SpeakerOf[c], EpisodeOf[c])
  BY <1>1, <1>4 DEF EdgeKey, EdgeKeys, KeyOfType
<1>5. ASSUME NEW x \in Mentioned(c), e = EdgeKey("mentions", c, x)
      PROVE  /\ e \in EdgeKeys /\ e.type = "mentions" /\ e.src = c /\ e.dst = x
  BY <1>1, <1>5 DEF EdgeKey, EdgeKeys, KeyOfType
<1> QED
  BY <1>2, <1>3, <1>4, <1>5 DEF TripletEdges

\* The edges that relate the stances of two claims of a batch.
LEMMA StanceKeys ==
  ASSUME NEW batch \in SUBSET ClaimId, NEW sign, NEW time, NEW e \in StanceEdges(batch, sign, time)
  PROVE  /\ e \in EdgeKeys
         /\ e.type \in {"agrees_with", "disputes"}
         /\ e.src \in batch /\ e.dst \in batch
<1>1. PICK a \in batch, b \in batch :
         e = EdgeKey(IF sign[a] = sign[b] THEN "agrees_with" ELSE "disputes", a, b)
  BY DEF StanceEdges
<1>2. \/ e = EdgeKey("agrees_with", a, b)
      \/ e = EdgeKey("disputes", a, b)
  BY <1>1
<1> QED
  BY <1>2 DEF EdgeKey, EdgeKeys, KeyOfType

\* A claim supersedes an older one of its group.
LEMMA SupersessionKeys ==
  ASSUME NEW batch \in SUBSET ClaimId, NEW sign, NEW time, NEW e \in SupersessionEdges(batch, sign, time)
  PROVE  /\ e \in EdgeKeys
         /\ e.type = "supersedes"
         /\ e.src \in batch /\ e.dst \in batch
         /\ SpeakerOf[e.src] = SpeakerOf[e.dst]
         /\ SubjectOf[e.src] = SubjectOf[e.dst]
         /\ Newer(e.src, e.dst, time)
<1>1. PICK a \in batch, b \in batch :
         e = EdgeKey("supersedes", a, b) /\ Consecutive(a, b, batch, time)
  BY DEF SupersessionEdges
<1>2. e.type = "supersedes" /\ e.src = a /\ e.dst = b /\ e \in EdgeKeys
  BY <1>1 DEF EdgeKey, EdgeKeys, KeyOfType
<1>3. /\ SpeakerOf[b] = SpeakerOf[a]
      /\ SubjectOf[b] = SubjectOf[a]
      /\ Newer(a, b, time)
  BY <1>1 DEF Consecutive
<1> QED
  BY <1>2, <1>3

\* What is known of an edge that a load of a batch writes.
KeyOf(e, batch) ==
  /\ e \in EdgeKeys
  /\ e.type = "asserts" => e.dst \in batch /\ e = AssertsEdge(e.dst)
  /\ \E c \in batch : e.src \in {SpeakerOf[c], c}
  /\ e.type # "appears_in" =>
        \E c \in batch : e.dst \in {c, SubjectOf[c]} \cup Mentioned(c)
  /\ e.type = "supersedes" =>
        /\ SpeakerOf[e.src] = SpeakerOf[e.dst]
        /\ SubjectOf[e.src] = SubjectOf[e.dst]
        /\ Newer(e.src, e.dst, EventTimes)

LEMMA KeysOfLoad ==
  ASSUME NEW batch \in SUBSET ClaimId, NEW sign, NEW keys \in LoadKeys(batch, sign)
  PROVE  /\ \A e \in keys : KeyOf(e, batch)
         /\ \A c \in batch : TripletEdges(c) \subseteq keys
<1>1. ASSUME NEW c \in batch, NEW e \in TripletEdges(c) PROVE KeyOf(e, batch)
  BY <1>1, TripletKeys DEF KeyOf
<1>2. ASSUME NEW e \in StanceEdges(batch, sign, EventTimes) PROVE KeyOf(e, batch)
  BY <1>2, StanceKeys DEF KeyOf
<1>3. ASSUME NEW e \in SupersessionEdges(batch, sign, EventTimes) PROVE KeyOf(e, batch)
  BY <1>3, SupersessionKeys DEF KeyOf
<1>4. CASE keys = BatchEdges(batch, sign)
  <2>1. ASSUME NEW e \in keys PROVE KeyOf(e, batch)
    <3>1. e \in BatchEdges(batch, sign)
      BY <1>4, <2>1
    <3>2. \/ e \in UNION {TripletEdges(c) : c \in batch}
          \/ e \in StanceEdges(batch, sign, EventTimes)
          \/ e \in SupersessionEdges(batch, sign, EventTimes)
      BY <3>1 DEF BatchEdges
    <3>3. e \in UNION {TripletEdges(c) : c \in batch} => \E c \in batch : e \in TripletEdges(c)
      OBVIOUS
    <3> QED
      BY <1>1, <1>2, <1>3, <3>2, <3>3
  <2>2. ASSUME NEW c \in batch PROVE TripletEdges(c) \subseteq keys
    BY <1>4 DEF BatchEdges
  <2> QED
    BY <2>1, <2>2
<1>5. ASSUME NEW c \in ClaimId, batch = {c}, keys = TripletEdges(c)
      PROVE  /\ \A e \in keys : KeyOf(e, batch)
             /\ \A d \in batch : TripletEdges(d) \subseteq keys
  BY <1>1, <1>5
<1> QED
  BY <1>4, <1>5 DEF LoadKeys

-----------------------------------------------------------------------------
(* Steps *)

\* What may happen to the graph, whatever else changes: a load, an invalidation, or
\* nothing.
GraphStep ==
  \/ \E batch \in SUBSET ClaimId : \E sign \in [batch -> Sign] :
        \E keys \in LoadKeys(batch, sign) : Upsert(batch, sign, keys)
  \/ \E e \in DOMAIN edges, at \in Time : Invalidate(e, at)
  \/ UNCHANGED storeVars

LEMMA StepKinds ==
  ASSUME TypeOK, [Next]_vars
  PROVE  GraphStep /\ clock' \in Time /\ loads' \in 0..MaxLoads
<1>1. ASSUME NEW batch \in Batches, NEW sign \in [batch -> Sign], BulkLoad(batch, sign)
      PROVE  GraphStep /\ Count
  <2>1. batch \in SUBSET ClaimId
    BY GraphAssumption
  <2>2. BatchEdges(batch, sign) \in LoadKeys(batch, sign)
    BY DEF LoadKeys
  <2>3. Count /\ Upsert(batch, sign, BatchEdges(batch, sign))
    BY <1>1 DEF BulkLoad
  <2> QED
    BY <2>1, <2>2, <2>3 DEF GraphStep
<1>2. ASSUME NEW c \in ClaimId, NEW s \in Sign, LoadClaim(c, s)
      PROVE  GraphStep /\ Count
  <2> DEFINE sign == [x \in {c} |-> s]
  <2>1. {c} \in SUBSET ClaimId /\ sign \in [{c} -> Sign]
    OBVIOUS
  <2>2. TripletEdges(c) \in LoadKeys({c}, sign)
    BY DEF LoadKeys
  <2>3. Count /\ Upsert({c}, sign, TripletEdges(c))
    BY <1>2 DEF LoadClaim
  <2> QED
    BY <2>1, <2>2, <2>3 DEF GraphStep
<1>3. ASSUME NEW e \in DOMAIN edges, NEW at \in Time, Invalidate(e, at)
      PROVE  GraphStep /\ UNCHANGED <<clock, loads>>
  BY <1>3 DEF GraphStep, Invalidate
<1>4. Count => clock' \in Time /\ loads' \in 0..MaxLoads
  BY GraphAssumption DEF Count, TypeOK
<1>5. Tick => GraphStep /\ clock' \in Time /\ loads' \in 0..MaxLoads
  BY GraphAssumption DEF Tick, GraphStep, TypeOK, Time
<1>6. UNCHANGED vars => GraphStep /\ UNCHANGED <<clock, loads>>
  BY DEF vars, GraphStep
<1> QED
  BY <1>1, <1>2, <1>3, <1>4, <1>5, <1>6 DEF Next, TypeOK

\* The edges and the nodes a load leaves.
LEMMA UpsertEffect ==
  ASSUME NEW batch, NEW sign, NEW keys, Upsert(batch, sign, keys)
  PROVE  /\ DOMAIN edges' = DOMAIN edges \cup keys
         /\ \A e \in DOMAIN edges : e \notin keys \/ edges[e].invalidated => edges'[e] = edges[e]
         /\ \A e \in keys : ~(e \in DOMAIN edges /\ edges[e].invalidated) => edges'[e] = NewEdge(e)
         /\ DOMAIN claims' = DOMAIN claims \cup batch
         /\ speakers' = speakers \cup {SpeakerOf[c] : c \in batch}
         /\ \A x \in Entity : entities'[x] =
               entities[x] \cup {c \in batch : x \in {SubjectOf[c]} \cup Mentioned(c)}
  BY DEF Upsert, UpsertEdges, UpsertClaims, UpsertSpeakers, UpsertEntities

\* The edge an invalidation changes, and those it does not.
LEMMA InvalidateEffect ==
  ASSUME TypeOK, NEW e \in DOMAIN edges, NEW at \in Time, Invalidate(e, at)
  PROVE  /\ DOMAIN edges' = DOMAIN edges
         /\ ~edges[e].invalidated
         /\ edges'[e] = [from |-> edges[e].from, to |-> at, invalidated |-> TRUE]
         /\ \A d \in DOMAIN edges : d # e => edges'[d] = edges[d]
         /\ UNCHANGED <<clock, loads, speakers, entities, claims>>
<1>1. edges[e] \in Edge
  BY DEF TypeOK
<1> QED
  BY <1>1 DEF Invalidate, Edge

\* A new edge is open, and starts at the event time of its claim's episode.
LEMMA NewEdgeTyped ==
  ASSUME TypeOK, NEW e \in EdgeKeys
  PROVE  /\ NewEdge(e) \in Edge
         /\ NewEdge(e).to = Open /\ ~NewEdge(e).invalidated
         /\ NewEdge(e).from = EventTime(e)
<1>1. EventTime(e) \in Nat
  <2>1. CASE e.type = "asserts"
    BY <2>1, EventTimesTyped, ClaimAssumption DEF EventTime, EdgeKeys, KeyOfType, EdgeKey
  <2>2. CASE e.type = "appears_in"
    BY <2>2, EventTimesTyped, ClaimAssumption DEF EventTime, EdgeKeys, KeyOfType, EdgeKey
  <2>3. CASE e.type \notin {"asserts", "appears_in"}
    BY <2>3, EventTimesTyped, ClaimAssumption DEF EventTime, EdgeKeys, KeyOfType, EdgeKey
  <2> QED
    BY <2>1, <2>2, <2>3
<1> QED
  BY <1>1 DEF NewEdge, Edge, Open

-----------------------------------------------------------------------------
(* Type correctness *)

LEMMA TypeInit == Init => TypeOK
  BY GraphAssumption DEF Init, TypeOK, Time

\* Every step keeps the types.
LEMMA TypeStep ==
  ASSUME TypeOK, GraphStep, clock' \in Time, loads' \in 0..MaxLoads
  PROVE  TypeOK'
<1>1. ASSUME NEW batch \in SUBSET ClaimId, NEW sign \in [batch -> Sign],
             NEW keys \in LoadKeys(batch, sign), Upsert(batch, sign, keys)
      PROVE  TypeOK'
  <2>1. keys \subseteq EdgeKeys
    BY KeysOfLoad DEF KeyOf
  <2>3. speakers' \subseteq Speaker
    BY <1>1, ClaimAssumption DEF Upsert, UpsertSpeakers, TypeOK
  <2>4. entities' \in [Entity -> SUBSET ClaimId]
    BY <1>1 DEF Upsert, UpsertEntities, TypeOK
  <2>5. DOMAIN claims' \subseteq ClaimId /\ \A c \in DOMAIN claims' : claims'[c] \in Sign
    BY <1>1 DEF Upsert, UpsertClaims, TypeOK
  <2>6. DOMAIN edges' \subseteq EdgeKeys
    <3>1. DOMAIN edges' = DOMAIN edges \cup keys
      BY <1>1, UpsertEffect
    <3> QED
      BY <2>1, <3>1 DEF TypeOK
  <2>7. ASSUME NEW e \in DOMAIN edges' PROVE edges'[e] \in Edge
    <3>1. \/ e \in DOMAIN edges /\ edges'[e] = edges[e]
          \/ e \in keys /\ edges'[e] = NewEdge(e)
      BY <1>1, <2>7, UpsertEffect
    <3> QED
      BY <3>1, <2>1, NewEdgeTyped DEF TypeOK
  <2> QED
    BY <2>3, <2>4, <2>5, <2>6, <2>7 DEF TypeOK
<1>2. ASSUME NEW e \in DOMAIN edges, NEW at \in Time, Invalidate(e, at)
      PROVE  TypeOK'
  <2>1. edges[e] \in Edge /\ at \in Nat
    BY DEF TypeOK, Time
  <2>2. [from |-> edges[e].from, to |-> at, invalidated |-> TRUE] \in Edge
    BY <2>1 DEF Edge
  <2> QED
    BY <1>2, <2>2, InvalidateEffect DEF TypeOK
<1>3. CASE UNCHANGED storeVars
  BY <1>3 DEF storeVars, TypeOK
<1> QED
  BY <1>1, <1>2, <1>3 DEF GraphStep

\* The graph is always of its types.
THEOREM TypeCorrect == Spec => []TypeOK
<1>1. Init => TypeOK
  BY TypeInit
<1>2. TypeOK /\ [Next]_vars => TypeOK'
  BY TypeStep, StepKinds
<1> QED
  BY <1>1, <1>2, PTL DEF Spec

-----------------------------------------------------------------------------
(* The graph hangs together *)

\* Nodes are there for good, and a load writes those its edges end at.
LEMMA NodesStep ==
  ASSUME TypeOK, NEW batch \in SUBSET ClaimId, NEW sign, NEW keys, Upsert(batch, sign, keys)
  PROVE  /\ Nodes \subseteq Nodes'
         /\ \A c \in batch : {SpeakerOf[c], c, SubjectOf[c]} \cup Mentioned(c) \subseteq Nodes'
<1>1. /\ DOMAIN claims' = DOMAIN claims \cup batch
      /\ speakers' = speakers \cup {SpeakerOf[c] : c \in batch}
      /\ \A x \in Entity : entities'[x] =
            entities[x] \cup {c \in batch : x \in {SubjectOf[c]} \cup Mentioned(c)}
  BY UpsertEffect
<1>2. Nodes \subseteq Nodes'
  BY <1>1 DEF Nodes
<1>3. ASSUME NEW c \in batch, NEW x \in {SubjectOf[c]} \cup Mentioned(c) PROVE x \in Nodes'
  <2>1. x \in Entity
    BY ClaimAssumption, GraphAssumption DEF Mentioned
  <2>2. c \in entities'[x]
    BY <1>1, <2>1
  <2> QED
    BY <2>1, <2>2 DEF Nodes
<1> QED
  BY <1>1, <1>2, <1>3 DEF Nodes

LEMMA LinkedStep ==
  ASSUME TypeOK, Linked, GraphStep
  PROVE  Linked'
<1>1. ASSUME NEW batch \in SUBSET ClaimId, NEW sign \in [batch -> Sign],
             NEW keys \in LoadKeys(batch, sign), Upsert(batch, sign, keys)
      PROVE  Linked'
  <2>1. DOMAIN edges' = DOMAIN edges \cup keys /\ DOMAIN claims' = DOMAIN claims \cup batch
    BY <1>1, UpsertEffect
  <2>2. /\ Nodes \subseteq Nodes'
        /\ \A c \in batch : {SpeakerOf[c], c, SubjectOf[c]} \cup Mentioned(c) \subseteq Nodes'
    BY <1>1, NodesStep
  <2>3. ASSUME NEW e \in keys
        PROVE  e.src \in Nodes' /\ (e.type # "appears_in" => e.dst \in Nodes')
    BY <2>2, KeysOfLoad DEF KeyOf
  <2>4. ASSUME NEW c \in batch
        PROVE  {AssertsEdge(c), EdgeKey("about", c, SubjectOf[c])} \subseteq keys
    BY KeysOfLoad DEF TripletEdges, AssertsEdge
  <2> QED
    BY <2>1, <2>2, <2>3, <2>4 DEF Linked
<1>2. ASSUME NEW e \in DOMAIN edges, NEW at \in Time, Invalidate(e, at)
      PROVE  Linked'
  BY <1>2, InvalidateEffect DEF Linked, Nodes
<1>3. CASE UNCHANGED storeVars
  BY <1>3 DEF storeVars, Linked, Nodes
<1> QED
  BY <1>1, <1>2, <1>3 DEF GraphStep

\* Whatever was loaded in whatever pieces, edges end at nodes, and claims have their
\* assertion and their subject.
THEOREM GraphLinked == Spec => []Linked
<1>1. Init => Linked
  BY DEF Init, Linked
<1>2. TypeOK /\ Linked /\ [Next]_vars => Linked'
  BY LinkedStep, StepKinds
<1> QED
  BY <1>1, <1>2, TypeCorrect, PTL DEF Spec

-----------------------------------------------------------------------------
(* Supersession follows time *)

LEMMA SupersedesStep ==
  ASSUME TypeOK, SupersedesForward, GraphStep
  PROVE  SupersedesForward'
<1>1. ASSUME NEW batch \in SUBSET ClaimId, NEW sign \in [batch -> Sign],
             NEW keys \in LoadKeys(batch, sign), Upsert(batch, sign, keys)
      PROVE  SupersedesForward'
  <2>1. DOMAIN edges' = DOMAIN edges \cup keys
    BY <1>1, UpsertEffect
  <2>2. ASSUME NEW e \in keys, e.type = "supersedes", Dated(e.src), Dated(e.dst)
        PROVE  /\ SpeakerOf[e.src] = SpeakerOf[e.dst]
               /\ SubjectOf[e.src] = SubjectOf[e.dst]
               /\ \/ PublishedAt[EpisodeOf[e.src]] > PublishedAt[EpisodeOf[e.dst]]
                  \/ /\ PublishedAt[EpisodeOf[e.src]] = PublishedAt[EpisodeOf[e.dst]]
                     /\ e.src > e.dst
    <3>1. KeyOf(e, batch)
      BY KeysOfLoad
    <3>2. EpisodeOf[e.src] \in Episode /\ EpisodeOf[e.dst] \in Episode
      BY <3>1, <2>2, ClaimAssumption DEF KeyOf, EdgeKeys, KeyOfType, EdgeKey
    <3>3. /\ EventTimes[EpisodeOf[e.src]] = PublishedAt[EpisodeOf[e.src]]
          /\ EventTimes[EpisodeOf[e.dst]] = PublishedAt[EpisodeOf[e.dst]]
      BY <3>2, <2>2, EventTimesTyped DEF Dated
    <3> QED
      BY <3>1, <3>3, <2>2 DEF KeyOf, Newer
  <2> QED
    BY <2>1, <2>2 DEF SupersedesForward
<1>2. ASSUME NEW e \in DOMAIN edges, NEW at \in Time, Invalidate(e, at)
      PROVE  SupersedesForward'
  BY <1>2, InvalidateEffect DEF SupersedesForward
<1>3. CASE UNCHANGED storeVars
  BY <1>3 DEF storeVars, SupersedesForward
<1> QED
  BY <1>1, <1>2, <1>3 DEF GraphStep

\* Over all batches together, a claim only supersedes an earlier one of its speaker
\* about its subject.
THEOREM SupersessionFollowsTime == Spec => []SupersedesForward
<1>1. Init => SupersedesForward
  BY DEF Init, SupersedesForward
<1>2. TypeOK /\ SupersedesForward /\ [Next]_vars => SupersedesForward'
  BY SupersedesStep, StepKinds
<1> QED
  BY <1>1, <1>2, TypeCorrect, PTL DEF Spec

-----------------------------------------------------------------------------
(* History *)

\* Nothing is deleted, and what was invalidated stays as it was.
KeepsHistory ==
  /\ speakers \subseteq speakers'
  /\ \A x \in Entity : entities[x] \subseteq entities'[x]
  /\ DOMAIN claims \subseteq DOMAIN claims'
  /\ DOMAIN edges \subseteq DOMAIN edges'
  /\ \A e \in DOMAIN edges : edges[e].invalidated => edges'[e] = edges[e]

LEMMA HistoryStep ==
  ASSUME TypeOK, GraphStep
  PROVE  KeepsHistory
<1>1. ASSUME NEW batch \in SUBSET ClaimId, NEW sign \in [batch -> Sign],
             NEW keys \in LoadKeys(batch, sign), Upsert(batch, sign, keys)
      PROVE  KeepsHistory
  <2>1. /\ DOMAIN edges' = DOMAIN edges \cup keys
        /\ \A e \in DOMAIN edges : edges[e].invalidated => edges'[e] = edges[e]
        /\ DOMAIN claims' = DOMAIN claims \cup batch
        /\ speakers' = speakers \cup {SpeakerOf[c] : c \in batch}
    BY <1>1, UpsertEffect
  <2>2. \A x \in Entity : entities[x] \subseteq entities'[x]
    BY <1>1 DEF Upsert, UpsertEntities
  <2> QED
    BY <2>1, <2>2 DEF KeepsHistory
<1>2. ASSUME NEW e \in DOMAIN edges, NEW at \in Time, Invalidate(e, at)
      PROVE  KeepsHistory
  BY <1>2, InvalidateEffect DEF KeepsHistory
<1>3. CASE UNCHANGED storeVars
  BY <1>3 DEF storeVars, KeepsHistory
<1> QED
  BY <1>1, <1>2, <1>3 DEF GraphStep

\* Nothing is deleted, and what was invalidated stays as it was, in all steps.
THEOREM HistoryIsKept == Spec => HistoryKept
<1>1. TypeOK /\ [Next]_vars => [KeepsHistory]_vars
  BY HistoryStep, StepKinds
<1> QED
  BY <1>1, TypeCorrect, PTL DEF Spec, HistoryKept, KeepsHistory

\* The keys of assertions, and the intervals of edges: open until it is invalidated,
\* and from the publication of the episode, if that is known.
Intervals ==
  \A e \in DOMAIN edges :
     /\ ~edges[e].invalidated => edges[e].to = Open
     /\ e.type = "asserts" => /\ e.dst \in ClaimId
                              /\ e = AssertsEdge(e.dst)
                              /\ Dated(e.dst) => edges[e].from = PublishedAt[EpisodeOf[e.dst]]

\* What a load makes of an edge it writes.
LEMMA WrittenEdge ==
  ASSUME TypeOK, NEW batch \in SUBSET ClaimId, NEW e, KeyOf(e, batch)
  PROVE  /\ NewEdge(e).to = Open /\ ~NewEdge(e).invalidated
         /\ e.type = "asserts" =>
              /\ e.dst \in ClaimId /\ e = AssertsEdge(e.dst)
              /\ Dated(e.dst) => NewEdge(e).from = PublishedAt[EpisodeOf[e.dst]]
<1>1. /\ NewEdge(e).to = Open /\ ~NewEdge(e).invalidated
      /\ NewEdge(e).from = EventTime(e)
  BY NewEdgeTyped DEF KeyOf
<1>2. ASSUME e.type = "asserts"
      PROVE  /\ e.dst \in ClaimId /\ e = AssertsEdge(e.dst)
             /\ Dated(e.dst) => EventTime(e) = PublishedAt[EpisodeOf[e.dst]]
  <2>1. e.dst \in ClaimId /\ e = AssertsEdge(e.dst)
    BY <1>2 DEF KeyOf
  <2>2. EventTime(e) = EventTimes[EpisodeOf[e.dst]] /\ EpisodeOf[e.dst] \in Episode
    BY <1>2, <2>1, ClaimAssumption DEF EventTime
  <2> QED
    BY <2>1, <2>2, EventTimesTyped DEF Dated
<1> QED
  BY <1>1, <1>2

LEMMA IntervalsStep ==
  ASSUME TypeOK, Intervals, GraphStep
  PROVE  Intervals'
<1>1. ASSUME NEW batch \in SUBSET ClaimId, NEW sign \in [batch -> Sign],
             NEW keys \in LoadKeys(batch, sign), Upsert(batch, sign, keys)
      PROVE  Intervals'
  <2> SUFFICES ASSUME NEW e \in DOMAIN edges'
      PROVE  /\ ~edges'[e].invalidated => edges'[e].to = Open
             /\ e.type = "asserts" =>
                  /\ e.dst \in ClaimId /\ e = AssertsEdge(e.dst)
                  /\ Dated(e.dst) => edges'[e].from = PublishedAt[EpisodeOf[e.dst]]
    BY DEF Intervals, Dated, AssertsEdge
  <2>1. \/ e \in DOMAIN edges /\ edges'[e] = edges[e]
        \/ e \in keys /\ edges'[e] = NewEdge(e)
    BY <1>1, UpsertEffect
  <2>2. e \in keys => KeyOf(e, batch)
    BY KeysOfLoad
  <2>3. CASE e \in DOMAIN edges /\ edges'[e] = edges[e]
    BY <2>3 DEF Intervals
  <2>4. CASE e \in keys /\ edges'[e] = NewEdge(e)
    BY <2>4, <2>2, WrittenEdge
  <2> QED
    BY <2>1, <2>3, <2>4
<1>2. ASSUME NEW e \in DOMAIN edges, NEW at \in Time, Invalidate(e, at)
      PROVE  Intervals'
  <2>1. /\ DOMAIN edges' = DOMAIN edges
        /\ edges'[e].invalidated /\ edges'[e].from = edges[e].from
        /\ \A d \in DOMAIN edges : d # e => edges'[d] = edges[d]
    <3>1. edges'[e] = [from |-> edges[e].from, to |-> at, invalidated |-> TRUE]
      BY <1>2, InvalidateEffect
    <3>2. /\ DOMAIN edges' = DOMAIN edges
          /\ \A d \in DOMAIN edges : d # e => edges'[d] = edges[d]
      BY <1>2, InvalidateEffect
    <3> QED
      BY <3>1, <3>2
  <2> QED
    BY <2>1 DEF Intervals, Dated, AssertsEdge
<1>3. CASE UNCHANGED storeVars
  BY <1>3 DEF storeVars, Intervals
<1> QED
  BY <1>1, <1>2, <1>3 DEF GraphStep

LEMMA IntervalsCorrect == Spec => []Intervals
<1>1. Init => Intervals
  BY DEF Init, Intervals
<1>2. TypeOK /\ Intervals /\ [Next]_vars => Intervals'
  BY IntervalsStep, StepKinds
<1> QED
  BY <1>1, <1>2, TypeCorrect, PTL DEF Spec

\* A claim is in the answer as of t just if its assertion was live then.
LEMMA AnswerByAssertion ==
  ASSUME Intervals, NEW t \in Time, NEW c
  PROVE  c \in AnswerAsOf(t) <=> /\ c \in DOMAIN claims
                                 /\ AssertsEdge(c) \in DOMAIN edges
                                 /\ AssertsEdge(c).type = "asserts" /\ AssertsEdge(c).dst = c
                                 /\ IsLiveAt(edges[AssertsEdge(c)], t)
  BY DEF Intervals, AnswerAsOf, AssertsEdge, EdgeKey

\* A step only takes a claim of a dated episode out of the answer as of some time by
\* invalidating its assertion at that time or earlier.
LEMMA PastStep ==
  ASSUME TypeOK, Intervals, GraphStep,
         NEW t \in Time, NEW c \in AnswerAsOf(t), c \notin AnswerAsOf(t)', Dated(c)
  PROVE  /\ edges'[AssertsEdge(c)].invalidated
         /\ edges'[AssertsEdge(c)].to <= t
<1> DEFINE a == AssertsEdge(c)
<1>1. /\ c \in DOMAIN claims /\ a \in DOMAIN edges
      /\ a.type = "asserts" /\ a.dst = c
      /\ IsLiveAt(edges[a], t)
  BY AnswerByAssertion
<1>2. edges[a] \in Edge /\ t \in Nat \ {0}
  BY <1>1 DEF TypeOK, Time
<1>3. edges[a].from <= t
  BY <1>1 DEF IsLiveAt
<1>4. c \in DOMAIN claims' /\ a \in DOMAIN edges' => ~IsLiveAt(edges'[a], t)
  BY <1>1 DEF AnswerAsOf
<1>5. ASSUME NEW batch \in SUBSET ClaimId, NEW sign \in [batch -> Sign],
             NEW keys \in LoadKeys(batch, sign), Upsert(batch, sign, keys)
      PROVE  FALSE
  <2>1. c \in DOMAIN claims' /\ a \in DOMAIN edges'
    BY <1>1, <1>5, UpsertEffect
  <2>2. \/ edges'[a] = edges[a]
        \/ a \in keys /\ edges'[a] = NewEdge(a)
    BY <1>1, <1>5, UpsertEffect
  <2>3. edges'[a] # edges[a]
    BY <1>1, <1>4, <2>1
  <2>4. a \in keys /\ edges'[a] = NewEdge(a)
    BY <2>2, <2>3
  <2>5. KeyOf(a, batch)
    BY <2>4, KeysOfLoad
  <2>6. edges'[a].to = Open /\ edges'[a].from = PublishedAt[EpisodeOf[c]]
    BY <2>4, <2>5, <1>1, WrittenEdge
  <2>7. edges[a].from = PublishedAt[EpisodeOf[c]]
    BY <1>1 DEF Intervals
  <2> QED
    BY <2>1, <2>6, <2>7, <1>3, <1>4 DEF IsLiveAt
<1>6. ASSUME NEW e \in DOMAIN edges, NEW at \in Time, Invalidate(e, at)
      PROVE  edges'[a].invalidated /\ edges'[a].to <= t
  <2>1. /\ DOMAIN edges' = DOMAIN edges /\ DOMAIN claims' = DOMAIN claims
        /\ edges'[e] = [from |-> edges[e].from, to |-> at, invalidated |-> TRUE]
        /\ \A d \in DOMAIN edges : d # e => edges'[d] = edges[d]
    BY <1>6, InvalidateEffect
  <2>2. e = a
    BY <2>1, <1>1, <1>4
  <2>3. at \in Nat
    BY DEF Time
  <2>4. edges'[a].from = edges[a].from /\ edges'[a].to = at /\ edges'[a].invalidated
    BY <2>1, <2>2
  <2>5. ~(at > t)
    BY <2>1, <2>4, <1>1, <1>3, <1>4 DEF IsLiveAt
  <2> QED
    BY <2>3, <2>4, <2>5, <1>2
<1>7. CASE UNCHANGED storeVars
  BY <1>7, <1>1, <1>4 DEF storeVars
<1> QED
  BY <1>5, <1>6, <1>7 DEF GraphStep

\* "A point-in-time query that predates the invalidation still sees the fact."
THEOREM ThePastIsKept == Spec => PastIsKept
<1> DEFINE Kept ==
      \A t \in Time : \A c \in AnswerAsOf(t) \ AnswerAsOf(t)' :
        Dated(c) => /\ edges'[AssertsEdge(c)].invalidated
                    /\ edges'[AssertsEdge(c)].to <= t
<1>1. TypeOK /\ Intervals /\ [Next]_vars => [Kept]_vars
  BY PastStep, StepKinds
<1> QED
  BY <1>1, TypeCorrect, IntervalsCorrect, PTL DEF Spec, PastIsKept
=============================================================================
