-------------------------- MODULE Neo4jStoreProofs --------------------------
(***************************************************************************)
(* Proofs about Neo4jStore: what both stores have in common, for every set *)
(* of claims and batches, with loads that die between their statements.    *)
(***************************************************************************)
EXTENDS Neo4jStore, GraphStoreProofs

\* Neo4j's side of the type invariant.
NeoSideOK ==
  /\ neoSpeakers \subseteq Speaker
  /\ neoEntities \in [Entity -> SUBSET ClaimId]
  /\ DOMAIN neoClaims \subseteq ClaimId /\ \A c \in DOMAIN neoClaims : neoClaims[c] \in Sign
  /\ DOMAIN neoEdges \subseteq EdgeKeys /\ \A e \in DOMAIN neoEdges : neoEdges[e] \in Edge
  /\ loading.batch \subseteq ClaimId
  /\ loading.sign \in [loading.batch -> Sign]
  /\ loading.edges \subseteq EdgeKeys

\* The nodes of a load are written before its edges, and the clock stands still
\* between the two.
Pending ==
  loading # NoLoad =>
     /\ loading.edges \in LoadKeys(loading.batch, loading.sign)
     /\ loading.batch \subseteq DOMAIN neoClaims
     /\ \A c \in loading.batch :
           {SpeakerOf[c], c, SubjectOf[c]} \cup Mentioned(c) \subseteq NeoNodes

-----------------------------------------------------------------------------
(* Steps *)

\* Writing the nodes of a load.
NodesStatement ==
  \E batch \in SUBSET ClaimId : \E sign \in [batch -> Sign] :
     \E keys \in LoadKeys(batch, sign) : WriteNodes(batch, sign, keys)

LEMMA NeoStepKinds ==
  ASSUME TypeOK, [NeoNext]_allVars
  PROVE  \/ NodesStatement
         \/ WriteEdges
         \/ LoadDies
         \/ \E e \in DOMAIN edges, at \in Time : NeoInvalidate(e, at)
         \/ NeoTick
         \/ UNCHANGED allVars
<1>1. ASSUME NEW batch \in Batches, NEW sign \in [batch -> Sign],
             WriteNodes(batch, sign, BatchEdges(batch, sign))
      PROVE  NodesStatement
  <2>1. batch \in SUBSET ClaimId
    BY GraphAssumption
  <2>2. BatchEdges(batch, sign) \in LoadKeys(batch, sign)
    BY DEF LoadKeys
  <2> QED
    BY <1>1, <2>1, <2>2 DEF NodesStatement
<1>2. ASSUME NEW c \in ClaimId, NEW s \in Sign,
             WriteNodes({c}, [x \in {c} |-> s], TripletEdges(c))
      PROVE  NodesStatement
  <2> DEFINE sign == [x \in {c} |-> s]
  <2>1. {c} \in SUBSET ClaimId /\ sign \in [{c} -> Sign]
    OBVIOUS
  <2>2. TripletEdges(c) \in LoadKeys({c}, sign)
    BY DEF LoadKeys
  <2> QED
    BY <1>2, <2>1, <2>2 DEF NodesStatement
<1> QED
  BY <1>1, <1>2 DEF NeoNext

\* LoadKeys depends on the clock alone.
LEMMA SameKeys ==
  ASSUME clock' = clock, NEW batch, NEW sign
  PROVE  LoadKeys(batch, sign)' = LoadKeys(batch, sign)
  BY DEF LoadKeys, BatchEdges, TripletEdges, StanceEdges, SupersessionEdges, EventTimes,
         Newer, Consecutive, Comparable, FirstOfItsKind, SameRelation, EdgeKey, Mentioned

\* What each statement does to the nodes and edges of both stores.
LEMMA WriteNodesEffect ==
  ASSUME NeoSideOK, NEW batch \in SUBSET ClaimId, NEW sign \in [batch -> Sign],
         NEW keys \in LoadKeys(batch, sign), WriteNodes(batch, sign, keys)
  PROVE  /\ UNCHANGED <<storeVars, neoEdges>> /\ clock' = clock
         /\ loading' = [batch |-> batch, sign |-> sign, edges |-> keys]
         /\ NeoSideOK'
         /\ NeoNodes \subseteq NeoNodes'
         /\ DOMAIN neoClaims' = DOMAIN neoClaims \cup batch
         /\ \A c \in batch :
               {SpeakerOf[c], c, SubjectOf[c]} \cup Mentioned(c) \subseteq NeoNodes'
<1> DEFINE uses(x) == {c \in batch : x \in {SubjectOf[c]} \cup Mentioned(c)}
<1>1. /\ UNCHANGED <<storeVars, neoEdges>> /\ clock' = clock
      /\ loading' = [batch |-> batch, sign |-> sign, edges |-> keys]
      /\ neoSpeakers' = neoSpeakers \cup {SpeakerOf[c] : c \in batch}
      /\ DOMAIN neoClaims' = DOMAIN neoClaims \cup batch
  BY DEF WriteNodes, Count
<1>2. \A x \in Entity : neoEntities'[x] = IF uses(x) = {} THEN neoEntities[x] ELSE uses(x)
  BY DEF WriteNodes
<1>3. NeoSideOK'
  <2>1. neoSpeakers' \subseteq Speaker
    BY <1>1, ClaimAssumption DEF NeoSideOK
  <2>2. neoEntities' \in [Entity -> SUBSET ClaimId]
    <3>1. \A x \in Entity : uses(x) \in SUBSET ClaimId /\ neoEntities[x] \in SUBSET ClaimId
      BY DEF NeoSideOK
    <3>2. neoEntities' = [x \in Entity |-> IF uses(x) = {} THEN neoEntities[x] ELSE uses(x)]
      BY DEF WriteNodes
    <3> HIDE DEF uses
    <3> QED
      BY <3>1, <3>2
  <2>3. \A c \in DOMAIN neoClaims' : neoClaims'[c] \in Sign
    BY DEF WriteNodes, NeoSideOK
  <2>4. keys \subseteq EdgeKeys
    BY KeysOfLoad DEF KeyOf
  <2>5. loading'.batch = batch /\ loading'.sign = sign /\ loading'.edges = keys
    BY <1>1
  <2>6. DOMAIN neoClaims' \subseteq ClaimId
    BY <1>1 DEF NeoSideOK
  <2> QED
    BY <1>1, <2>1, <2>2, <2>3, <2>4, <2>5, <2>6 DEF NeoSideOK
<1>4. NeoNodes \subseteq NeoNodes'
  <2>1. \A x \in Entity : neoEntities[x] # {} => neoEntities'[x] # {}
    BY <1>2
  <2> QED
    BY <1>1, <2>1 DEF NeoNodes
<1>5. ASSUME NEW c \in batch, NEW x \in {SubjectOf[c]} \cup Mentioned(c) PROVE x \in NeoNodes'
  <2>1. x \in Entity
    BY ClaimAssumption, GraphAssumption DEF Mentioned
  <2>2. c \in uses(x)
    OBVIOUS
  <2>3. neoEntities'[x] # {}
    BY <1>2, <2>1, <2>2
  <2> QED
    BY <2>1, <2>3 DEF NeoNodes
<1>6. \A c \in batch : {SpeakerOf[c], c} \subseteq NeoNodes'
  BY <1>1 DEF NeoNodes
<1> QED
  BY <1>1, <1>3, <1>4, <1>5, <1>6

\* The edges statement matches every edge but those to an episode.
LEMMA MatchedEdges ==
  ASSUME TypeOK, NeoSideOK, Pending, loading # NoLoad
  PROVE  {e \in loading.edges : Matched(e)} = {e \in loading.edges : e.type # "appears_in"}
<1> SUFFICES ASSUME NEW e \in loading.edges
             PROVE  Matched(e) <=> e.type # "appears_in"
  OBVIOUS
<1>1. KeyOf(e, loading.batch)
  BY KeysOfLoad DEF Pending, NeoSideOK
<1>2. CASE e.type = "appears_in"
  <2>1. e.dst \in Episode
    BY <1>1, <1>2 DEF KeyOf, EdgeKeys, KeyOfType, EdgeKey
  <2>2. NeoNodes \subseteq Speaker \cup Entity \cup ClaimId
    BY DEF NeoNodes, NeoSideOK
  <2> QED
    BY <1>2, <2>1, <2>2, NodeIdAssumption DEF Matched
<1>3. CASE e.type # "appears_in"
  BY <1>1, <1>3 DEF Pending, KeyOf, Matched
<1> QED
  BY <1>2, <1>3

LEMMA WriteEdgesEffect ==
  ASSUME TypeOK, NeoSideOK, Pending, WriteEdges
  PROVE  /\ Upsert(loading.batch, loading.sign, loading.edges)
         /\ loading' = NoLoad
         /\ UNCHANGED <<clock, loads, neoSpeakers, neoEntities, neoClaims>>
         /\ DOMAIN neoEdges' = DOMAIN neoEdges \cup
                                 {e \in loading.edges : e.type # "appears_in"}
         /\ \A e \in DOMAIN neoEdges' :
               neoEdges'[e] = IF e \in loading.edges /\ e.type # "appears_in"
                              THEN MergedEdge(e) ELSE neoEdges[e]
<1>1. loading # NoLoad
  BY DEF WriteEdges
<1>2. {e \in loading.edges : Matched(e)} = {e \in loading.edges : e.type # "appears_in"}
  BY <1>1, MatchedEdges
<1> QED
  BY <1>1, <1>2 DEF WriteEdges

LEMMA NeoInvalidateEffect ==
  ASSUME NeoSideOK, NEW e \in DOMAIN edges, NEW at \in Time, NeoInvalidate(e, at)
  PROVE  /\ Invalidate(e, at)
         /\ UNCHANGED <<neoSpeakers, neoEntities, neoClaims, loading>>
         /\ DOMAIN neoEdges' = DOMAIN neoEdges
         /\ \A d \in DOMAIN neoEdges :
               neoEdges'[d] =
                  IF d = e /\ ~neoEdges[e].invalidated
                  THEN [from |-> neoEdges[e].from, to |-> at, invalidated |-> TRUE]
                  ELSE neoEdges[d]
<1>1. \A d \in DOMAIN neoEdges : neoEdges[d] \in Edge
  BY DEF NeoSideOK
<1>2. CASE e \in DOMAIN neoEdges /\ ~neoEdges[e].invalidated
  <2>1. neoEdges' = [neoEdges EXCEPT ![e].to = at, ![e].invalidated = TRUE]
    BY <1>2 DEF NeoInvalidate
  <2>2. DOMAIN neoEdges' = DOMAIN neoEdges
    BY <2>1
  <2>3. \A d \in DOMAIN neoEdges : d # e => neoEdges'[d] = neoEdges[d]
    BY <2>1
  <2>4. neoEdges'[e] = [from |-> neoEdges[e].from, to |-> at, invalidated |-> TRUE]
    BY <1>1, <1>2, <2>1 DEF Edge
  <2> QED
    BY <1>2, <2>2, <2>3, <2>4 DEF NeoInvalidate
<1>3. CASE ~(e \in DOMAIN neoEdges /\ ~neoEdges[e].invalidated)
  BY <1>3 DEF NeoInvalidate
<1> QED
  BY <1>2, <1>3

-----------------------------------------------------------------------------
(* Type correctness *)

\* To the fake store every step is one of its own, or nothing.
LEMMA FakeStep ==
  ASSUME TypeOK, NeoSideOK, Pending, [NeoNext]_allVars
  PROVE  GraphStep /\ clock' \in Time /\ loads' \in 0..MaxLoads
<1>1. CASE NodesStatement
  BY <1>1, GraphAssumption DEF NodesStatement, WriteNodes, Count, GraphStep, TypeOK
<1>2. CASE WriteEdges
  <2>1. loading.batch \in SUBSET ClaimId /\ loading.sign \in [loading.batch -> Sign]
    BY DEF NeoSideOK
  <2>2. loading.edges \in LoadKeys(loading.batch, loading.sign)
    BY <1>2 DEF Pending, WriteEdges
  <2>3. Upsert(loading.batch, loading.sign, loading.edges) /\ UNCHANGED <<clock, loads>>
    BY <1>2 DEF WriteEdges
  <2>4. GraphStep
    BY <2>1, <2>2, <2>3 DEF GraphStep
  <2> QED
    BY <2>3, <2>4 DEF TypeOK
<1>3. CASE LoadDies
  BY <1>3 DEF LoadDies, vars, GraphStep, TypeOK
<1>4. ASSUME NEW e \in DOMAIN edges, NEW at \in Time, NeoInvalidate(e, at)
      PROVE  GraphStep /\ UNCHANGED <<clock, loads>>
  BY <1>4 DEF NeoInvalidate, Invalidate, GraphStep
<1>5. CASE NeoTick
  BY <1>5, GraphAssumption DEF NeoTick, Tick, GraphStep, TypeOK, Time
<1>6. CASE UNCHANGED allVars
  BY <1>6 DEF allVars, vars, GraphStep, TypeOK
<1> QED
  BY <1>1, <1>2, <1>3, <1>4, <1>5, <1>6, NeoStepKinds DEF TypeOK

LEMMA NeoSideInit == NeoInit => NeoSideOK /\ Pending
<1> SUFFICES ASSUME NeoInit PROVE NeoSideOK /\ Pending
  OBVIOUS
<1>1. loading.batch = {} /\ loading.sign = [c \in {} |-> 0] /\ loading.edges = {}
  BY DEF NeoInit, NoLoad
<1>2. loading.sign \in [loading.batch -> Sign]
  BY <1>1
<1> QED
  BY <1>1, <1>2 DEF NeoInit, NeoSideOK, Pending

\* An edge Neo4j merges is well typed.
LEMMA MergedTyped ==
  ASSUME TypeOK, NeoSideOK, NEW e \in EdgeKeys
  PROVE  MergedEdge(e) \in Edge
<1>1. NewEdge(e) \in Edge /\ EventTime(e) \in Nat
  BY NewEdgeTyped DEF Edge
<1>2. CASE e \in DOMAIN neoEdges /\ neoEdges[e].invalidated
  <2>1. neoEdges[e] \in Edge
    BY <1>2 DEF NeoSideOK
  <2> QED
    BY <1>1, <1>2, <2>1 DEF MergedEdge, Edge
<1> QED
  BY <1>1, <1>2 DEF MergedEdge

LEMMA NeoSideStep ==
  ASSUME TypeOK, NeoSideOK, Pending, [NeoNext]_allVars
  PROVE  NeoSideOK' /\ Pending'
<1>1. ASSUME NEW batch \in SUBSET ClaimId, NEW sign \in [batch -> Sign],
             NEW keys \in LoadKeys(batch, sign), WriteNodes(batch, sign, keys)
      PROVE  NeoSideOK' /\ Pending'
  <2>1. /\ NeoSideOK'
        /\ clock' = clock
        /\ loading' = [batch |-> batch, sign |-> sign, edges |-> keys]
        /\ batch \subseteq DOMAIN neoClaims'
        /\ \A c \in batch :
              {SpeakerOf[c], c, SubjectOf[c]} \cup Mentioned(c) \subseteq NeoNodes'
    BY <1>1, WriteNodesEffect
  <2>2. loading'.batch = batch /\ loading'.sign = sign /\ loading'.edges = keys
    BY <2>1
  <2>3. loading'.edges \in LoadKeys(loading.batch, loading.sign)'
    <3>1. LoadKeys(batch, sign)' = LoadKeys(batch, sign)
      BY <2>1, SameKeys
    <3>2. LoadKeys(loading.batch, loading.sign)' = LoadKeys(batch, sign)'
      BY <2>2
    <3> QED
      BY <2>2, <3>1, <3>2
  <2> QED
    BY <2>1, <2>2, <2>3 DEF Pending, Mentioned
<1>2. CASE WriteEdges
  <2>1. loading' = NoLoad /\ UNCHANGED <<neoSpeakers, neoEntities, neoClaims>>
    BY <1>2, WriteEdgesEffect
  <2>2. loading'.batch \subseteq ClaimId /\ loading'.edges \subseteq EdgeKeys
        /\ loading'.sign \in [loading'.batch -> Sign]
    BY <2>1 DEF NoLoad
  <2>3. loading.edges \subseteq EdgeKeys
    BY DEF NeoSideOK
  <2>4. DOMAIN neoEdges' \subseteq EdgeKeys
    <3>1. DOMAIN neoEdges' = DOMAIN neoEdges \cup {e \in loading.edges : e.type # "appears_in"}
      BY <1>2, WriteEdgesEffect
    <3> QED
      BY <2>3, <3>1 DEF NeoSideOK
  <2>5. ASSUME NEW e \in DOMAIN neoEdges' PROVE neoEdges'[e] \in Edge
    <3>1. \/ e \in loading.edges /\ neoEdges'[e] = MergedEdge(e)
          \/ e \in DOMAIN neoEdges /\ neoEdges'[e] = neoEdges[e]
      BY <1>2, <2>5, WriteEdgesEffect
    <3> QED
      BY <2>3, <3>1, MergedTyped DEF NeoSideOK
  <2> QED
    BY <2>1, <2>2, <2>4, <2>5 DEF NeoSideOK, Pending
<1>3. CASE LoadDies
  <2>1. loading' = NoLoad /\ UNCHANGED <<neoSpeakers, neoEntities, neoClaims, neoEdges>>
    BY <1>3 DEF LoadDies
  <2>2. loading'.batch \subseteq ClaimId /\ loading'.edges \subseteq EdgeKeys
        /\ loading'.sign \in [loading'.batch -> Sign]
    BY <2>1 DEF NoLoad
  <2> QED
    BY <2>1, <2>2 DEF NeoSideOK, Pending
<1>4. ASSUME NEW e \in DOMAIN edges, NEW at \in Time, NeoInvalidate(e, at)
      PROVE  NeoSideOK' /\ Pending'
  <2>1. /\ UNCHANGED <<neoSpeakers, neoEntities, neoClaims, loading>>
        /\ DOMAIN neoEdges' = DOMAIN neoEdges
    BY <1>4, NeoInvalidateEffect
  <2>2. clock' = clock
    BY <1>4 DEF NeoInvalidate, Invalidate
  <2>3. ASSUME NEW d \in DOMAIN neoEdges PROVE neoEdges'[d] \in Edge
    <3>1. neoEdges[d] \in Edge /\ at \in Nat
      BY DEF NeoSideOK, Time
    <3>2. [from |-> neoEdges[d].from, to |-> at, invalidated |-> TRUE] \in Edge
      BY <3>1 DEF Edge
    <3> QED
      BY <1>4, <3>1, <3>2, NeoInvalidateEffect
  <2>4. NeoSideOK'
    BY <2>1, <2>3 DEF NeoSideOK
  <2>5. Pending'
    <3>1. LoadKeys(loading.batch, loading.sign)' = LoadKeys(loading.batch, loading.sign)
      <4> PICK b, s : b = loading.batch /\ s = loading.sign
        OBVIOUS
      <4> QED
        BY <2>1, <2>2, SameKeys
    <3>2. NeoNodes' = NeoNodes
      BY <2>1 DEF NeoNodes
    <3> QED
      BY <2>1, <3>1, <3>2 DEF Pending, Mentioned
  <2> QED
    BY <2>4, <2>5
<1>5. CASE NeoTick
  <2>1. UNCHANGED neoVars /\ loading = NoLoad
    BY <1>5 DEF NeoTick
  <2> QED
    BY <2>1 DEF neoVars, NeoSideOK, Pending
<1>6. CASE UNCHANGED allVars
  <2>1. UNCHANGED neoVars /\ clock' = clock
    BY <1>6 DEF allVars, vars
  <2>2. LoadKeys(loading.batch, loading.sign)' = LoadKeys(loading.batch, loading.sign)
    BY <1>6 DEF allVars, vars, neoVars, LoadKeys, BatchEdges, TripletEdges, EventTimes
  <2> QED
    BY <2>1, <2>2 DEF neoVars, NeoSideOK, Pending, NeoNodes, Mentioned
<1> QED
  BY <1>1, <1>2, <1>3, <1>4, <1>5, <1>6, NeoStepKinds DEF NodesStatement

\* What holds of every step of both stores.
NeoInv == TypeOK /\ NeoSideOK /\ Pending

LEMMA NeoInvCorrect == NeoSpec => []NeoInv
<1>1. NeoInit => NeoInv
  BY NeoSideInit, TypeInit DEF NeoInit, NeoInv
<1>2. NeoInv /\ [NeoNext]_allVars => NeoInv'
  BY FakeStep, TypeStep, NeoSideStep DEF NeoInv
<1> QED
  BY <1>1, <1>2, PTL DEF NeoSpec

\* Both stores and the load in progress are always of their types.
THEOREM NeoTypeCorrect == NeoSpec => []NeoTypeOK
<1>1. NeoInv => NeoTypeOK
  BY DEF NeoInv, NeoSideOK, NeoTypeOK
<1> QED
  BY <1>1, NeoInvCorrect, PTL

-----------------------------------------------------------------------------
(* Both stores have the same edges *)

LEMMA MirroredStep ==
  ASSUME NeoInv, EdgesMirrored, [NeoNext]_allVars
  PROVE  EdgesMirrored'
<1> USE DEF NeoInv
<1>1. ASSUME UNCHANGED <<edges, neoEdges>> PROVE EdgesMirrored'
  BY <1>1 DEF EdgesMirrored
<1>2. CASE WriteEdges
  <2> DEFINE keys == {e \in loading.edges : e.type # "appears_in"}
  <2>1. /\ DOMAIN neoEdges' = DOMAIN neoEdges \cup keys
        /\ \A e \in DOMAIN neoEdges' :
              neoEdges'[e] = IF e \in keys THEN MergedEdge(e) ELSE neoEdges[e]
    BY <1>2, WriteEdgesEffect
  <2>2. /\ DOMAIN edges' = DOMAIN edges \cup loading.edges
        /\ \A e \in DOMAIN edges :
              e \notin loading.edges \/ edges[e].invalidated => edges'[e] = edges[e]
        /\ \A e \in loading.edges :
              ~(e \in DOMAIN edges /\ edges[e].invalidated) => edges'[e] = NewEdge(e)
    <3>1. Upsert(loading.batch, loading.sign, loading.edges)
      BY <1>2, WriteEdgesEffect
    <3> QED
      BY <3>1 DEF Upsert, UpsertEdges
  <2>3. DOMAIN neoEdges' = {e \in DOMAIN edges' : e.type # "appears_in"}
    BY <2>1, <2>2 DEF EdgesMirrored
  <2>4. ASSUME NEW e \in DOMAIN neoEdges'
        PROVE  /\ neoEdges'[e].to = edges'[e].to
               /\ neoEdges'[e].invalidated = edges'[e].invalidated
               /\ ~edges'[e].invalidated => neoEdges'[e].from = edges'[e].from
    <3>1. CASE e \notin keys
      <4>1. e \in DOMAIN neoEdges /\ neoEdges'[e] = neoEdges[e]
        BY <2>1, <2>4, <3>1
      <4>2. e \in DOMAIN edges /\ e \notin loading.edges
        BY <3>1, <4>1 DEF EdgesMirrored
      <4>3. edges'[e] = edges[e]
        BY <2>2, <4>2
      <4> QED
        BY <4>1, <4>3 DEF EdgesMirrored
    <3>2. CASE e \in keys /\ e \in DOMAIN edges /\ edges[e].invalidated
      <4>1. e \in DOMAIN neoEdges /\ neoEdges[e].invalidated
            /\ neoEdges[e].to = edges[e].to
        BY <3>2 DEF EdgesMirrored
      <4>2. neoEdges'[e] = [neoEdges[e] EXCEPT !.from = EventTime(e)]
        BY <2>1, <2>4, <3>2, <4>1 DEF MergedEdge
      <4>3. neoEdges[e] \in Edge
        BY <4>1 DEF NeoSideOK
      <4>4. neoEdges'[e].to = neoEdges[e].to /\ neoEdges'[e].invalidated = neoEdges[e].invalidated
        BY <4>2, <4>3 DEF Edge
      <4>5. edges'[e] = edges[e]
        BY <2>2, <3>2
      <4> QED
        BY <3>2, <4>1, <4>4, <4>5
    <3>3. CASE e \in keys /\ ~(e \in DOMAIN edges /\ edges[e].invalidated)
      <4>1. ~(e \in DOMAIN neoEdges /\ neoEdges[e].invalidated)
        BY <3>3 DEF EdgesMirrored
      <4>2. neoEdges'[e] = NewEdge(e)
        BY <2>1, <2>4, <3>3, <4>1 DEF MergedEdge
      <4>3. edges'[e] = NewEdge(e)
        BY <2>2, <3>3
      <4> QED
        BY <4>2, <4>3
    <3> QED
      BY <3>1, <3>2, <3>3
  <2> QED
    BY <2>3, <2>4 DEF EdgesMirrored
<1>3. ASSUME NEW e \in DOMAIN edges, NEW at \in Time, NeoInvalidate(e, at)
      PROVE  EdgesMirrored'
  <2>1. /\ DOMAIN edges' = DOMAIN edges
        /\ ~edges[e].invalidated
        /\ edges'[e] = [from |-> edges[e].from, to |-> at, invalidated |-> TRUE]
        /\ \A d \in DOMAIN edges : d # e => edges'[d] = edges[d]
    BY <1>3, NeoInvalidateEffect, InvalidateEffect
  <2>2. /\ DOMAIN neoEdges' = DOMAIN neoEdges
        /\ \A d \in DOMAIN neoEdges :
              neoEdges'[d] =
                 IF d = e /\ ~neoEdges[e].invalidated
                 THEN [from |-> neoEdges[e].from, to |-> at, invalidated |-> TRUE]
                 ELSE neoEdges[d]
    BY <1>3, NeoInvalidateEffect
  <2>3. ASSUME NEW d \in DOMAIN neoEdges
        PROVE  /\ neoEdges'[d].to = edges'[d].to
               /\ neoEdges'[d].invalidated = edges'[d].invalidated
               /\ ~edges'[d].invalidated => neoEdges'[d].from = edges'[d].from
    <3>1. d \in DOMAIN edges /\ neoEdges[d].invalidated = edges[d].invalidated
      BY DEF EdgesMirrored
    <3>2. CASE d = e
      <4>1. neoEdges'[d] = [from |-> neoEdges[e].from, to |-> at, invalidated |-> TRUE]
        BY <2>1, <2>2, <3>1, <3>2
      <4>2. edges'[d] = [from |-> edges[e].from, to |-> at, invalidated |-> TRUE]
        BY <2>1, <3>2
      <4> QED
        BY <4>1, <4>2
    <3>3. CASE d # e
      <4>1. neoEdges'[d] = neoEdges[d] /\ edges'[d] = edges[d]
        BY <2>1, <2>2, <3>1, <3>3
      <4> QED
        BY <4>1 DEF EdgesMirrored
    <3> QED
      BY <3>2, <3>3
  <2> QED
    BY <2>1, <2>2, <2>3 DEF EdgesMirrored
<1>4. NodesStatement => UNCHANGED <<edges, neoEdges>>
  BY DEF NodesStatement, WriteNodes, storeVars
<1>5. LoadDies \/ NeoTick \/ UNCHANGED allVars => UNCHANGED <<edges, neoEdges>>
  BY DEF LoadDies, NeoTick, Tick, allVars, vars, storeVars, neoVars
<1> QED
  BY <1>1, <1>2, <1>3, <1>4, <1>5, NeoStepKinds

\* Both stores have the same edges, in the same state, however loads, loads that die
\* half-way and invalidations are mixed.
THEOREM NeoMirrorsEdges == NeoSpec => []EdgesMirrored
<1>1. NeoInit => EdgesMirrored
  BY DEF NeoInit, Init, EdgesMirrored
<1>2. NeoInv /\ EdgesMirrored /\ [NeoNext]_allVars => EdgesMirrored'
  BY MirroredStep
<1> QED
  BY <1>1, <1>2, NeoInvCorrect, PTL DEF NeoSpec

-----------------------------------------------------------------------------
(* Both stores give the same answers *)

\* An assertion in Neo4j starts at the publication of the episode, if it is known.
NeoIntervals ==
  \A e \in DOMAIN neoEdges :
     e.type = "asserts" /\ Dated(e.dst) => neoEdges[e].from = PublishedAt[EpisodeOf[e.dst]]

\* What is asserted is a claim of the fake store, and what is a claim there is one here.
ClaimsShared ==
  /\ \A e \in DOMAIN edges : e.type = "asserts" => e.dst \in DOMAIN claims
  /\ DOMAIN claims \subseteq DOMAIN neoClaims

AnswerInv == Intervals /\ NeoIntervals /\ ClaimsShared

LEMMA NeoIntervalsStep ==
  ASSUME NeoInv, NeoIntervals, [NeoNext]_allVars
  PROVE  NeoIntervals'
<1> USE DEF NeoInv
<1>1. ASSUME UNCHANGED neoEdges PROVE NeoIntervals'
  BY <1>1 DEF NeoIntervals, Dated
<1>2. CASE WriteEdges
  <2> SUFFICES ASSUME NEW e \in DOMAIN neoEdges', e.type = "asserts", Dated(e.dst)
               PROVE  neoEdges'[e].from = PublishedAt[EpisodeOf[e.dst]]
    BY DEF NeoIntervals, Dated
  <2>1. \/ e \in loading.edges /\ neoEdges'[e] = MergedEdge(e)
        \/ e \in DOMAIN neoEdges /\ neoEdges'[e] = neoEdges[e]
    BY <1>2, WriteEdgesEffect
  <2>2. CASE e \in loading.edges /\ neoEdges'[e] = MergedEdge(e)
    <3>1. loading.batch \in SUBSET ClaimId /\ loading.edges \in LoadKeys(loading.batch, loading.sign)
      BY <1>2 DEF WriteEdges, Pending, NeoSideOK
    <3>2. KeyOf(e, loading.batch)
      BY <2>2, <3>1, KeysOfLoad
    <3>3. NewEdge(e).from = PublishedAt[EpisodeOf[e.dst]]
      BY <3>1, <3>2, WrittenEdge
    <3>4. EventTime(e) = NewEdge(e).from
      BY <3>2, NewEdgeTyped DEF KeyOf
    <3>5. e \in DOMAIN neoEdges => neoEdges[e] \in Edge
      BY DEF NeoSideOK
    <3>6. MergedEdge(e).from = EventTime(e)
      BY <3>4, <3>5 DEF MergedEdge, Edge
    <3> QED
      BY <2>2, <3>3, <3>4, <3>6
  <2>3. CASE e \in DOMAIN neoEdges /\ neoEdges'[e] = neoEdges[e]
    BY <2>3 DEF NeoIntervals
  <2> QED
    BY <2>1, <2>2, <2>3
<1>3. ASSUME NEW e \in DOMAIN edges, NEW at \in Time, NeoInvalidate(e, at)
      PROVE  NeoIntervals'
  <2>1. /\ DOMAIN neoEdges' = DOMAIN neoEdges
        /\ \A d \in DOMAIN neoEdges : neoEdges'[d].from = neoEdges[d].from
    <3>1. /\ DOMAIN neoEdges' = DOMAIN neoEdges
          /\ \A d \in DOMAIN neoEdges :
                \/ neoEdges'[d] = [from |-> neoEdges[e].from, to |-> at, invalidated |-> TRUE]
                   /\ d = e
                \/ neoEdges'[d] = neoEdges[d]
      BY <1>3, NeoInvalidateEffect
    <3> QED
      BY <3>1
  <2> QED
    BY <2>1 DEF NeoIntervals, Dated
<1>4. NodesStatement \/ LoadDies \/ NeoTick \/ UNCHANGED allVars => UNCHANGED neoEdges
  BY DEF NodesStatement, WriteNodes, LoadDies, NeoTick, allVars, neoVars
<1> QED
  BY <1>1, <1>2, <1>3, <1>4, NeoStepKinds

LEMMA ClaimsSharedStep ==
  ASSUME NeoInv, ClaimsShared, [NeoNext]_allVars
  PROVE  ClaimsShared'
<1> USE DEF NeoInv
<1>1. CASE NodesStatement
  <2>1. PICK batch \in SUBSET ClaimId : \E sign \in [batch -> Sign] :
           \E keys \in LoadKeys(batch, sign) : WriteNodes(batch, sign, keys)
    BY <1>1 DEF NodesStatement
  <2>2. UNCHANGED <<edges, claims>> /\ DOMAIN neoClaims' = DOMAIN neoClaims \cup batch
    BY <2>1, WriteNodesEffect DEF storeVars
  <2> QED
    BY <2>2 DEF ClaimsShared
<1>2. CASE WriteEdges
  <2>1. /\ loading.batch \in SUBSET ClaimId
        /\ loading.edges \in LoadKeys(loading.batch, loading.sign)
        /\ loading.batch \subseteq DOMAIN neoClaims
    BY <1>2 DEF WriteEdges, Pending, NeoSideOK
  <2>2. /\ DOMAIN edges' = DOMAIN edges \cup loading.edges
        /\ DOMAIN claims' = DOMAIN claims \cup loading.batch
        /\ UNCHANGED neoClaims
    BY <1>2, WriteEdgesEffect, UpsertEffect
  <2>3. \A e \in loading.edges : e.type = "asserts" => e.dst \in loading.batch
    BY <2>1, KeysOfLoad DEF KeyOf
  <2> QED
    BY <2>1, <2>2, <2>3 DEF ClaimsShared
<1>3. ASSUME NEW e \in DOMAIN edges, NEW at \in Time, NeoInvalidate(e, at)
      PROVE  ClaimsShared'
  <2>1. DOMAIN edges' = DOMAIN edges /\ UNCHANGED <<claims, neoClaims>>
    BY <1>3, NeoInvalidateEffect, InvalidateEffect
  <2> QED
    BY <2>1 DEF ClaimsShared
<1>4. LoadDies \/ NeoTick \/ UNCHANGED allVars => UNCHANGED <<edges, claims, neoClaims>>
  BY DEF LoadDies, NeoTick, Tick, allVars, vars, storeVars, neoVars
<1>5. UNCHANGED <<edges, claims, neoClaims>> => ClaimsShared'
  BY DEF ClaimsShared
<1> QED
  BY <1>1, <1>2, <1>3, <1>4, <1>5, NeoStepKinds

LEMMA SameAnswers ==
  ASSUME EdgesMirrored, AnswerInv
  PROVE  AssertedMirrored
<1> USE DEF AnswerInv
<1>1. AssertedNow = CurrentAnswer
  <2>1. ASSUME NEW c \in AssertedNow PROVE c \in CurrentAnswer
    BY <2>1 DEF AssertedNow, CurrentAnswer, EdgesMirrored, ClaimsShared
  <2>2. ASSUME NEW c \in CurrentAnswer PROVE c \in AssertedNow
    BY <2>2 DEF AssertedNow, CurrentAnswer, EdgesMirrored, ClaimsShared
  <2> QED
    BY <2>1, <2>2
<1>2. ASSUME NEW t \in Time, NEW c \in ClaimId, Dated(c)
      PROVE  c \in AssertedAt(t) <=> c \in AnswerAsOf(t)
  <2>1. ASSUME NEW e \in DOMAIN neoEdges, e.type = "asserts", e.dst = c
        PROVE  e \in DOMAIN edges /\ (IsLiveAt(neoEdges[e], t) <=> IsLiveAt(edges[e], t))
    <3>1. e \in DOMAIN edges /\ neoEdges[e].to = edges[e].to
      BY DEF EdgesMirrored
    <3>2. neoEdges[e].from = edges[e].from
      BY <1>2, <2>1, <3>1 DEF Intervals, NeoIntervals
    <3> QED
      BY <3>1, <3>2 DEF IsLiveAt
  <2>2. \A e \in DOMAIN edges : e.type = "asserts" => e \in DOMAIN neoEdges
    BY DEF EdgesMirrored
  <2> QED
    BY <2>1, <2>2 DEF AssertedAt, AnswerAsOf, ClaimsShared
<1> QED
  BY <1>1, <1>2 DEF AssertedMirrored

\* A load that died leaves nothing asserted: the stored edges assert what the fake
\* store answers, now, and of dated episodes as of any time.
THEOREM NeoMirrorsAssertions == NeoSpec => []AssertedMirrored
<1>1. NeoInit => AnswerInv
  BY DEF NeoInit, Init, AnswerInv, Intervals, NeoIntervals, ClaimsShared
<1>2. NeoInv /\ AnswerInv /\ [NeoNext]_allVars => AnswerInv'
  BY FakeStep, IntervalsStep, NeoIntervalsStep, ClaimsSharedStep DEF NeoInv, AnswerInv
<1>3. EdgesMirrored /\ AnswerInv => AssertedMirrored
  BY SameAnswers
<1> QED
  BY <1>1, <1>2, <1>3, NeoInvCorrect, NeoMirrorsEdges, PTL DEF NeoSpec
=============================================================================
