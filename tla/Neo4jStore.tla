----------------------------- MODULE Neo4jStore -----------------------------
(***************************************************************************)
(* Neo4jStore of graph/neo4j_store.py, side by side with FakeGraphStore.   *)
(*                                                                         *)
(* The variables of GraphStore are the fake store's; both stores get the   *)
(* same calls.  A load is two statements here, each committed by itself,   *)
(* and may end after the first, with the connection or the process.  The   *)
(* fake store then has nothing of it.                                      *)
(*                                                                         *)
(* The server runs a statement atomically and completely.  One process     *)
(* loads, another one may invalidate.                                      *)
(***************************************************************************)
EXTENDS GraphStore

\* Nodes are found by one property, whatever their label: an episode id is no id of
\* a node, since ids of nodes have prefixes of their own.
ASSUME NodeIdAssumption == Episode \cap (Speaker \cup Entity \cup ClaimId) = {}

VARIABLES
  neoSpeakers, neoEntities, neoClaims, neoEdges,    \* as in GraphStore
  loading     \* the load between its two statements, or NoLoad

neoVars == <<neoSpeakers, neoEntities, neoClaims, neoEdges, loading>>
allVars == <<vars, neoVars>>

NoLoad == [batch |-> {}, sign |-> [c \in {} |-> 0], edges |-> {}]

NeoTypeOK ==
  /\ TypeOK
  /\ neoSpeakers \subseteq Speaker
  /\ neoEntities \in [Entity -> SUBSET ClaimId]
  /\ DOMAIN neoClaims \subseteq ClaimId /\ \A c \in DOMAIN neoClaims : neoClaims[c] \in Sign
  /\ DOMAIN neoEdges \subseteq EdgeKeys /\ \A e \in DOMAIN neoEdges : neoEdges[e] \in Edge
  /\ loading.batch \subseteq ClaimId
  /\ loading.sign \in [loading.batch -> Sign]
  /\ loading.edges \subseteq EdgeKeys

NeoInit ==
  /\ Init
  /\ neoSpeakers = {}
  /\ neoEntities = [x \in Entity |-> {}]
  /\ neoClaims = [c \in {} |-> 0]
  /\ neoEdges = [e \in {} |-> 0]
  /\ loading = NoLoad

-----------------------------------------------------------------------------
(* Loading *)

\* UPSERT_NODES_CYPHER.  The properties of a node that is there are overwritten,
\* its aliases among them.
WriteNodes(batch, sign, keys) ==
  /\ loading = NoLoad
  /\ Count
  /\ neoSpeakers' = neoSpeakers \cup {SpeakerOf[c] : c \in batch}
  /\ neoEntities' = [x \in Entity |->
                       LET uses == {c \in batch : x \in {SubjectOf[c]} \cup Mentioned(c)}
                       IN  IF uses = {} THEN neoEntities[x] ELSE uses]
  /\ neoClaims' = [c \in DOMAIN neoClaims \cup batch |->
                     IF c \in batch THEN sign[c] ELSE neoClaims[c]]
  /\ loading' = [batch |-> batch, sign |-> sign, edges |-> keys]
  /\ UNCHANGED <<storeVars, neoEdges>>

NeoNodes == neoSpeakers \cup {x \in Entity : neoEntities[x] # {}} \cup DOMAIN neoClaims

\* MATCH finds both ends of the edge.  No store ever has a node for an episode.
Matched(e) == e.src \in NeoNodes /\ e.dst \in NeoNodes

\* MUTANT of MergedEdge: an invalidated edge that is loaded again is open again.
MergedEdgeReopened(e) == NewEdge(e)

\* The edge UPSERT_EDGES_CYPHER leaves under a key: an invalidation stays, with its
\* end of the interval, and the start of the interval is set anew.
MergedEdge(e) ==
  IF e \in DOMAIN neoEdges /\ neoEdges[e].invalidated
  THEN [neoEdges[e] EXCEPT !.from = EventTime(e)]
  ELSE NewEdge(e)

\* UPSERT_EDGES_CYPHER.  The call returns; the fake store has done it all.
WriteEdges ==
  LET merged == {e \in loading.edges : Matched(e)}
  IN  /\ loading # NoLoad
      /\ neoEdges' = [e \in DOMAIN neoEdges \cup merged |->
                        IF e \in merged THEN MergedEdge(e) ELSE neoEdges[e]]
      /\ Upsert(loading.batch, loading.sign, loading.edges)
      /\ loading' = NoLoad
      /\ UNCHANGED <<clock, loads, neoSpeakers, neoEntities, neoClaims>>

\* The load ends between its statements, with an error or with its process.
LoadDies ==
  /\ loading # NoLoad
  /\ loading' = NoLoad
  /\ UNCHANGED <<vars, neoSpeakers, neoEntities, neoClaims, neoEdges>>

\* MUTANT of NeoInvalidate: the edge is closed, but not marked.
NeoInvalidateUnmarked(e, at) ==
  /\ Invalidate(e, at)
  /\ e \in DOMAIN neoEdges
  /\ neoEdges' = [neoEdges EXCEPT ![e].to = at]
  /\ UNCHANGED <<neoSpeakers, neoEntities, neoClaims, loading>>

\* INVALIDATE_EDGE_CYPHER, which changes an edge that is live.
NeoInvalidate(e, at) ==
  /\ Invalidate(e, at)
  /\ neoEdges' = IF e \in DOMAIN neoEdges /\ ~neoEdges[e].invalidated
                 THEN [neoEdges EXCEPT ![e].to = at, ![e].invalidated = TRUE]
                 ELSE neoEdges
  /\ UNCHANGED <<neoSpeakers, neoEntities, neoClaims, loading>>

\* The edges of a load have their times when it starts.
NeoTick ==
  /\ loading = NoLoad
  /\ Tick
  /\ UNCHANGED neoVars

NeoNext ==
  \/ \E batch \in Batches : \E sign \in [batch -> Sign] :
        WriteNodes(batch, sign, BatchEdges(batch, sign))
  \/ \E c \in ClaimId, s \in Sign :
        WriteNodes({c}, [x \in {c} |-> s], TripletEdges(c))
  \/ WriteEdges
  \/ LoadDies
  \/ \E e \in DOMAIN edges, at \in Time : NeoInvalidate(e, at)
  \/ NeoTick

NeoSpec == NeoInit /\ [][NeoNext]_allVars

-----------------------------------------------------------------------------
(* Queries *)

\* QUERY_CLAIMS_CYPHER: the relationships that assert a claim, one a row.
AssertsRows(c) ==
  {[kind |-> "relationship", edge |-> e] :
     e \in {x \in DOMAIN neoEdges : x.type = "asserts" /\ x.dst = c}}

\* _run takes the driver's record.data() of a row.  A node becomes the map of its
\* properties, but a relationship the triple of its start, its type and its end.
RecordData(value) ==
  IF value.kind = "relationship" THEN [kind |-> "triple"] ELSE value

\* _node_props: a map is taken as it is.  dict() of a triple raises, since "REL" is
\* no pair, and what raises is None.
NodeProps(value) == IF value.kind = "map" THEN {value.edge} ELSE {}

\* The asserting edges _rows_to_results gets to see.
AssertingEdges(c) == UNION {NodeProps(RecordData(row)) : row \in AssertsRows(c)}

NeoAnswerAsOf(t) ==
  {c \in DOMAIN neoClaims : \E e \in AssertingEdges(c) : IsLiveAt(neoEdges[e], t)}

NeoCurrentAnswer ==
  {c \in DOMAIN neoClaims : \E e \in AssertingEdges(c) : ~neoEdges[e].invalidated}

-----------------------------------------------------------------------------
(* Properties *)

\* Both stores have the same edges, open and invalidated alike and until the same
\* time, however loads, loads that die half-way and invalidations are mixed; but
\* Neo4j has none that ends at an episode, for want of a node.
EdgesMirrored ==
  /\ DOMAIN neoEdges = {e \in DOMAIN edges : e.type # "appears_in"}
  /\ \A e \in DOMAIN neoEdges :
        /\ neoEdges[e].to = edges[e].to
        /\ neoEdges[e].invalidated = edges[e].invalidated
        /\ ~edges[e].invalidated => neoEdges[e].from = edges[e].from

\* The claims the stored edges assert, now and as of a time.  The edges accessor
\* reads them by properties(r), whole; query() does not.
AssertedNow ==
  {c \in DOMAIN neoClaims :
     \E e \in DOMAIN neoEdges :
        e.type = "asserts" /\ e.dst = c /\ ~neoEdges[e].invalidated}

AssertedAt(t) ==
  {c \in DOMAIN neoClaims :
     \E e \in DOMAIN neoEdges :
        e.type = "asserts" /\ e.dst = c /\ IsLiveAt(neoEdges[e], t)}

\* A load that died leaves claims nothing asserts: what the stored edges assert now
\* is the fake store's current answer, and of dated episodes its answer as of any time.
AssertedMirrored ==
  /\ AssertedNow = CurrentAnswer
  /\ \A t \in Time : \A c \in ClaimId :
        Dated(c) => (c \in AssertedAt(t) <=> c \in AnswerAsOf(t))

\* "Mirrors FakeGraphStore's semantics exactly", "byte-for-byte the same rule the
\* fake store uses": query() of both stores gives the same answers, now and as of any
\* time.
AnswersMirrored ==
  /\ NeoCurrentAnswer = CurrentAnswer
  /\ \A t \in Time : NeoAnswerAsOf(t) = AnswerAsOf(t)
=============================================================================
