--------------------------- MODULE EntityResolver ---------------------------
(***************************************************************************)
(* Incremental resolution of the entities claims are about: the resolver   *)
(* of resolution/incremental.py with the cascade of resolution/cascade.py, *)
(* the anchoring of resolution/wikidata.py, and the canonical store of     *)
(* resolution/canonical_store.py, whose two backends behave alike.         *)
(*                                                                         *)
(* A form is a type and a normalized name, so names that only differ in    *)
(* case or spacing are one form.  Forms are resolved one after the other,  *)
(* each with its own commit, and the process may end between any two.  One *)
(* process resolves at a time, with a linker.                              *)
(***************************************************************************)
EXTENDS Integers, FiniteSets

CONSTANTS Name,           \* normalized names
          Type,           \* entity types
          Linkable,       \* those that are looked up at Wikidata
          Form,           \* the forms that occur in claims
          Qid, NoQid,     \* Wikidata ids, and none
          QidOf,          \* what Wikidata answers for a form, when it does
          MaxScore,       \* a name's similarity to itself
          Score,          \* how similar two names are, in steps that matter
          High, Low,      \* the thresholds of a type: a match, and no match
          Batches,        \* bound: the batches that come, sets of forms
          MaxBatches      \* bound: this many batches in a behaviour

ASSUME ResolverAssumption ==
  /\ Linkable \subseteq Type
  /\ Form \subseteq [type : Type, name : Name]
  /\ NoQid \notin Qid
  /\ QidOf \in [Form -> Qid \cup {NoQid}]
  /\ MaxScore \in Nat /\ Score \in [Name \X Name -> 0..MaxScore]
  /\ High \in [Type -> Nat] /\ Low \in [Type -> Nat]
  /\ Batches \subseteq (SUBSET Form) \ {{}}
  /\ MaxBatches \in Nat

VARIABLES
  rows,       \* the canonical entities under their ids
  cache,      \* what the linker of this process has been told, by form
  pending,    \* the forms of the batch that are yet to be resolved
  ids,        \* surface_to_id: the ids of those that are
  stamped,    \* the ids that claims of each form have left resolve() with
  batches     \* how many batches were begun

vars == <<rows, cache, pending, ids, stamped, batches>>

\* "wd-" and the QID, whatever the type; or a hash of the type and the name.
WikidataId(q) == <<"wd", q>>
ContentId(f) == <<"ent", f>>

Id == {WikidataId(q) : q \in Qid} \cup {ContentId(f) : f \in Form}

\* The canonical name is the last one that was resolved to the entity, as is the
\* embedding.  seq numbers the rows as they were inserted: scans find them in this
\* order.
Row == [type : Type, name : Name, qid : Qid \cup {NoQid},
        aliases : SUBSET Name, seq : Nat]

TypeOK ==
  /\ DOMAIN rows \subseteq Id /\ \A i \in DOMAIN rows : rows[i] \in Row
  /\ DOMAIN cache \subseteq Form /\ \A f \in DOMAIN cache : cache[f] \in Qid \cup {NoQid}
  /\ pending \subseteq Form
  /\ DOMAIN ids \subseteq Form /\ \A f \in DOMAIN ids : ids[f] \in Id
  /\ stamped \in [Form -> SUBSET Id]
  /\ batches \in 0..MaxBatches

Init ==
  /\ rows = [i \in {} |-> 0]
  /\ cache = [f \in {} |-> 0]
  /\ pending = {}
  /\ ids = [f \in {} |-> 0]
  /\ stamped = [f \in Form |-> {}]
  /\ batches = 0

-----------------------------------------------------------------------------
(* Anchoring *)

\* What anchor_entity may return: what the cache has, a failure included, or else
\* the answer of Wikidata, or nothing when the search fails.
Anchors(f) ==
  IF f.type \notin Linkable THEN {NoQid}
  ELSE IF f \in DOMAIN cache THEN {cache[f]}
  ELSE {QidOf[f], NoQid}

\* A name is looked up once in the life of a process.
Remember(f, q) ==
  cache' = IF f.type \in Linkable
           THEN [g \in DOMAIN cache \cup {f} |-> IF g = f THEN q ELSE cache[g]]
           ELSE cache

-----------------------------------------------------------------------------
(* The cascade *)

OfType(t) == {i \in DOMAIN rows : rows[i].type = t}

ByQid(q, t) == {i \in OfType(t) : q # NoQid /\ rows[i].qid = q}

\* MUTANT of ByExactName: aliases are not looked at.
ByCanonicalName(f) == {i \in OfType(f.type) : rows[i].name = f.name}

ByExactName(f) ==
  {i \in OfType(f.type) : f.name = rows[i].name \/ f.name \in rows[i].aliases}

\* Of several rows a scan finds the one inserted first.
First(S) == CHOOSE i \in S : \A j \in S : rows[i].seq <= rows[j].seq

Similarity(f, i) == Score[f.name, rows[i].name]

\* candidates(k = 1): the most similar row.
Top(f) ==
  First({i \in OfType(f.type) :
           \A j \in OfType(f.type) : Similarity(f, i) >= Similarity(f, j)})

\* Similar enough by itself, or if the model that is asked says yes.  It may say
\* anything, and a failure is a no.
Alike(f, i, yes) ==
  \/ Similarity(f, i) >= High[f.type]
  \/ Similarity(f, i) >= Low[f.type] /\ yes

\* MUTANT of Mint: a missing QID is one as well.
MintWikidata(f, q) == WikidataId(q)

\* "NEW": the id of an entity that matches none.
Mint(f, q) == IF q # NoQid THEN WikidataId(q) ELSE ContentId(f)

\* MUTANT of Resolved: the exact name comes before the QID.
ResolvedByNameFirst(f, q, yes) ==
  CASE ByExactName(f) # {} -> First(ByExactName(f))
    [] ByExactName(f) = {} /\ ByQid(q, f.type) # {} -> First(ByQid(q, f.type))
    [] OTHER -> IF OfType(f.type) # {} /\ Alike(f, Top(f), yes)
                THEN Top(f) ELSE Mint(f, q)

\* The id of a form: that of the row with its QID, or else with its name, or else
\* of the row most like it if that is alike enough, or else a new one.
Resolved(f, q, yes) ==
  IF ByQid(q, f.type) # {} THEN First(ByQid(q, f.type))
  ELSE IF ByExactName(f) # {} THEN First(ByExactName(f))
  ELSE IF OfType(f.type) # {} /\ Alike(f, Top(f), yes) THEN Top(f)
  ELSE Mint(f, q)

-----------------------------------------------------------------------------
(* The store *)

\* MUTANT of Merged: aliases are replaced, not merged.
MergedNameOnly(id, f, q) ==
  LET known == id \in DOMAIN rows
  IN  [type    |-> f.type,
       name    |-> f.name,
       aliases |-> {f.name},
       qid     |-> IF known /\ q = NoQid THEN rows[id].qid ELSE q,
       seq     |-> IF known THEN rows[id].seq ELSE Cardinality(DOMAIN rows)]

\* The row upsert() leaves: everything is the new form's but a QID that it does not
\* have, the aliases, which are merged, and the row's place.
Merged(id, f, q) ==
  LET known == id \in DOMAIN rows
  IN  [type    |-> f.type,
       name    |-> f.name,
       aliases |-> {f.name} \cup (IF known THEN rows[id].aliases ELSE {}),
       qid     |-> IF known /\ q = NoQid THEN rows[id].qid ELSE q,
       seq     |-> IF known THEN rows[id].seq ELSE Cardinality(DOMAIN rows)]

Upsert(id, f, q) ==
  rows' = [i \in DOMAIN rows \cup {id} |-> IF i = id THEN Merged(id, f, q) ELSE rows[i]]

-----------------------------------------------------------------------------
(* The resolver *)

\* resolve() gets claims about these forms.
Begin(forms) ==
  /\ pending = {} /\ DOMAIN ids = {}
  /\ batches < MaxBatches
  /\ pending' = forms
  /\ batches' = batches + 1
  /\ UNCHANGED <<rows, cache, ids, stamped>>

\* One form, in the order of the claims, whatever that is.
ResolveForm(f, q, yes) ==
  /\ f \in pending
  /\ LET id == Resolved(f, q, yes)
     IN  /\ Upsert(id, f, q)
         /\ ids' = [g \in DOMAIN ids \cup {f} |-> IF g = f THEN id ELSE ids[g]]
  /\ Remember(f, q)
  /\ pending' = pending \ {f}
  /\ UNCHANGED <<stamped, batches>>

\* Claims are stamped with the ids, and leave.
Finish ==
  /\ pending = {} /\ DOMAIN ids # {}
  /\ stamped' = [f \in Form |-> IF f \in DOMAIN ids THEN stamped[f] \cup {ids[f]}
                                                    ELSE stamped[f]]
  /\ ids' = [f \in {} |-> 0]
  /\ UNCHANGED <<rows, cache, pending, batches>>

\* The process ends, in a batch or between two, and another one starts.
Restart ==
  /\ cache' = [f \in {} |-> 0]
  /\ pending' = {}
  /\ ids' = [f \in {} |-> 0]
  /\ UNCHANGED <<rows, stamped, batches>>

Next ==
  \/ \E forms \in Batches : Begin(forms)
  \/ \E f \in pending : \E q \in Anchors(f), yes \in BOOLEAN : ResolveForm(f, q, yes)
  \/ Finish
  \/ Restart

Spec == Init /\ [][Next]_vars

-----------------------------------------------------------------------------
(* Properties *)

\* "The same real-world thing, exactly one canonical node": no two entities of one
\* type have the same QID, though rows change their QIDs, names and types and a
\* lookup may fail at any time.
OneRowPerQid ==
  \A i, j \in DOMAIN rows :
     rows[i].qid # NoQid /\ rows[i].qid = rows[j].qid /\ rows[i].type = rows[j].type
        => i = j

\* Every id a claim carries is that of an entity which still knows the claim's form
\* by name, however often it has been merged since.
IdsKnown ==
  /\ \A f \in DOMAIN ids : ids[f] \in DOMAIN rows /\ f.name \in rows[ids[f]].aliases
  /\ \A f \in Form : \A i \in stamped[f] :
        i \in DOMAIN rows /\ f.name \in rows[i].aliases

\* A form whose type is not looked up keeps the id it first got, through restarts,
\* crashes between two forms, and the drift of the entity's name and embedding.
UnlinkedStable ==
  \A f \in Form : f.type \notin Linkable => \A i, j \in stamped[f] : i = j

\* "Episode N resolves against episodes 1..N-1, stably and re-runnably": claims of
\* one form always get one id.
Stable == \A f \in Form : \A i, j \in stamped[f] : i = j
=============================================================================
