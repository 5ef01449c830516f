------------------------ MODULE EntityResolverProofs ------------------------
(***************************************************************************)
(* Proofs about EntityResolver, for every set of forms, whatever Wikidata  *)
(* and the adjudicator answer and however similar names are.               *)
(***************************************************************************)
EXTENDS EntityResolver, FiniteSetTheorems, WellFoundedInduction, TLAPS

\* A set of natural numbers has a least one.
LEMMA LeastNatural ==
  ASSUME NEW T \in SUBSET Nat, T # {}
  PROVE  \E m \in T : \A n \in T : m <= n
<1>1. PICK m \in T : \A n \in T : ~ (<<n, m>> \in OpToRel(<, Nat))
  BY NatLessThanWellFounded, WFMin
<1>2. OpToRel(<, Nat) = {ss \in Nat \X Nat : ss[1] < ss[2]}
  BY DEF OpToRel
<1>3. \A n \in T : <<n, m>> \in OpToRel(<, Nat) <=> n < m
  BY <1>2
<1>4. \A n \in T : ~ (n < m)
  BY <1>1, <1>3, Zenon
<1> QED
  BY <1>4

\* A set of rows has a first one.
LEMMA FirstIsMember ==
  ASSUME TypeOK, NEW S \in SUBSET DOMAIN rows, S # {}
  PROVE  First(S) \in S
<1> DEFINE T == {rows[i].seq : i \in S}
<1>1. T \in SUBSET Nat /\ T # {}
  BY DEF TypeOK, Row
<1>2. PICK m \in T : \A n \in T : m <= n
  BY <1>1, LeastNatural
<1>3. \E i \in S : \A j \in S : rows[i].seq <= rows[j].seq
  BY <1>2
<1> QED
  BY <1>3 DEF First

\* The row most similar to a form is of the form's type.
LEMMA TopIsCandidate ==
  ASSUME TypeOK, NEW f \in Form, OfType(f.type) # {}
  PROVE  Top(f) \in OfType(f.type)
<1> DEFINE R == OfType(f.type)
           T == {MaxScore - Similarity(f, i) : i \in R}
           B == {i \in R : \A j \in R : Similarity(f, i) >= Similarity(f, j)}
<1>1. \A i \in R : Similarity(f, i) \in 0..MaxScore
  <2> SUFFICES ASSUME NEW i \in R PROVE Similarity(f, i) \in 0..MaxScore
    OBVIOUS
  <2>1. rows[i] \in Row
    BY DEF OfType, TypeOK
  <2>2. f.name \in Name /\ rows[i].name \in Name
    BY <2>1, ResolverAssumption DEF Row
  <2> QED
    BY <2>2, ResolverAssumption DEF Similarity
<1>2. T \in SUBSET Nat /\ T # {}
  BY <1>1, ResolverAssumption
<1>3. PICK m \in T : \A n \in T : m <= n
  BY <1>2, LeastNatural
<1>4. PICK i \in R : m = MaxScore - Similarity(f, i)
  BY <1>3
<1>5. \A j \in R : MaxScore - Similarity(f, i) <= MaxScore - Similarity(f, j)
  BY <1>3, <1>4
<1>6. i \in B
  BY <1>1, <1>5, ResolverAssumption
<1>7. B \in SUBSET DOMAIN rows /\ B # {}
  BY <1>6 DEF OfType
<1>8. First(B) \in B
  BY <1>7, FirstIsMember
<1> QED
  BY <1>8 DEF Top

-----------------------------------------------------------------------------
(* Type correctness *)

\* The id of a form is that of a row of its type, or a new one.
LEMMA ResolvedRow ==
  ASSUME TypeOK, NEW f \in Form, NEW q \in Qid \cup {NoQid}, NEW yes \in BOOLEAN
  PROVE  \/ Resolved(f, q, yes) \in OfType(f.type)
         \/ /\ ByQid(q, f.type) = {} /\ ByExactName(f) = {}
            /\ Resolved(f, q, yes) = Mint(f, q)
<1>1. CASE ByQid(q, f.type) # {}
  <2>1. ByQid(q, f.type) \in SUBSET DOMAIN rows
    BY DEF ByQid, OfType
  <2>2. First(ByQid(q, f.type)) \in ByQid(q, f.type)
    BY <1>1, <2>1, FirstIsMember
  <2> QED
    BY <1>1, <2>2 DEF Resolved, ByQid
<1>2. CASE ByQid(q, f.type) = {} /\ ByExactName(f) # {}
  <2>1. ByExactName(f) \in SUBSET DOMAIN rows
    BY DEF ByExactName, OfType
  <2>2. First(ByExactName(f)) \in ByExactName(f)
    BY <1>2, <2>1, FirstIsMember
  <2> QED
    BY <1>2, <2>2 DEF Resolved, ByExactName
<1>3. CASE ByQid(q, f.type) = {} /\ ByExactName(f) = {}
  BY <1>3, TopIsCandidate DEF Resolved
<1> QED
  BY <1>1, <1>2, <1>3

\* An id is that of a row or of the right form.
LEMMA ResolvedTyped ==
  ASSUME TypeOK, NEW f \in Form, NEW q \in Qid \cup {NoQid}, NEW yes \in BOOLEAN
  PROVE  Resolved(f, q, yes) \in Id
<1>1. OfType(f.type) \subseteq Id
  BY DEF OfType, TypeOK
<1>2. Mint(f, q) \in Id
  BY DEF Mint, Id
<1> QED
  BY <1>1, <1>2, ResolvedRow

\* What the linker returns is a QID or none.
LEMMA AnchorsTyped ==
  ASSUME TypeOK, NEW f \in Form
  PROVE  Anchors(f) \subseteq Qid \cup {NoQid}
  BY ResolverAssumption DEF Anchors, TypeOK

\* There are finitely many rows, so their number numbers the next one.
FiniteRows == IsFiniteSet(DOMAIN rows)

\* What a form's upsert leaves: its own row, in which the aliases have only grown,
\* and the others as they were.
LEMMA UpsertRow ==
  ASSUME TypeOK, FiniteRows,
         NEW f \in Form, NEW q \in Qid \cup {NoQid}, NEW id \in Id, Upsert(id, f, q)
  PROVE  /\ DOMAIN rows' = DOMAIN rows \cup {id}
         /\ \A i \in DOMAIN rows : i # id => rows'[i] = rows[i]
         /\ rows'[id] \in Row
         /\ rows'[id].type = f.type /\ rows'[id].name = f.name
         /\ id \in DOMAIN rows =>
              /\ rows'[id].aliases = rows[id].aliases \cup {f.name}
              /\ rows'[id].qid = IF q = NoQid THEN rows[id].qid ELSE q
         /\ id \notin DOMAIN rows =>
              rows'[id].aliases = {f.name} /\ rows'[id].qid = q
         /\ FiniteRows'
<1>1. f.type \in Type /\ f.name \in Name
  BY ResolverAssumption
<1>2. rows' = [i \in DOMAIN rows \cup {id} |->
                 IF i = id THEN Merged(id, f, q) ELSE rows[i]]
  BY DEF Upsert
<1>3. DOMAIN rows' = DOMAIN rows \cup {id} /\ rows'[id] = Merged(id, f, q)
  BY <1>2
<1>4. \A i \in DOMAIN rows : i # id => rows'[i] = rows[i]
  BY <1>2
<1>5. CASE id \in DOMAIN rows
  <2>1. PICK r \in Row : r = rows[id]
    BY <1>5 DEF TypeOK
  <2>2. rows'[id] = [type |-> f.type, name |-> f.name,
                     aliases |-> {f.name} \cup r.aliases,
                     qid |-> IF q = NoQid THEN r.qid ELSE q,
                     seq |-> r.seq]
    BY <1>3, <1>5, <2>1 DEF Merged
  <2>3. r.aliases \in SUBSET Name /\ r.qid \in Qid \cup {NoQid} /\ r.seq \in Nat
    BY <2>1 DEF Row
  <2>4. rows'[id] \in Row
    BY <1>1, <2>2, <2>3 DEF Row
  <2>5. FiniteRows'
    BY <1>3, <1>5 DEF FiniteRows
  <2> QED
    BY <1>3, <1>4, <1>5, <2>1, <2>2, <2>4, <2>5
<1>6. CASE id \notin DOMAIN rows
  <2>1. Cardinality(DOMAIN rows) \in Nat
    BY FS_CardinalityType DEF FiniteRows
  <2>2. rows'[id] = [type |-> f.type, name |-> f.name, aliases |-> {f.name},
                     qid |-> q, seq |-> Cardinality(DOMAIN rows)]
    BY <1>3, <1>6 DEF Merged
  <2>3. rows'[id] \in Row
    BY <1>1, <2>1, <2>2 DEF Row
  <2>4. FiniteRows'
    BY <1>3, FS_AddElement DEF FiniteRows
  <2> QED
    BY <1>3, <1>4, <1>6, <2>2, <2>3, <2>4
<1> QED
  BY <1>5, <1>6

Typed == TypeOK /\ FiniteRows

\* There are no rows and no batch at first.
LEMMA TypedInit == Init => Typed
  BY ResolverAssumption, FS_EmptySet DEF Init, Typed, TypeOK, FiniteRows

\* Every step keeps the types.
LEMMA TypedStep == Typed /\ [Next]_vars => Typed'
<1> SUFFICES ASSUME Typed, [Next]_vars PROVE Typed'
  OBVIOUS
<1>1. ASSUME NEW forms \in Batches, Begin(forms) PROVE Typed'
  BY <1>1, ResolverAssumption DEF Begin, Typed, TypeOK, FiniteRows
<1>2. ASSUME NEW f \in pending, NEW q \in Anchors(f), NEW yes \in BOOLEAN,
             ResolveForm(f, q, yes)
      PROVE  Typed'
  <2>1. f \in Form /\ q \in Qid \cup {NoQid}
    BY AnchorsTyped DEF Typed, TypeOK
  <2> DEFINE id == Resolved(f, q, yes)
  <2>2. id \in Id
    BY <2>1, ResolvedTyped DEF Typed
  <2>3. Upsert(id, f, q) /\ ids' = [g \in DOMAIN ids \cup {f} |-> IF g = f THEN id ELSE ids[g]]
    BY <1>2 DEF ResolveForm
  <2> HIDE DEF id
  <2>4. /\ DOMAIN rows' \subseteq Id
        /\ \A i \in DOMAIN rows' : rows'[i] \in Row
        /\ FiniteRows'
    <3>1. /\ DOMAIN rows' = DOMAIN rows \cup {id}
          /\ \A i \in DOMAIN rows : i # id => rows'[i] = rows[i]
          /\ rows'[id] \in Row
          /\ FiniteRows'
      BY <2>1, <2>2, <2>3, UpsertRow DEF Typed
    <3> QED
      BY <2>2, <3>1 DEF Typed, TypeOK
  <2>5. DOMAIN ids' \subseteq Form /\ \A g \in DOMAIN ids' : ids'[g] \in Id
    BY <2>1, <2>2, <2>3 DEF Typed, TypeOK
  <2>6. DOMAIN cache' \subseteq Form /\ \A g \in DOMAIN cache' : cache'[g] \in Qid \cup {NoQid}
    BY <1>2, <2>1 DEF ResolveForm, Remember, Typed, TypeOK
  <2> QED
    BY <1>2, <2>4, <2>5, <2>6 DEF ResolveForm, Typed, TypeOK
<1>3. ASSUME Finish PROVE Typed'
  <2>1. stamped' \in [Form -> SUBSET Id]
    BY <1>3 DEF Finish, Typed, TypeOK
  <2> QED
    BY <1>3, <2>1 DEF Finish, Typed, TypeOK, FiniteRows
<1>4. ASSUME Restart PROVE Typed'
  BY <1>4 DEF Restart, Typed, TypeOK, FiniteRows
<1>5. ASSUME UNCHANGED vars PROVE Typed'
  BY <1>5 DEF vars, Typed, TypeOK, FiniteRows
<1> QED
  BY <1>1, <1>2, <1>3, <1>4, <1>5 DEF Next

\* The rows, the linker's cache and the ids are always of their types.
THEOREM TypeCorrect == Spec => []TypeOK
<1>1. Typed => TypeOK
  BY DEF Typed
<1> QED
  BY <1>1, TypedInit, TypedStep, PTL DEF Spec

-----------------------------------------------------------------------------
(* The inductive invariant *)

\* A row's name is one of its aliases.
NameIsAlias == \A i \in DOMAIN rows : rows[i].name \in rows[i].aliases

\* A row with an id made from a form is of that form's type and knows its name, so
\* that a form whose id is taken is found by name.
ContentRows ==
  \A f \in Form : ContentId(f) \in DOMAIN rows =>
     rows[ContentId(f)].type = f.type /\ f.name \in rows[ContentId(f)].aliases

\* A row with a Wikidata id may change its type, but only to one that is looked up.
WikidataRows ==
  \A q \in Qid : WikidataId(q) \in DOMAIN rows => rows[WikidataId(q)].type \in Linkable

\* Of the rows of a type that is not looked up, only one knows a name.
UnlinkedOnce ==
  \A i, j \in DOMAIN rows :
     /\ rows[i].type = rows[j].type /\ rows[i].type \notin Linkable
     /\ rows[i].aliases \cap rows[j].aliases # {}
     => i = j

\* The row of a form that is not looked up keeps the form's type.
UnlinkedTyped ==
  \A f \in Form : f.type \notin Linkable =>
     /\ f \in DOMAIN ids => rows[ids[f]].type = f.type
     /\ \A i \in stamped[f] : rows[i].type = f.type

IInv == /\ Typed
        /\ NameIsAlias /\ ContentRows /\ WikidataRows
        /\ OneRowPerQid /\ UnlinkedOnce
        /\ IdsKnown /\ UnlinkedTyped

\* There are no rows and no ids at first.
LEMMA IInvInit == Init => IInv
<1> SUFFICES ASSUME Init PROVE IInv
  OBVIOUS
<1>1. Typed
  BY TypedInit
<1>2. DOMAIN rows = {} /\ DOMAIN ids = {} /\ \A f \in Form : stamped[f] = {}
  BY DEF Init
<1> QED
  BY <1>1, <1>2 DEF IInv, NameIsAlias, ContentRows, WikidataRows, OneRowPerQid,
                    UnlinkedOnce, IdsKnown, UnlinkedTyped

\* Nothing but the upsert of a form touches the rows.
LEMMA RowsKept ==
  ASSUME IInv, UNCHANGED rows
  PROVE  NameIsAlias' /\ ContentRows' /\ WikidataRows' /\ OneRowPerQid' /\ UnlinkedOnce'
  BY DEF IInv, NameIsAlias, ContentRows, WikidataRows, OneRowPerQid, UnlinkedOnce, OfType

\* The upsert of a form keeps what the rows are to each other.
LEMMA RowsStep ==
  ASSUME IInv, NEW f \in Form, NEW q \in Qid \cup {NoQid}, NEW yes \in BOOLEAN,
         f.type \notin Linkable => q = NoQid,
         Upsert(Resolved(f, q, yes), f, q)
  PROVE  /\ NameIsAlias' /\ ContentRows' /\ WikidataRows'
         /\ OneRowPerQid' /\ UnlinkedOnce'
         \* and a row of a type that is not looked up keeps its type
         /\ \A i \in DOMAIN rows :
               rows[i].type \notin Linkable => rows'[i].type = rows[i].type
<1> DEFINE id == Resolved(f, q, yes)
<1>1. id \in Id
  BY ResolvedTyped DEF IInv, Typed
<1>2. \/ id \in OfType(f.type)
      \/ /\ ByQid(q, f.type) = {} /\ ByExactName(f) = {}
         /\ id = Mint(f, q)
  BY ResolvedRow DEF IInv, Typed
<1>3. ByQid(q, f.type) # {} => id \in ByQid(q, f.type)
  <2>1. ByQid(q, f.type) \in SUBSET DOMAIN rows
    BY DEF ByQid, OfType
  <2> QED
    BY <2>1, FirstIsMember DEF Resolved, IInv, Typed
<1>4. ByQid(q, f.type) = {} /\ ByExactName(f) # {} => id \in ByExactName(f)
  <2>1. ByExactName(f) \in SUBSET DOMAIN rows
    BY DEF ByExactName, OfType
  <2> QED
    BY <2>1, FirstIsMember DEF Resolved, IInv, Typed
<1> HIDE DEF id
<1>5. /\ DOMAIN rows' = DOMAIN rows \cup {id}
      /\ \A i \in DOMAIN rows : i # id => rows'[i] = rows[i]
      /\ rows'[id].type = f.type /\ rows'[id].name = f.name
      /\ id \in DOMAIN rows =>
           /\ rows'[id].aliases = rows[id].aliases \cup {f.name}
           /\ rows'[id].qid = IF q = NoQid THEN rows[id].qid ELSE q
      /\ id \notin DOMAIN rows =>
           rows'[id].aliases = {f.name} /\ rows'[id].qid = q
  BY <1>1, UpsertRow DEF IInv, Typed, id
\* A form that no row knows by name has its id free.
<1>6. ByExactName(f) = {} => ContentId(f) \notin DOMAIN rows
  BY DEF IInv, ContentRows, ByExactName, OfType
\* So the row of the form is one of its type, or a new one, or a Wikidata row.
<1>7. \/ id \in DOMAIN rows /\ rows[id].type = f.type
      \/ id = ContentId(f) /\ id \notin DOMAIN rows /\ q = NoQid /\ ByExactName(f) = {}
      \/ id = WikidataId(q) /\ q \in Qid /\ f.type \in Linkable
  BY <1>2, <1>6 DEF Mint, OfType
<1>8. NameIsAlias'
  BY <1>5 DEF NameIsAlias, IInv
<1>9. ContentRows'
  <2> SUFFICES ASSUME NEW g \in Form, ContentId(g) \in DOMAIN rows'
               PROVE  /\ rows'[ContentId(g)].type = g.type
                      /\ g.name \in rows'[ContentId(g)].aliases
    BY DEF ContentRows, ContentId
  <2>1. CASE ContentId(g) # id
    BY <1>5, <2>1 DEF IInv, ContentRows
  <2>2. CASE ContentId(g) = id /\ id \in DOMAIN rows
    <3>1. id # WikidataId(q)
      BY <2>2 DEF ContentId, WikidataId
    <3> QED
      BY <1>5, <1>7, <2>2, <3>1 DEF IInv, ContentRows
  <2>3. CASE ContentId(g) = id /\ id \notin DOMAIN rows
    <3>1. id # WikidataId(q)
      BY <2>3 DEF ContentId, WikidataId
    <3>2. g = f
      BY <1>7, <2>3, <3>1 DEF ContentId
    <3> QED
      BY <1>5, <2>3, <3>2
  <2> QED
    BY <2>1, <2>2, <2>3
<1>10. WikidataRows'
  <2> SUFFICES ASSUME NEW w \in Qid, WikidataId(w) \in DOMAIN rows'
               PROVE  rows'[WikidataId(w)].type \in Linkable
    BY DEF WikidataRows, WikidataId
  <2>1. CASE WikidataId(w) # id
    BY <1>5, <2>1 DEF IInv, WikidataRows
  <2>2. CASE WikidataId(w) = id
    <3>1. id # ContentId(f)
      BY <2>2 DEF ContentId, WikidataId
    <3> QED
      BY <1>5, <1>7, <2>2, <3>1 DEF IInv, WikidataRows
  <2> QED
    BY <2>1, <2>2
<1>11. OneRowPerQid'
  <2> SUFFICES ASSUME NEW i \in DOMAIN rows', NEW j \in DOMAIN rows', i # j,
                      rows'[i].qid # NoQid, rows'[i].qid = rows'[j].qid,
                      rows'[i].type = rows'[j].type
               PROVE  FALSE
    BY DEF OneRowPerQid
  <2>1. CASE i # id /\ j # id
    BY <1>5, <2>1 DEF IInv, OneRowPerQid
  <2>2. ASSUME NEW k \in DOMAIN rows, k # id, rows[k].qid = rows'[id].qid,
               rows[k].type = f.type, rows'[id].qid # NoQid
        PROVE  FALSE
    <3>1. CASE q # NoQid
      <4>1. rows'[id].qid = q
        BY <1>5, <3>1
      <4>2. k \in ByQid(q, f.type)
        BY <2>2, <3>1, <4>1 DEF ByQid, OfType
      <4>3. id \in ByQid(q, f.type)
        BY <1>3, <4>2
      <4> QED
        BY <2>2, <4>2, <4>3 DEF ByQid, OfType, IInv, OneRowPerQid
    <3>2. CASE q = NoQid
      <4>1. id \in DOMAIN rows /\ rows[id].type = f.type
        BY <1>5, <1>7, <2>2, <3>2, ResolverAssumption
      <4> QED
        BY <1>5, <2>2, <3>2, <4>1 DEF IInv, OneRowPerQid
    <3> QED
      BY <3>1, <3>2
  <2> QED
    BY <1>5, <2>1, <2>2
<1>12. UnlinkedOnce'
  <2> SUFFICES ASSUME NEW i \in DOMAIN rows', NEW j \in DOMAIN rows', i # j,
                      rows'[i].type = rows'[j].type, rows'[i].type \notin Linkable,
                      NEW n \in rows'[i].aliases \cap rows'[j].aliases
               PROVE  FALSE
    BY DEF UnlinkedOnce
  <2>1. CASE i # id /\ j # id
    BY <1>5, <2>1 DEF IInv, UnlinkedOnce
  <2>2. ASSUME NEW k \in DOMAIN rows, k # id, rows[k].type = f.type, f.type \notin Linkable,
               n \in rows[k].aliases, n \in rows'[id].aliases
        PROVE  FALSE
    <3>1. q = NoQid /\ ByQid(q, f.type) = {}
      BY <2>2 DEF ByQid
    <3>2. CASE id \in DOMAIN rows /\ n \in rows[id].aliases
      <4>1. rows[id].type = f.type
        BY <1>7, <2>2, <3>2
      <4> QED
        BY <2>2, <3>2, <4>1 DEF IInv, UnlinkedOnce
    <3>3. CASE n = f.name
      <4>1. k \in ByExactName(f)
        BY <2>2, <3>3 DEF ByExactName, OfType
      <4>2. id \in ByExactName(f)
        BY <1>4, <3>1, <4>1
      <4>3. id \in DOMAIN rows /\ rows[id].type = f.type /\ f.name \in rows[id].aliases
        BY <4>2 DEF ByExactName, OfType, IInv, NameIsAlias
      <4> QED
        BY <2>2, <3>3, <4>3 DEF IInv, UnlinkedOnce
    <3> QED
      BY <1>5, <2>2, <3>2, <3>3
  <2> QED
    BY <1>5, <2>1, <2>2
<1>13. ASSUME NEW i \in DOMAIN rows, rows[i].type \notin Linkable
       PROVE  rows'[i].type = rows[i].type
  <2>1. CASE i # id
    BY <1>5, <2>1
  <2>2. CASE i = id
    BY <1>5, <1>7, <1>13, <2>2 DEF IInv, WikidataRows
  <2> QED
    BY <2>1, <2>2
<1> QED
  BY <1>8, <1>9, <1>10, <1>11, <1>12, <1>13

\* Resolving a form keeps the invariant.
LEMMA ResolveFormStep ==
  ASSUME IInv, NEW f \in pending, NEW q \in Anchors(f), NEW yes \in BOOLEAN,
         ResolveForm(f, q, yes)
  PROVE  IInv'
<1>1. f \in Form /\ q \in Qid \cup {NoQid} /\ (f.type \notin Linkable => q = NoQid)
  BY AnchorsTyped DEF IInv, Typed, TypeOK, Anchors
<1> DEFINE id == Resolved(f, q, yes)
<1>2. /\ Upsert(id, f, q)
      /\ ids' = [g \in DOMAIN ids \cup {f} |-> IF g = f THEN id ELSE ids[g]]
      /\ UNCHANGED stamped
  BY DEF ResolveForm
<1>3. Typed'
  BY TypedStep DEF IInv, Next
<1>4. /\ NameIsAlias' /\ ContentRows' /\ WikidataRows'
      /\ OneRowPerQid' /\ UnlinkedOnce'
      /\ \A i \in DOMAIN rows :
            rows[i].type \notin Linkable => rows'[i].type = rows[i].type
  BY <1>1, <1>2, RowsStep
<1>5. id \in Id
  BY <1>1, ResolvedTyped DEF IInv, Typed
<1> HIDE DEF id
<1>6. /\ DOMAIN rows' = DOMAIN rows \cup {id}
      /\ rows'[id].type = f.type /\ f.name \in rows'[id].aliases
      /\ \A i \in DOMAIN rows : rows[i].aliases \subseteq rows'[i].aliases
  <2>1. /\ DOMAIN rows' = DOMAIN rows \cup {id}
        /\ \A i \in DOMAIN rows : i # id => rows'[i] = rows[i]
        /\ rows'[id].type = f.type
        /\ id \in DOMAIN rows => rows'[id].aliases = rows[id].aliases \cup {f.name}
        /\ id \notin DOMAIN rows => rows'[id].aliases = {f.name}
    BY <1>1, <1>2, <1>5, UpsertRow DEF IInv, Typed
  <2> QED
    BY <2>1
<1>7. IdsKnown'
  <2>1. \A g \in DOMAIN ids' : ids'[g] \in DOMAIN rows' /\ g.name \in rows'[ids'[g]].aliases
    BY <1>2, <1>6 DEF IInv, IdsKnown
  <2>2. \A g \in Form : \A i \in stamped'[g] :
          i \in DOMAIN rows' /\ g.name \in rows'[i].aliases
    BY <1>2, <1>6 DEF IInv, IdsKnown
  <2> QED
    BY <2>1, <2>2 DEF IdsKnown
<1>8. UnlinkedTyped'
  <2> SUFFICES ASSUME NEW g \in Form, g.type \notin Linkable
               PROVE  /\ g \in DOMAIN ids' => rows'[ids'[g]].type = g.type
                      /\ \A i \in stamped'[g] : rows'[i].type = g.type
    BY DEF UnlinkedTyped
  <2>1. ASSUME NEW i \in stamped[g] PROVE rows'[i].type = g.type
    BY <1>4, <2>1 DEF IInv, UnlinkedTyped, IdsKnown
  <2>2. ASSUME g \in DOMAIN ids' PROVE rows'[ids'[g]].type = g.type
    <3>1. CASE g = f
      BY <1>2, <1>6, <2>2, <3>1
    <3>2. CASE g # f
      <4>1. g \in DOMAIN ids /\ ids'[g] = ids[g]
        BY <1>2, <2>2, <3>2
      <4> QED
        BY <1>4, <4>1 DEF IInv, UnlinkedTyped, IdsKnown
    <3> QED
      BY <3>1, <3>2
  <2> QED
    BY <1>2, <2>1, <2>2
<1> QED
  BY <1>3, <1>4, <1>7, <1>8 DEF IInv

\* Every step keeps the invariant.
LEMMA IInvStep == IInv /\ [Next]_vars => IInv'
<1> SUFFICES ASSUME IInv, [Next]_vars PROVE IInv'
  OBVIOUS
<1>1. Typed'
  BY TypedStep DEF IInv
<1>2. ASSUME NEW forms \in Batches, Begin(forms) PROVE IInv'
  BY <1>1, <1>2, RowsKept DEF Begin, IInv, IdsKnown, UnlinkedTyped
<1>3. ASSUME NEW f \in pending, NEW q \in Anchors(f), NEW yes \in BOOLEAN,
             ResolveForm(f, q, yes)
      PROVE  IInv'
  BY <1>3, ResolveFormStep
<1>4. ASSUME Finish PROVE IInv'
  <2>1. \A f \in Form : \A i \in stamped'[f] :
          i \in stamped[f] \/ (f \in DOMAIN ids /\ i = ids[f])
    BY <1>4 DEF Finish
  <2>2. IdsKnown'
    BY <1>4, <2>1 DEF Finish, IInv, IdsKnown
  <2>3. UnlinkedTyped'
    BY <1>4, <2>1 DEF Finish, IInv, UnlinkedTyped
  <2> QED
    BY <1>1, <1>4, <2>2, <2>3, RowsKept DEF Finish, IInv
<1>5. ASSUME Restart PROVE IInv'
  BY <1>1, <1>5, RowsKept DEF Restart, IInv, IdsKnown, UnlinkedTyped
<1>6. ASSUME UNCHANGED vars PROVE IInv'
  BY <1>1, <1>6, RowsKept DEF vars, IInv, IdsKnown, UnlinkedTyped
<1> QED
  BY <1>2, <1>3, <1>4, <1>5, <1>6 DEF Next

\* The invariant holds throughout.
LEMMA Invariance == Spec => []IInv
  BY IInvInit, IInvStep, PTL DEF Spec

-----------------------------------------------------------------------------
(* What follows *)

\* However often the search at Wikidata fails, and whatever is merged by name or by
\* similarity, no two entities of a type ever have one QID.
THEOREM OneNodePerQid == Spec => []OneRowPerQid
<1>1. IInv => OneRowPerQid
  BY DEF IInv
<1> QED
  BY <1>1, Invariance, PTL

\* An id that a claim carries never dangles: its entity knows the claim's form.
THEOREM IdsResolve == Spec => []IdsKnown
<1>1. IInv => IdsKnown
  BY DEF IInv
<1> QED
  BY <1>1, Invariance, PTL

\* A form of a type that is not looked up gets one id for good.
THEOREM UnlinkedFormsStable == Spec => []UnlinkedStable
<1>1. ASSUME IInv PROVE UnlinkedStable
  <2> SUFFICES ASSUME NEW f \in Form, f.type \notin Linkable,
                      NEW i \in stamped[f], NEW j \in stamped[f]
               PROVE  i = j
    BY DEF UnlinkedStable
  <2>1. /\ i \in DOMAIN rows /\ f.name \in rows[i].aliases /\ rows[i].type = f.type
        /\ j \in DOMAIN rows /\ f.name \in rows[j].aliases /\ rows[j].type = f.type
    BY <1>1 DEF IInv, IdsKnown, UnlinkedTyped
  <2> QED
    BY <1>1, <2>1 DEF IInv, UnlinkedOnce
<1>2. IInv => UnlinkedStable
  BY <1>1
<1> QED
  BY <1>2, Invariance, PTL
=============================================================================
