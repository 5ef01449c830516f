------------------------- MODULE SqliteQueueProofs -------------------------
(***************************************************************************)
(* Proofs about SqliteQueue, for every set of processes and keys, every    *)
(* lease time and every bound.                                             *)
(***************************************************************************)
EXTENDS SqliteQueue, TLAPS

\* Writing one row leaves a table of the same rows otherwise.
LEMMA UpdateRow ==
  ASSUME NEW S, NEW s \in Seq(S), NEW i \in 1..Len(s), NEW r \in S
  PROVE  LET t == [s EXCEPT ![i] = r]
         IN  /\ t \in Seq(S)
             /\ Len(t) = Len(s)
             /\ t[i] = r
             /\ \A j \in 1..Len(s) : j # i => t[j] = s[j]
  OBVIOUS

-----------------------------------------------------------------------------
(* Type correctness *)

\* A process inside enqueue() knows the key it was called with.
InCall == \A p \in Process : pc[p] \in {"next_seq", "insert"} => arg[p] \in Key

\* A lease names a row of the table.
HeldStored == \A p \in Process : \A l \in held[p] : l.id \in Ids

Typed == TypeOK /\ InCall /\ HeldStored

\* The table is empty and every connection idle at first.
LEMMA TypedInit == Init => Typed
  BY NoneAssumption DEF Init, Typed, TypeOK, InCall, HeldStored, PcStates, Errors

\* What a call's return leaves behind is well typed.
LEMMA ReturnTyped ==
  ASSUME Typed, NEW p \in Process, NEW to \in PcStates \ {"next_seq", "insert"},
         Return(p, to)
  PROVE  /\ pc' \in [Process -> PcStates]
         /\ arg' \in [Process -> Key \cup {NoKey}]
         /\ nextSeq' \in [Process -> Nat]
         /\ seen' \in [Process -> Nat]
         /\ now' \in [Process -> Nat]
         /\ InCall'
  BY NoneAssumption DEF Return, Typed, TypeOK, InCall, PcStates, Errors

\* Every step keeps the types.
LEMMA TypedStep == Typed /\ [Next]_vars => Typed'
<1> SUFFICES ASSUME Typed, [Next]_vars PROVE Typed'
  OBVIOUS
<1>1. ASSUME NEW p \in Process, NEW k \in Key, LookUp(p, k) PROVE Typed'
  BY <1>1 DEF LookUp, Typed, TypeOK, HeldStored, Ids, InCall, PcStates, Errors
<1>2. ASSUME NEW p \in Process, ReadSeq(p) PROVE Typed'
  BY <1>2 DEF ReadSeq, Typed, TypeOK, HeldStored, Ids, InCall, PcStates, Errors
<1>3. ASSUME NEW p \in Process, Insert(p) PROVE Typed'
  <2>1. NewRow(p) \in Row
    BY <1>3 DEF Insert, NewRow, Row, Typed, TypeOK, InCall
  <2>2. rows' \in Seq(Row) /\ Len(rows') = Len(rows) + 1
    BY <1>3, <2>1 DEF Insert, Typed, TypeOK
  <2>3. HeldStored'
    BY <1>3, <2>2 DEF Insert, HeldStored, Ids, Typed, TypeOK
  <2> QED
    BY <1>3, <2>2, <2>3, ReturnTyped DEF Insert, Typed, TypeOK, PcStates
<1>4. ASSUME NEW p \in Process, InsertLosesRace(p) PROVE Typed'
  BY <1>4, ReturnTyped DEF InsertLosesRace, Typed, TypeOK, HeldStored, Ids, PcStates, Errors
<1>5. ASSUME NEW p \in Process, ReadClock(p) PROVE Typed'
  BY <1>5 DEF ReadClock, Typed, TypeOK, HeldStored, Ids, InCall, PcStates, Errors
<1>6. ASSUME NEW p \in Process, ClaimOldest(p) PROVE Typed'
  <2>1. PICK i \in Ids :
          /\ rows' = [rows EXCEPT ![i] = LeasedRow(i, now[p])]
          /\ held' = [held EXCEPT ![p] = @ \cup {LeaseOf(i, now[p])}]
    BY <1>6 DEF ClaimOldest
  <2>2. LeasedRow(i, now[p]) \in Row /\ LeaseOf(i, now[p]) \in Lease
    <3>1. rows[i] \in Row /\ now[p] \in Nat /\ i \in Nat
      BY DEF Typed, TypeOK, Ids
    <3>2. now[p] + LeaseSeconds \in Nat
      BY <3>1, LeaseAssumption
    <3>3. rows[i].attempts + 1 \in Nat
      BY <3>1 DEF Row
    <3> QED
      BY <3>1, <3>2, <3>3 DEF LeasedRow, LeaseOf, Row, Lease
  <2>3. rows' \in Seq(Row) /\ Len(rows') = Len(rows)
    BY <2>1, <2>2, UpdateRow DEF Typed, TypeOK, Ids
  <2>4. held' \in [Process -> SUBSET Lease]
    BY <2>1, <2>2 DEF Typed, TypeOK
  <2>5. HeldStored'
    BY <2>1, <2>3 DEF HeldStored, LeaseOf, Ids, Typed, TypeOK
  <2> QED
    BY <1>6, <2>3, <2>4, <2>5, ReturnTyped DEF ClaimOldest, Typed, TypeOK, PcStates
<1>7. ASSUME NEW p \in Process, ClaimNothing(p) PROVE Typed'
  BY <1>7, ReturnTyped DEF ClaimNothing, Typed, TypeOK, HeldStored, Ids, PcStates
<1>8. ASSUME NEW p \in Process, NEW l \in held[p],
             NEW status \in {"done", "queued", "failed"}, Settle(p, l, status)
      PROVE  Typed'
  <2>1. l.id \in Ids /\ held' = [held EXCEPT ![p] = @ \ {l}]
    BY <1>8 DEF Settle, Typed, HeldStored
  <2>2. SettledRow(l, status) \in Row
    <3>1. rows[l.id] \in Row
      BY <2>1 DEF Typed, TypeOK, Ids
    <3>2. CASE Current(l)
      BY <3>1, <3>2 DEF SettledRow, Row
    <3>3. CASE ~Current(l)
      BY <3>1, <3>3 DEF SettledRow, Row
    <3> QED
      BY <3>2, <3>3
  <2>3. rows' \in Seq(Row) /\ Len(rows') = Len(rows)
    BY <1>8, <2>1, <2>2, UpdateRow DEF Settle, Typed, TypeOK, Ids
  <2>4. held' \in [Process -> SUBSET Lease] /\ HeldStored'
    BY <2>1, <2>3 DEF HeldStored, Ids, Typed, TypeOK
  <2> QED
    BY <1>8, <2>3, <2>4 DEF Settle, Typed, TypeOK, InCall
<1>9. ASSUME NEW p \in Process, Busy(p) PROVE Typed'
  BY <1>9, ReturnTyped DEF Busy, Typed, TypeOK, HeldStored, Ids, PcStates, Errors
<1>10. ASSUME NEW p \in Process, Restart(p) PROVE Typed'
  BY <1>10, ReturnTyped DEF Restart, Typed, TypeOK, HeldStored, Ids, PcStates
<1>11. CASE Tick
  BY <1>11 DEF Tick, Typed, TypeOK, HeldStored, Ids, InCall
<1>12. CASE UNCHANGED vars
  BY <1>12 DEF vars, Typed, TypeOK, HeldStored, Ids, InCall
<1> QED
  BY <1>1, <1>2, <1>3, <1>4, <1>5, <1>6, <1>7, <1>8, <1>9, <1>10, <1>11, <1>12
     DEF Next, Step, Ack, Nack

\* The table and every process's local state are always of their types.
THEOREM TypeCorrect == Spec => []TypeOK
<1>1. Typed => TypeOK
  BY DEF Typed
<1> QED
  BY <1>1, TypedInit, TypedStep, PTL DEF Spec

-----------------------------------------------------------------------------
(* Leases *)

\* A row counts every lease it was given: a lease's number is at most the row's.
Counted == \A p \in Process : \A l \in held[p] : l.attempts <= rows[l.id].attempts

\* No two workers hold one lease, and no worker two of the same number.
OneHolder ==
  \A p, q \in Process : \A l \in held[p], m \in held[q] :
     l.id = m.id /\ l.attempts = m.attempts => p = q /\ l = m

\* While a lease has not run out, its row still has the deadline it was given.
Deadline ==
  \A p \in Process : \A l \in held[p] :
     l.expires > clock /\ ~rows[l.id].stale
        => Current(l) /\ rows[l.id].expires = l.expires

\* The time a call has read is past.
NoLaterThanClock == \A p \in Process : now[p] <= clock

-----------------------------------------------------------------------------
(* Numbers *)

\* A row's number is above those of the rows that were there when it was read.
RowsNumbered ==
  \A i \in Ids : /\ rows[i].seen <= Len(rows)
                 /\ \A j \in 1..rows[i].seen : rows[j].seq < rows[i].seq

\* So is the number of the row a process is about to insert.
NextNumbered ==
  \A p \in Process : pc[p] = "insert" =>
     /\ seen[p] <= Len(rows)
     /\ \A j \in 1..seen[p] : rows[j].seq < nextSeq[p]

IInv == /\ Typed
        /\ OneRowPerKey
        /\ Counted
        /\ OneHolder
        /\ Deadline
        /\ NoLaterThanClock
        /\ RowsNumbered
        /\ NextNumbered
\* The parts that are about the table and the leases given out of it.
Table == OneRowPerKey /\ Counted /\ OneHolder /\ Deadline /\ RowsNumbered

\* The parts that are about the calls under way.
Calls == NoLaterThanClock /\ NextNumbered

\* A step that writes no row and gives out no lease, whatever time passes, keeps
\* the parts about the table.
LEMMA TableUntouched ==
  ASSUME IInv, Typed', rows' = rows, clock <= clock',
         \A p \in Process : held'[p] \subseteq held[p]
  PROVE  Table'
<1>1. OneRowPerKey' /\ RowsNumbered'
  BY DEF IInv, OneRowPerKey, RowsNumbered, Ids
<1>2. Counted' /\ OneHolder'
  BY DEF IInv, Counted, OneHolder
<1>3. Deadline'
  <2> SUFFICES ASSUME NEW p \in Process, NEW l \in held'[p],
                      l.expires > clock', ~rows[l.id].stale
               PROVE  Current(l)' /\ rows'[l.id].expires = l.expires
    BY DEF Deadline
  <2>1. l \in held[p] /\ l \in Lease
    BY DEF IInv, Typed, TypeOK
  <2>2. l.expires > clock
    BY <2>1 DEF IInv, Typed, TypeOK, Lease
  <2>3. Current(l) /\ rows[l.id].expires = l.expires
    BY <2>1, <2>2 DEF IInv, Deadline
  <2> QED
    BY <2>3 DEF Current
<1> QED
  BY <1>1, <1>2, <1>3 DEF Table

\* A call that returns leaves no time and no number behind, and the other calls
\* are not disturbed by a step that keeps the rows' numbers.
LEMMA CallReturns ==
  ASSUME IInv, NEW p \in Process, NEW to \in PcStates \ {"insert"}, Return(p, to),
         clock' = clock, Len(rows') \in Nat, Len(rows) <= Len(rows'),
         \A j \in Ids : rows'[j].seq = rows[j].seq
  PROVE  Calls'
<1>1. NoLaterThanClock'
  BY DEF IInv, Typed, TypeOK, NoLaterThanClock, Return
<1>2. NextNumbered'
  <2> SUFFICES ASSUME NEW q \in Process, pc'[q] = "insert"
               PROVE  /\ seen'[q] <= Len(rows')
                      /\ \A j \in 1..seen'[q] : rows'[j].seq < nextSeq'[q]
    BY DEF NextNumbered
  <2>1. pc[q] = "insert" /\ seen'[q] = seen[q] /\ nextSeq'[q] = nextSeq[q]
    BY DEF IInv, Typed, TypeOK, Return
  <2>2. seen[q] <= Len(rows) /\ \A j \in 1..seen[q] : rows[j].seq < nextSeq[q]
    BY <2>1 DEF IInv, NextNumbered
  <2>3. seen[q] \in Nat /\ Len(rows) \in Nat
    BY DEF IInv, Typed, TypeOK
  <2>4. \A j \in 1..seen[q] : rows'[j].seq = rows[j].seq
    BY <2>2, <2>3 DEF Ids
  <2> QED
    BY <2>1, <2>2, <2>3, <2>4
<1> QED
  BY <1>1, <1>2 DEF Calls

\* No lease's number is above its row's, so a new lease differs from all others.
LEMMA ClaimKeepsTable ==
  ASSUME IInv, Typed', NEW p \in Process, NEW i \in Ids,
         Available(i, now[p]),
         rows' = [rows EXCEPT ![i] = LeasedRow(i, now[p])],
         held' = [held EXCEPT ![p] = @ \cup {LeaseOf(i, now[p])}],
         clock' = clock
  PROVE  Table'
<1>0. /\ now[p] \in Nat /\ clock \in Nat /\ now[p] <= clock
      /\ i \in Nat /\ rows[i] \in Row
      /\ \A q \in Process : \A l \in held[q] : l \in Lease /\ l.id \in Ids
  BY DEF IInv, Typed, TypeOK, HeldStored, NoLaterThanClock, Ids
<1>1. /\ Len(rows') = Len(rows)
      /\ rows'[i] = LeasedRow(i, now[p])
      /\ \A j \in Ids : j # i => rows'[j] = rows[j]
  BY DEF Ids, IInv, Typed, TypeOK
<1>2. \A j \in Ids : /\ rows'[j].key = rows[j].key
                     /\ rows'[j].seq = rows[j].seq
                     /\ rows'[j].seen = rows[j].seen
                     /\ rows'[j].stale = rows[j].stale
  <2>1. /\ LeasedRow(i, now[p]).key = rows[i].key
        /\ LeasedRow(i, now[p]).seq = rows[i].seq
        /\ LeasedRow(i, now[p]).seen = rows[i].seen
        /\ LeasedRow(i, now[p]).stale = rows[i].stale
    BY <1>0 DEF LeasedRow, Row
  <2> QED
    BY <1>1, <2>1
<1>3. /\ rows'[i].status = "leased"
      /\ rows'[i].attempts = rows[i].attempts + 1
      /\ rows'[i].expires = now[p] + LeaseSeconds
  BY <1>0, <1>1 DEF LeasedRow, Row
<1>4. LeaseOf(i, now[p]).id = i /\ LeaseOf(i, now[p]).attempts = rows[i].attempts + 1
      /\ LeaseOf(i, now[p]).expires = now[p] + LeaseSeconds
  BY DEF LeaseOf
<1>5. \A q \in Process : \A l \in held'[q] :
         l \in held[q] \/ (q = p /\ l = LeaseOf(i, now[p]))
  BY DEF IInv, Typed, TypeOK
<1>6. \A q \in Process : \A l \in held[q] : l.attempts <= rows[l.id].attempts
  BY DEF IInv, Counted
<1>7. OneRowPerKey'
  BY <1>1, <1>2 DEF IInv, OneRowPerKey, Ids
<1>8. RowsNumbered'
  <2> SUFFICES ASSUME NEW j \in Ids
               PROVE  /\ rows[j].seen <= Len(rows)
                      /\ \A h \in 1..rows[j].seen : rows'[h].seq < rows[j].seq
    BY <1>1, <1>2 DEF RowsNumbered, Ids
  <2>1. rows[j].seen <= Len(rows) /\ \A h \in 1..rows[j].seen : rows[h].seq < rows[j].seq
    BY DEF IInv, RowsNumbered
  <2>2. rows[j].seen \in Nat /\ Len(rows) \in Nat
    <3>1. rows \in Seq(Row)
      BY DEF IInv, Typed, TypeOK
    <3>2. rows[j] \in Row /\ Len(rows) \in Nat
      BY <3>1 DEF Ids
    <3> QED
      BY <3>2 DEF Row
  <2>3. \A h \in 1..rows[j].seen : h \in Ids
    BY <2>1, <2>2 DEF Ids
  <2> QED
    BY <2>1, <2>3, <1>2
<1>9. Counted'
  <2> SUFFICES ASSUME NEW q \in Process, NEW l \in held'[q]
               PROVE  l.attempts <= rows'[l.id].attempts
    BY DEF Counted
  <2>1. CASE l \in held[q]
    <3>1. l.id \in Ids /\ l.attempts \in Nat /\ l.attempts <= rows[l.id].attempts
      BY <2>1, <1>0, <1>6 DEF Lease
    <3>2. rows[i].attempts \in Nat
      BY <1>0 DEF Row
    <3> QED
      BY <3>1, <3>2, <1>1, <1>3
  <2>2. CASE q = p /\ l = LeaseOf(i, now[p])
    BY <2>2, <1>0, <1>3, <1>4 DEF Row
  <2> QED
    BY <2>1, <2>2, <1>5
<1>10. \A q \in Process : \A l \in held[q] : l.id = i => l.attempts # rows[i].attempts + 1
  <2> SUFFICES ASSUME NEW q \in Process, NEW l \in held[q], l.id = i
               PROVE  l.attempts # rows[i].attempts + 1
    OBVIOUS
  <2>1. l.attempts <= rows[i].attempts /\ l.attempts \in Nat /\ rows[i].attempts \in Nat
    BY <1>0, <1>6 DEF Lease, Row
  <2> QED
    BY <2>1
<1>11. OneHolder'
  <2> SUFFICES ASSUME NEW q \in Process, NEW r \in Process,
                      NEW l \in held'[q], NEW m \in held'[r],
                      l.id = m.id, l.attempts = m.attempts
               PROVE  q = r /\ l = m
    BY DEF OneHolder
  <2> QED
    BY <1>4, <1>5, <1>10 DEF IInv, OneHolder
<1>12. Deadline'
  <2> SUFFICES ASSUME NEW q \in Process, NEW l \in held'[q],
                      l.expires > clock, ~rows'[l.id].stale
               PROVE  Current(l)' /\ rows'[l.id].expires = l.expires
    BY DEF Deadline
  <2>1. CASE q = p /\ l = LeaseOf(i, now[p])
    BY <2>1, <1>3, <1>4 DEF Current
  <2>2. CASE l \in held[q]
    <3>1. l.id \in Ids /\ l \in Lease /\ ~rows[l.id].stale
      BY <2>2, <1>0, <1>2
    <3>2. Current(l) /\ rows[l.id].expires = l.expires
      BY <2>2, <3>1 DEF IInv, Deadline
    <3>3. l.id # i
      <4> SUFFICES ASSUME l.id = i PROVE FALSE
        OBVIOUS
      <4>1. rows[i].status = "leased" /\ rows[i].expires = l.expires
        BY <3>2 DEF Current
      <4>2. l.expires <= now[p]
        BY <4>1 DEF Available
      <4> QED
        BY <4>2, <3>1, <1>0 DEF Lease
    <3> QED
      BY <3>1, <3>2, <3>3, <1>1 DEF Current
  <2> QED
    BY <2>1, <2>2, <1>5
<1> QED
  BY <1>7, <1>8, <1>9, <1>11, <1>12 DEF Table
\* A settlement by the current holder ends the only current lease of the row; one
\* by anybody else marks the row as settled by a stale worker.
LEMMA SettleKeepsTable ==
  ASSUME IInv, Typed', NEW p \in Process, NEW l \in held[p],
         NEW status \in {"done", "queued", "failed"}, Settle(p, l, status)
  PROVE  Table'
<1>0. /\ l.id \in Ids /\ l \in Lease /\ rows[l.id] \in Row
      /\ \A q \in Process : \A m \in held[q] : m \in Lease /\ m.id \in Ids
  <2>1. \A q \in Process : \A m \in held[q] : m \in Lease /\ m.id \in Ids
    BY DEF IInv, Typed, TypeOK, HeldStored
  <2>2. rows \in Seq(Row) /\ l.id \in Ids
    BY <2>1 DEF IInv, Typed, TypeOK
  <2> QED
    BY <2>1, <2>2 DEF Ids
<1>1. /\ Len(rows') = Len(rows)
      /\ rows'[l.id] = SettledRow(l, status)
      /\ \A j \in Ids : j # l.id => rows'[j] = rows[j]
      /\ clock' = clock
  BY <1>0 DEF Settle, Ids, IInv, Typed, TypeOK
<1>2. /\ SettledRow(l, status).key = rows[l.id].key
      /\ SettledRow(l, status).seq = rows[l.id].seq
      /\ SettledRow(l, status).seen = rows[l.id].seen
      /\ SettledRow(l, status).attempts = rows[l.id].attempts
      /\ ~Current(l) => SettledRow(l, status).stale = TRUE
      /\ Current(l) => SettledRow(l, status).stale = rows[l.id].stale
  <2>1. CASE Current(l)
    BY <2>1, <1>0 DEF SettledRow, Row
  <2>2. CASE ~Current(l)
    BY <2>2, <1>0 DEF SettledRow, Row
  <2> QED
    BY <2>1, <2>2
<1>3. \A j \in Ids : /\ rows'[j].key = rows[j].key
                     /\ rows'[j].seq = rows[j].seq
                     /\ rows'[j].seen = rows[j].seen
                     /\ rows'[j].attempts = rows[j].attempts
  BY <1>1, <1>2
<1>4. \A q \in Process : \A m \in held'[q] : m \in held[q] /\ ~(q = p /\ m = l)
  BY DEF Settle, IInv, Typed, TypeOK
<1>5. OneRowPerKey'
  BY <1>1, <1>3 DEF IInv, OneRowPerKey, Ids
<1>6. RowsNumbered'
  <2> SUFFICES ASSUME NEW j \in Ids
               PROVE  /\ rows[j].seen <= Len(rows)
                      /\ \A h \in 1..rows[j].seen : rows'[h].seq < rows[j].seq
    BY <1>1, <1>3 DEF RowsNumbered, Ids
  <2>1. rows[j].seen <= Len(rows) /\ \A h \in 1..rows[j].seen : rows[h].seq < rows[j].seq
    BY DEF IInv, RowsNumbered
  <2>2. rows[j].seen \in Nat /\ Len(rows) \in Nat
    <3>1. rows \in Seq(Row)
      BY DEF IInv, Typed, TypeOK
    <3>2. rows[j] \in Row /\ Len(rows) \in Nat
      BY <3>1 DEF Ids
    <3> QED
      BY <3>2 DEF Row
  <2>3. \A h \in 1..rows[j].seen : h \in Ids
    BY <2>1, <2>2 DEF Ids
  <2> QED
    BY <2>1, <2>3, <1>3
<1>7. Counted' /\ OneHolder'
  BY <1>0, <1>3, <1>4 DEF IInv, Counted, OneHolder
<1>8. Deadline'
  <2> SUFFICES ASSUME NEW q \in Process, NEW m \in held'[q],
                      m.expires > clock, ~rows'[m.id].stale
               PROVE  Current(m)' /\ rows'[m.id].expires = m.expires
    BY <1>1 DEF Deadline
  <2>1. m \in held[q] /\ m.id \in Ids /\ ~(q = p /\ m = l)
    BY <1>0, <1>4
  <2>2. m.id # l.id
    <3> SUFFICES ASSUME m.id = l.id PROVE FALSE
      OBVIOUS
    <3>1. Current(l) /\ ~rows[l.id].stale
      BY <1>1, <1>2
    <3>2. Current(m)
      BY <2>1, <3>1 DEF IInv, Deadline
    <3>3. m.attempts = l.attempts
      BY <3>1, <3>2 DEF Current
    <3> QED
      BY <2>1, <3>3 DEF IInv, OneHolder
  <2>3. rows'[m.id] = rows[m.id]
    BY <1>1, <2>1, <2>2
  <2> QED
    BY <2>1, <2>3 DEF IInv, Deadline, Current
<1> QED
  BY <1>5, <1>6, <1>7, <1>8 DEF Table

\* The new row's key is no other row's, and its number is above the rows' that were
\* there when the number was read.
LEMMA InsertKeepsTable ==
  ASSUME IInv, Typed', NEW p \in Process, Insert(p)
  PROVE  Table'
<1>0. rows \in Seq(Row) /\ Len(rows) \in Nat /\ NewRow(p) \in Row
  BY DEF IInv, Typed, TypeOK, Insert, NewRow, Row, InCall
<1>1. /\ Len(rows') = Len(rows) + 1
      /\ rows'[Len(rows) + 1] = NewRow(p)
      /\ \A j \in Ids : rows'[j] = rows[j]
      /\ clock' = clock /\ held' = held
  BY <1>0 DEF Insert, Ids
<1>2. \A j \in 1..Len(rows') : j \in Ids \/ j = Len(rows) + 1
  BY <1>0, <1>1 DEF Ids
<1>3. \A q \in Process : \A m \in held[q] : m.id \in Ids
  BY DEF IInv, Typed, HeldStored
<1>4. OneRowPerKey'
  <2>1. NewRow(p).key = arg[p] /\ \A j \in Ids : rows[j].key # arg[p]
    BY DEF Insert, Stored, NewRow
  <2> QED
    BY <1>1, <1>2, <2>1 DEF IInv, OneRowPerKey, Ids
<1>5. RowsNumbered'
  <2> SUFFICES ASSUME NEW j \in 1..Len(rows')
               PROVE  /\ rows'[j].seen <= Len(rows')
                      /\ \A h \in 1..rows'[j].seen : rows'[h].seq < rows'[j].seq
    BY DEF RowsNumbered, Ids
  <2>1. CASE j \in Ids
    <3>1. rows[j] \in Row
      BY <1>0, <2>1 DEF Ids
    <3>2. rows[j].seen \in Nat
      BY <3>1 DEF Row
    <3>3. rows[j].seen <= Len(rows) /\ \A h \in 1..rows[j].seen : rows[h].seq < rows[j].seq
      BY <2>1 DEF IInv, RowsNumbered
    <3>4. \A h \in 1..rows[j].seen : h \in Ids
      BY <1>0, <3>2, <3>3 DEF Ids
    <3> QED
      BY <1>0, <1>1, <2>1, <3>2, <3>3, <3>4
  <2>2. CASE j = Len(rows) + 1
    <3>1. NewRow(p).seen = seen[p] /\ NewRow(p).seq = nextSeq[p] /\ seen[p] \in Nat
      BY DEF NewRow, IInv, Typed, TypeOK
    <3>2. seen[p] <= Len(rows) /\ \A h \in 1..seen[p] : rows[h].seq < nextSeq[p]
      BY DEF IInv, NextNumbered, Insert
    <3>3. \A h \in 1..seen[p] : h \in Ids
      BY <1>0, <3>1, <3>2 DEF Ids
    <3> QED
      BY <1>0, <1>1, <2>2, <3>1, <3>2, <3>3
  <2> QED
    BY <1>2, <2>1, <2>2
<1>6. Counted' /\ OneHolder'
  BY <1>1, <1>3 DEF IInv, Counted, OneHolder
<1>7. Deadline'
  BY <1>1, <1>3 DEF IInv, Deadline, Current
<1> QED
  BY <1>4, <1>5, <1>6, <1>7 DEF Table
-----------------------------------------------------------------------------
(* The invariant *)

LEMMA IInvInit == Init => IInv
  BY TypedInit
     DEF Init, IInv, OneRowPerKey, Counted, OneHolder, Deadline, NoLaterThanClock,
         RowsNumbered, NextNumbered, Ids

\* Every step keeps the invariant.
LEMMA IInvStep == IInv /\ [Next]_vars => IInv'
<1> SUFFICES ASSUME IInv, [Next]_vars PROVE Table' /\ Calls'
  BY TypedStep DEF IInv, Table, Calls
<1>0. Typed /\ Typed' /\ clock \in Nat /\ Len(rows) \in Nat
  BY TypedStep DEF IInv, Typed, TypeOK
<1>1. ASSUME NEW p \in Process, NEW k \in Key, LookUp(p, k) PROVE Table' /\ Calls'
  <2>1. Table'
    BY <1>0, <1>1, TableUntouched DEF LookUp
  <2>2. Calls'
    BY <1>0, <1>1 DEF LookUp, IInv, Calls, NoLaterThanClock, NextNumbered, Typed, TypeOK
  <2> QED
    BY <2>1, <2>2
<1>2. ASSUME NEW p \in Process, ReadSeq(p) PROVE Table' /\ Calls'
  <2>1. Table'
    BY <1>0, <1>2, TableUntouched DEF ReadSeq
  <2>2. NoLaterThanClock'
    BY <1>2 DEF ReadSeq, IInv, NoLaterThanClock
  <2>3. PICK n \in 1..(Len(rows) + 1) :
          NextSeq(n) /\ nextSeq' = [nextSeq EXCEPT ![p] = n]
    BY <1>2 DEF ReadSeq
  <2>4. NextNumbered'
    BY <1>0, <1>2, <2>3
       DEF ReadSeq, NextSeq, IInv, NextNumbered, Ids, Typed, TypeOK
  <2> QED
    BY <2>1, <2>2, <2>4 DEF Calls
<1>3. ASSUME NEW p \in Process, Insert(p) PROVE Table' /\ Calls'
  <2>1. /\ Len(rows') = Len(rows) + 1
        /\ \A j \in Ids : rows'[j].seq = rows[j].seq
    BY <1>0, <1>3 DEF Insert, Ids, Typed, TypeOK
  <2>2. Return(p, "idle") /\ "idle" \in PcStates \ {"insert"} /\ clock' = clock
    BY <1>3 DEF Insert, PcStates
  <2>3. Len(rows') \in Nat /\ Len(rows) <= Len(rows')
    BY <1>0, <2>1
  <2>4. Calls'
    BY <2>1, <2>2, <2>3, CallReturns
  <2> QED
    BY <1>0, <1>3, <2>4, InsertKeepsTable
<1>4. ASSUME NEW p \in Process, InsertLosesRace(p) PROVE Table' /\ Calls'
  BY <1>0, <1>4, TableUntouched, CallReturns DEF InsertLosesRace, PcStates, Errors
<1>5. ASSUME NEW p \in Process, ReadClock(p) PROVE Table' /\ Calls'
  <2>1. Table'
    BY <1>0, <1>5, TableUntouched DEF ReadClock
  <2>2. Calls'
    BY <1>0, <1>5
       DEF ReadClock, IInv, Calls, NoLaterThanClock, NextNumbered, Typed, TypeOK
  <2> QED
    BY <2>1, <2>2
<1>6. ASSUME NEW p \in Process, ClaimOldest(p) PROVE Table' /\ Calls'
  <2>1. PICK i \in Ids :
          /\ Available(i, now[p])
          /\ rows' = [rows EXCEPT ![i] = LeasedRow(i, now[p])]
          /\ held' = [held EXCEPT ![p] = @ \cup {LeaseOf(i, now[p])}]
    BY <1>6 DEF ClaimOldest, Oldest
  <2>2. Table'
    BY <1>0, <1>6, <2>1, ClaimKeepsTable DEF ClaimOldest
  <2>3. Len(rows') = Len(rows) /\ \A j \in Ids : rows'[j].seq = rows[j].seq
    <3>1. rows[i] \in Row
      BY DEF Ids, IInv, Typed, TypeOK
    <3>2. LeasedRow(i, now[p]).seq = rows[i].seq
      BY <3>1 DEF LeasedRow, Row
    <3> QED
      BY <2>1, <3>2 DEF Ids, IInv, Typed, TypeOK
  <2> QED
    BY <1>0, <1>6, <2>2, <2>3, CallReturns DEF ClaimOldest, PcStates
<1>7. ASSUME NEW p \in Process, ClaimNothing(p) PROVE Table' /\ Calls'
  BY <1>0, <1>7, TableUntouched, CallReturns DEF ClaimNothing, PcStates
<1>8. ASSUME NEW p \in Process, NEW l \in held[p],
             NEW status \in {"done", "queued", "failed"}, Settle(p, l, status)
      PROVE  Table' /\ Calls'
  <2>1. Len(rows') = Len(rows) /\ \A j \in Ids : rows'[j].seq = rows[j].seq
    <3>1. rows \in Seq(Row) /\ l.id \in Ids
      BY DEF IInv, Typed, TypeOK, HeldStored
    <3>2. rows[l.id] \in Row
      BY <3>1 DEF Ids
    <3>3. SettledRow(l, status).seq = rows[l.id].seq
      BY <3>2 DEF SettledRow, Row
    <3> QED
      BY <1>8, <3>1, <3>3 DEF Settle, Ids
  <2>2. Calls'
    <3>1. NoLaterThanClock'
      BY <1>8 DEF Settle, IInv, NoLaterThanClock
    <3>2. NextNumbered'
      <4> SUFFICES ASSUME NEW q \in Process, pc[q] = "insert"
                   PROVE  /\ seen[q] <= Len(rows)
                          /\ \A j \in 1..seen[q] : rows'[j].seq < nextSeq[q]
        BY <1>8, <2>1 DEF NextNumbered, Settle
      <4>1. seen[q] <= Len(rows) /\ \A j \in 1..seen[q] : rows[j].seq < nextSeq[q]
        BY DEF IInv, NextNumbered
      <4>2. \A j \in 1..seen[q] : j \in Ids
        BY <1>0, <4>1 DEF Ids, Typed, TypeOK
      <4> QED
        BY <2>1, <4>1, <4>2
    <3> QED
      BY <3>1, <3>2 DEF Calls
  <2> QED
    BY <1>0, <1>8, <2>2, SettleKeepsTable
<1>9. ASSUME NEW p \in Process, Busy(p) PROVE Table' /\ Calls'
  BY <1>0, <1>9, TableUntouched, CallReturns DEF Busy, PcStates, Errors
<1>10. ASSUME NEW p \in Process, Restart(p) PROVE Table' /\ Calls'
  <2>1. \A q \in Process : held'[q] \subseteq held[q]
    BY <1>10 DEF Restart, Typed, TypeOK, IInv
  <2> QED
    BY <1>0, <1>10, <2>1, TableUntouched, CallReturns DEF Restart, PcStates
<1>11. CASE Tick
  <2>1. Table'
    BY <1>0, <1>11, TableUntouched DEF Tick
  <2>2. Calls'
    BY <1>0, <1>11
       DEF Tick, IInv, Calls, NoLaterThanClock, NextNumbered, Typed, TypeOK
  <2> QED
    BY <2>1, <2>2
<1>12. CASE UNCHANGED vars
  <2>1. Table'
    BY <1>0, <1>12, TableUntouched DEF vars
  <2>2. Calls'
    BY <1>12 DEF vars, IInv, Calls, NoLaterThanClock, NextNumbered
  <2> QED
    BY <2>1, <2>2
<1> QED
  BY <1>1, <1>2, <1>3, <1>4, <1>5, <1>6, <1>7, <1>8, <1>9, <1>10, <1>11, <1>12
     DEF Next, Step, Ack, Nack

LEMMA IInvCorrect == Spec => []IInv
  BY IInvInit, IInvStep, PTL DEF Spec

\* However many processes enqueue a key at once, the table has one row of it.
THEOREM OneRow == Spec => []OneRowPerKey
<1>1. IInv => OneRowPerKey
  BY DEF IInv
<1> QED
  BY <1>1, IInvCorrect, PTL

\* A worker keeps its job until its deadline, whatever the other processes do.
THEOREM LeasesRespected == Spec => []LeaseRespected
<1>1. IInv => LeaseRespected
  BY DEF IInv, Deadline, LeaseRespected
<1> QED
  BY <1>1, IInvCorrect, PTL
-----------------------------------------------------------------------------
(* First come, first served *)

\* A step that writes one row, and leaves its attempts, claims nothing.
LEMMA WritesKeepAttempts ==
  ASSUME IInv, NEW p \in Process, NEW l \in held[p],
         NEW status \in {"done", "queued", "failed"}, Settle(p, l, status)
  PROVE  \A i \in Ids : rows'[i].attempts = rows[i].attempts
<1>1. rows \in Seq(Row) /\ l.id \in Ids
  BY DEF IInv, Typed, TypeOK, HeldStored
<1>2. rows[l.id] \in Row
  BY <1>1 DEF Ids
<1>3. SettledRow(l, status).attempts = rows[l.id].attempts
  BY <1>2 DEF SettledRow, Row
<1> QED
  BY <1>1, <1>3 DEF Settle, Ids

\* A job is claimed only when every job that was there before it got its number is
\* no longer queued.
THEOREM InOrder == Spec => ServesInOrder
<1> DEFINE Earlier == \A i \in Ids : rows'[i].attempts # rows[i].attempts =>
                        \A j \in 1..rows[i].seen : rows[j].status # "queued"
<1>1. ASSUME IInv, [Next]_vars PROVE Earlier
  <2>1. CASE rows' = rows
    BY <2>1
  <2>2. ASSUME NEW p \in Process, Insert(p) PROVE Earlier
    BY <1>1, <2>2 DEF Insert, Ids, IInv, Typed, TypeOK
  <2>3. ASSUME NEW p \in Process, ClaimOldest(p) PROVE Earlier
    <3> SUFFICES ASSUME NEW i \in Ids, rows'[i].attempts # rows[i].attempts,
                        NEW j \in 1..rows[i].seen, rows[j].status = "queued"
                 PROVE  FALSE
      OBVIOUS
    <3>1. Oldest(i, now[p])
      BY <1>1, <2>3 DEF ClaimOldest, Ids, IInv, Typed, TypeOK
    <3>2. rows[j].seq < rows[i].seq /\ rows[i].seen <= Len(rows)
      BY <1>1 DEF IInv, RowsNumbered
    <3>3. rows \in Seq(Row)
      BY <1>1 DEF IInv, Typed, TypeOK
    <3>4. rows[i] \in Row
      BY <3>3 DEF Ids
    <3>5. j \in Ids
      BY <3>2, <3>3, <3>4 DEF Row, Ids
    <3>6. rows[j] \in Row
      BY <3>3, <3>5 DEF Ids
    <3>7. rows[i].seq <= rows[j].seq
      BY <3>1, <3>5 DEF Oldest, Available
    <3> QED
      BY <3>2, <3>4, <3>6, <3>7 DEF Row
  <2>4. ASSUME NEW p \in Process, NEW l \in held[p],
               NEW status \in {"done", "queued", "failed"}, Settle(p, l, status)
        PROVE  Earlier
    BY <1>1, <2>4, WritesKeepAttempts
  <2> QED
    BY <1>1, <2>1, <2>2, <2>3, <2>4
       DEF Next, Step, vars, LookUp, ReadSeq, InsertLosesRace, ReadClock,
           ClaimNothing, Ack, Nack, Busy, Restart, Tick
<1> QED
  BY <1>1, IInvCorrect, PTL DEF Spec, ServesInOrder
-----------------------------------------------------------------------------
(* The table implements the contract of JobQueue *)

\* The job under a key is the one its only row describes.
JobsByRow ==
  /\ \A i \in Ids : rows[i].key \in Key /\ Jobs[rows[i].key] = RowJob(i)
  /\ \A k \in Key : ~Stored(k) => Jobs[k] = NoJob

LEMMA JobOfRow == IInv => JobsByRow
<1> SUFFICES ASSUME IInv PROVE JobsByRow
  OBVIOUS
<1>1. ASSUME NEW i \in Ids PROVE rows[i].key \in Key /\ Jobs[rows[i].key] = RowJob(i)
  <2>1. rows \in Seq(Row)
    BY DEF IInv, Typed, TypeOK
  <2>2. rows[i] \in Row
    BY <2>1 DEF Ids
  <2>3. rows[i].key \in Key
    BY <2>2 DEF Row
  <2>4. Stored(rows[i].key)
    BY DEF Stored
  <2>5. RowOf(rows[i].key) \in Ids /\ rows[RowOf(rows[i].key)].key = rows[i].key
    BY DEF RowOf
  <2>6. RowOf(rows[i].key) = i
    BY <2>5 DEF IInv, OneRowPerKey
  <2> QED
    BY <2>3, <2>4, <2>6 DEF Jobs
<1>2. ASSUME NEW k \in Key, ~Stored(k) PROVE Jobs[k] = NoJob
  BY <1>2 DEF Jobs
<1> QED
  BY <1>1, <1>2 DEF JobsByRow

\* The same rows at the same time are the same jobs.
LEMMA SameJobs ==
  ASSUME JobsByRow, JobsByRow', rows' = rows, clock' = clock
  PROVE  Jobs' = Jobs
<1>1. ASSUME NEW k \in Key PROVE Jobs'[k] = Jobs[k]
  <2>1. CASE Stored(k)
    <3>1. PICK i \in Ids : rows[i].key = k
      BY <2>1 DEF Stored
    <3>2. Jobs[k] = RowJob(i) /\ Jobs'[k] = RowJob(i)'
      BY <3>1 DEF JobsByRow, Ids
    <3> QED
      BY <3>2 DEF RowJob, TimeLeft
  <2>2. CASE ~Stored(k)
    <3>1. ~Stored(k)'
      BY <2>2 DEF Stored, Ids
    <3> QED
      BY <2>2, <3>1 DEF JobsByRow, NoJob
  <2> QED
    BY <2>1, <2>2
<1>2. Jobs = [k \in Key |-> Jobs[k]] /\ Jobs' = [k \in Key |-> Jobs'[k]]
  BY DEF Jobs
<1> QED
  BY <1>1, <1>2

\* Writing one row, and not its key, changes the one job.
LEMMA OneJobChanges ==
  ASSUME JobsByRow, JobsByRow', OneRowPerKey, clock' = clock, NEW i \in Ids,
         Len(rows') = Len(rows), rows'[i].key = rows[i].key,
         \A j \in Ids : j # i => rows'[j] = rows[j]
  PROVE  Jobs' = [Jobs EXCEPT ![rows[i].key] = RowJob(i)']
<1>1. ASSUME NEW k \in Key, k # rows[i].key PROVE Jobs'[k] = Jobs[k]
  <2>1. CASE Stored(k)
    <3>1. PICK j \in Ids : rows[j].key = k
      BY <2>1 DEF Stored
    <3>2. j # i /\ rows'[j] = rows[j] /\ j \in Ids'
      BY <1>1, <3>1 DEF Ids
    <3>3. Jobs[k] = RowJob(j) /\ Jobs'[k] = RowJob(j)'
      BY <3>1, <3>2 DEF JobsByRow
    <3> QED
      BY <3>2, <3>3 DEF RowJob, TimeLeft
  <2>2. CASE ~Stored(k)
    <3>1. ~Stored(k)'
      BY <1>1, <2>2 DEF Stored, Ids
    <3> QED
      BY <2>2, <3>1 DEF JobsByRow, NoJob
  <2> QED
    BY <2>1, <2>2
<1>2. Jobs'[rows[i].key] = RowJob(i)' /\ rows[i].key \in Key
  BY DEF JobsByRow, Ids
<1>3. Jobs = [k \in Key |-> Jobs[k]] /\ Jobs' = [k \in Key |-> Jobs'[k]]
  BY DEF Jobs
<1> QED
  BY <1>1, <1>2, <1>3
LEMMA JobOfRowNext == IInv' => JobsByRow'
  BY JobOfRow, PTL

\* An INSERT is the contract's Add of the key.
LEMMA InsertAdds ==
  ASSUME IInv, IInv', NEW p \in Process, Insert(p)
  PROVE  Contract!Add(arg[p])
<1>0. /\ JobsByRow /\ JobsByRow'
      /\ rows \in Seq(Row) /\ NewRow(p) \in Row
      /\ arg[p] \in Key /\ ~Stored(arg[p])
  BY JobOfRow, JobOfRowNext
     DEF IInv, Typed, TypeOK, InCall, Insert, NewRow, Row
<1> PICK n \in Nat : n = Len(rows) + 1
  BY <1>0
<1>1. /\ Len(rows') = n
      /\ rows'[n] = NewRow(p)
      /\ \A j \in Ids : rows'[j] = rows[j]
      /\ clock' = clock
  BY <1>0 DEF Insert, Ids
<1>2. Ids' = Ids \cup {n}
  BY <1>0, <1>1 DEF Ids
<1>3. Jobs[arg[p]] = NoJob
  BY <1>0 DEF JobsByRow
<1>4. Jobs'[arg[p]] = [status |-> "queued", attempts |-> 0, ttl |-> 0]
  <2>1. Jobs'[rows'[n].key] = RowJob(n)'
    BY <1>0, <1>2 DEF JobsByRow
  <2> QED
    BY <1>1, <2>1 DEF NewRow, RowJob, TimeLeft
<1>5. ASSUME NEW k \in Key, k # arg[p] PROVE Jobs'[k] = Jobs[k]
  <2>1. CASE Stored(k)
    <3>1. PICK j \in Ids : rows[j].key = k
      BY <2>1 DEF Stored
    <3>2. rows'[j] = rows[j] /\ j \in Ids'
      BY <1>1, <1>2
    <3>3. Jobs[k] = RowJob(j) /\ Jobs'[k] = RowJob(j)'
      BY <1>0, <3>1, <3>2 DEF JobsByRow
    <3> QED
      BY <1>1, <3>2, <3>3 DEF RowJob, TimeLeft
  <2>2. CASE ~Stored(k)
    <3>1. ~Stored(k)'
      BY <1>1, <1>2, <1>5, <2>2 DEF Stored, NewRow
    <3> QED
      BY <1>0, <2>2, <3>1 DEF JobsByRow, NoJob
  <2> QED
    BY <2>1, <2>2
<1>6. Jobs = [k \in Key |-> Jobs[k]] /\ Jobs' = [k \in Key |-> Jobs'[k]]
  BY DEF Jobs
<1>7. Jobs' = [Jobs EXCEPT ![arg[p]] =
                 [status |-> "queued", attempts |-> 0, ttl |-> 0]]
  BY <1>0, <1>4, <1>5, <1>6
<1> QED
  BY <1>3, <1>7 DEF Contract!Add, NoJob

\* lease()'s transaction is the contract's Claim of the row's key: a deadline that
\* had passed when the clock was read has passed, and the new one is at most
\* LeaseSeconds ahead.
LEMMA ClaimClaims ==
  ASSUME IInv, IInv', NEW p \in Process, ClaimOldest(p)
  PROVE  \E k \in Key : Contract!Claim(k)
<1>1. PICK i \in Ids :
        Available(i, now[p]) /\ rows' = [rows EXCEPT ![i] = LeasedRow(i, now[p])]
  BY DEF ClaimOldest, Oldest
<1>2. /\ JobsByRow /\ JobsByRow' /\ OneRowPerKey
      /\ rows \in Seq(Row) /\ now[p] \in Nat /\ clock \in Nat /\ now[p] <= clock
  BY JobOfRow, JobOfRowNext DEF IInv, Typed, TypeOK, NoLaterThanClock
<1>3. rows[i] \in Row
  BY <1>2 DEF Ids
<1>4. /\ Len(rows') = Len(rows)
      /\ rows'[i] = LeasedRow(i, now[p])
      /\ \A j \in Ids : j # i => rows'[j] = rows[j]
      /\ clock' = clock
  BY <1>1, <1>2 DEF ClaimOldest, Ids
<1>5. /\ rows'[i].key = rows[i].key
      /\ rows'[i].status = "leased"
      /\ rows'[i].attempts = rows[i].attempts + 1
      /\ rows'[i].expires = now[p] + LeaseSeconds
  BY <1>3, <1>4 DEF LeasedRow, Row
<1>6. Jobs' = [Jobs EXCEPT ![rows[i].key] = RowJob(i)']
  BY <1>2, <1>4, <1>5, OneJobChanges
<1>7. rows[i].key \in Key /\ Jobs[rows[i].key] = RowJob(i)
  BY <1>2 DEF JobsByRow
<1>8. RowJob(i)' = [status   |-> "leased",
                    attempts |-> Jobs[rows[i].key].attempts + 1,
                    ttl      |-> TimeLeft(i)']
  BY <1>5, <1>7 DEF RowJob
<1>9. TimeLeft(i)' \in 0..LeaseSeconds
  BY <1>2, <1>4, <1>5, LeaseAssumption DEF TimeLeft
<1>10. Contract!Claimable(rows[i].key)
  <2>1. CASE rows[i].status = "queued"
    BY <1>7, <2>1 DEF Contract!Claimable, RowJob
  <2>2. CASE rows[i].status = "leased" /\ rows[i].expires <= now[p]
    <3>1. ~(rows[i].expires > clock)
      BY <1>2, <1>3, <2>2 DEF Row
    <3> QED
      BY <1>7, <2>2, <3>1 DEF Contract!Claimable, RowJob, TimeLeft
  <2> QED
    BY <1>1, <2>1, <2>2 DEF Available
<1> QED
  BY <1>6, <1>7, <1>8, <1>9, <1>10 DEF Contract!Claim
\* ack() and nack() are the contract's Settle of the row's key.
LEMMA SettleSettles ==
  ASSUME IInv, IInv', NEW p \in Process, NEW l \in held[p],
         NEW status \in {"done", "queued", "failed"}, Settle(p, l, status)
  PROVE  \E k \in Key : Contract!Settle(k)
<1>1. JobsByRow /\ JobsByRow' /\ OneRowPerKey
  BY JobOfRow, JobOfRowNext DEF IInv
<1>2. rows \in Seq(Row) /\ l.id \in Ids
  BY DEF IInv, Typed, TypeOK, HeldStored
<1> PICK i \in Ids : i = l.id
  BY <1>2
<1>3. rows[i] \in Row
  BY <1>2 DEF Ids
<1>4. /\ Len(rows') = Len(rows)
      /\ rows'[i] = SettledRow(l, status)
      /\ \A j \in Ids : j # i => rows'[j] = rows[j]
      /\ clock' = clock
  BY <1>2 DEF Settle, Ids
<1>5. /\ rows'[i].key = rows[i].key
      /\ rows'[i].status = status
      /\ rows'[i].attempts = rows[i].attempts
  BY <1>3, <1>4 DEF SettledRow, Row
<1>6. Jobs' = [Jobs EXCEPT ![rows[i].key] = RowJob(i)']
  BY <1>1, <1>4, <1>5, OneJobChanges
<1>7. rows[i].key \in Key /\ Jobs[rows[i].key] = RowJob(i)
  BY <1>1 DEF JobsByRow
<1>8. RowJob(i)' = [status   |-> status,
                    attempts |-> Jobs[rows[i].key].attempts,
                    ttl      |-> 0]
  BY <1>5, <1>7 DEF RowJob, TimeLeft
<1>9. Jobs[rows[i].key].status # "absent"
  BY <1>3, <1>7 DEF RowJob, Row
<1> QED
  BY <1>6, <1>7, <1>8, <1>9 DEF Contract!Settle

\* A tick of the clock is the contract's Elapse.
LEMMA TickElapses ==
  ASSUME IInv, IInv', Tick
  PROVE  Contract!Elapse
<1>0. /\ JobsByRow /\ JobsByRow' /\ rows \in Seq(Row) /\ clock \in Nat
      /\ rows' = rows /\ clock' = clock + 1
  BY JobOfRow, JobOfRowNext DEF IInv, Typed, TypeOK, Tick
<1> DEFINE Shorter(j) == [j EXCEPT !.ttl = IF j.ttl = 0 THEN 0 ELSE j.ttl - 1]
<1>1. ASSUME NEW k \in Key PROVE Jobs'[k] = Shorter(Jobs[k])
  <2>1. CASE Stored(k)
    <3>1. PICK i \in Ids : rows[i].key = k
      BY <2>1 DEF Stored
    <3>2. Jobs[k] = RowJob(i) /\ Jobs'[k] = RowJob(i)'
      BY <1>0, <3>1 DEF JobsByRow, Ids
    <3>3. rows[i] \in Row
      BY <1>0 DEF Ids
    <3>4. rows[i].expires \in Nat
      BY <3>3 DEF Row
    <3>5. TimeLeft(i)' = IF TimeLeft(i) = 0 THEN 0 ELSE TimeLeft(i) - 1
      BY <1>0, <3>4 DEF TimeLeft
    <3> QED
      BY <1>0, <3>2, <3>5 DEF RowJob
  <2>2. CASE ~Stored(k)
    <3>1. ~Stored(k)'
      BY <1>0, <2>2 DEF Stored, Ids
    <3>2. Jobs[k] = NoJob /\ Jobs'[k] = NoJob
      BY <1>0, <2>2, <3>1 DEF JobsByRow, NoJob
    <3> QED
      BY <3>2 DEF NoJob
  <2> QED
    BY <2>1, <2>2
<1>2. Jobs' = [k \in Key |-> Jobs'[k]]
  BY DEF Jobs
<1> QED
  BY <1>1, <1>2 DEF Contract!Elapse

\* The table, used by any number of processes at once, keeps the contract of the
\* abstract class: every step is one call of the interface, a tick, or no change.
THEOREM TableKeepsContract == Spec => KeepsContract
<1>1. Init => Contract!ContractInit
  BY DEF Init, Contract!ContractInit, Contract!Absent, Jobs, Stored, Ids, NoJob
<1>2. IInv /\ IInv' /\ [Next]_vars => [Contract!ContractNext]_Jobs
  <2> SUFFICES ASSUME IInv, IInv', [Next]_vars
               PROVE  Contract!ContractNext \/ Jobs' = Jobs
    OBVIOUS
  <2>1. CASE rows' = rows /\ clock' = clock
    BY <2>1, SameJobs, JobOfRow, JobOfRowNext
  <2>2. ASSUME NEW p \in Process, Insert(p) PROVE Contract!ContractNext
    <3>1. arg[p] \in Key
      BY <2>2 DEF Insert, IInv, Typed, InCall
    <3> QED
      BY <2>2, <3>1, InsertAdds DEF Contract!ContractNext
  <2>3. ASSUME NEW p \in Process, ClaimOldest(p) PROVE Contract!ContractNext
    BY <2>3, ClaimClaims DEF Contract!ContractNext
  <2>4. ASSUME NEW p \in Process, NEW l \in held[p],
               NEW status \in {"done", "queued", "failed"}, Settle(p, l, status)
        PROVE  Contract!ContractNext
    BY <2>4, SettleSettles DEF Contract!ContractNext
  <2>5. CASE Tick
    BY <2>5, TickElapses DEF Contract!ContractNext
  <2> QED
    BY <2>1, <2>2, <2>3, <2>4, <2>5
       DEF Next, Step, vars, LookUp, ReadSeq, InsertLosesRace, ReadClock,
           ClaimNothing, Ack, Nack, Busy, Restart
<1> QED
  BY <1>1, <1>2, IInvCorrect, PTL
     DEF Spec, KeepsContract, Contract!ContractSpec
=============================================================================
