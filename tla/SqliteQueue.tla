---------------------------- MODULE SqliteQueue ----------------------------
(***************************************************************************)
(* SQLiteJobQueue of ingestion/queue.py: several processes, each with its  *)
(* own connection, share one jobs table.                                   *)
(*                                                                         *)
(* The steps are the statements that other connections can come between.   *)
(* enqueue() is three: it looks the key up, reads MAX(seq) + 1, and        *)
(* inserts and commits.  lease() reads the clock before it opens its       *)
(* BEGIN IMMEDIATE transaction, which is then one step.  ack() and nack()  *)
(* write in one step.  The sqlite3 module opens a transaction before the   *)
(* INSERT; when the INSERT breaks the UNIQUE constraint the exception      *)
(* passes commit() by, and the connection keeps the write lock until its   *)
(* process ends.  A writer that finds the lock taken waits for it, or      *)
(* gives up after the busy timeout.                                        *)
(***************************************************************************)
EXTENDS Naturals, Sequences, FiniteSets

CONSTANTS Process,        \* processes with a connection to the database file
          Key,            \* idempotency keys (episode GUIDs)
          LeaseSeconds,   \* lease_seconds
          NoProcess,      \* nobody has the write lock
          NoKey,          \* the process is in no enqueue()
          MaxClock,       \* bound: the clock stops here
          MaxAttempts     \* bound: a job is not leased more often than this

ASSUME LeaseAssumption  == LeaseSeconds \in Nat \ {0}
ASSUME BoundAssumption  == MaxClock \in Nat /\ MaxAttempts \in Nat
ASSUME NoneAssumption   == NoProcess \notin Process /\ NoKey \notin Key

VARIABLES
  rows,     \* the committed table, in insertion order; a row's place is its id
  clock,    \* time.time()
  writer,   \* the process whose open transaction has the write lock
  pc,       \* where each process is: "idle" between calls, in a call, or
            \* ended by the exception a call raised
  arg,      \* the key of the enqueue() a process is in
  nextSeq,  \* what _next_seq() returned to it
  seen,     \* history: how many rows there were at that moment
  now,      \* the time lease() read
  held      \* the Job objects lease() returned and the process has not settled

vars == <<rows, clock, writer, pc, arg, nextSeq, seen, now, held>>

\* A row of the jobs table.  Payloads are left out; expires = 0 stands for NULL
\* (the clock starts at 1).  Two fields are history: how many rows there were
\* when the row got its number, and whether a worker whose lease had run out
\* and been given to another has settled it.
Row == [key : Key, status : {"queued", "leased", "done", "failed"},
        attempts : Nat, expires : Nat, seq : Nat, seen : Nat, stale : BOOLEAN]

\* What lease() returns of a row, as far as it tells one lease from another.
Lease == [id : Nat, attempts : Nat, expires : Nat]

Errors == {"IntegrityError", "OperationalError"}

PcStates == {"idle", "next_seq", "insert", "claim"} \cup Errors

TypeOK ==
  /\ rows \in Seq(Row)
  /\ clock \in Nat
  /\ writer \in Process \cup {NoProcess}
  /\ pc \in [Process -> PcStates]
  /\ arg \in [Process -> Key \cup {NoKey}]
  /\ nextSeq \in [Process -> Nat]
  /\ seen \in [Process -> Nat]
  /\ now \in [Process -> Nat]
  /\ held \in [Process -> SUBSET Lease]

Ids == 1..Len(rows)

Stored(k) == \E i \in Ids : rows[i].key = k

Init ==
  /\ rows = <<>>
  /\ clock = 1
  /\ writer = NoProcess
  /\ pc = [p \in Process |-> "idle"]
  /\ arg = [p \in Process |-> NoKey]
  /\ nextSeq = [p \in Process |-> 0]
  /\ seen = [p \in Process |-> 0]
  /\ now = [p \in Process |-> 0]
  /\ held = [p \in Process |-> {}]

\* A call returns, or its process ends: its local variables are gone.
Return(p, to) ==
  /\ pc' = [pc EXCEPT ![p] = to]
  /\ arg' = [arg EXCEPT ![p] = NoKey]
  /\ nextSeq' = [nextSeq EXCEPT ![p] = 0]
  /\ seen' = [seen EXCEPT ![p] = 0]
  /\ now' = [now EXCEPT ![p] = 0]

-----------------------------------------------------------------------------
(* enqueue() *)

\* SELECT ... WHERE idempotency_key = ?.  A key that is found is returned as it
\* is, whatever its status: nothing changes.  Only a key that is not found goes on.
LookUp(p, k) ==
  /\ pc[p] = "idle"
  /\ ~Stored(k)
  /\ arg' = [arg EXCEPT ![p] = k]
  /\ pc' = [pc EXCEPT ![p] = "next_seq"]
  /\ UNCHANGED <<rows, clock, writer, nextSeq, seen, now, held>>

\* MUTANT of NextSeq: COALESCE(MAX(seq), 0) without the + 1.
NextSeqUnincremented(n) ==
  n \in {rows[i].seq : i \in Ids} \cup {0} /\ \A i \in Ids : rows[i].seq <= n

\* SELECT COALESCE(MAX(seq), 0) + 1: the least number above every row's.
NextSeq(n) ==
  /\ \A i \in Ids : rows[i].seq < n
  /\ n = 1 \/ \E i \in Ids : rows[i].seq = n - 1

ReadSeq(p) ==
  /\ pc[p] = "next_seq"
  /\ \E n \in 1..(Len(rows) + 1) :
        /\ NextSeq(n)
        /\ nextSeq' = [nextSeq EXCEPT ![p] = n]
  /\ seen' = [seen EXCEPT ![p] = Len(rows)]
  /\ pc' = [pc EXCEPT ![p] = "insert"]
  /\ UNCHANGED <<rows, clock, writer, arg, now, held>>

\* The row enqueue() inserts.
NewRow(p) == [key |-> arg[p], status |-> "queued", attempts |-> 0, expires |-> 0,
              seq |-> nextSeq[p], seen |-> seen[p], stale |-> FALSE]

\* MUTANT of Insert: the idempotency_key column is not UNIQUE.
InsertWithoutUnique(p) ==
  /\ pc[p] = "insert"
  /\ writer = NoProcess
  /\ rows' = Append(rows, NewRow(p))
  /\ Return(p, "idle")
  /\ UNCHANGED <<clock, writer, held>>

\* INSERT and commit().
Insert(p) ==
  /\ pc[p] = "insert"
  /\ writer = NoProcess
  /\ ~Stored(arg[p])
  /\ rows' = Append(rows, NewRow(p))
  /\ Return(p, "idle")
  /\ UNCHANGED <<clock, writer, held>>

\* The key was inserted by another process since LookUp: sqlite3.IntegrityError,
\* raised between the implicit BEGIN and the commit() that would end it.
InsertLosesRace(p) ==
  /\ pc[p] = "insert"
  /\ writer = NoProcess
  /\ Stored(arg[p])
  /\ writer' = p
  /\ Return(p, "IntegrityError")
  /\ UNCHANGED <<rows, clock, held>>

-----------------------------------------------------------------------------
(* lease() *)

\* now = self._time(), before the transaction.
ReadClock(p) ==
  /\ pc[p] = "idle"
  /\ now' = [now EXCEPT ![p] = clock]
  /\ pc' = [pc EXCEPT ![p] = "claim"]
  /\ UNCHANGED <<rows, clock, writer, arg, nextSeq, seen, held>>

\* MUTANT of Available: the deadline is not compared with the time.
AvailableBeforeExpiry(i, t) ==
  rows[i].status \in {"queued", "leased"}

Available(i, t) ==
  \/ rows[i].status = "queued"
  \/ rows[i].status = "leased" /\ rows[i].expires <= t

\* MUTANT of Oldest: no ORDER BY.
AnyAvailable(i, t) == Available(i, t)

\* ORDER BY seq ASC LIMIT 1: among rows with the same number, any.
Oldest(i, t) ==
  /\ Available(i, t)
  /\ \A j \in Ids : Available(j, t) => rows[i].seq <= rows[j].seq

\* MUTANT of LeasedRow: the attempts column is not written.
LeasedRowUncounted(i, t) == [rows[i] EXCEPT !.status  = "leased",
                                            !.expires = t + LeaseSeconds]

\* The row as lease() writes it, and the Job it returns.
LeasedRow(i, t) == [rows[i] EXCEPT !.status   = "leased",
                                   !.attempts = @ + 1,
                                   !.expires  = t + LeaseSeconds]

LeaseOf(i, t) == [id       |-> i,
                  attempts |-> rows[i].attempts + 1,
                  expires  |-> t + LeaseSeconds]

\* BEGIN IMMEDIATE ... COMMIT: select the row, write it, return the Job.
ClaimOldest(p) ==
  /\ pc[p] = "claim"
  /\ writer = NoProcess
  /\ \E i \in Ids :
        /\ Oldest(i, now[p])
        /\ rows[i].attempts < MaxAttempts
        /\ rows' = [rows EXCEPT ![i] = LeasedRow(i, now[p])]
        /\ held' = [held EXCEPT ![p] = @ \cup {LeaseOf(i, now[p])}]
  /\ Return(p, "idle")
  /\ UNCHANGED <<clock, writer>>

\* No row qualifies: COMMIT, return None.
ClaimNothing(p) ==
  /\ pc[p] = "claim"
  /\ writer = NoProcess
  /\ ~ \E i \in Ids : Available(i, now[p])
  /\ Return(p, "idle")
  /\ UNCHANGED <<rows, clock, writer, held>>

-----------------------------------------------------------------------------
(* ack() and nack() *)

\* The lease l is the one its row records.
Current(l) == /\ rows[l.id].status = "leased"
              /\ rows[l.id].attempts = l.attempts

\* UPDATE jobs SET status = ?, lease_expires_at = NULL WHERE id = ?.  Neither
\* call looks at the row's status or at who has the lease.
SettledRow(l, status) ==
  [rows[l.id] EXCEPT !.status  = status,
                     !.expires = 0,
                     !.stale   = IF Current(l) THEN @ ELSE TRUE]

Settle(p, l, status) ==
  /\ pc[p] = "idle"
  /\ l \in held[p]
  /\ writer = NoProcess
  /\ rows' = [rows EXCEPT ![l.id] = SettledRow(l, status)]
  /\ held' = [held EXCEPT ![p] = @ \ {l}]
  /\ UNCHANGED <<clock, writer, pc, arg, nextSeq, seen, now>>

Ack(p) == \E l \in held[p] : Settle(p, l, "done")

\* MUTANT of Nack: a requeued job gets a status of its own.
NackRequeued(p, requeue) ==
  \E l \in held[p] : Settle(p, l, IF requeue THEN "requeued" ELSE "failed")

Nack(p, requeue) ==
  \E l \in held[p] : Settle(p, l, IF requeue THEN "queued" ELSE "failed")

-----------------------------------------------------------------------------
(* The connection, the processes and the clock *)

\* Another connection keeps the write lock past the busy timeout:
\* sqlite3.OperationalError, "database is locked".
Busy(p) ==
  /\ writer \notin {NoProcess, p}
  /\ \/ pc[p] \in {"insert", "claim"}
     \/ pc[p] = "idle" /\ held[p] # {}
  /\ Return(p, "OperationalError")
  /\ UNCHANGED <<rows, clock, writer, held>>

\* The process ends, by a crash or by an exception nothing catches, and another
\* opens the file.  Its connection closes: an open transaction is rolled back.
Restart(p) ==
  /\ pc[p] # "idle" \/ held[p] # {}
  /\ Return(p, "idle")
  /\ held' = [held EXCEPT ![p] = {}]
  /\ writer' = IF writer = p THEN NoProcess ELSE writer
  /\ UNCHANGED <<rows, clock>>

Tick ==
  /\ clock < MaxClock
  /\ clock' = clock + 1
  /\ UNCHANGED <<rows, writer, pc, arg, nextSeq, seen, now, held>>

Step(p) ==
  \/ \E k \in Key : LookUp(p, k)
  \/ ReadSeq(p)
  \/ Insert(p)
  \/ InsertLosesRace(p)
  \/ ReadClock(p)
  \/ ClaimOldest(p)
  \/ ClaimNothing(p)
  \/ Ack(p)
  \/ \E requeue \in BOOLEAN : Nack(p, requeue)
  \/ Busy(p)
  \/ Restart(p)

Next == (\E p \in Process : Step(p)) \/ Tick

Spec == Init /\ [][Next]_vars

-----------------------------------------------------------------------------
(* Properties *)

\* Concurrent enqueue() calls of one key leave one row: the work of an episode
\* is queued once, whatever came between the look-up and the insert.
OneRowPerKey == \A i, j \in Ids : rows[i].key = rows[j].key => i = j

\* A worker whose deadline has not passed still has the job: no other claim, no
\* settlement by another worker has come between.  The exception is a job that a
\* worker settled after its own lease had been given to another.
LeaseRespected ==
  \A p \in Process : \A l \in held[p] :
     l.expires > clock /\ ~rows[l.id].stale => Current(l)

\* First come, first served: a job is never claimed while a job whose enqueue()
\* had committed before this one was given its number is still queued.
ServesInOrder ==
  [][\A i \in Ids : rows'[i].attempts # rows[i].attempts =>
        \A j \in 1..rows[i].seen : rows[j].status # "queued"]_vars

\* What enqueue()'s caller is told when two processes enqueue one key at the same
\* time: "concurrent enqueues of the same key collapse to one row" (the class's
\* docstring), and re-enqueuing a known key "is a no-op".
EnqueueCollapses == \A p \in Process : pc[p] # "IntegrityError"

\* The table as a JobQueue: under each key, the job of its row, and the time its
\* lease has left.
RowOf(k) == CHOOSE i \in Ids : rows[i].key = k

TimeLeft(i) ==
  IF rows[i].status = "leased" /\ rows[i].expires > clock
  THEN rows[i].expires - clock ELSE 0

RowJob(i) == [status   |-> rows[i].status,
              attempts |-> rows[i].attempts,
              ttl      |-> TimeLeft(i)]

NoJob == [status |-> "absent", attempts |-> 0, ttl |-> 0]

Jobs == [k \in Key |-> IF Stored(k) THEN RowJob(RowOf(k)) ELSE NoJob]

Contract == INSTANCE JobQueueContract WITH job <- Jobs

\* Every step of the table is a step of the contract: what several processes do
\* to it at once is what the interface's calls do one at a time.
KeepsContract == Contract!ContractSpec
=============================================================================
