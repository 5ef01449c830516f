------------------------------ MODULE JobQueue ------------------------------
(***************************************************************************)
(* InMemoryJobQueue of ingestion/queue.py: one dictionary of jobs, a FIFO  *)
(* list of their ids, and calls that nothing comes between.  A job's id is *)
(* a fresh uuid kept one-to-one with its idempotency key by _by_key, so    *)
(* the key stands for both.                                                *)
(*                                                                         *)
(* The operators are the queue's calls; a module that uses the queue joins *)
(* them with the caller's own state.                                       *)
(***************************************************************************)
EXTENDS Naturals, Sequences

CONSTANTS Key,            \* idempotency keys (episode GUIDs)
          LeaseSeconds    \* the lease_seconds argument of lease()

ASSUME LeaseAssumption == LeaseSeconds \in Nat

VARIABLES jobs,           \* _jobs with _by_key: the job under each key
          order           \* _order: keys in the order they were enqueued

queueVars == <<jobs, order>>

Contract == INSTANCE JobQueueContract WITH job <- jobs

QueueTypeOK ==
  /\ jobs \in [Key -> Contract!Job]
  /\ order \in Seq(Key)

QueueInit ==
  /\ jobs = [k \in Key |-> Contract!Absent]
  /\ order = <<>>

Known(k) == jobs[k].status # "absent"

\* MUTANT of Enqueue: a known key is looked up among the unsettled jobs only.
EnqueueUnsettledOnly(k) ==
  IF jobs[k].status \in {"queued", "leased"}
  THEN UNCHANGED queueVars
  ELSE /\ jobs' = [jobs EXCEPT ![k] = [status   |-> "queued",
                                       attempts |-> 0,
                                       ttl      |-> 0]]
       /\ order' = Append(order, k)

\* A key that is known is returned as it is, whatever its job's status.
Enqueue(k) ==
  IF Known(k)
  THEN UNCHANGED queueVars
  ELSE /\ jobs' = [jobs EXCEPT ![k] = [status   |-> "queued",
                                       attempts |-> 0,
                                       ttl      |-> 0]]
       /\ order' = Append(order, k)

\* MUTANT of Available: a lease never expires.
AvailableQueuedOnly(k) == jobs[k].status = "queued"

Available(k) == \/ jobs[k].status = "queued"
                \/ jobs[k].status = "leased" /\ jobs[k].ttl = 0

\* lease(): the first available job in FIFO order.
LeaseJob(k) ==
  /\ \E i \in 1..Len(order) :
        /\ order[i] = k
        /\ Available(k)
        /\ \A j \in 1..(i - 1) : ~Available(order[j])
  /\ jobs' = [jobs EXCEPT ![k] = [status   |-> "leased",
                                  attempts |-> @.attempts + 1,
                                  ttl      |-> LeaseSeconds]]
  /\ UNCHANGED order

NothingToLease == \A i \in 1..Len(order) : ~Available(order[i])

SetStatus(k, status) ==
  /\ Known(k)
  /\ jobs' = [jobs EXCEPT ![k] = [status   |-> status,
                                  attempts |-> @.attempts,
                                  ttl      |-> 0]]
  /\ UNCHANGED order

\* ack() and nack(): any known job, whatever its status and whoever leased it.
Ack(k) == SetStatus(k, "done")

\* MUTANT of Nack: the requeue argument is ignored.
NackRequeues(k, requeue) == SetStatus(k, "queued")

Nack(k, requeue) == SetStatus(k, IF requeue THEN "queued" ELSE "failed")

\* MUTANT of LeasesRunDown: the time left goes on below zero.
LeasesRunDownPastZero ==
  /\ jobs' = [k \in Key |-> [jobs[k] EXCEPT !.ttl = @ - 1]]
  /\ UNCHANGED order

\* The clock: every running lease has one unit less to go.
LeasesRunDown ==
  /\ jobs' = [k \in Key |-> [jobs[k] EXCEPT !.ttl = IF @ = 0 THEN 0 ELSE @ - 1]]
  /\ UNCHANGED order
=============================================================================
