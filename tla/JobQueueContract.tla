-------------------------- MODULE JobQueueContract --------------------------
(***************************************************************************)
(* What the abstract class JobQueue of ingestion/queue.py promises of the  *)
(* job stored under each idempotency key, whichever backend keeps it.      *)
(*                                                                         *)
(* A lease deadline is modelled by the time left until it ("ttl", the      *)
(* difference lease_expires_at - now, stopped at 0), so that a behaviour   *)
(* may go on for ever over finitely many states.  Nothing else of the      *)
(* clock is observable: the code only ever compares a deadline with now.   *)
(***************************************************************************)
EXTENDS Naturals

CONSTANTS Key,            \* idempotency keys (episode GUIDs)
          LeaseSeconds    \* the lease_seconds argument of lease()

VARIABLE job              \* what the queue stores under each key

Status == {"absent", "queued", "leased", "done", "failed"}

Job == [status : Status, attempts : Nat, ttl : 0..LeaseSeconds]

Absent == [status |-> "absent", attempts |-> 0, ttl |-> 0]

\* A job a worker may claim: queued, or leased with its deadline passed.
Claimable(k) == \/ job[k].status = "queued"
                \/ job[k].status = "leased" /\ job[k].ttl = 0

ContractInit == job = [k \in Key |-> Absent]

\* Storing a key that is not known yet.  A known key, whatever became of its
\* job, is a no-op: no step of this specification.
Add(k) ==
  /\ job[k].status = "absent"
  /\ job' = [job EXCEPT ![k] = [status |-> "queued", attempts |-> 0, ttl |-> 0]]

\* Handing a claimable job to a worker, for at most LeaseSeconds.
Claim(k) ==
  /\ Claimable(k)
  /\ \E t \in 0..LeaseSeconds :
        job' = [job EXCEPT ![k] = [status   |-> "leased",
                                   attempts |-> job[k].attempts + 1,
                                   ttl      |-> t]]

\* ack and nack: any stored job takes any settled status.
Settle(k) ==
  /\ job[k].status # "absent"
  /\ \E s \in {"done", "queued", "failed"} :
        job' = [job EXCEPT ![k] = [status   |-> s,
                                   attempts |-> job[k].attempts,
                                   ttl      |-> 0]]

\* One unit of time passes: every running lease is that much shorter.
Elapse ==
  job' = [k \in Key |->
            [job[k] EXCEPT !.ttl = IF job[k].ttl = 0 THEN 0 ELSE job[k].ttl - 1]]

ContractNext == \/ \E k \in Key : Add(k) \/ Claim(k) \/ Settle(k)
                \/ Elapse

ContractSpec == ContractInit /\ [][ContractNext]_job
=============================================================================
