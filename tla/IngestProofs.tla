---------------------------- MODULE IngestProofs ----------------------------
(***************************************************************************)
(* Proofs about Ingest, for any number of processes, any feed, any lease   *)
(* time and any number of crashes.                                         *)
(***************************************************************************)
EXTENDS Ingest, FiniteSetTheorems, SequenceTheorems, TLAPS

-----------------------------------------------------------------------------
(* Type correctness *)

\* A process has leased a job exactly while it fetches it.
Fetching ==
  \A p \in Process : IF pc[p] = "fetch" THEN current[p] \in Key ELSE current[p] = NoJob

\* A job that is not in the queue has not been attempted.
Untouched == \A k \in Key : jobs[k].status = "absent" => jobs[k].attempts = 0

QueueTyped == QueueTypeOK /\ Untouched

Typed == TypeOK /\ Untouched /\ Fetching

USE DEF QueueTypeOK, Contract!Job, Contract!Status

\* Nothing is enqueued and every process idle at first.
LEMMA TypedInit == Init => Typed
  BY LeaseAssumption, CrashAssumption, FeedAssumption
  DEF Init, QueueInit, Typed, TypeOK, Untouched, Fetching, PcStates, Contract!Absent

\* The queue's calls keep the types of the queue: enqueue,
LEMMA EnqueueTyped ==
  ASSUME QueueTyped, NEW k \in Key, Enqueue(k)
  PROVE  QueueTyped'
<1>1. CASE Known(k)
  BY <1>1 DEF Enqueue, queueVars, QueueTyped, Untouched
<1>2. CASE ~Known(k)
  <2>1. [status |-> "queued", attempts |-> 0, ttl |-> 0] \in Contract!Job
    BY LeaseAssumption
  <2>2. jobs' \in [Key -> Contract!Job]
    BY <1>2, <2>1 DEF Enqueue, QueueTyped
  <2>3. order' = Append(order, k)
    BY <1>2 DEF Enqueue
  <2>4. order' \in Seq(Key)
    BY <2>3, AppendProperties DEF QueueTyped
  <2>5. ASSUME NEW l \in Key, jobs'[l].status = "absent" PROVE jobs'[l].attempts = 0
    <3>1. jobs' = [jobs EXCEPT ![k] = [status |-> "queued", attempts |-> 0, ttl |-> 0]]
      BY <1>2 DEF Enqueue
    <3>2. CASE l = k
      BY <3>1, <3>2 DEF QueueTyped
    <3>3. CASE l # k
      BY <2>5, <3>1, <3>3 DEF QueueTyped, Untouched
    <3> QED
      BY <3>2, <3>3
  <2> QED
    BY <2>2, <2>4, <2>5 DEF QueueTyped, Untouched
<1> QED
  BY <1>1, <1>2

\* lease,
LEMMA LeaseTyped ==
  ASSUME QueueTyped, NEW k \in Key, LeaseJob(k)
  PROVE  QueueTyped'
  BY LeaseAssumption DEF LeaseJob, QueueTyped, Untouched

\* ack and nack,
LEMMA SettleTyped ==
  ASSUME QueueTyped, NEW k \in Key, NEW status \in {"done", "failed"}, SetStatus(k, status)
  PROVE  QueueTyped'
  BY LeaseAssumption DEF SetStatus, QueueTyped, Untouched

\* and the passing of time.
LEMMA RunDownTyped ==
  ASSUME QueueTyped, LeasesRunDown
  PROVE  QueueTyped'
<1>1. ASSUME NEW k \in Key PROVE jobs'[k] \in Contract!Job
  <2>1. jobs[k].ttl \in 0..LeaseSeconds /\ jobs[k] \in Contract!Job
    BY DEF QueueTyped
  <2>2. (IF jobs[k].ttl = 0 THEN 0 ELSE jobs[k].ttl - 1) \in 0..LeaseSeconds
    BY <2>1, LeaseAssumption
  <2> QED
    BY <2>1, <2>2 DEF LeasesRunDown
<1> QED
  BY <1>1 DEF LeasesRunDown, QueueTyped, Untouched

\* A window of the feed is a list of its items.
LEMMA WindowTyped ==
  ASSUME published \in 0..Len(FeedItems), NEW since \in 0..published
  PROVE  RecentEpisodes(since) \in Seq(Key \cup {NoGuid})
<1> DEFINE n == IF published - since < MaxEpisodes THEN published - since ELSE MaxEpisodes
<1>1. n \in Nat /\ n <= published /\ published \in Nat /\ published <= Len(FeedItems)
  BY FeedAssumption, WindowAssumption
<1>2. ASSUME NEW i \in 1..n PROVE FeedItems[published + 1 - i] \in Key \cup {NoGuid}
  <2>1. published + 1 - i \in 1..Len(FeedItems)
    BY <1>1
  <2> QED
    BY <2>1, FeedAssumption, ElementOfSeq
<1>3. RecentEpisodes(since) = [i \in 1..n |-> FeedItems[published + 1 - i]]
  BY DEF RecentEpisodes
<1> HIDE DEF n
<1> QED
  BY <1>1, <1>2, <1>3

\* Every step keeps the types.
LEMMA TypedStep == Typed /\ [Next]_vars => Typed'
<1> SUFFICES ASSUME Typed, [Next]_vars PROVE Typed'
  OBVIOUS
<1> USE DEF Typed, QueueTyped, Untouched, Fetching, PcStates
<1>1. CASE Publish
  <2>1. published' \in 0..Len(FeedItems)
    BY <1>1, FeedAssumption DEF Publish, TypeOK
  <2> QED
    BY <1>1, <2>1 DEF Publish, TypeOK, procVars, histVars
<1>2. ASSUME NEW p \in Process, Poll(p) PROVE Typed'
  <2>1. ASSUME NEW since \in 0..published
        PROVE  RecentEpisodes(since) \in Seq(Key \cup {NoGuid})
    BY WindowTyped DEF TypeOK
  <2>2. todo' \in [Process -> Seq(Key \cup {NoGuid})]
    BY <1>2, <2>1 DEF Poll, TypeOK
  <2> QED
    BY <1>2, <2>2 DEF Poll, TypeOK, histVars
<1>3. ASSUME NEW p \in Process, EnqueueItem(p) PROVE Typed'
  <2>1. Head(todo[p]) \in Key \cup {NoGuid} /\ Tail(todo[p]) \in Seq(Key \cup {NoGuid})
    BY <1>3 DEF EnqueueItem, TypeOK
  <2>2. QueueTyped'
    <3>1. CASE Head(todo[p]) = NoGuid
      BY <1>3, <3>1 DEF EnqueueItem, TypeOK, queueVars
    <3>2. CASE Head(todo[p]) \in Key
      BY <1>3, <3>2, EnqueueTyped, NoneAssumption DEF EnqueueItem, TypeOK
    <3> QED
      BY <2>1, <3>1, <3>2
  <2> QED
    BY <1>3, <2>1, <2>2 DEF EnqueueItem, TypeOK, histVars
<1>4. ASSUME NEW p \in Process, EnqueuedAll(p) PROVE Typed'
  BY <1>4 DEF EnqueuedAll, TypeOK, histVars
<1>5. ASSUME NEW p \in Process, Lease(p) PROVE Typed'
  <2>1. PICK k \in Key : LeaseJob(k) /\ current' = [current EXCEPT ![p] = k]
    BY <1>5 DEF Lease
  <2>2. QueueTyped'
    BY <2>1, LeaseTyped DEF TypeOK
  <2> QED
    BY <1>5, <2>1, <2>2 DEF Lease, TypeOK, histVars
<1>6. ASSUME NEW p \in Process, FetchOk(p) PROVE Typed'
  <2>1. QueueTyped'
    BY <1>6, SettleTyped DEF FetchOk, Ack, TypeOK
  <2> QED
    BY <1>6, <2>1 DEF FetchOk, TypeOK, histVars
<1>7. ASSUME NEW p \in Process, FetchFails(p) PROVE Typed'
  <2>1. QueueTyped'
    BY <1>7, SettleTyped DEF FetchFails, Nack, TypeOK
  <2> QED
    BY <1>7, <2>1 DEF FetchFails, TypeOK, histVars
<1>8. ASSUME NEW p \in Process, StartRun(p) PROVE Typed'
  BY <1>8 DEF StartRun, TypeOK
<1>9. ASSUME NEW p \in Process, Load(p) PROVE Typed'
  BY <1>9 DEF Load, TypeOK, histVars
<1>10. ASSUME NEW p \in Process, RunRaises(p) PROVE Typed'
  BY <1>10 DEF RunRaises, TypeOK
<1>11. ASSUME NEW p \in Process, Crash(p) PROVE Typed'
  <2>1. crashes' \in 0..MaxCrashes
    BY <1>11, CrashAssumption DEF Crash, TypeOK
  <2> QED
    BY <1>11, <2>1 DEF Crash, TypeOK
<1>12. CASE Elapse
  BY <1>12, RunDownTyped DEF Elapse, TypeOK, procVars, histVars
<1>13. CASE UNCHANGED vars
  BY <1>13 DEF vars, TypeOK
<1> QED
  BY <1>1, <1>2, <1>3, <1>4, <1>5, <1>6, <1>7, <1>8, <1>9, <1>10, <1>11, <1>12, <1>13
     DEF Next, Work

\* Jobs, batches and what a process is at are always of their types.
THEOREM TypeCorrect == Spec => []TypeOK
<1>1. Typed => TypeOK
  BY DEF Typed
<1> QED
  BY <1>1, TypedInit, TypedStep, PTL DEF Spec

-----------------------------------------------------------------------------
(* Accounting *)

\* Who may yet run an episode: the process has leased it, or has it in the batch it is
\* still collecting.
Claimants(k) == {p \in Process : current[p] = k \/ (k \in batch[p] /\ pc[p] # "run")}

\* Every run of an episode was leased, and so was every claim to it.
Counted ==
  \A k \in Key : /\ IsFiniteSet(Claimants(k))
                 /\ runs[k] + Cardinality(Claimants(k)) <= jobs[k].attempts

Fetched(k) == InABatch(k) \/ k \in loaded

\* An episode that somebody fetched has its job settled.
FetchedSettled == \A k \in Key : Fetched(k) => jobs[k].status \in {"done", "failed"}

\* What is being run or was loaded has been counted.
RunCounted ==
  \A k \in Key : \/ \E p \in Process : pc[p] = "run" /\ k \in batch[p]
                 \/ k \in loaded
                 => runs[k] >= 1

\* Nobody leases an episode that is in the own batch.
LeasedOnce == \A p \in Process : current[p] \notin batch[p]

IInv ==
  /\ Typed /\ AckedIsAccounted /\ Counted /\ FetchedSettled /\ RunCounted /\ LeasedOnce
  /\ FailedDespiteFetch

\* Nobody has anything at first.
LEMMA IInvInit == Init => IInv
<1> SUFFICES ASSUME Init PROVE IInv
  OBVIOUS
<1>1. Typed
  BY TypedInit
<1>2. \A k \in Key : Claimants(k) = {}
  BY NoneAssumption DEF Init, Claimants
<1>3. Counted
  <2>1. ASSUME NEW k \in Key PROVE runs[k] = 0 /\ jobs[k].attempts = 0
    BY DEF Init, QueueInit, Contract!Absent
  <2>2. IsFiniteSet({}) /\ Cardinality({}) = 0
    BY FS_EmptySet
  <2>3. ASSUME NEW k \in Key
        PROVE  /\ IsFiniteSet(Claimants(k))
               /\ runs[k] + Cardinality(Claimants(k)) <= jobs[k].attempts
    BY <1>2, <2>1, <2>2
  <2> QED
    BY <2>3 DEF Counted
<1> QED
  BY <1>1, <1>3, NoneAssumption DEF Init, QueueInit, Contract!Absent, IInv, AckedIsAccounted,
     InABatch, FetchedSettled, Fetched, RunCounted, LeasedOnce, FailedDespiteFetch

\* Claims to an episode that become fewer, its runs staying as they are.
LEMMA FewerClaims ==
  ASSUME Typed, Typed', Counted, NEW k \in Key, Claimants(k)' \subseteq Claimants(k),
         runs'[k] = runs[k], jobs'[k].attempts >= jobs[k].attempts
  PROVE  /\ IsFiniteSet(Claimants(k)')
         /\ runs'[k] + Cardinality(Claimants(k)') <= jobs'[k].attempts
<1> DEFINE old == Claimants(k)
           new == Claimants(k)'
<1>1. IsFiniteSet(old) /\ runs[k] + Cardinality(old) <= jobs[k].attempts
  BY DEF Counted
<1>2. new \in SUBSET old
  OBVIOUS
<1>3. IsFiniteSet(new) /\ Cardinality(new) <= Cardinality(old)
  <2> HIDE DEF old, new
  <2> QED
    BY <1>1, <1>2, FS_Subset
<1>4. Cardinality(old) \in Nat /\ Cardinality(new) \in Nat
  BY <1>1, <1>3, FS_CardinalityType
<1>5. runs[k] \in Nat /\ runs'[k] \in Nat /\ jobs[k].attempts \in Nat /\ jobs'[k].attempts \in Nat
  BY DEF Typed, TypeOK
<1> HIDE DEF old, new
<1>6. runs'[k] + Cardinality(new) <= jobs'[k].attempts
  BY <1>1, <1>3, <1>4, <1>5
<1> QED
  BY <1>3, <1>6 DEF new

\* A lease makes one claim more.
LEMMA LeaseCounted ==
  ASSUME IInv, Typed', NEW p \in Process, Lease(p)
  PROVE  Counted'
<1>1. PICK l \in Key :
        /\ jobs' = [jobs EXCEPT ![l] = [status |-> "leased", attempts |-> @.attempts + 1,
                                        ttl |-> LeaseSeconds]]
        /\ current' = [current EXCEPT ![p] = l]
  BY DEF Lease, LeaseJob
<1>2. pc[p] = "lease" /\ pc' = [pc EXCEPT ![p] = "fetch"] /\ batch' = batch /\ runs' = runs
  BY DEF Lease, histVars
<1>3. ASSUME NEW k \in Key
      PROVE  /\ IsFiniteSet(Claimants(k)')
             /\ runs'[k] + Cardinality(Claimants(k)') <= jobs'[k].attempts
  <2>1. CASE k = l
    <3> DEFINE old == Claimants(k)
               new == Claimants(k)'
    <3>1. new = old \cup {p}
      BY <1>1, <1>2, <2>1, NoneAssumption DEF Claimants, IInv, Typed, Fetching, TypeOK
    <3>2. IsFiniteSet(old) /\ runs[k] + Cardinality(old) <= jobs[k].attempts
      BY DEF IInv, Counted
    <3>3. jobs'[k].attempts = jobs[k].attempts + 1
      BY <1>1, <2>1 DEF IInv, Typed, TypeOK
    <3>4. runs[k] \in Nat /\ jobs[k].attempts \in Nat
      BY DEF IInv, Typed, TypeOK
    <3> HIDE DEF old, new
    <3>5. Cardinality(old) \in Nat
      BY <3>2, FS_CardinalityType
    <3>6. /\ IsFiniteSet(new) /\ Cardinality(new) \in Nat
          /\ Cardinality(new) <= Cardinality(old) + 1
      <4>1. /\ IsFiniteSet(old \cup {p})
            /\ Cardinality(old \cup {p}) = IF p \in old THEN Cardinality(old)
                                                       ELSE Cardinality(old) + 1
        BY <3>2, FS_AddElement
      <4> QED
        BY <3>1, <3>5, <4>1
    <3>7. runs'[k] + Cardinality(new) <= jobs'[k].attempts
      BY <1>2, <3>2, <3>3, <3>4, <3>5, <3>6
    <3> QED
      BY <3>6, <3>7 DEF new
  <2>2. CASE k # l
    <3>1. Claimants(k)' \subseteq Claimants(k)
      BY <1>1, <1>2, <2>2, NoneAssumption DEF Claimants, IInv, Typed, TypeOK
    <3>2. runs'[k] = runs[k] /\ jobs'[k].attempts >= jobs[k].attempts
      BY <1>1, <1>2, <2>2 DEF IInv, Typed, TypeOK
    <3> QED
      BY <3>1, <3>2, FewerClaims DEF IInv
  <2> QED
    BY <2>1, <2>2
<1> QED
  BY <1>3 DEF Counted

\* A run uses up the claims of its process.
LEMMA StartCounted ==
  ASSUME IInv, Typed', NEW p \in Process, StartRun(p)
  PROVE  Counted'
<1>1. /\ pc[p] = "lease" /\ pc' = [pc EXCEPT ![p] = "run"]
      /\ runs' = [k \in Key |-> IF k \in batch[p] THEN runs[k] + 1 ELSE runs[k]]
      /\ jobs' = jobs /\ current' = current /\ batch' = batch
  BY DEF StartRun
<1>2. ASSUME NEW k \in Key
      PROVE  /\ IsFiniteSet(Claimants(k)')
             /\ runs'[k] + Cardinality(Claimants(k)') <= jobs'[k].attempts
  <2>1. CASE k \in batch[p]
    <3> DEFINE old == Claimants(k)
               new == Claimants(k)'
    <3>1. new = old \ {p} /\ p \in old
      BY <1>1, <2>1, NoneAssumption DEF Claimants, IInv, Typed, Fetching, TypeOK
    <3>2. IsFiniteSet(old) /\ runs[k] + Cardinality(old) <= jobs[k].attempts
      BY DEF IInv, Counted
    <3>3. runs'[k] = runs[k] + 1
      BY <1>1, <2>1
    <3>4. runs[k] \in Nat /\ jobs[k].attempts \in Nat
      BY DEF IInv, Typed, TypeOK
    <3> HIDE DEF old, new
    <3>5. Cardinality(old) \in Nat
      BY <3>2, FS_CardinalityType
    <3>6. IsFiniteSet(new) /\ Cardinality(new) = Cardinality(old) - 1
      BY <3>1, <3>2, FS_RemoveElement
    <3>7. runs'[k] + Cardinality(new) <= jobs'[k].attempts
      BY <1>1, <3>2, <3>3, <3>4, <3>5, <3>6
    <3> QED
      BY <3>6, <3>7 DEF new
  <2>2. CASE k \notin batch[p]
    <3>1. Claimants(k)' \subseteq Claimants(k)
      BY <1>1, <2>2 DEF Claimants, IInv, Typed, TypeOK
    <3>2. runs'[k] = runs[k] /\ jobs'[k].attempts >= jobs[k].attempts
      BY <1>1, <2>2 DEF IInv, Typed, TypeOK
    <3> QED
      BY <3>1, <3>2, FewerClaims DEF IInv
  <2> QED
    BY <2>1, <2>2
<1> QED
  BY <1>2 DEF Counted

\* No other step makes a claim or counts a run.
LEMMA OtherCounted ==
  ASSUME IInv, Typed', runs' = runs,
         \A k \in Key : jobs'[k].attempts >= jobs[k].attempts,
         \A k \in Key : Claimants(k)' \subseteq Claimants(k)
  PROVE  Counted'
<1>1. ASSUME NEW k \in Key
      PROVE  /\ IsFiniteSet(Claimants(k)')
             /\ runs'[k] + Cardinality(Claimants(k)') <= jobs'[k].attempts
  BY FewerClaims DEF IInv
<1> QED
  BY <1>1 DEF Counted

\* An episode that a process has leased and somebody fetched was leased twice: once by
\* that process, and once for the run or the batch it is in.
LEMMA TwoLeases ==
  ASSUME IInv, NEW p \in Process, pc[p] = "fetch", Fetched(current[p])
  PROVE  jobs[current[p]].attempts > 1
<1> DEFINE k == current[p]
           c == Claimants(k)
<1>1. k \in Key
  BY DEF IInv, Typed, Fetching
<1>2. IsFiniteSet(c) /\ runs[k] + Cardinality(c) <= jobs[k].attempts
  BY <1>1 DEF IInv, Counted
<1>3. p \in c
  BY DEF Claimants
<1>4. runs[k] \in Nat /\ jobs[k].attempts \in Nat
  BY <1>1 DEF IInv, Typed, TypeOK
<1>5. Cardinality(c) \in Nat
  BY <1>2, FS_CardinalityType
<1>6. CASE runs[k] >= 1
  <2>1. Cardinality(c) # 0
    BY <1>2, <1>3, FS_EmptySet
  <2> QED
    BY <1>2, <1>4, <1>5, <1>6, <2>1
<1>7. CASE ~(runs[k] >= 1)
  <2>1. PICK q \in Process : k \in batch[q]
    BY <1>1, <1>7 DEF IInv, RunCounted, Fetched, InABatch
  <2>2. q # p
    BY <2>1 DEF IInv, LeasedOnce
  <2>3. q \in c
    BY <1>1, <1>7, <2>1 DEF IInv, RunCounted, Claimants
  <2>4. Cardinality(c) # 0 /\ Cardinality(c) # 1
    BY <1>2, <1>3, <2>2, <2>3, FS_EmptySet, FS_Singleton
  <2> QED
    BY <1>2, <1>4, <1>5, <2>4
<1> QED
  BY <1>6, <1>7

-----------------------------------------------------------------------------
(* Every step *)

Settled == {"done", "failed"}

\* Nothing happens to a job but that it is enqueued, leased, or its lease gets shorter.
Unsettled(k) ==
  /\ jobs'[k].attempts >= jobs[k].attempts
  /\ jobs[k].status \in Settled \/ jobs'[k].status \in Settled
       => jobs'[k].status = jobs[k].status

\* A step that settles no job and leaves the batches, the graph and what is leased alone
\* keeps the invariant.
LEMMA QuietStep ==
  ASSUME IInv, Typed', batch' = batch, current' = current, loaded' = loaded,
         lost' = lost, runs' = runs,
         \A p \in Process : pc'[p] = "run" <=> pc[p] = "run",
         \A k \in Key : Unsettled(k)
  PROVE  IInv'
<1>1. \A k \in Key : Claimants(k)' \subseteq Claimants(k)
  BY DEF Claimants
<1>2. Counted'
  BY <1>1, OtherCounted DEF Unsettled
<1>3. \A k \in Key : Fetched(k)' <=> Fetched(k)
  BY DEF Fetched, InABatch
<1>4. AckedIsAccounted'
  BY DEF IInv, AckedIsAccounted, InABatch, Unsettled, Settled
<1>5. FetchedSettled'
  BY <1>3 DEF IInv, FetchedSettled, Unsettled, Settled
<1>6. FailedDespiteFetch'
  <2>1. ASSUME NEW k \in Key, jobs[k].attempts > 1 PROVE jobs'[k].attempts > 1
    BY <2>1 DEF Unsettled, IInv, Typed, TypeOK
  <2> QED
    BY <1>3, <2>1 DEF IInv, FailedDespiteFetch, Fetched, Unsettled, Settled
<1>7. RunCounted' /\ LeasedOnce'
  BY DEF IInv, RunCounted, LeasedOnce
<1> QED
  BY <1>2, <1>4, <1>5, <1>6, <1>7 DEF IInv

\* What is fetched is settled, so nobody leases it again.
LEMMA LeaseStep ==
  ASSUME IInv, Typed', NEW p \in Process, Lease(p)
  PROVE  IInv'
<1>1. PICK l \in Key :
        /\ Available(l)
        /\ jobs' = [jobs EXCEPT ![l] = [status |-> "leased", attempts |-> @.attempts + 1,
                                        ttl |-> LeaseSeconds]]
        /\ current' = [current EXCEPT ![p] = l]
  BY DEF Lease, LeaseJob
<1>2. /\ pc[p] = "lease" /\ pc' = [pc EXCEPT ![p] = "fetch"]
      /\ batch' = batch /\ loaded' = loaded /\ lost' = lost /\ runs' = runs
  BY DEF Lease, histVars
<1>3. ~Fetched(l)
  BY <1>1 DEF IInv, FetchedSettled, Available
<1>4. Counted'
  BY LeaseCounted
<1>5. jobs'[l].status = "leased" /\ \A k \in Key \ {l} : jobs'[k] = jobs[k]
  BY <1>1 DEF IInv, Typed, TypeOK
<1>6. AckedIsAccounted' /\ FetchedSettled' /\ FailedDespiteFetch'
  BY <1>2, <1>3, <1>5
  DEF IInv, AckedIsAccounted, FetchedSettled, FailedDespiteFetch, Fetched, InABatch
<1>7. RunCounted'
  BY <1>2 DEF IInv, RunCounted, Typed, TypeOK
<1>8. LeasedOnce'
  BY <1>1, <1>2, <1>3 DEF IInv, LeasedOnce, Fetched, InABatch, Typed, TypeOK
<1> QED
  BY <1>4, <1>6, <1>7, <1>8 DEF IInv

\* The job of a fetched episode is done, and the episode in a batch.
LEMMA FetchOkStep ==
  ASSUME IInv, Typed', NEW p \in Process, FetchOk(p)
  PROVE  IInv'
<1> DEFINE k == current[p]
<1>1. /\ pc[p] = "fetch" /\ pc' = [pc EXCEPT ![p] = "lease"]
      /\ batch' = [batch EXCEPT ![p] = @ \cup {k}]
      /\ current' = [current EXCEPT ![p] = NoJob]
      /\ loaded' = loaded /\ lost' = lost /\ runs' = runs
  BY DEF FetchOk, histVars
<1>2. jobs' = [jobs EXCEPT ![k] = [status |-> "done", attempts |-> @.attempts, ttl |-> 0]]
  BY DEF FetchOk, Ack, SetStatus
<1>3. k \in Key
  BY <1>1 DEF IInv, Typed, Fetching
<1>4. /\ jobs'[k].status = "done" /\ jobs'[k].attempts = jobs[k].attempts
      /\ \A l \in Key \ {k} : jobs'[l] = jobs[l]
  BY <1>2, <1>3 DEF IInv, Typed, TypeOK
<1>5. \A l \in Key : Claimants(l)' \subseteq Claimants(l)
  BY <1>1, NoneAssumption DEF Claimants, IInv, Typed, TypeOK
<1>6. Counted'
  <2>1. ASSUME NEW l \in Key PROVE jobs'[l].attempts >= jobs[l].attempts
    <3>1. jobs[l].attempts \in Nat /\ jobs'[l].attempts = jobs[l].attempts
      BY <1>4 DEF IInv, Typed, TypeOK
    <3> QED
      BY <3>1
  <2> QED
    BY <1>1, <1>5, <2>1, OtherCounted
<1>7. p \in Process /\ k \in batch'[p] /\ \A q \in Process : batch[q] \subseteq batch'[q]
  BY <1>1 DEF IInv, Typed, TypeOK
<1>8. AckedIsAccounted'
  BY <1>1, <1>4, <1>7 DEF IInv, AckedIsAccounted, InABatch
<1>9. ASSUME NEW l \in Key, l # k PROVE Fetched(l)' => Fetched(l)
  BY <1>1, <1>9 DEF Fetched, InABatch, IInv, Typed, TypeOK
<1>10. FetchedSettled' /\ FailedDespiteFetch'
  BY <1>4, <1>9 DEF IInv, FetchedSettled, FailedDespiteFetch, Fetched
<1>11. RunCounted'
  BY <1>1 DEF IInv, RunCounted, Typed, TypeOK
<1>12. LeasedOnce'
  BY <1>1, NoneAssumption DEF IInv, LeasedOnce, Typed, TypeOK
<1> QED
  BY <1>6, <1>8, <1>10, <1>11, <1>12 DEF IInv

\* A job that is failed by the one who leased it is nobody else's, or leased twice.
LEMMA FetchFailsStep ==
  ASSUME IInv, Typed', NEW p \in Process, FetchFails(p)
  PROVE  IInv'
<1> DEFINE k == current[p]
<1>1. /\ pc[p] = "fetch" /\ pc' = [pc EXCEPT ![p] = "lease"]
      /\ current' = [current EXCEPT ![p] = NoJob]
      /\ batch' = batch /\ loaded' = loaded /\ lost' = lost /\ runs' = runs
  BY DEF FetchFails, histVars
<1>2. jobs' = [jobs EXCEPT ![k] = [status |-> "failed", attempts |-> @.attempts, ttl |-> 0]]
  BY DEF FetchFails, Nack, SetStatus
<1>3. k \in Key
  BY <1>1 DEF IInv, Typed, Fetching
<1>4. /\ jobs'[k].status = "failed" /\ jobs'[k].attempts = jobs[k].attempts
      /\ \A l \in Key \ {k} : jobs'[l] = jobs[l]
  BY <1>2, <1>3 DEF IInv, Typed, TypeOK
<1>5. \A l \in Key : Claimants(l)' \subseteq Claimants(l)
  BY <1>1, NoneAssumption DEF Claimants, IInv, Typed, TypeOK
<1>6. Counted'
  <2>1. ASSUME NEW l \in Key PROVE jobs'[l].attempts >= jobs[l].attempts
    <3>1. jobs[l].attempts \in Nat /\ jobs'[l].attempts = jobs[l].attempts
      BY <1>4 DEF IInv, Typed, TypeOK
    <3> QED
      BY <3>1
  <2> QED
    BY <1>1, <1>5, <2>1, OtherCounted
<1>7. AckedIsAccounted'
  BY <1>1, <1>4 DEF IInv, AckedIsAccounted, InABatch
<1>8. \A l \in Key : Fetched(l)' <=> Fetched(l)
  BY <1>1 DEF Fetched, InABatch
<1>9. FetchedSettled'
  BY <1>4, <1>8 DEF IInv, FetchedSettled
<1>10. FailedDespiteFetch'
  <2>1. Fetched(k) => jobs[k].attempts > 1
    BY <1>1, TwoLeases
  <2> QED
    BY <1>4, <1>8, <2>1 DEF IInv, FailedDespiteFetch, Fetched
<1>11. RunCounted'
  BY <1>1 DEF IInv, RunCounted, Typed, TypeOK
<1>12. LeasedOnce'
  BY <1>1, NoneAssumption DEF IInv, LeasedOnce, Typed, TypeOK
<1> QED
  BY <1>6, <1>7, <1>9, <1>10, <1>11, <1>12 DEF IInv

\* The episodes of a batch are counted when its run starts.
LEMMA StartRunStep ==
  ASSUME IInv, Typed', NEW p \in Process, StartRun(p)
  PROVE  IInv'
<1>1. /\ pc[p] = "lease" /\ pc' = [pc EXCEPT ![p] = "run"]
      /\ runs' = [k \in Key |-> IF k \in batch[p] THEN runs[k] + 1 ELSE runs[k]]
      /\ jobs' = jobs /\ current' = current /\ batch' = batch
      /\ loaded' = loaded /\ lost' = lost
  BY DEF StartRun
<1>2. Counted'
  BY StartCounted
<1>3. RunCounted'
  <2>1. ASSUME NEW k \in Key PROVE runs[k] \in Nat /\ runs'[k] >= runs[k]
    BY <1>1 DEF IInv, Typed, TypeOK
  <2>2. ASSUME NEW k \in Key, k \in batch[p] PROVE runs'[k] >= 1
    BY <1>1, <2>1, <2>2
  <2>3. \A q \in Process : pc'[q] = "run" => q = p \/ pc[q] = "run"
    BY <1>1 DEF IInv, Typed, TypeOK
  <2>4. ASSUME NEW k \in Key, runs[k] >= 1 PROVE runs'[k] >= 1
    BY <1>1, <2>1, <2>4
  <2> QED
    BY <1>1, <2>2, <2>3, <2>4 DEF IInv, RunCounted
<1> QED
  BY <1>1, <1>2, <1>3 DEF IInv, AckedIsAccounted, InABatch, FetchedSettled, Fetched,
                          LeasedOnce, FailedDespiteFetch

\* A batch that ends leaves its episodes in the graph or lost.  What is in the graph
\* was run.
LEMMA EndStep ==
  ASSUME IInv, Typed', NEW p \in Process, jobs' = jobs, runs' = runs,
         pc' = [pc EXCEPT ![p] = "idle"], batch' = [batch EXCEPT ![p] = {}],
         current' = [current EXCEPT ![p] = NoJob],
         \/ pc[p] = "run" /\ loaded' = loaded \cup batch[p] /\ lost' = lost
         \/ loaded' = loaded /\ lost' = lost \cup batch[p]
  PROVE  IInv'
<1>1. Counted'
  <2>1. \A k \in Key : Claimants(k)' \subseteq Claimants(k)
    BY NoneAssumption DEF Claimants, IInv, Typed, TypeOK
  <2>2. \A k \in Key : jobs'[k].attempts >= jobs[k].attempts
    BY DEF IInv, Typed, TypeOK
  <2> QED
    BY <2>1, <2>2, OtherCounted
<1>2. \A k \in Key : Fetched(k)' => Fetched(k)
  BY DEF Fetched, InABatch, IInv, Typed, TypeOK
<1>3. \A k \in Key : InABatch(k) => InABatch(k)' \/ k \in loaded' \/ k \in lost'
  BY DEF InABatch, IInv, Typed, TypeOK
<1>4. AckedIsAccounted'
  BY <1>3 DEF IInv, AckedIsAccounted
<1>5. FetchedSettled' /\ FailedDespiteFetch'
  BY <1>2 DEF IInv, FetchedSettled, FailedDespiteFetch, Fetched
<1>6. RunCounted'
  BY DEF IInv, RunCounted, Typed, TypeOK
<1>7. LeasedOnce'
  BY DEF IInv, LeasedOnce, Typed, TypeOK
<1> QED
  BY <1>1, <1>4, <1>5, <1>6, <1>7 DEF IInv

\* A queue that stays as it is settles nothing.
LEMMA SameQuiet ==
  ASSUME Typed, NEW k \in Key, jobs' = jobs
  PROVE  Unsettled(k)
  BY DEF Unsettled, Typed, TypeOK

\* A key that is new is not settled, and a known one is left alone.
LEMMA EnqueueQuiet ==
  ASSUME Typed, NEW l \in Key, Enqueue(l), NEW k \in Key
  PROVE  Unsettled(k)
<1>1. CASE jobs' = jobs
  BY <1>1, SameQuiet
<1>2. CASE ~Known(l)
  <2>1. jobs' = [jobs EXCEPT ![l] = [status |-> "queued", attempts |-> 0, ttl |-> 0]]
    BY <1>2 DEF Enqueue
  <2>2. CASE k # l
    <3>1. jobs'[k] = jobs[k] /\ jobs[k].attempts \in Nat
      BY <2>1, <2>2 DEF Typed, TypeOK
    <3> QED
      BY <3>1 DEF Unsettled
  <2>3. CASE k = l
    <3>1. /\ jobs'[k].status = "queued" /\ jobs'[k].attempts = 0
          /\ jobs[k].status = "absent" /\ jobs[k].attempts = 0
      BY <1>2, <2>1, <2>3 DEF Known, Typed, TypeOK, Untouched
    <3> QED
      BY <3>1 DEF Unsettled, Settled
  <2> QED
    BY <2>2, <2>3
<1> QED
  BY <1>1, <1>2 DEF Enqueue, queueVars

\* Time passing shortens leases and does nothing else.
LEMMA RunDownQuiet ==
  ASSUME Typed, LeasesRunDown, NEW k \in Key
  PROVE  Unsettled(k)
<1>1. jobs'[k].attempts = jobs[k].attempts /\ jobs'[k].status = jobs[k].status
  BY DEF LeasesRunDown, Typed, TypeOK
<1>2. jobs[k].attempts \in Nat
  BY DEF Typed, TypeOK
<1> QED
  BY <1>1, <1>2 DEF Unsettled

\* Every step keeps the invariant.
LEMMA IInvStep == IInv /\ [Next]_vars => IInv'
<1> SUFFICES ASSUME IInv, [Next]_vars PROVE IInv'
  OBVIOUS
<1>1. Typed /\ Typed'
  BY TypedStep DEF IInv
<1>2. CASE Publish
  <2>1. \A k \in Key : Unsettled(k)
    BY <1>1, <1>2, SameQuiet DEF Publish
  <2> QED
    BY <1>1, <1>2, <2>1, QuietStep DEF Publish, procVars, histVars
<1>3. ASSUME NEW p \in Process, Poll(p) \/ EnqueuedAll(p) PROVE IInv'
  <2>1. \A k \in Key : Unsettled(k)
    BY <1>1, <1>3, SameQuiet DEF Poll, EnqueuedAll
  <2>2. \A q \in Process : pc'[q] = "run" <=> pc[q] = "run"
    BY <1>1, <1>3 DEF Poll, EnqueuedAll, Typed, TypeOK
  <2> QED
    BY <1>1, <1>3, <2>1, <2>2, QuietStep DEF Poll, EnqueuedAll, histVars
<1>4. ASSUME NEW p \in Process, EnqueueItem(p) PROVE IInv'
  <2>1. Head(todo[p]) \in Key \cup {NoGuid}
    BY <1>1, <1>4 DEF EnqueueItem, Typed, TypeOK
  <2>2. ASSUME NEW k \in Key PROVE Unsettled(k)
    <3>1. CASE Head(todo[p]) = NoGuid
      BY <1>1, <1>4, <3>1, SameQuiet DEF EnqueueItem, queueVars
    <3>2. CASE Head(todo[p]) # NoGuid
      BY <1>1, <1>4, <2>1, <3>2, EnqueueQuiet DEF EnqueueItem
    <3> QED
      BY <3>1, <3>2
  <2> QED
    BY <1>1, <1>4, <2>2, QuietStep DEF EnqueueItem, histVars
<1>5. ASSUME NEW p \in Process, Lease(p) PROVE IInv'
  BY <1>1, <1>5, LeaseStep
<1>6. ASSUME NEW p \in Process, FetchOk(p) PROVE IInv'
  BY <1>1, <1>6, FetchOkStep
<1>7. ASSUME NEW p \in Process, FetchFails(p) PROVE IInv'
  BY <1>1, <1>7, FetchFailsStep
<1>8. ASSUME NEW p \in Process, StartRun(p) PROVE IInv'
  BY <1>1, <1>8, StartRunStep
<1>9. ASSUME NEW p \in Process, Load(p) \/ RunRaises(p) PROVE IInv'
  <2>1. current' = [current EXCEPT ![p] = NoJob]
    BY <1>1, <1>9 DEF Load, RunRaises, Typed, TypeOK, Fetching
  <2> QED
    BY <1>1, <1>9, <2>1, EndStep DEF Load, RunRaises, histVars
<1>10. ASSUME NEW p \in Process, Crash(p) PROVE IInv'
  BY <1>1, <1>10, EndStep DEF Crash
<1>11. CASE Elapse
  <2>1. \A k \in Key : Unsettled(k)
    BY <1>1, <1>11, RunDownQuiet DEF Elapse
  <2> QED
    BY <1>1, <1>11, <2>1, QuietStep DEF Elapse, procVars, histVars
<1>12. CASE UNCHANGED vars
  <2>1. \A k \in Key : Unsettled(k)
    BY <1>1, <1>12, SameQuiet DEF vars
  <2> QED
    BY <1>1, <1>12, <2>1, QuietStep DEF vars
<1> QED
  BY <1>2, <1>3, <1>4, <1>5, <1>6, <1>7, <1>8, <1>9, <1>10, <1>11, <1>12 DEF Next, Work

\* The invariant holds.
LEMMA Invariant == Spec => []IInv
  BY IInvInit, IInvStep, PTL DEF Spec

\* A job that is done has its episode in a batch, in the graph, or lost with a batch.
THEOREM NothingIsForgotten == Spec => []AckedIsAccounted
<1>1. IInv => AckedIsAccounted
  BY DEF IInv
<1> QED
  BY <1>1, Invariant, PTL

\* An episode goes through at most as many runs as it was leased.
THEOREM RunsWereLeased == Spec => []RunsBoundedByLeases
<1>1. IInv => RunsBoundedByLeases
  <2> SUFFICES ASSUME IInv, NEW k \in Key PROVE runs[k] <= jobs[k].attempts
    BY DEF RunsBoundedByLeases
  <2> DEFINE n == Cardinality(Claimants(k))
  <2>1. n \in Nat
    BY FS_CardinalityType DEF IInv, Counted
  <2>2. runs[k] \in Nat /\ jobs[k].attempts \in Nat /\ runs[k] + n <= jobs[k].attempts
    BY DEF IInv, Counted, Typed, TypeOK
  <2> HIDE DEF n
  <2> QED
    BY <2>1, <2>2
<1> QED
  BY <1>1, Invariant, PTL

\* A failed job whose episode somebody has was leased twice.
THEOREM FailedWasLeasedTwice == Spec => []FailedDespiteFetch
<1>1. IInv => FailedDespiteFetch
  BY DEF IInv
<1> QED
  BY <1>1, Invariant, PTL

-----------------------------------------------------------------------------
(* The queue under these callers *)

\* What becomes of the queue in a step: one of its calls, time, or nothing.
QueueStep ==
  \/ \E k \in Key : \/ Enqueue(k) /\ ~Known(k)
                    \/ LeaseJob(k)
                    \/ \E status \in Settled : SetStatus(k, status)
  \/ LeasesRunDown
  \/ jobs' = jobs

\* A settled job is settled only once more, and never leased: nobody who leased a job
\* gives it back.
LEMMA StepIsCall == Typed /\ [Next]_vars => QueueStep
<1> SUFFICES ASSUME Typed, [Next]_vars PROVE QueueStep
  OBVIOUS
<1>1. ASSUME NEW p \in Process, EnqueueItem(p) PROVE QueueStep
  <2>1. Head(todo[p]) \in Key \cup {NoGuid}
    BY <1>1 DEF EnqueueItem, Typed, TypeOK
  <2> QED
    BY <1>1, <2>1 DEF EnqueueItem, QueueStep, queueVars, Enqueue
<1>2. ASSUME NEW p \in Process, Lease(p) PROVE QueueStep
  BY <1>2 DEF Lease, QueueStep
<1>3. ASSUME NEW p \in Process, FetchOk(p) \/ FetchFails(p) PROVE QueueStep
  BY <1>3 DEF FetchOk, FetchFails, Ack, Nack, QueueStep, Settled, Typed, Fetching
<1>4. CASE Elapse
  BY <1>4 DEF Elapse, QueueStep
<1> QED
  BY <1>1, <1>2, <1>3, <1>4
     DEF Next, Work, vars, Publish, Poll, EnqueuedAll, StartRun, Load, RunRaises, Crash,
         QueueStep

\* Neither polling, nor a lease, nor a late answer makes a settled job work again.
THEOREM SettledStaysSettled == Spec => SettledForGood
<1>1. Typed /\ [Next]_vars
        => [\A k \in Key : jobs[k].status \in {"done", "failed"}
                             => jobs'[k].status \in {"done", "failed"}]_vars
  <2> SUFFICES ASSUME Typed, [Next]_vars, NEW k \in Key, jobs[k].status \in {"done", "failed"}
               PROVE  jobs'[k].status \in {"done", "failed"}
    OBVIOUS
  <2>1. ASSUME NEW l \in Key, Enqueue(l) /\ ~Known(l) PROVE jobs'[k].status \in Settled
    BY <2>1, EnqueueQuiet DEF Unsettled, Settled
  <2>2. ASSUME NEW l \in Key, LeaseJob(l) PROVE jobs'[k].status \in Settled
    <3>1. Available(l)
      BY <2>2 DEF LeaseJob
    <3>2. k # l
      BY <3>1 DEF Available
    <3> QED
      BY <2>2, <3>2 DEF LeaseJob, Typed, TypeOK, Settled
  <2>3. ASSUME NEW l \in Key, NEW status \in Settled, SetStatus(l, status)
        PROVE  jobs'[k].status \in Settled
    BY <2>3 DEF SetStatus, Settled, Typed, TypeOK
  <2>4. CASE LeasesRunDown
    BY <2>4, RunDownQuiet DEF Unsettled, Settled
  <2>5. CASE jobs' = jobs
    BY <2>5
  <2> QED
    BY <2>1, <2>2, <2>3, <2>4, <2>5, StepIsCall DEF QueueStep, Settled
<1> QED
  BY <1>1, TypedInit, TypedStep, PTL DEF Spec, SettledForGood

\* Every call of the queue is a step of the contract.
THEOREM QueueKeepsContract == Spec => KeepsContract
<1>1. Init => Contract!ContractInit
  BY DEF Init, QueueInit, Contract!ContractInit
<1>2. Typed /\ [Next]_vars => [Contract!ContractNext]_jobs
  <2> SUFFICES ASSUME Typed, [Next]_vars PROVE Contract!ContractNext \/ jobs' = jobs
    OBVIOUS
  <2>1. ASSUME NEW k \in Key, Enqueue(k) /\ ~Known(k) PROVE Contract!Add(k)
    BY <2>1 DEF Enqueue, Known, Contract!Add
  <2>2. ASSUME NEW k \in Key, LeaseJob(k) PROVE Contract!Claim(k)
    <3>1. LeaseSeconds \in 0..LeaseSeconds
      BY LeaseAssumption
    <3>2. Contract!Claimable(k)
      BY <2>2 DEF LeaseJob, Available, Contract!Claimable
    <3>3. jobs' = [jobs EXCEPT ![k] = [status   |-> "leased",
                                       attempts |-> jobs[k].attempts + 1,
                                       ttl      |-> LeaseSeconds]]
      BY <2>2 DEF LeaseJob, Typed, TypeOK
    <3> QED
      BY <3>1, <3>2, <3>3 DEF Contract!Claim
  <2>3. ASSUME NEW k \in Key, NEW status \in Settled, SetStatus(k, status)
        PROVE  Contract!Settle(k)
    BY <2>3 DEF SetStatus, Known, Settled, Contract!Settle, Typed, TypeOK
  <2>4. CASE LeasesRunDown
    BY <2>4 DEF LeasesRunDown, Contract!ContractNext, Contract!Elapse
  <2> QED
    BY <2>1, <2>2, <2>3, <2>4, StepIsCall DEF QueueStep, Contract!ContractNext
<1> QED
  BY <1>1, <1>2, TypedInit, TypedStep, PTL DEF Spec, KeepsContract, Contract!ContractSpec
=============================================================================
