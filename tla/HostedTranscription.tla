-------------------------- MODULE HostedTranscription --------------------------
(***************************************************************************)
(* One call of asr/hosted_backend.py's transcribe(): upload, submit, and   *)
(* poll until the service has an answer or the deadline has passed.        *)
(*                                                                         *)
(* The clock counts from the first poll.  When the job will be ready is    *)
(* settled when it is submitted; a request takes up to MaxLatency, and     *)
(* the service looks at the job at some time in between.                   *)
(***************************************************************************)
EXTENDS Integers

CONSTANTS PollInterval,   \* seconds slept between polls
          PollTimeout,    \* the deadline
          MaxLatency,     \* bound: a request takes at most this long
          ReadyTimes      \* bound: when jobs may be ready; past any clock is never

ASSUME HostedAssumption ==
  /\ PollInterval \in Nat \ {0} /\ PollTimeout \in Nat /\ MaxLatency \in Nat
  /\ ReadyTimes \subseteq Nat

VARIABLE call   \* where the call is, the clock, when its job is ready, why it raised

MaxClock == PollTimeout + MaxLatency + PollInterval

NoCall == [at |-> "none", clock |-> 0, ready |-> 0, why |-> "none"]

CallTypeOK ==
  call \in [at : {"none", "submit", "poll", "sleep", "completed", "raised"},
            clock : 0..MaxClock, ready : ReadyTimes \cup {0},
            why : {"none", "http", "error", "timeout"}]

Raised(why) == [call EXCEPT !.at = "raised", !.why = why]

CallInit == call = NoCall

\* transcribe() is called: a local file is uploaded first, a URL is not.
Upload ==
  /\ call.at = "none"
  /\ call' \in {[call EXCEPT !.at = "submit"], Raised("http")}

Submit(ready) ==
  /\ call.at = "submit"
  /\ call' \in {[call EXCEPT !.at = "poll", !.ready = ready], Raised("http")}

\* MUTANT of Poll: the deadline is tested before the service is asked.
PollBeforeDeadline(latency, looked) ==
  /\ call.at = "poll" /\ looked <= latency
  /\ LET answered == call.clock + latency
     IN  call' = IF call.clock >= PollTimeout THEN Raised("timeout")
                 ELSE IF call.ready <= call.clock + looked
                      THEN [call EXCEPT !.at = "completed", !.clock = answered]
                      ELSE [call EXCEPT !.at = "sleep", !.clock = answered]

\* MUTANT of Poll: the deadline moves with every poll.
PollFromNow(latency, looked) ==
  /\ call.at = "poll" /\ looked <= latency
  /\ call' = IF call.ready <= call.clock + looked
             THEN [call EXCEPT !.at = "completed"]
             ELSE [call EXCEPT !.at = "sleep", !.clock = 0]

\* One round of the loop up to its sleep.  The answer counts before the deadline does:
\* a completed job is taken however late it is.
Poll(latency, looked) ==
  /\ call.at = "poll" /\ looked <= latency
  /\ LET answered == call.clock + latency
         ready == call.ready <= call.clock + looked
     IN  \/ ready /\ call' = [call EXCEPT !.at = "completed", !.clock = answered]
         \/ ready /\ call' = Raised("error")
         \/ /\ ~ready
            /\ call' = IF answered >= PollTimeout
                       THEN [Raised("timeout") EXCEPT !.clock = answered]
                       ELSE [call EXCEPT !.at = "sleep", !.clock = answered]

\* A request that is not answered with 2xx.
PollFails == call.at = "poll" /\ call' = Raised("http")

Sleep ==
  /\ call.at = "sleep"
  /\ call' = [call EXCEPT !.at = "poll", !.clock = @ + PollInterval]

\* The loop of _poll and what leads to it.
CallStep ==
  \/ Upload
  \/ \E ready \in ReadyTimes : Submit(ready)
  \/ \E latency, looked \in 0..MaxLatency : Poll(latency, looked)
  \/ PollFails
  \/ Sleep

\* The deadline is no reason to lose a transcript: a call that timed out was for a job
\* that was not ready until a request's time before the deadline, though it may have
\* been asleep at the deadline and a poll is late.
InTimeIsSeen == call.why = "timeout" => call.ready > PollTimeout - MaxLatency
=============================================================================
