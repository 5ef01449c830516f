\* Two processes share the queue; a lease may run out while its fetch goes on.
CONSTANTS
  g1 = g1
  g2 = g2
  Key = {g1, g2}
  Process = {p1, p2}
  FeedItems <- Feed
  MaxEpisodes = 2
  NoGuid = NoGuid
  NoJob = NoJob
  LeaseSeconds = 1
  MaxCrashes = 0
SPECIFICATION Spec
INVARIANTS NeverDoubleProcessed
