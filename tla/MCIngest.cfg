\* Two processes share the queue; one of them crashes once; a lease lasts one tick.
CONSTANTS
  g1 = g1
  g2 = g2
  Key = {g1, g2}
  Process = {p1, p2}
  FeedItems <- Feed
  MaxEpisodes = 2
  NoGuid = NoGuid
  NoJob = NoJob
  LeaseSeconds = 1
  MaxCrashes = 1
SPECIFICATION FairSpec
INVARIANTS TypeOK AckedIsAccounted RunsBoundedByLeases FailedDespiteFetch
PROPERTIES SettledForGood KeepsContract InHandIsSettled
