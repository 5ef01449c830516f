\* Two speakers, three episodes, one of them undated, three claims on one subject.
CONSTANTS
  ann = ann
  bob = bob
  ai = ai
  gpu = gpu
  old = old
  new = new
  undated = undated
  ClaimId <- Ids
  Speaker = {ann, bob}
  Entity = {ai, gpu}
  Episode = {old, new, undated}
  SpeakerOf <- Speakers
  SubjectOf <- Subjects
  EpisodeOf <- Episodes
  MentionsOf <- Mentions
  PublishedAt <- Dates
  Undated = Undated
  Batches <- EpisodeBatches
  Invalidated = {"asserts"}
  MaxLoads = 2
  MaxClock = 2
SPECIFICATION Spec
INVARIANTS TypeOK Linked SupersedesForward
PROPERTIES HistoryKept PastIsKept
\* A store does nothing by itself: no load is left and nothing to invalidate.
CHECK_DEADLOCK FALSE
