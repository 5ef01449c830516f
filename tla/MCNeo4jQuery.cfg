\* The same instance, for what query() answers.
CONSTANTS
  ann = ann
  bob = bob
  ai = ai
  gpu = gpu
  dated = dated
  undated = undated
  ClaimId <- Ids
  Speaker = {ann, bob}
  Entity = {ai, gpu}
  Episode = {dated, undated}
  SpeakerOf <- Speakers
  SubjectOf <- Subjects
  EpisodeOf <- Episodes
  MentionsOf <- Mentions
  PublishedAt <- Dates
  Undated = Undated
  Batches = {{1, 2}}
  Invalidated = {"asserts"}
  MaxLoads = 3
  MaxClock = 2
SPECIFICATION NeoSpec
INVARIANTS AnswersMirrored
CHECK_DEADLOCK FALSE
