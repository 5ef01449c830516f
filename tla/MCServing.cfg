\* Two speakers, two subjects, three episodes, four claims; two queries, four arms.
CONSTANTS
  ann = ann
  bob = bob
  ai = ai
  gpu = gpu
  old = old
  new = new
  undated = undated
  q1 = q1
  q2 = q2
  ref = ref
  ClaimId <- Ids
  Speaker = {ann, bob}
  Entity = {ai, gpu}
  Episode = {old, new, undated}
  SpeakerOf <- Speakers
  SubjectOf <- Subjects
  EpisodeOf <- Episodes
  MentionsOf <- Mentions
  PublishedAt <- Dates
  Undated = Undated
  Batches = {}
  Invalidated = {"asserts"}
  MaxLoads = 2
  MaxClock = 2
  FlatThreshold = 1
  Bulk = 1000
  Query = {q1, q2}
  Cosine <- Nearness
  Words <- WordsOf
  RrfK = 2
  Unit = 60
  SeedK = 1
  Depth = 1
  Segments <- Transcripts
  WindowNearness <- Windows
  WindowSize = 2
  LabelToSpeaker <- Labels
  EpisodeOrder <- EpisodesInOrder
  Transcribed = {old, new, undated}
  TruthOf <- Truth
  Dimension = {"temporal_consensus_synthesis", "attribution_precision"}
  Weights <- DimensionWeights
  AttributionPrecision = "attribution_precision"
  Full = 12
  Edges = {12, 24}
  Results <- RunResults
  SpanOf <- Spans
  TextRefs = {ref}
  Holds <- RefHolds
  EntityOrder <- Order
  TopK = 2
  WhoK = 4
  ArmK = 3
  Width = 1
  Arms <- ArmOrder
  TextsOf <- TextsOfArms
  Rating <- Ratings
  Shuffle <- Orders
  Evaluations <- EvaluationRuns
  Corrected = {1}
  Periods <- PeriodsAsked
SPECIFICATION ServingSpec
INVARIANTS RankedBySignals CountedIsSearchable TrendMirrors ScoredAsAnswered CitationsPass
