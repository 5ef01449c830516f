\* Four deployments, batches of up to two episodes, two batches.
CONSTANTS
  e1 = e1
  e2 = e2
  e3 = e3
  e4 = e4
  c1 = c1
  c2 = c2
  c3 = c3
  c4 = c4
  c1new = c1new
  u1 = u1
  u2 = u2
  u3 = u3
  u4 = u4
  hello = hello
  intro = intro
  claimA = claimA
  claimB = claimB
  um = um
  org = org
  person = person
  s1 = s1
  s2 = s2
  s3 = s3
  q1 = q1
  Token = {hello, intro, claimA, claimB, um}
  Ends = {intro}
  DefaultLabel = 1
  Spells <- Spellings
  SelfIntro <- SelfIntros
  GuestIntro <- GuestIntros
  Qid = {q1}
  NoQid = NoQid
  PersonQid <- PersonQids
  Nearest = 10
  Threshold = 7
  Margin = 2
  MinAppearances = 2
  Length <- Lengths
  Heading = 10
  MaxChars = 45
  OverlapSegments = 1
  MatchPercent = 50
  Subject = {s1, s2, s3}
  Blank = Blank
  TypeOf <- TypesOf
  Rank <- Ranks
  Like <- Likes
  LikeEnough = 7
  PollInterval = 2
  PollTimeout = 3
  MaxLatency = 1
  ReadyTimes = {0, 2, 99}
  Episode = {e1, e2, e3, e4}
  Url = {u1, u2, u3, u4}
  Content = {c1, c2, c3, c4, c1new}
  Published <- AtFirst
  Republished <- Later
  Hears <- HearsAll
  UrlOf <- UrlsOf
  Input <- Inputs
  Answers <- AnswerSet
  Setups <- SetupsAll
  MaxBatches = 2
  MaxRestarts = 1
  MinTalkPercent = 10
  MaxSegSeconds = 15
  NoContent = NoContent
SPECIFICATION FairSpec
INVARIANTS TypeOK ChunksCover SpeakerOfEvidence RunsAgree GuestsRecur GuestTurns SpeakersLeft InTimeIsSeen HashedIsHeard
PROPERTIES BatchEnds
