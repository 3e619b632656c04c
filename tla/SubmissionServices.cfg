SPECIFICATION FairSpec
CONSTANTS
  s1 = s1
  s2 = s2
  a1 = a1
  a2 = a2
  old = old
  None = None
  Submissions <- MCSubmissions
  App <- FreshIds
  People <- TwoPeople
  Pages <- TwoSlips
  Named <- First
  GivesOtp <- Both
  PipelineOf <- Mixed
  WellFormed = {"x"}
  Mocked = {}
  Retries = 2
  Earlier <- LeftBehind
  MaxStarts = 2
CHECK_DEADLOCK FALSE
INVARIANTS
  VerdictIsTraceable
  NoVerdictOnSilence
  LaterSeesTheRing
PROPERTIES
  EverySubmissionEnds
