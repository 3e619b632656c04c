SPECIFICATION FairSpec
CONSTANTS
  demo1 = demo1
  demo2 = demo2
  r1 = r1
  NoOne = NoOne
  Applications <- TwoDemos
  Scenarios <- TwoScenarios
  Reviewers <- OneReviewer
  LoadMayFail = FALSE
  SaveMayFail = FALSE
  SeedMayAbort = TRUE
  MaxCases = 1
  MaxOverrides = 1
  MaxCrashes = 2
INVARIANT
  RegisteredIsQueued
PROPERTIES
  ReviewSurvives
  VerdictReachesStore
