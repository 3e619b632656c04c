SPECIFICATION Spec
CONSTANTS
  demo1 = demo1
  demo2 = demo2
  r1 = r1
  NoOne = NoOne
  Applications <- DemoOnly
  Scenarios <- OneScenario
  Reviewers <- OneReviewer
  LoadMayFail = FALSE
  SaveMayFail = FALSE
  SeedMayAbort = FALSE
  MaxCases = 1
  MaxOverrides = 1
  MaxCrashes = 1
INVARIANT StatusPageMergesReview
