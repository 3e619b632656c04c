SPECIFICATION Spec
CONSTANTS
  demo1 = demo1
  demo2 = demo2
  r1 = r1
  NoOne = NoOne
  Applications <- DemoOnly
  Scenarios <- OneScenario
  Reviewers <- OneReviewer
  LoadMayFail = TRUE
  SaveMayFail = TRUE
  SeedMayAbort = TRUE
  MaxCases = 2
  MaxOverrides = 3
  MaxCrashes = 1
INVARIANTS
  RowJustified
  CaseJustified
  StatusFollowsLatestOverride
PROPERTY
  LedgerSpec
