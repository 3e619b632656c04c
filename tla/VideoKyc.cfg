SPECIFICATION Spec
CONSTANTS
  a1 = a1
  a2 = a2
  s1 = s1
  NoApp = NoApp
  Applications <- TwoApplications
  Sessions <- OneSession
  MockMode = TRUE
  NumQuestions = 2
  MaxUploads = 1
SYMMETRY Symmetric
INVARIANTS
  CompletedHasEvidence
  FlagsExplainVerdict
