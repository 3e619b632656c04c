SPECIFICATION Spec
CONSTANTS
  p1 = p1
  p2 = p2
  a1 = a1
  Nobody = Nobody
  Submissions <- TwoSubmissions
  CallerIds <- OneCaller
  FormId <- IdOfForm
  Profiles <- FourProfiles
  RealModels = TRUE
  StagesMayFail = TRUE
CHECK_DEADLOCK FALSE
INVARIANTS
  HeldIsQueued
  CaseIsExplained
  OneCaseEach
