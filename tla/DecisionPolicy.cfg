SPECIFICATION Spec
CONSTANTS
  Applicants <- ThresholdApplicants
  Improvements <- ToCleaner
CHECK_DEADLOCK FALSE
INVARIANTS
  VideoGateHolds
  OutcomeIsExplained
  SignalsAddUp
  IncomeBacksApproval
PROPERTY
  ImprovementNeverHurts
