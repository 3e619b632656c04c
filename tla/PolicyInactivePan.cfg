SPECIFICATION Spec
CONSTANTS
  Applicants <- ThresholdApplicants
  Improvements <- ToCleaner
CHECK_DEADLOCK FALSE
INVARIANT
  InactivePanIsRejected
