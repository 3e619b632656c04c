SPECIFICATION Spec
CONSTANTS
  a1 = a1
  a2 = a2
  Applications <- OneApplication
  Purposes <- TwoPurposes
  MaxRecords = 4
  MaxErasures = 1
INVARIANTS
  StampsAreCurrent
  CancelledInTime
PROPERTIES
  LedgerSpec
