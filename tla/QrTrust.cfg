SPECIFICATION Spec
CONSTANTS
  ann = ann
  bob = bob
  Nobody = Nobody
  NoCode = NoCode
  NoResult = NoResult
  Persons <- TwoPeople
  Cards <- AllCards
  Setups <- SomeSetups
  MaxPages = 3
CHECK_DEADLOCK FALSE
INVARIANTS
  ValidMeansSigned
  GenuineCodeIsBest
  EvidenceIsFaithful
