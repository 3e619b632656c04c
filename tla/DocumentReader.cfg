SPECIFICATION FairSpec
CONSTANTS
  s1 = s1
  s2 = s2
  i1 = i1
  i2 = i2
  Unknown = Unknown
  Nothing = Nothing
  Images <- Both
  Submissions <- Two
  ByForm <- OneForm
  Pages <- PlacesApart
  Page <- OwnPages
  Class <- Classes
  Kind <- Kinds
  Guess <- Guesses
  Sure <- SureOf
  OcrMocked = FALSE
  OcrConf <- Confs
  Digits <- NumberOn
  Fields <- FieldNames
  Shows <- Found
  Canned <- CannedFields
  DonutShows <- FoundByDonut
  Workers = 2
  Slots = 1
CHECK_DEADLOCK FALSE
INVARIANTS
  SlotsConserved
  FormSawWhatIsDecided
  DecidedOnEveryPage
PROPERTIES
  OnlyFirstReadsLose
  EverySubmissionAnswered
