SPECIFICATION InputSpec

CONSTANTS
  Unread = Unread
  Nothing = Nothing
  AadhaarStems <- MCAadhaarStems
  MrzStems <- MCMrzStems
  Forms <- MCForms
  Texts <- MCTexts
  Lengths <- MCLengths
  Documents <- MCDocuments
  TextLines <- MCTextLines

INVARIANTS
  WrongNumbersAreTold
  FormTellsWhoseDocuments
  PiiIsMasked
  AnnotationIsSound
  BoxesStayInLine

CHECK_DEADLOCK FALSE
