CONSTANTS
  DigitBits = 2
  Width = 5
  MaxDigits = 4
  LastLimit = 2
  Open = Open
  Offer <- OfferMC
SPECIFICATION Spec
INVARIANTS
  ReaderIsExact
  FilesAreReadBack
PROPERTIES WritingKeepsMeaning
CHECK_DEADLOCK FALSE
