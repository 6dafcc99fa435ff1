SPECIFICATION FairSpec
CONSTANTS
  Texts <- MCTexts
  Requests <- MCRequests
  Responses <- MCResponses
  MaxRecv = 4
  None <- MCNone
INVARIANTS
  TypeOK
  NoOutOfRange
  PiecesDoNotMatter
  RejectedForGood
  SeenOrTruncated
  ReadAsPrinted
PROPERTIES
  ParseReturns
CHECK_DEADLOCK FALSE
