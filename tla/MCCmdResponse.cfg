SPECIFICATION FairSpec
CONSTANTS
  Responses <- MCResponses
  Texts <- MCTexts
  TxFifoLimit = 2
  LenRange = 12
  MaxResponses = 2
  MaxTexts = 2
INVARIANTS
  TypeOK
  HostReadsResponses
PROPERTIES
  ResponseArrives
CHECK_DEADLOCK FALSE
