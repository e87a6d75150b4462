SPECIFICATION Spec
CONSTANTS
  Clients = {c1}
  NoClient = NoClient
  Callbacks = {cb1, cb2}
  Values = {v0, v1}
  Default = v0
  Responses <- MCResponses
  Cuts <- MCCuts
  Serial = FALSE
  MaxRequests = 3
  MaxSetups = 3
  MaxFaults = 1
SYMMETRY MCSymmetry
INVARIANTS
  TypeOK
  SentAsMeant
  EventToRequester
  EventsFaithful
PROPERTIES
  NewestSent
CHECK_DEADLOCK FALSE
