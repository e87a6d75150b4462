SPECIFICATION FairSpec
CONSTANTS
  Clients = {c1, c2}
  NoClient = NoClient
  Callbacks = {cb1}
  Values = {v0}
  Default = v0
  Responses <- MCResponses
  Cuts <- MCCuts
  Serial = TRUE
  MaxRequests = 2
  MaxSetups = 2
  MaxFaults = 2
INVARIANTS
  SentOnce
PROPERTIES
  Answered
  Released
CHECK_DEADLOCK FALSE
