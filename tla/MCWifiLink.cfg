SPECIFICATION FairSpec
CONSTANTS
  Callbacks = {1, 2}
  MaxConnects = 3
  MaxChanges = 2
  MaxResets = 1
INVARIANTS
  TypeOK
  MonitorAlive
  HostKnowsLastPoll
PROPERTIES
  EventIsNews
  EventuallyJoined
  LastingStatusTold
CHECK_DEADLOCK FALSE
