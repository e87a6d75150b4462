SPECIFICATION ReceiverFairSpec
CONSTANTS
  RingSize = 2
  QueueSize = 1
  RxFullThrhd = 2
  RxFlowThrhd = 2
  MaxBytes = 8
  Packets <- MCPackets
  Commands <- MCCommands
  CMD_RESET = 1
  BufLen = 4
  Window = 5
  MaxFrames = 2
  MaxResets = 1
INVARIANTS
  TypeOK
  NoLostWakeup
PROPERTIES
  LineSpec
  LineFairness
  ImplementsLink
CHECK_DEADLOCK FALSE
