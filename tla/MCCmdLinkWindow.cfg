SPECIFICATION FairSpec
CONSTANTS
  Capacity = 8
  Window = 8
  Packets <- MCLong
  Commands <- MCCommands
  CMD_RESET = 1
  BufLen = 6
  MaxFrames = 3
  MaxResets = 1
INVARIANTS
  TypeOK
PROPERTIES
  DamagedFrameIgnored
  Answered
CHECK_DEADLOCK FALSE
