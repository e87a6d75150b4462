SPECIFICATION Spec
CONSTANTS
  Capacity = 2
  Window = 4
  Packets <- MCLong
  Commands <- MCCommands
  CMD_RESET = 1
  BufLen = 7
  MaxFrames = 2
  MaxResets = 0
INVARIANTS
  OnlySentExecuted
PROPERTIES
  WholeFrameExecuted
CHECK_DEADLOCK FALSE
