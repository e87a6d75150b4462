SPECIFICATION Spec
CONSTANTS
  Capacity = 2
  Window = 4
  Packets <- MCShort
  Commands <- MCCommands
  CMD_RESET = 1
  BufLen = 7
  MaxFrames = 2
  MaxResets = 0
INVARIANTS
  ExecutedOnce
CHECK_DEADLOCK FALSE
