SPECIFICATION CrcSpec
CONSTANTS
  Octets <- MCOctets
  Errors <- MCErrors
  HeadLen = 1
  MaxOctets = 8
  MaxDamaged = 2
INVARIANTS
  IsCCITT
  BurstDetected
  OddDetected
CHECK_DEADLOCK FALSE
