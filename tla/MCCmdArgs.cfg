SPECIFICATION Spec
CONSTANTS
  Bytes = {0, 1, 2}
  Checksums = {0, 2, 65535}
  MaxArgs = 3
  MaxLen = 2
  MaxPops = 4
INVARIANTS
  TypeOK
  ReadsArguments
CHECK_DEADLOCK FALSE
