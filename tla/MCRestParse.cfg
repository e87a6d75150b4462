SPECIFICATION ParseSpec
CONSTANTS
  Chars <- MCChars
  MaxLen = 8
INVARIANTS
  LocalsOK
  BodyAfterBlankLine
  CodeIsStatus
CHECK_DEADLOCK FALSE
