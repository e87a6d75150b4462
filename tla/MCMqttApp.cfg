SPECIFICATION Spec
CONSTANTS
  Blocks = {1, 2, 3, 4, 5, 6, 7, 8, 9}
  Pick <- First
  NoClient = NoClient
  CallbackSets <- MCCallbackSets
  Texts = {t1, t2}
  NoText = NoText
  QueueSize = 1
  MaxCommands = 5
  MaxResets = 1
INVARIANTS
  TypeOK
  Ownership
PROPERTIES
  ImplementsSession
SYMMETRY MCSymmetry
CHECK_DEADLOCK FALSE
