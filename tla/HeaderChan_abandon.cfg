SPECIFICATION Spec
CONSTANTS
  MaxRequests = 4
  ConfiguredConcurrency = 2
  MayAbandon = TRUE
  Nil = Nil
CHECK_DEADLOCK FALSE
PROPERTIES
  WorkersExit
  Implements
