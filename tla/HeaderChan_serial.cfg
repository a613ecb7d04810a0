SPECIFICATION Spec
CONSTANTS
  MaxRequests = 3
  ConfiguredConcurrency = 0
  MayAbandon = TRUE
  Nil = Nil
CHECK_DEADLOCK FALSE
PROPERTY
  StreamEnds
