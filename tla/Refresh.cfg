SPECIFICATION Spec
CONSTANTS
  Half = 6
  MaxTime = 5
CHECK_DEADLOCK FALSE
INVARIANTS
  TypeOK
  NotDeclined
  NotEarly
PROPERTIES
  Refreshed
