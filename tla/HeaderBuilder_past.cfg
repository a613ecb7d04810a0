SPECIFICATION Spec
CONSTANTS
  SlotsPerPeriod = 2
  MaxPeriod = 3
  Nil = Nil
CHECK_DEADLOCK FALSE
INVARIANT
  PastPeriodsOnly
