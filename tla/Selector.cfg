SPECIFICATION SelectorSpec
CONSTANTS
  Values = 8
  MaxEndpoints = 4
  Callers = {c1, c2}
  MaxCalls = 20
CHECK_DEADLOCK FALSE
INVARIANTS
  SelectorTypeOK
  Balanced
