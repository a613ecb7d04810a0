SPECIFICATION SearchSpec
CONSTANTS
  MaxHead = 5
  MaxGap = 3
  MaxSteps = 3
CHECK_DEADLOCK FALSE
INVARIANTS
  SearchTypeOK
  RegularFound
  NearFound
  InChain
