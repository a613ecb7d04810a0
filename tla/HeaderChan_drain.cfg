SPECIFICATION Spec
CONSTANTS
  MaxRequests = 4
  ConfiguredConcurrency = 2
  MayAbandon = FALSE
  Nil = Nil
INVARIANTS
  TypeOK
  OrderedDelivery
  HeldWithinWindow
  NeverStuck
