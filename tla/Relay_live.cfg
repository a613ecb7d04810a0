SPECIFICATION Spec
CONSTANTS
  r1 = r1
  r2 = r2
  q1 = q1
  q2 = q2
  Relayers = {r1, r2}
  Replicas = {q1, q2}
  MaxHeight = 3
  MaxSpan = 2
  Window = 1
  MaxFaults = 1
  Nil = Nil
CHECK_DEADLOCK FALSE
PROPERTY
  CatchesUp
  Implements
