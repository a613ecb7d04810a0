INIT Init
NEXT Next
CONSTANTS
  r1 = r1
  r2 = r2
  q1 = q1
  q2 = q2
  Relayers = {r1, r2}
  Replicas = {q1, q2}
  MaxHeight = 4
  MaxSpan = 2
  Window = 2
  MaxFaults = 1
  Nil = Nil
SYMMETRY Symmetric
CHECK_DEADLOCK FALSE
INVARIANTS
  TypeOK
  Connected
