SPECIFICATION ToolSpec
CONSTANTS
  SlotsPerPeriod = 3
  MaxPeriod = 3
  Nil = Nil
CHECK_DEADLOCK FALSE
INVARIANTS
  TypeOK
  HeaderVerifies
  SlotsOrdered
  Deterministic
  PeriodErrorsAtGenesisOnly
  ToolsVerify
