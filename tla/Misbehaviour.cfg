SPECIFICATION Spec
CONSTANTS
  GameTypes = {"super", "other"}
  GameType = "super"
  MaxL1 = 3
  MaxL2 = 3
  MaxGames = 2
CHECK_DEADLOCK FALSE
INVARIANTS
  TypeOK
  SealedProof
  Verdicts
