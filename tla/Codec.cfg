SPECIFICATION Spec
CONSTANTS
  Word = 16
  Half = 8
  Offered <- MCOffered
  Payloads <- MCPayloads
  Unknown = {2, 13}
  Damage = {0, 3, 12, 16, 127, 128, 255}
  MaxDamaged = 12
  Nil = Nil
INVARIANTS
  TypeOK
  SizeExact
  RoundTrip
  UnknownSkipped
  LastWins
  CutIsPartial
  Stable
  InBounds
PROPERTY
  Terminates
