SPECIFICATION Spec
CONSTANTS
  Texts <- MCTexts
  Lows = 1
  Mids = 1
  Highs = 3
  MaxDist = 24
  LookAhead = 3
  DistBits = 5
  Power <- MCPower
  AlignedFrom = 8
  AlignBits = 2
INVARIANTS
  TypeOK
  DeferredHolds
  InStep
  NeverRefused
PROPERTY
  RoundTrip
