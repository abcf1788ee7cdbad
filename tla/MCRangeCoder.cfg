SPECIFICATION Spec
CONSTANTS
  Base = 4
  Total = 8
  Move = 4
  Width = 3
  MaxCalls = 3
  Matches <- MCMatches
  Limits <- MCLimits
INVARIANTS
  TypeOK
  CarryArrives
  CarryHasRoom
  OneByteIsEnough
  Tracks
PROPERTY
  RoundTrip
