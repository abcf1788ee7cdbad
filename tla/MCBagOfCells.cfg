SPECIFICATION Spec
CONSTANTS
  MaxCells = 4
  MaxRefs = 2
  Payloads <- MCPayloads
  Base = 4
  MaxData = 4096
INVARIANTS
  TypeOK
  ChildrenFirst
PROPERTY
  RoundTrip
