SPECIFICATION Spec
CONSTANTS
  StateBits = 5
  Power <- MCPower
  Long = 1024
  Total = 8
  MaxUnderflow = 20
  Context = 2
  ByteBits = 3
  Inputs <- MCInputs
  Predictors <- MCPredictors
INVARIANTS
  TypeOK
  RangesAsDocumented
  NothingThrown
  UnderflowOwed
  InStep
PROPERTY
  RoundTrip
