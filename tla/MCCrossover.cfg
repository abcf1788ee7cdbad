SPECIFICATION MakeSpec
CONSTANTS
  MaxCells = 4
  MaxSwaps = 1
INVARIANTS
  IndicesOK
  MakesPermutation
PROPERTY
  Made
