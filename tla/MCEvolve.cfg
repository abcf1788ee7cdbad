SPECIFICATION Spec
CONSTANTS
  Perms <- MCPerms
  Identity = "p"
  Length <- MCLength
  Unmeasured = 9
  Population = 2
  Children = 3
  Marks = TRUE
  EvalLimit = 2
  Limit = 3
  FirstLook = 1
  RngMax = 3
INVARIANTS
  TypeOK
  BestOfAll
  BredByMeasure
  DrawsInRange
PROPERTY
  Returns
