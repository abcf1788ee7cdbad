SPECIFICATION Spec
CONSTANTS
  Perms <- MCPerms
  Identity = "p"
  Length <- MCLength
  Unmeasured = 9
  Population = 3
  Children = 4
  Marks = TRUE
  EvalLimit = 2
  Limit = 3
  FirstLook = 2
  RngMax = 3
INVARIANT
  DrawsInRange
