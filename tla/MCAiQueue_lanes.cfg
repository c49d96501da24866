SPECIFICATION Spec
CONSTANTS
  Videos = {v1, v2}
  Policies = {p1}
  MaxMedia = 1
  MaxTries = 1
  MaxTotal = 1
  MaxAttempts = 2
  Lanes = 2
SYMMETRY Symmetry
INVARIANTS
  RunningRowIsAccounted
CHECK_DEADLOCK FALSE
