SPECIFICATION Spec
CONSTANTS
  Videos = {v1}
  Policies = {p1}
  MaxMedia = 1
  MaxTries = 2
  MaxTotal = 2
  MaxAttempts = 2
  Lanes = 1
PROPERTIES
  RestartOrphansNoAttempt
CHECK_DEADLOCK FALSE
