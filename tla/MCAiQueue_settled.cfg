SPECIFICATION Spec
CONSTANTS
  Videos = {v1}
  Policies = {p1}
  MaxMedia = 2
  MaxTries = 2
  MaxTotal = 3
  MaxAttempts = 2
  Lanes = 1
PROPERTIES
  SettledTogether
CHECK_DEADLOCK FALSE
