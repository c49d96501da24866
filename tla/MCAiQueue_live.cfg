SPECIFICATION FairSpec
CONSTANTS
  Videos = {v1}
  Policies = {p1, p2}
  MaxMedia = 1
  MaxTries = 2
  MaxTotal = 2
  MaxAttempts = 2
  Lanes = 1
PROPERTIES ClaimsEnd
CHECK_DEADLOCK FALSE
