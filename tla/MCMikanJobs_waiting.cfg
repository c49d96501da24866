SPECIFICATION JobsSpec
CONSTANTS
  r1 = r1
  r2 = r2
  Releases = {r1, r2}
  NoRelease = NoRelease
  Slots = 2
  MaxClaims = 2
  MaxSlips = 1
  MaxRequests = 1
PROPERTIES WaitingResultsApplied
CHECK_DEADLOCK FALSE
