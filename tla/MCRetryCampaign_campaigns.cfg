SPECIFICATION Spec
CONSTANTS
  v1 = v1
  r1 = r1
  c1 = c1
  c2 = c2
  Videos = {v1}
  Revs = {r1}
  Campaigns = {c1, c2}
  Kind <- OneCanary
  MaxItems <- Ones
  MaxMedia = 2
  MaxAborts = 1
INVARIANTS OneActive ItemsFollowed OneAttemptUninterrupted CanaryProven
PROPERTIES CanaryIsolated
CHECK_DEADLOCK FALSE
