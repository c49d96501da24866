SPECIFICATION Spec
CONSTANTS
  Videos = {v1}
  Policies = {p1}
  MaxMedia = 2
  MaxTries = 2
  MaxTotal = 3
  MaxAttempts = 2
  Lanes = 1
INVARIANTS
  DeliveredIsProven
  RetryHasBudget
PROPERTIES
  CompletionIsSettled
  KeepsPromise
CHECK_DEADLOCK FALSE
