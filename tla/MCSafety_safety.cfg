SPECIFICATION Spec
CONSTANTS
  MaxTexts = 2
  MaxPublications = 2
  MaxCrashes = 1
  MaxPolicies = 1
  Episodes = {e1, e2}
  Wordings = {w1, w2}
  Lanes = 2
  Batch = 1
  MaxShown = 3
  MaxMedia = 1
  MaxMishaps = 1
  Failures <- SomeFailures
  MaxFull = 1
  MaxFailures = 3
  MaxTurns = 1
  Library = {v1}
  MaxVersions = 2
  MaxChanges = 2
  MaxEpochs = 2
  MaxTrips = 1
  LineCount = 3
  BatchSize = 2
  MaxRetries = 2
  MaxTranscripts = 2
  MaxJobs = 2
  Launchers = {k1, k2}
  RecoverySamples = 2
  MaxProbes = 4
  MaxOoms = 1
  MaxReleases = 2
  Deadline = 1
  MaxGap = 1
  MaxClock = 3
  MaxClaims = 1
  MaxSources = 2
  Revisions = {1, 2}
  MaxWritten = 2
  MaxTries = 3
  MaxEnds = 2
  MaxArchives = 1
INVARIANTS FilmAccounted DeliveredIsSound DeliveredTogether LessonsKept SuppliedIsIndependent RetryFindsItsIntent RemedyOnce RepairAloneUnlessOvertaken Attested EligibleInTime CommittedFits OmissionsTold GoesOnSound PromptNotRepeated LaunchIsCautious VerdictsLast
CHECK_DEADLOCK FALSE
