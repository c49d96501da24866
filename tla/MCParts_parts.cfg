SPECIFICATION Spec
CONSTANTS
  pa = pa
  pb = pb
  l1 = l1
  l2 = l2
  l3 = l3
  k1 = k1
  k2 = k2
  u1 = u1
  u2 = u2
  u3 = u3
  s1 = s1
  s2 = s2
  LeaseProcs = {pa, pb}
  LeaseUsers = {l1, l2, l3}
  LeaseHome <- MCLeaseHome
  OpenFiles = {1, 2}
  NoUser = NoUser
  NoFileOpen = 0
  Keys = {k1, k2}
  Bodies = {1, 2}
  Files <- MCFiles
  SafeKeys = {}
  MaxCrashes = 1
  MaxFaults = 1
  Processes = {pa, pb}
  Users = {u1, u2, u3}
  Home <- MCHome
  MaxLives = 2
  Sources = {s1, s2}
  NoSource = NoSource
  MaxTroubles = 1
INVARIANTS OrphanOnlyByFork CommandOnce Exclusive FinishedStaysDetached
PROPERTIES LeaseKept CommandsAnsweredFairly DeadLockRemovedFairly GoneTorrentFairly
CHECK_DEADLOCK FALSE
