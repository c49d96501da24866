SPECIFICATION LockSpec
CONSTANTS
  p1 = p1
  p2 = p2
  u1 = u1
  u2 = u2
  u3 = u3
  Processes = {p1, p2}
  Users = {u1, u2, u3}
  Home <- MCHome
  MaxLives = 2
PROPERTIES LiveOwnerIsAuthoritative
CHECK_DEADLOCK FALSE
