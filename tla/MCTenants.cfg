\* Two requests at a time on one file, four in all, one worker killed.
SPECIFICATION Spec
CONSTANTS
  r1 = r1
  r2 = r2
  i1 = i1
  i2 = i2
  e1 = e1
  e2 = e2
  p1 = p1
  p2 = p2
  Requests = {r1, r2}
  Ids = {i1, i2}
  Emails = {e1, e2}
  Passwords = {p1, p2}
  HardLimit = 2
  None = None
  Own = Own
  Renewed = Renewed
  Free = Free
  Abandoned = Abandoned
  KilledInWrite = FALSE
  MaxRequests = 4
  MaxKills = 1
SYMMETRY Symmetry
INVARIANTS
  OneTenant
  CountExact
  WelcomeMatches
PROPERTIES
  LetThroughUnderLimit
  OneAtATime
CHECK_DEADLOCK FALSE
