SPECIFICATION Spec
CONSTANTS
  Logins = {l1, l2}
  Admins = {}
  TicksPerSec = 2
  MaxTime = 1
  MaxSessions = 2
  MaxGrants = 1
INVARIANT EveryLoginStandsAlone
CHECK_DEADLOCK FALSE
