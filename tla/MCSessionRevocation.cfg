SPECIFICATION Spec
CONSTANTS
  Logins = {l1, l2}
  Admins = {adm}
  TicksPerSec = 2
  MaxTime = 2
  MaxSessions = 2
  MaxGrants = 1
SYMMETRY Symmetric
INVARIANTS RevocationIsComplete RevocationReachesApps OlderSessionsEnd
PROPERTIES OwnAppSurvives KeepsOwnSession
CHECK_DEADLOCK FALSE
