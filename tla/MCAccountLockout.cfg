SPECIFICATION LockoutSpec
CONSTANTS
  Requests = {r1, r2, r3}
  MaxAttempts = 2
  baseLockoutSec = 2
  maxLockoutSec = 3
  MaxLocks = 3
  MaxErrors = 1
  MaxGuesses = 8
SYMMETRY Symmetric
INVARIANTS GuessesBounded LockIsReportedOnce
