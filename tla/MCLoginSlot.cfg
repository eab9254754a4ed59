SPECIFICATION Spec
CONSTANTS
  Requests = {r1, r2, r3}
  Uids = {u1, u2}
  Codes = {c1, c2}
  Nobody = Nobody
  MaxAttempts = 2
  CodeTtl = 1
  LinkTtl = 2
  ResetTtl = 2
  UnlockTtl = 2
  MaxIssues = 2
  MaxTime = 3
SYMMETRY Symmetric
INVARIANTS ComparisonsBounded CounterIsExact SpentStaysSpent
PROPERTIES CodeNeverAfterLink FailedCodeKeepsLink KeepsPromise
