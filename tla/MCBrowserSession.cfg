SPECIFICATION Spec
CONSTANTS
  Requests = {r1, r2}
  Accounts = {admin, user}
  Admins = {admin}
  Nobody = Nobody
  Grace = 1
  LinkTTL = 1
  Idle = 1
  MaxTime = 2
  MaxLinks = 1
  MaxAnswers = 6
SYMMETRY Symmetric
INVARIANTS SudoIsOwn LinkAcceptedOnce RealAccountLoggedIn
PROPERTIES LinkConfirmsItsReader
CHECK_DEADLOCK FALSE
