SPECIFICATION Spec
CONSTANTS
  Browsers = {b1}
  Accounts = {ann, bob}
  Nobody = Nobody
  MaxChanges = 3
  MaxLogins = 2
SYMMETRY Symmetric
INVARIANTS SecondFactorAsked TrustIsProven DisabledOnlyFinishes
CHECK_DEADLOCK FALSE
