SPECIFICATION Spec
CONSTANTS
  Requests = {r1, r2}
  Slots = {s1, s2}
  Passkeys = {k1}
  MaxSecrets = 2
  MaxBatches = 2
  MaxStep = 2
  MaxRaces = 2
SYMMETRY Symmetric
INVARIANTS ReusesAreRaces RecoveryCodesAreExact ActiveSecretIsProven FactorUnlessOrphaned
