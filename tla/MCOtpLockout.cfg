SPECIFICATION Spec
CONSTANTS
  Requests = {r1, r2, r3}
  MaxAttempts = 2
  StoreExposes <- FindingStore
  MaxLinks = 4
  MaxErrors = 1
  MaxGuesses = 8
SYMMETRY Symmetric
INVARIANTS GuessesBounded LockIsAnnounced
PROPERTIES OnlyLinksUnlock
