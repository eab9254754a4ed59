SPECIFICATION Spec
CONSTANTS
  Belongings <- SomeBelongings
  Owners = {owner}
  Admins = {admin}
  Engine = engine
  MaxUses = 2
  MaxCrashes = 2
INVARIANTS NoResidue AccountDeletedNamesNobody
PROPERTIES EnqueuedIsDeleted
CHECK_DEADLOCK FALSE
