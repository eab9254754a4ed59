SPECIFICATION Spec
CONSTANTS
  Requests = {r1, r2}
  Accounts = {a1, a2}
  Console = Console
  AdminEnabled = TRUE
  MaxRows = 2
  MaxInvites = 1
SYMMETRY Symmetric
INVARIANTS OwnersMakeOwners
PROPERTIES RolesAreGranted LastOwnerStays
