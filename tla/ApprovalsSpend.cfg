SPECIFICATION Spec
CONSTANTS
  Users = {mary, ann}
  Approvers = {ann}
  Roles = {manager}
  DeciderRoles = {manager}
  Actions = {sign}
  Entities = {deal}
  Amounts = {1, 2}
  Floors = {1}
  Counts = {0}
  Movable = {}
  Attempts = {c1, c2}
  Ballots = {b1}
  MaxRules = 1
  MaxRequests = 2
  MaxFaults = 1
CHECK_DEADLOCK FALSE
SYMMETRY Symmetry
INVARIANTS TypeOK OneOpenRequest SpentOnce
PROPERTIES KeepsPromise
