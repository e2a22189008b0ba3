SPECIFICATION FairSpec
CONSTANTS
  Users = {mary, ann, bob}
  Approvers = {ann, bob}
  Roles = {manager, clerk}
  DeciderRoles = {manager}
  Actions = {sign}
  Entities = {deal}
  Amounts = {1}
  Floors = {1}
  Counts = {2}
  Movable = {ann}
  Attempts = {c1}
  Ballots = {b1, b2}
  MaxRules = 1
  MaxRequests = 1
  MaxFaults = 0
CHECK_DEADLOCK FALSE
INVARIANTS FourEyes
PROPERTIES RequestsHold DecisionIsTold
