SPECIFICATION Spec
CONSTANTS
  Users = {mary, ann, bob}
  Approvers = {ann, bob}
  Roles = {manager}
  DeciderRoles = {manager}
  Actions = {sign}
  Entities = {deal}
  Amounts = {1}
  Floors = {1}
  Counts = {0}
  Movable = {}
  Attempts = {c1}
  Ballots = {b1, b2}
  MaxRules = 1
  MaxRequests = 1
  MaxFaults = 0
CHECK_DEADLOCK FALSE
PROPERTIES RejectionIsDecisive
