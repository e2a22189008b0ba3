SPECIFICATION RolesFairSpec
CONSTANTS
  users = users
  view = view
  Replicas = {r1, r2}
  BuiltIn = {super}
  Custom = {custom}
  SuperAdmin = super
  Perms = {users, view}
  UsersRead = users
  Asked <- OneOrNone
  BuiltInGrants <- Shipped
  Staff = {ann}
  Editors = {e1, e2}
  MaxTroubles = 1
  MaxEdits = 2
CHECK_DEADLOCK FALSE
CONSTRAINT Explored
INVARIANTS RolesTypeOK SuperAdminStays SeedingHeals AssignedRolesExistInTurn
PROPERTIES CachesConverge
