SPECIFICATION Spec
CONSTANTS
  a1 = a1  a2 = a2  a3 = a3  root = root  help = help  k1 = k1  k2 = k2  NoGrant = NoGrant
  Admins = {a1, a2, a3}
  Roles = {root, help}
  SuperRole = root
  FirstAdmins <- MCFirstAdmins
  FirstRoles <- MCFirstRoles
  Grants <- MCGrants
  MaxChanges = 3
  Clerks = {k1, k2}
  Owners = {1}
  SessionIds = {1, 2}
  TokenIds = {1, 2, 3}
  Desks = {k1, k2}
  MaxPassword = 1
SYMMETRY ClerkSymmetry
INVARIANTS SuperAdminRemains AccessFollowsRole OneLiveToken PasswordEndsOthers
CHECK_DEADLOCK FALSE
