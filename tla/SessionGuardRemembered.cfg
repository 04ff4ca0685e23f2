CONSTANTS
  s1 = s1
  u1 = u1
  t1 = t1
  p1 = p1
  p2 = p2
  None = None
  Procs = {p1, p2}
  Sessions = {s1}
  Users = {u1}
  Tenants = {t1}
  UserOf <- OneUser
  MembersOf <- Workspace
  Admins = {}
  Bare = TRUE
  CacheTtl = 2
  StateTtl = 1
  Throttle = 1
  IdleLimit = 4
  Absolute = 5
  Persistent = 6
  MaxTime = 7
  MaxLead = 1
  MaxOrders = 1
SYMMETRY Symmetric
SPECIFICATION Spec
INVARIANT RememberedLasts
CHECK_DEADLOCK FALSE

