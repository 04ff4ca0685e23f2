CONSTANTS
  r1 = r1
  e1 = e1
  t1 = t1
  free = free
  pro = pro
  a = a
  b = b
  None = None
  Requests = {r1}
  Editors = {e1}
  Tenants = {t1}
  Plans = {free, pro}
  Models = {a, b}
  Free = free
  Seeded <- Seeds
  SortOrder <- Catalogue
  Ttl = 1
  Span = 1
  MaxTime = 3
  MaxChanges = 2
SPECIFICATION Spec
INVARIANTS TypeOK WithdrawnWithinTtl StaleIsBeingCleared
CHECK_DEADLOCK FALSE
