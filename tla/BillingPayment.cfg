CONSTANTS
  t1 = t1
  t2 = t2
  p1 = p1
  p2 = p2
  e1 = e1
  e2 = e2
  w1 = w1
  w2 = w2
  c1 = c1
  thisYear = thisYear
  nextYear = nextYear
  None = None
  Tenants = {t1}
  Payments = {p1}
  Events = {e1}
  TenantOf <- OneTenant
  PaymentOf <- FirstPayment
  Named = {e1}
  Series = {thisYear, nextYear}
  SeriesOf <- YearEnds
  Workers = {w1}
  Clients = {c1}
  Deletable = {}
  Faults = {}
  MaxManual = 0
SPECIFICATION Spec
INVARIANTS PaymentAppliedOnce
