CONSTANTS
  t1 = t1
  t2 = t2
  p1 = p1
  p2 = p2
  e1 = e1
  e2 = e2
  w1 = w1
  w2 = w2
  c1 = c1
  thisYear = thisYear
  nextYear = nextYear
  None = None
  Tenants = {t1, t2}
  Payments = {p1, p2}
  Events = {e1, e2}
  TenantOf <- EachItsOwn
  PaymentOf <- OneEventEach
  Named = {e1}
  Series = {thisYear, nextYear}
  SeriesOf <- YearsDiffer
  Workers = {w1, w2}
  Clients = {c1}
  Deletable = {t1}
  Faults = {"crash"}
  MaxManual = 0
SYMMETRY Symmetric
SPECIFICATION Spec
INVARIANTS TypeOK ProcessedIffApplied
PROPERTIES Implements
