CONSTANTS
  w1 = w1
  w2 = w2
  u1 = u1
  u2 = u2
  a = a
  b = b
  None = None
  Workers = {w1, w2}
  Uploads = {u1, u2}
  Emails = {a, b}
  StrategyOf <- SkipAndUpdate
  BatchesOf <- Files
  MaxLeads = 5
  Entered = {}
  MaxDeleted = 1
  Faults = {"row", "batch", "audit", "crash"}
SYMMETRY Symmetric
SPECIFICATION Spec
INVARIANTS TypeOK ReportTrue ImportAudited
PROPERTIES Implements
CHECK_DEADLOCK FALSE
