CONSTANTS
  r1 = r1
  r2 = r2
  i1 = i1
  i2 = i2
  Reqs = {r1, r2}
  Invoices = {i1}
  Ops = {"create", "record", "update", "status", "send", "unpay", "drop"}
  Totals = {0, 2}
  PayAmounts = {1}
  ManualStatuses = {"CANCELLED"}
  MaxPayments = 2
SYMMETRY Symmetric
SPECIFICATION Spec
CHECK_DEADLOCK FALSE
INVARIANTS TypeOK LedgerAgrees
PROPERTIES NoOverpayment RecordedPaymentKept Implements
