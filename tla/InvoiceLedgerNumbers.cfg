CONSTANTS
  r1 = r1
  r2 = r2
  i1 = i1
  i2 = i2
  Reqs = {r1, r2}
  Invoices = {i1}
  Ops = {"create", "record", "update", "status", "send"}
  Totals = {3}
  PayAmounts = {1, 2}
  ManualStatuses = {"PAID"}
  MaxPayments = 3
SYMMETRY Symmetric
SPECIFICATION Spec
CHECK_DEADLOCK FALSE
INVARIANTS  PaidNotOverstated
