CONSTANTS
  w1 = w1
  w2 = w2
  w3 = w3
  w4 = w4
  tenant = tenant
  platform = platform
  Writers = {w1, w2, w3, w4}
  Plain = {w3}
  Chains = {tenant, platform}
  ChainOf <- TwoChains
  Skew <- OneAhead
  Ids = {1, 2, 3}
  MaxTime = 2
  MaxRecords = 3
CHECK_DEADLOCK FALSE
SPECIFICATION FairSpec
INVARIANTS TypeOK BreaksOnlyAtPlainOrLate MonitorMissesNothing
PROPERTIES EveryLogEnds Implements
