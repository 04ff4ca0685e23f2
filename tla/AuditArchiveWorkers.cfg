CONSTANTS
  w1 = w1
  w2 = w2
  l1 = l1
  l2 = l2
  Logs = {l1, l2}
  Workers = {w1, w2}
  Limit <- LimitsDiffer
  BatchSize = 2
SPECIFICATION Spec
INVARIANTS TypeOK ArchivedIsStored GivenUpAfterLimit
PROPERTIES Implements
SYMMETRY Symmetry
