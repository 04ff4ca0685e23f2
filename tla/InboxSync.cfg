CONSTANTS
  w1 = w1
  w2 = w2
  i1 = i1
  i2 = i2
  i3 = i3
  None = None
  Workers = {w1, w2}
  Ids = {i1, i2, i3}
  MaxMail = 4
  IdOf <- Repeated
  ReplyTo <- Answer
  Limit = 2
  Faults = {"connect", "fetch", "message", "crash"}
SPECIFICATION FairSpec
INVARIANTS TypeOK CursorCovers StoredOnce RepliesJoin
PROPERTIES JobBringsMail Implements
