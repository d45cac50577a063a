SPECIFICATION Spec
CHECK_DEADLOCK FALSE
CONSTANTS
  t1 = t1
  t2 = t2
  w1 = w1
  a = a
  b = b
  Nobody = Nobody
  Txs = {t1, t2}
  Docs = {1, 2}
  Read = {1}
  Stripes = {a, b}
  Writers = {w1}
  MaxRetries = 2
  MaxMutations = 2
  MaxVersion = 2
INVARIANTS AllOrNothing LocksExclude NoCircle
PROPERTY VersionsGrow
SYMMETRY Symmetry
