CONSTANTS
  r1 = r1
  r2 = r2
  d1 = d1
  d2 = d2
  Docs = {d1, d2}
  Requests = {r1, r2}
  Gone = Gone
  Kinds = {"insert", "large", "batch", "update", "delete"}
  Policies = {"always", "interval"}
  SegSize = 2
  MaxSegs = 2
  FirstId = 1
  SyncErrors = TRUE
  MaxChecks = 1
  MaxEnds = 2
SPECIFICATION Spec
INVARIANTS
  EveryLossIsExplained
  
SYMMETRY Names
CHECK_DEADLOCK FALSE
