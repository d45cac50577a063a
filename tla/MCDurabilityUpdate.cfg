CONSTANTS
  r1 = r1
  r2 = r2
  d1 = d1
  d2 = d2
  Docs = {d1}
  Requests = {r1, r2}
  Gone = Gone
  Kinds = {"insert", "update"}
  Policies = {"always"}
  SegSize = 2
  MaxSegs = 2
  FirstId = 1
  SyncErrors = FALSE
  MaxChecks = 0
  MaxEnds = 1
SPECIFICATION Spec
INVARIANT UpdatesSurviveCrash
SYMMETRY Names
CHECK_DEADLOCK FALSE
