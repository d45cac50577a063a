CONSTANTS
  s1 = s1
  s2 = s2
  d1 = d1
  Streaming = {s1, s2}
  Direct = {d1}
  Quota <- MCQuota
  ChanCap = 1
  MaxBatch = 2
  SegSize = 2
  MaxSegs = 2
  StartPolicies = {"always"}
  MaxFaults = 1
  MaxChecks = 1
  MaxSwitches = 1
SPECIFICATION Spec
INVARIANTS
  TypeOK
  AckedIsWritten
  SkippedSyncIsSafe
  AlwaysIsDurable
  MarkerAfterLastFlush
PROPERTIES
  ImplementsDurableLog
SYMMETRY Writers
CHECK_DEADLOCK FALSE
