CONSTANTS
  s1 = s1
  s2 = s2
  d1 = d1
  Streaming = {s1, s2}
  Direct = {d1}
  Quota <- MCQuota
  ChanCap = 1
  MaxBatch = 2
  SegSize = 2
  MaxSegs = 2
  StartPolicies = {"interval"}
  MaxFaults = 1
  MaxChecks = 0
  MaxSwitches = 0
SPECIFICATION FairSpec
PROPERTIES
  CallsReturn
  CloseReturns
CHECK_DEADLOCK FALSE
