SPECIFICATION FairSpec
CHECK_DEADLOCK FALSE
CONSTANTS
  r1 = r1
  r2 = r2
  r3 = r3
  l1 = l1
  Requests = {r1, r2, r3}
  Loads = {l1}
  NormalMax = 2
  BulkMax = 3
  ChunkSize = 1
  StartPolicies = {"always"}
  StrayOff = TRUE
  NoOwner = NoOwner
  MaxFired = 2
INVARIANTS TypeOK OwnResult HardDeadline OnePlace BulkBrackets
PROPERTY SubmitReturns
