SPECIFICATION Spec
CONSTANTS
  Calls = {k1, k2, k3}
  Members = {n1, n2}
  Self = n1
  MinShards = 1
  MaxShards = 2
  Replicas = 2
  MinDocs = 1
  MaxDocs = 0
  MaxBegun = 5
  Nodes = {n1, n2}
  Seed = n1
  Ids = {d1}
  NoOne = nobody
  ReadMayFail = TRUE
  MaxLog = 2
  MaxBatches = 1
  MaxFailed = 1
  MaxRestarts = 1
SYMMETRY Symmetry
INVARIANTS EveryStandstillIsKnown ActiveShardHasLivePrimary DifferencesAreExplained
CHECK_DEADLOCK FALSE
