SPECIFICATION Spec
CHECK_DEADLOCK FALSE
CONSTANTS
  c1 = c1
  c2 = c2
  c3 = c3
  d1 = d1
  d2 = d2
  v1 = v1
  v2 = v2
  Clients = {c1, c2}
  Ids = {d1, d2}
  Vals = {v1, v2}
  Shards = {d1, d2}
  ShardOf <- OwnShard
  NoVal = NoVal
  FlexEnabled = TRUE
  LazyIndex = TRUE
  Failures = TRUE
  Commands <- AllCommands
  MaxOps = 2
  MaxRestarts = 1
SYMMETRY Symmetry
INVARIANTS IndexCovers CacheAgrees FeedAgrees FlexAgrees FindExact CountIsFresh
PROPERTY UpdatesTakeMatching
