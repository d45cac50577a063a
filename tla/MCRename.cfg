SPECIFICATION Spec
SYMMETRY Symmetry
CONSTANTS
  Names = {a, b}
  Ids = {i1}
  TheBlock = TheBlock
  Scopes = {"block", "db"}
  Writers = {w1}
  Admins = {r1, r2}
  MaxStores = 3
  MaxInserts = 2
  MaxTroubles = 2
  CopyAttempts = 2
INVARIANTS InsertsAreKept RenamedIsRead
CHECK_DEADLOCK FALSE
