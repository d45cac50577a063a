SPECIFICATION Spec
SYMMETRY Symmetry
CONSTANTS
  Names = {a, b}
  Ids = {i1}
  TheBlock = TheBlock
  Scopes = {"block", "db"}
  Writers = {}
  Admins = {r1, r2}
  MaxStores = 3
  MaxInserts = 2
  MaxTroubles = 2
  CopyAttempts = 2
INVARIANT CleanupTakesOnlyCopies
CHECK_DEADLOCK FALSE
