SPECIFICATION ISpec
CONSTANTS
  a = a
  b = b
  t1 = t1
  t2 = t2
  Thread = {t1, t2}
  Doc = {a, b}
  Source <- ThreeUploads
  DocOf <- ThreeDocOf
  AdminOwned = {}
  ErpOf <- ErpShared
  Rank <- UploadOrder
  Near <- ThreeMatch
  Match <- ThreeMatch
  MaxSources = 2
  Drivers = {"local", "r2"}
  MaxFaults = 1
SYMMETRY Callers
INVARIANTS
  FilesBacked
  NoOrphans
  MissingExplained
CHECK_DEADLOCK FALSE
