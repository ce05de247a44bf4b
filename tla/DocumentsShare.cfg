SPECIFICATION MCSpec
CONSTANTS
  a = a
  b = b
  c = c
  Doc = {a, b, c}
  Source <- FiveUploads
  DocOf <- FiveDocOf
  AdminOwned = {c}
  Rank <- UploadOrder
  Near <- FiveNear
  Match <- FiveMatch
  MaxSources = 3
  MaxLosses = 1
INVARIANT DuplicateWaitsForAdmin
CHECK_DEADLOCK FALSE
