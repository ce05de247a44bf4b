SPECIFICATION MCSpec
CONSTANTS
  a = a
  b = b
  c = c
  Doc = {a, b, c}
  Source <- FiveUploads
  DocOf <- FiveDocOf
  AdminOwned = {c}
  Rank <- UploadOrder
  Near <- FiveNear
  Match <- FiveMatch
  MaxSources = 3
  MaxLosses = 1
INVARIANTS
  StatusExact
  RolesSound
  MatchTableExact
  HeldHidden
  AskedForReview
PROPERTIES
  OnlyReviewShares
  ReviewIsFinal
CHECK_DEADLOCK FALSE
