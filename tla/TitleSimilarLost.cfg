\* Two workers: comparisons overlap.
SPECIFICATION Spec
\* Everything is compared or deleted in the end.
CHECK_DEADLOCK FALSE
CONSTANTS
  Source <- Sources
  Doc = {"d1", "d2"}
  DocOf <- TwoAndOne
  Near <- SecondIsLike
  UploadedAs <- AnyTitle
  Worker = {w1, w2}
  Batch = 3
  MaxFailures = 0
INVARIANTS
  PairsComplete
