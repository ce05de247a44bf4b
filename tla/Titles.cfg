\* One worker compares: comparisons do not overlap.
SPECIFICATION TitlesSpec
\* Everything is compared or deleted in the end.
CHECK_DEADLOCK FALSE
CONSTANTS
  Source <- Sources
  Doc = {"d1", "d2"}
  DocOf <- TwoAndOne
  Near <- SecondIsLike
  UploadedAs <- AnyTitle
  w1 = w1
  Worker = {w1}
  Batch = 3
  MaxFailures = 1
  u1 = u1
  f1 = f1
  x1 = x1
  h1 = h1
  j1 = j1
  Call = {u1, f1, x1, h1, j1}
  KindsOf <- Calls
  Slots <- OneSlot
  Attempts = 2
  p = p
  q = q
  r = r
  Word = {p, q, r}
  Ratio <- Spelling
  WordMin = 80
  MaxWords = 3
  Digest = {d1, d2}
  TextDigest = {"brief", "letter", "report"}
  SimHash <- TextHash
  PHash <- ImageHashes
  Pages = {0, 7, 8, 9}
INVARIANTS
  PairsSound
  PairsComplete
  GatesExact
  TitleSlotSuffices
  AlignSound
  ResemblanceFound
PROPERTIES
  ComparedInTheEnd
  ForegroundEnds
