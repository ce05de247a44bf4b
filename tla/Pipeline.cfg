SPECIFICATION FairSpec
CONSTANTS
  Source = {1}
  Worker = {w1, w2}
  Capacity = 1
  HeavySlots = 1
  TitleSlots = 1
  Batch = 1
  UploadedAs <- AnyUpload
  HasEngine = TRUE
  MayStop = TRUE
  MaxFailures = 1
  MaxRestarts = 0
INVARIANTS
  MarksExact
PROPERTIES
  StopEnds
CHECK_DEADLOCK FALSE
