SPECIFICATION FairSpec
CONSTANTS
  Source = {1, 2}
  Worker = {w1}
  Capacity = 1
  HeavySlots = 1
  TitleSlots = 1
  Batch = 1
  UploadedAs <- AwaitedAndImage
  HasEngine = FALSE
  MayStop = FALSE
  MaxFailures = 1
  MaxRestarts = 1
PROPERTIES
  EveryUploadServed
CHECK_DEADLOCK FALSE
