SPECIFICATION FairSendersSpec
CONSTANTS
  Source = {1, 2}
  Worker = {w1}
  Capacity = 1
  HeavySlots = 1
  TitleSlots = 1
  Batch = 1
  UploadedAs <- AwaitedAndPrinted
  HasEngine = TRUE
  MayStop = FALSE
  MaxFailures = 0
  MaxRestarts = 0
PROPERTIES
  EveryUploadServed
CHECK_DEADLOCK FALSE
