SPECIFICATION FairSpec
CONSTANTS
  Ops = {o1, o2}
  Calls = {o1}
  Unsent = {o2}
  Dedup = {o1}
  MaxReplays = 1
  QueueCapacity = 1
  PrepareSuspends = TRUE
  PrepareMayFail = TRUE
  CallersCancel = FALSE
  MaxDelays = 2
  MaxFailures = 2
PROPERTY EveryOperationEnds
CHECK_DEADLOCK FALSE
