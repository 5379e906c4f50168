SPECIFICATION Spec
CONSTANTS
  Ops = {o1}
  Calls = {o1}
  Unsent = {o1}
  Dedup = {}
  MaxReplays = 1
  QueueCapacity = 1
  PrepareSuspends = TRUE
  PrepareMayFail = FALSE
  CallersCancel = TRUE
  MaxDelays = 2
  MaxFailures = 2
INVARIANT AtMostOnceWithoutDedup
CHECK_DEADLOCK FALSE
