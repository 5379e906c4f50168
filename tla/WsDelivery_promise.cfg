SPECIFICATION Spec
CONSTANTS
  Ops = {o1, o2, o3}
  Calls = {o1}
  Unsent = {o1, o2}
  Dedup = {}
  MaxReplays = 1
  QueueCapacity = 1
  PrepareSuspends = FALSE
  PrepareMayFail = FALSE
  CallersCancel = TRUE
  MaxDelays = 2
  MaxFailures = 2
INVARIANTS NotSentIsNotSent AtMostOnceWithoutDedup NoStrandedWaiter
PROPERTY OneShotPromise
CHECK_DEADLOCK FALSE
