SPECIFICATION FairSpec
CONSTANTS
  c1 = c1
  c2 = c2
  c3 = c3
  l1 = l1
  l2 = l2
  Calls = {c1, c2, c3}
  Adopters = {c2}
  Idempotent = {c1, c3}
  Lifecycles = {l1, l2}
  Owner <- MCOwner
  Cas = TRUE
  Signers = {l1}
  Seeded = {l2}
  HasRefresh = TRUE
  AuthRetries = 1
  MaxTokens = 2
  ServiceFails = TRUE
  StoreFails = TRUE
  Invalidates = TRUE
  Restarts = TRUE
INVARIANTS RevisionNamesSession NoNeedlessRefresh
PROPERTIES RefreshReplacesItsSource CallsReturn
CHECK_DEADLOCK FALSE
