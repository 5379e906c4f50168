SPECIFICATION FairSpec
CONSTANTS
  c1 = c1
  c2 = c2
  clearance = clearance
  captcha = captcha
  k1 = k1
  k2 = k2
  Calls = {c1, c2}
  Idempotent = {c1}
  Replayable = {c1, c2}
  Guards = {clearance, captcha}
  Mode <- MCMode
  MaxReplays <- MCMaxReplays
  Keys = {k1, k2}
  Asks <- MCAsks
  Identities = {"i1", "i2"}
  MayHave <- MCMayHave
  Allowance <- MCAllowance
  Proposals <- MCProposals
  Closes = TRUE
  MaxSolutions = 2
INVARIANTS  SolutionsKeepIdentity RefusedIsGone OneSolver
PROPERTIES CallsReturn
CHECK_DEADLOCK FALSE
