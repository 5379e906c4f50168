SPECIFICATION FairSpec
CONSTANTS
  a1 = a1
  a2 = a2
  c1 = c1
  c2 = c2
  c3 = c3
  p1 = p1
  p2 = p2
  mailbox = mailbox
  Accounts = {a1, a2}
  Uses <- MCUses
  Resources = {mailbox}
  Processes = {p1, p2}
  Calls = {c1, c2, c3}
  ProcessOf <- MCProcessOf
  Targets <- MCTargets
  Provided = {1, 3, 4}
  MaxSteps = 2
  MaxChallenges = 4
INVARIANTS OneRemoteAccount AttemptsAreApart
PROPERTIES ChallengesAdvance CallsReturn
CHECK_DEADLOCK FALSE
