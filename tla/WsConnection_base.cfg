SPECIFICATION FairSpec
CONSTANTS
  s1 = s1
  s2 = s2
  Callers = {c1, c2}
  Subs = {s1, s2}
  Correlated = {s1}
  Settings <- MCSettings
  CallersCancel = TRUE
  MaxFailures = 2
INVARIANTS ReadyIsServed  ReadyRestoresAll 
PROPERTIES NothingIsStranded
CHECK_DEADLOCK FALSE
