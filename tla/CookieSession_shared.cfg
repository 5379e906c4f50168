SPECIFICATION Spec
CONSTANTS
  p1 = p1
  p2 = p2
  c1 = c1
  c2 = c2
  c3 = c3
  Procs = {p1, p2}
  Calls = {c1, c2, c3}
  Owner <- MCOwner
  AuthRetries = 1
  Rolls = TRUE
  Crashes = 1
  MaxSids = 3
SYMMETRY Twins
INVARIANTS  DeviceRemembered
PROPERTIES RefusedIsReplaced
CHECK_DEADLOCK FALSE
