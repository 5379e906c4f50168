SPECIFICATION TabsSpec
CONSTANTS
  k1 = k1
  k2 = k2
  c1 = c1
  c2 = c2
  c3 = c3
  Contexts = {k1, k2}
  Calls = {c1, c2, c3}
  Home <- MCHome
  AuthRetries = 1
  MaxSids = 3
SYMMETRY Tabs
INVARIANTS AppliedIsThere
 
CHECK_DEADLOCK FALSE
