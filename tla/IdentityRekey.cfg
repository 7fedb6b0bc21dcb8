CONSTANTS
  NumApps = 2
  Tabs = {t1}
  Keys = {k1, k2}
  MaxConnects = 4
  Faults = {}
SPECIFICATION Spec
INVARIANT OneIdentity
CHECK_DEADLOCK FALSE
