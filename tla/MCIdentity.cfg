CONSTANTS
  NumApps = 4
  Tabs = {t1, t2}
  Keys = {k1, k2, k3}
  MaxConnects = 3
  Faults = {"slow", "store", "abort"}
SPECIFICATION Spec
SYMMETRY Symmetry
CHECK_DEADLOCK FALSE
INVARIANTS AdoptedOnce IdentitySurvives OnlyAdoptedLockedOut
PROPERTIES KeysSurvive
