CONSTANTS
  Codes = {1, 2, 3}
  MaxReleases = 3
  Faults = {"abort", "stale", "rollback", "timeout", "leave", "oldtab"}
  Tabs = {t1, t2}
  Pixels = {x, y}
SPECIFICATION Spec
CHECK_DEADLOCK FALSE
INVARIANTS FullReleasesKnown CalmUpgradesCarryAll
PROPERTY CalmUpgradesKeepAll
