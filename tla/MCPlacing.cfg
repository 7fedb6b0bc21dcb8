SPECIFICATION Spec
CONSTANTS
  Tiles = {t1, t2}
  Chat = chat
  Cooldown = 1
  QuickAttempts = 1
  MaxJobs = 2
  MaxAttempts = 2
  MaxTime = 1
  MaxConns = 2
  t1 = t1
  t2 = t2
  Wanted <- MCWanted
CHECK_DEADLOCK FALSE
INVARIANTS SignsWhatWasAsked AcknowledgedIsKept CooldownKept
PROPERTIES EveryJobEnds
