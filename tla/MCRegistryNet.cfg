CONSTANTS
  Peers = {p1, p2}
  Authors = {a1}
  Cores <- MCCores
  Nicknames <- MCNicknames
  MaxClock = 1
  MaxMsgs = 1
  Skew = 1
SPECIFICATION DeltaSpec
INVARIANTS RecordsAreJoins PutsLikeUpdates ViewFollows
PROPERTIES NicknamesSpread
