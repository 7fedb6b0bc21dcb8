CONSTANTS
  Peers = {p1, p2}
  Authors = {1, 2}
  Placements <- MCPlacements
  Cooldown <- MCCooldown
  LogCap = 1
  BakedCap = 1
  MaxField = 2
  MaxClock = 1
  MaxMsgs = 1
  Skew = 1
SPECIFICATION Spec
SYMMETRY Symmetry
INVARIANTS TypeOK LayersAreNewest BakingLaundersNothing FreshPeerCatchesUp SameCanvas PageMergesAlike PageShowsCanvas
