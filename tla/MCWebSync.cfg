CONSTANTS
  NumTiles = 2
  MaxConns = 3
  MaxCloses = 1
  MaxPasses = 1
SPECIFICATION Spec
CHECK_DEADLOCK FALSE
INVARIANTS OnlyRacesForget StatusIsRight
PROPERTIES UpdatesFlow ViewCatchesUp
