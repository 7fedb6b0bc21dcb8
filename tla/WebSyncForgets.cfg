CONSTANTS
  NumTiles = 2
  MaxConns = 2
  MaxCloses = 1
  MaxPasses = 1
SPECIFICATION SafeSpec
INVARIANT KeepsRetrying
CHECK_DEADLOCK FALSE
