CONSTANTS
  Peers = {p1, p2}
  Pointers <- MCPointers
  MaxClock = 1
  MaxMsgs = 2
SPECIFICATION FacadeSpec
INVARIANTS ServesNewest
PROPERTIES EveryoneFollows
