CONSTANTS
  Peers = {p1, p2}
  Authors = {1, 2}
  Messages <- MCMessages
  MaxField = 2
  Cap = 3
  AuthorCap = 2
  MaxClock = 0
  MaxMsgs = 1
  Skew = 1
  Interval = 1
SPECIFICATION Spec
SYMMETRY Symmetry
INVARIANTS TypeOK BufferIsNewest DisplayIsSpaced PutsLikeUpdates PageShowsChat
