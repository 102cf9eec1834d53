\* The program of a new session ends before the create handler subscribes.
SPECIFICATION WebSpec
CONSTANTS
  c1 = c1
  c2 = c2
  Conns <- TwoConns
  Creator = c1
  MaxChunks = 2
  MaxRequests = 2
  Limit = 2
INVARIANT AlwaysReleased
CHECK_DEADLOCK FALSE
