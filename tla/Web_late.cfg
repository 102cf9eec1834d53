\* A connection that looked the session up comes to hold it while it is being released.
SPECIFICATION WebSpec
CONSTANTS
  c1 = c1
  c2 = c2
  Conns <- TwoConns
  Creator = c1
  MaxChunks = 2
  MaxRequests = 2
  Limit = 2
PROPERTY NeverLate
CHECK_DEADLOCK FALSE
