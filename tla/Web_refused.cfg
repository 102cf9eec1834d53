\* The stop of polling is not finished when the reader asks for the release.
SPECIFICATION WebSpec
CONSTANTS
  c1 = c1
  c2 = c2
  Conns <- TwoConns
  Creator = c1
  MaxChunks = 2
  MaxRequests = 2
  Limit = 2
INVARIANT NeverRefused
CHECK_DEADLOCK FALSE
