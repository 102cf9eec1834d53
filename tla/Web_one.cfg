\* Two connections, one of which creates the session, make two more requests, of which the
\* polling that stops the session may take the place of one; two chunks of output.  The
\* system stops when the requests are used up, so a deadlock is no error.
SPECIFICATION WebSpec
CONSTANTS
  c1 = c1
  c2 = c2
  Conns <- TwoConns
  Creator = c1
  MaxChunks = 2
  MaxRequests = 2
  Limit = 2
INVARIANTS
  PushedInOrder
  EndIsTold
  NothingMissed
  ReleasedWhenLeft
  KeptWhileHeld
CHECK_DEADLOCK FALSE
