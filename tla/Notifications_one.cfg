\* Two publishers, two waits and a command, with more notifications than the
\* queue and the archive keep.
SPECIFICATION Spec
CONSTANTS
  p1 = p1
  p2 = p2
  w1 = w1
  w2 = w2
  c1 = c1
  A = A
  B = B
  Publishers <- TwoPublishers
  Waiters <- TwoWaiters
  Commands <- OneCommand
  Sessions <- TwoSessions
  MaxPerSession = 2
  MaxArchive = 2
  MaxPublished = 4
SYMMETRY Alike
INVARIANTS
  CountIsExact
  NothingLost
  GivenOnce
