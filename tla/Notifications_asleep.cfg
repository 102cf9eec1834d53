\* One publisher and one wait.
SPECIFICATION Spec
CONSTANTS
  p1 = p1
  p2 = p2
  w1 = w1
  w2 = w2
  c1 = c1
  A = A
  B = B
  Publishers <- OnePublisher
  Waiters <- OneWaiter
  Commands <- NoCommand
  Sessions <- TwoSessions
  MaxPerSession = 2
  MaxArchive = 2
  MaxPublished = 4
INVARIANTS
  WokenAtOnce
