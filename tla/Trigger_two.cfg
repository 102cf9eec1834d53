\* Two clients wait on one session.
SPECIFICATION Spec
CONSTANTS
  MaxSize = 4
  MaxChunk = 3
  MaxStream = 3
  w1 = w1
  w2 = w2
  A = A
  B = B
  Waiters <- TwoWaiters
  Patterns <- TwoPatterns
  Width = 2
  Overlap = 1
  MaxScan = 3
  MaxRounds = 1
  NewlineSets <- NoNewlines
INVARIANTS
  WaiterOwnsTrigger
