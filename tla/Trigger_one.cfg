\* One client that waits twice, while output comes, is cut and is trimmed.
SPECIFICATION FairSpec
CONSTANTS
  MaxSize = 3
  MaxChunk = 3
  MaxStream = 6
  w1 = w1
  w2 = w2
  A = A
  B = B
  Waiters <- OneWaiter
  Patterns <- TwoPatterns
  Width = 2
  Overlap = 1
  MaxScan = 4
  MaxRounds = 2
  NewlineSets <- SomeNewlines
INVARIANTS
  NoMissedMatch
  MatchIsReal
PROPERTIES
  WaitReturns
