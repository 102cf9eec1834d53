\* Somebody edits a file while the daemon waits for the new one that will replace it.
SPECIFICATION TransferSpec
CONSTANTS
  f1 = f1
  f2 = f2
  Conns = {1}
  Files <- MCFiles
  Place <- MCPlace
  Sizes = {1, 2}
  MaxTransfers = 3
  MaxEdits = 1
  MaxCrashes = 1
INVARIANT OverwrittenIsRecoverable
CHECK_DEADLOCK FALSE
