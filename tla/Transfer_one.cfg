\* One connection with three transfers of two files one after the other, one edit on either side
\* and one death of the daemon.  The system stops when the transfers are used up, so a deadlock
\* is no error.
SPECIFICATION FairSpec
CONSTANTS
  f1 = f1
  f2 = f2
  Conns = {1}
  Files <- MCFiles
  Place <- MCPlace
  Sizes = {1, 2}
  MaxTransfers = 3
  MaxEdits = 1
  MaxCrashes = 1
INVARIANTS
  SkippedIsSame
  ReportWithinOne
  AckedIsRecoverable
PROPERTIES
  TransferEnds
CHECK_DEADLOCK FALSE
