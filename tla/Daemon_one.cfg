\* Two clients give three commands; one rotation and one crash.  The system stops when the
\* commands are used up, so a deadlock is no error.
SPECIFICATION Spec
CONSTANTS
  d1 = d1
  d2 = d2
  c1 = c1
  c2 = c2
  Daemons <- TwoDaemons
  Clients <- TwoClients
  Commands = {"start", "stop", "call"}
  MaxCommands = 3
  MaxRotations = 1
  MaxKills = 1
SYMMETRY Alike
INVARIANTS
  TokensHonoured
  StoppedOrBeingStopped
PROPERTIES
  FilesHaveOneOwner
CHECK_DEADLOCK FALSE
