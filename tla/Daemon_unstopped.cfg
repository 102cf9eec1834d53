\* One client starts a daemon and stops it by a command.
SPECIFICATION Spec
CONSTANTS
  d1 = d1
  d2 = d2
  c1 = c1
  c2 = c2
  Daemons <- TwoDaemons
  Clients <- TwoClients
  Commands = {"start", "stop", "call"}
  MaxCommands = 3
  MaxRotations = 1
  MaxKills = 0
SYMMETRY Alike
INVARIANT SessionsStopped
CHECK_DEADLOCK FALSE
