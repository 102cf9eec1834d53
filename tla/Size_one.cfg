\* Two tabs of one user and one of another choose sizes twice.  The system stops when the
\* choices are used up and the tabs are closed, so a deadlock is no error.
SPECIFICATION Spec
CONSTANTS
  c1 = c1
  c2 = c2
  c3 = c3
  u1 = u1
  u2 = u2
  s1 = s1
  s2 = s2
  Conns <- ThreeConns
  Users <- TwoUsers
  User <- Two_One
  Sizes <- TwoSizes
  FirstSize = s1
  Reader = Reader
  MaxChoices = 2
SYMMETRY Alike
INVARIANTS
  BeliefAgrees
  OwnerHasConnection
  ScreenIsTerminal
CHECK_DEADLOCK FALSE
