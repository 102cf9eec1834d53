\* The owner of the lock closes the session in its tab and then the tab.
SPECIFICATION Spec
CONSTANTS
  c1 = c1
  c2 = c2
  c3 = c3
  u1 = u1
  u2 = u2
  s1 = s1
  s2 = s2
  Conns <- ThreeConns
  Users <- TwoUsers
  User <- Two_One
  Sizes <- TwoSizes
  FirstSize = s1
  Reader = Reader
  MaxChoices = 2
INVARIANT LockNeedsConnection
CHECK_DEADLOCK FALSE
