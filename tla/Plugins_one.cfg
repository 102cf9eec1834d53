\* Two instances of one plugin, one request thread beside the reader and the
\* monitor, and two commands that wait.
SPECIFICATION Spec
CONSTANTS
  a1 = a1
  a2 = a2
  h1 = h1
  w1 = w1
  w2 = w2
  Instances <- TwoInstances
  NameOf <- OneName
  Handlers = {h1}
  Waiters = {w1, w2}
INVARIANTS
  UnloadNotForgotten
  AttachedIsHooked
  DetachedOnce
  ReturnIsOwn
SYMMETRY Alike
