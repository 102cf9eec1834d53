\* One client at a time: every kind of stdout delivery against the reader.
SPECIFICATION Spec
CONSTANTS
  MaxSize = 4
  MaxChunk = 3
  MaxStream = 8
  h1 = h1
  Handlers <- OneHandler
  Kinds <- StdoutKinds
INVARIANTS
  NoDrift
  ReadIsContiguous
CHECK_DEADLOCK TRUE
PROPERTIES
  ImplementsWindow
