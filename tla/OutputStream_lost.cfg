\* Output appended between the text and its end.
SPECIFICATION Spec
CONSTANTS
  MaxSize = 4
  MaxChunk = 3
  MaxStream = 8
  h1 = h1
  Handlers <- OneHandler
  Kinds <- IncrementalOnly
INVARIANTS
  EndIsEndOfText
