\* Two steps of one session, of which one writes its name as a template.
SPECIFICATION Spec
CONSTANTS
  a = a
  b = b
  c = c
  S = S
  name = name
  template = template
  Steps <- ThreeSteps
  Texts <- TwoTexts
  Sessions <- OneSession
  Definitions <- AllDefinitions
  DrainMayTimeOut = TRUE
INVARIANTS
  SessionsNeverShared
