\* A step that depends on a step skipped for a failure: the documented
\* propagation along the whole chain of dependents is violated.
SPECIFICATION Spec
CONSTANTS
  a = a
  b = b
  c = c
  S = S
  name = name
  template = template
  Steps <- ThreeSteps
  Texts <- TwoTexts
  Sessions <- OneSession
  Definitions <- AllDefinitions
  DrainMayTimeOut = TRUE
INVARIANTS
  FailureStopsTheChain
