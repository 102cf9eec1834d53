\* Every acyclic graph of three steps with every on_error policy, on one worker
\* and on two.
SPECIFICATION FairSpec
CONSTANTS
  a = a
  b = b
  c = c
  S = S
  name = name
  template = template
  Steps <- ThreeSteps
  Texts <- TwoTexts
  Sessions <- OneSession
  Definitions <- AllDefinitions
  DrainMayTimeOut = TRUE
INVARIANTS
  DependenciesFirst
  OneStepPerSession
  DoneMeansDone
  AllAccounted
PROPERTIES
  SettledStays
  RunEnds
