SPECIFICATION Spec
CONSTANTS
  Loads <- MCLoads
INVARIANTS
  AnswerIsAwaited
  HalvesBalanced
  LoadBalanced
  OwnersKnown
PROPERTIES
  Ends
CHECK_DEADLOCK FALSE
