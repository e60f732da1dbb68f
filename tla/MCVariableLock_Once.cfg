SPECIFICATION Spec
CONSTANTS
  NWorlds = 3
  NValues = 5
  NLoops = 1
  LongRuns = TRUE
INVARIANTS
  EachOnce
PROPERTIES
  ImplementsSharedIndex
CHECK_DEADLOCK FALSE
