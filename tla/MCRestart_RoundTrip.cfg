SPECIFICATION Spec
CONSTANTS
  Settings <- RoundTrips
  Data <- MCData
INVARIANTS
  AnswerIsAwaited
  RestoredOnce
  ClumpedIsTrue
PROPERTIES
  Ends
CHECK_DEADLOCK FALSE
