SPECIFICATION Spec
CONSTANTS
  Settings <- RoundTrips
  Data <- MCData
INVARIANTS
  Readable
CHECK_DEADLOCK FALSE
