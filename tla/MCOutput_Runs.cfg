SPECIFICATION Spec
CONSTANTS
  Scripts <- MCScripts
  Computes = {"c1", "c2"}
INVARIANTS
  TalliedWhenUsed
  DumpsOnTime
  RestartsOnTime
  StatsOnTime
  WindowsAreFull
CHECK_DEADLOCK FALSE
