SPECIFICATION Spec
CONSTANTS
  NProcs = 3
  NCells = 4
  Cutoff = 0
  Boundary <- Ring
  Settings <- OneValue
INVARIANTS
  CollatedOnce
