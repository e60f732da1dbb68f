SPECIFICATION FairSpec
CONSTANTS
    NProcs = 3
    NCells = 5
    Cutoff = 1
    Boundary <- AroundBox
    Starts <- Four
    Ids = {1, 2, 3, 4}
    Decompositions <- WideSlabs
    NHalves = 2
    Optmove = TRUE
    Weighted = FALSE
    Chunk = 2
INVARIANTS
    SerialMove
    InStoredCell
PROPERTIES
    AllFinish
