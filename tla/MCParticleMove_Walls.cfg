SPECIFICATION FairSpec
CONSTANTS
    NProcs = 3
    NCells = 4
    Cutoff <- AllCells
    Boundary <- Wall
    Starts <- AtWalls
    Ids = {1, 2, 3, 4}
    Decompositions <- Slabs
    NHalves = 2
    Optmove = FALSE
    Weighted = TRUE
    Chunk = 2
INVARIANTS
    TypeOK
    ArrayHasRoom
