SPECIFICATION FairSpec
CONSTANTS
    NProcs = 3
    NCells = 4
    Cutoff = 0
    Boundary <- AroundBox
    Starts <- Pairs
    Ids = {1, 2, 3, 4}
    Decompositions <- Slabs
    NHalves = 3
    Optmove = FALSE
    Weighted = FALSE
    Chunk = 2
INVARIANTS
    NoUnknownNeighbors
    HandedOn
    MlistHasRoom
