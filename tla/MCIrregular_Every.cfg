SPECIFICATION FairSpec
CONSTANTS
    NProcs = 3
    Program <- EveryMethod
    Loads <- EveryLoad
    Sort <- SomeSorted
INVARIANTS
    PlanAgrees
    NothingOvertakes
    WildcardsHearSizes
    IrecvsFit
    ReverseNamesSenders
PROPERTIES
    ImplementsDatumExchange
