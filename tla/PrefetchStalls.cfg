SPECIFICATION FairAllocSpec
CONSTANTS
    Programs <- Starved
    BarrierLimit = 4
    LevelLimit = 2
    Options <- Defaults
INVARIANT PrefetchedNoLater
