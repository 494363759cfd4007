SPECIFICATION FairAllocSpec
CONSTANTS
    Programs <- TwoPortPrograms
    BarrierLimit = 4
    LevelLimit = 2
    Options <- Defaults
INVARIANT DataReachesReaders
