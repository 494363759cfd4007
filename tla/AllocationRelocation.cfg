SPECIFICATION FairAllocSpec
CONSTANTS
    Programs <- BranchesTogether
    BarrierLimit = 4
    LevelLimit = 2
    Options <- Defaults
INVARIANT MemoryRight
