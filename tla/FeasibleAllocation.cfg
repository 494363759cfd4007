SPECIFICATION FairAllocSpec
CONSTANTS
    Programs <- MCPrograms
    BarrierLimit = 4
    LevelLimit = 2
    Options <- MCOptions
INVARIANTS AllocTypeOK PassSucceeds ScheduleValid NoConflict DataReachesReaders BuffersAgree ReadyIsReady MemoryRight
PROPERTY ImplementsDataflow
