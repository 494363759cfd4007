SPECIFICATION FairSpec
CONSTANTS
    Request = {r1, r2, r3}
    MaxConcurrentTasks = 2
    ThreadCount = {1, 2, 3}
    TerminationToken = TerminationToken
INVARIANTS
    TypeOK
    TasksCounted
    OneWaiter
    TeardownUpToNotify
PROPERTIES
    ReturnsUnlessWakeupMissed
    FoldedUnlessWakeupMissed
    ImplementsService
