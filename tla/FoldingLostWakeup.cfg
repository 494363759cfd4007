SPECIFICATION FairSpec
CONSTANTS
    Request = {r1, r2}
    MaxConcurrentTasks = 1
    ThreadCount = {2}
    TerminationToken = TerminationToken
PROPERTY DestructorReturns
