SPECIFICATION Spec
CONSTANTS
    Request = {r1}
    MaxConcurrentTasks = 1
    ThreadCount = {2}
    TerminationToken = TerminationToken
INVARIANT NotifiesLiveObject
