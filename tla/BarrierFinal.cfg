SPECIFICATION Spec
CONSTANTS
    NumTasks = 5
    NumBarriers = 3
    NumFifos = 2
    DmaFifos = {1}
    NumPids = 2
    ProducerSlots = 4
    TotalSlots = 6
    Program <- Functions
    Width = 1
    Span = 4
    OneWait = TRUE
    StartMode = {"legalize"}
    AssignMode = {"assign"}
    Wlm = {FALSE}
INVARIANT
    AssignmentSucceeds
