SPECIFICATION Spec
CONSTANTS
    NumTasks = 5
    NumBarriers = 4
    NumFifos = 2
    DmaFifos = {1}
    NumPids = 2
    ProducerSlots = 4
    TotalSlots = 6
    Program <- Functions
    Width = 1
    Span = 4
    OneWait = TRUE
    StartMode = {"legalize"}
    AssignMode = {"assign"}
    Wlm = {TRUE}
INVARIANT
    PrevVidIsLastUse
