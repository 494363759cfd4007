SPECIFICATION FairLegalizationSpec
CONSTANTS
    NumTasks = 5
    NumBarriers = 16
    NumFifos = 2
    DmaFifos = {1}
    NumPids = 2
    ProducerSlots = 8
    TotalSlots = 6
    Program <- Functions
    Width = 1
    Span = 4
    OneWait = FALSE
    Wired = 4
    StartMode = {"legalize"}
    AssignMode = {"assign"}
    Wlm = {TRUE}
    WlmThreshold = 4
    Uneven = {TRUE}
INVARIANT
    ActiveCountReduced
