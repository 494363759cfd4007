SPECIFICATION FairSpec
CONSTANTS
    NumTasks = 5
    NumBarriers = 3
    NumFifos = 2
    DmaFifos = {1}
    NumPids = 2
    ProducerSlots = 4
    TotalSlots = 6
    Program <- Functions
    Width = 1
    Span = 4
    OneWait = FALSE
    StartMode = {"legalize", "assign"}
    AssignMode = {"assign", "order"}
    Wlm = {TRUE, FALSE}
INVARIANTS
    TypeOK
    PidsExact
    SimulationsSucceed
    ReuseOrdered
    FinalBarrierMeansFinished
PROPERTIES
    SimulationEnds
    ImplementsSchedule
