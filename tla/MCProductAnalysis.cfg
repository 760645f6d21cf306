CONSTANTS
    None = None
    Callers <- AllCallers
    Requests <- Bodies
    BrokenResults <- AllBroken
    MaxRequests = 2
    Window = 2
    Block = 2
    Capacity = 2
    MaxTime = 3
    MaxCalls = 3
    MaxFaults = 3
SPECIFICATION MCSpec
INVARIANTS TypeOK WaitingIsEnough FaultsStayReported SimulationSeesFaults
CHECK_DEADLOCK FALSE
