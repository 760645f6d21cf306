CONSTANTS
    p1 = p1  p2 = p2  e1 = e1  e2 = e2  d1 = d1  d2 = d2  d3 = d3
    Procs <- OneProc
    Events <- TwoEvents
    Deliveries <- ThreeDeliveries
    MaxAttempts = 2
    RecoverLimit = 1
    MaxCrashes = 1
    MaxFaults = 1
SPECIFICATION Spec
SYMMETRY Symmetry
INVARIANTS TypeOK DurableBeforeAck ProcessedMeansApplied NothingForgotten
PROPERTY KeepsPromise
CHECK_DEADLOCK FALSE
