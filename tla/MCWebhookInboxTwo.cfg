CONSTANTS
    p1 = p1  p2 = p2  e1 = e1  e2 = e2  d1 = d1  d2 = d2  d3 = d3
    Procs <- TwoProcs
    Events <- OneEvent
    Deliveries <- TwoDeliveries
    MaxAttempts = 2
    RecoverLimit = 1
    MaxCrashes = 1
    MaxFaults = 1
SPECIFICATION TwoSpec
INVARIANT ProcessingHasOwner
PROPERTIES SettledUnlessHarmed KeepsClaims NoEffectAfterProcessed
CHECK_DEADLOCK FALSE
