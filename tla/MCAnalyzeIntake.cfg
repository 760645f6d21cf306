CONSTANTS
    p1 = p1  p2 = p2  u1 = u1  u2 = u2  c1 = c1  c2 = c2  k1 = k1
    i1 = i1  i2 = i2  i3 = i3
    NoKey = NoKey  NoRow = NoRow
    Procs <- TwoProcs
    Users <- TwoUsers
    Contents <- OneContent
    Keys <- OneKey
    Requests <- TwoRequests
    Limit = 1
    MaxRetries = 2
    Days = 2
    MaxFaults = 1
SPECIFICATION FairSpec
INVARIANTS TypeOK CountedOnce QuotaHoldsAlone
PROPERTY Answered
CHECK_DEADLOCK FALSE
