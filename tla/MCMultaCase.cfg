CONSTANTS
    m1 = m1  s1 = s1  s2 = s2
    r1 = r1  r2 = r2  r3 = r3  r4 = r4  w1 = w1  w2 = w2
    NoSession = NoSession  NoCase = NoCase
    Multas = {m1}
    Sessions = {s1, s2}
    Requests = {r1, r2, r3, r4}
    Workers = {w1, w2}
    AsyncPayments = TRUE
    MaxAttempts = 2
    MaxFaults = 1
SPECIFICATION MCSpec
INVARIANTS TypeOK PaidHasReport ReportLostOnlyByStaleWrite
PROPERTIES KeepsCasePromise PaidIsReported
CHECK_DEADLOCK FALSE
