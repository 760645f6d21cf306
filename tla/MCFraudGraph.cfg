CONSTANTS
    Blank = Blank
    Labels = {"A", "B", "u", "w", "x", "J", "K", "t", "s"}
    Pools <- Lots
    Times <- Moments
    H24 = 1
    D7 = 3
    D30 = 5
    Repeats = 3
    Burst = 4
SPECIFICATION FraudSpec
INVARIANTS SignalsAreWarranted OrderIsIrrelevant
PROPERTY NeverCalmer
CHECK_DEADLOCK FALSE
