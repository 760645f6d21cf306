CONSTANTS
    ana = ana  bea = bea  c1 = c1  c2 = c2
    Accounts = {ana, bea}
    Cases = {c1, c2}
    None = None
    PollMaxAttempts = 2
    MaxClicks = 5
SPECIFICATION MCSpec
INVARIANTS ShowsWhatWasAskedLast GreetedIsActing
PROPERTY WaitingEnds
CHECK_DEADLOCK FALSE
