CONSTANTS
  r1 = r1
  r2 = r2
  r3 = r3
  r4 = r4
  c1 = c1
  c2 = c2
  k1 = k1
  Requests = {r1, r2, r3}
  Clients = {c1, c2}
  NoKey = NoKey
  NoIdempotencyKey = NoIdempotencyKey
  None = None
  Arrivals <- MCArrivals
  Limit <- MCLimit
  Threshold = 3
  Window = 1
  Block = 1
  Ttl = 1
  AllowlistOn = TRUE
  MaxTime = 4
SPECIFICATION MCSpec
SYMMETRY Symmetry
INVARIANTS BlocksMatchOffences OneRunPerKey RepliesAreOwn
CHECK_DEADLOCK FALSE
