CONSTANTS
  r1 = r1
  r2 = r2
  r3 = r3
  r4 = r4
  w1 = w1
  w2 = w2
  s1 = s1
  s2 = s2
  ana = ana
  ben = ben
  acme = acme
  beta = beta
  People = {ana, ben}
  Slugs = {acme, beta}
  Requests = {r1, r2, r3}
  Workers = {w1, w2}
  Subscriptions = {s1}
  Changes <- MCChanges
  Production = {r1, r2}
  None = None
  MaxCustomers = 2
  MaxVersions = 3
SPECIFICATION MCSpec
SYMMETRY Symmetry
INVARIANTS AccessIsOwn SettledTierIsCurrent PortalReachesSubscriptions
CHECK_DEADLOCK FALSE
