SPECIFICATION FairSpec
CONSTANTS
  Limit = 1
  r1 = r1
  r2 = r2
  r3 = r3
  Requests = {r1, r2, r3}
  Capacity = 2
  Attempts = 2
  MaxWork = 1
  LateExit = TRUE
INVARIANTS
  PoolAdvances
  CountersExpire
PROPERTIES
  RequestsEnd
