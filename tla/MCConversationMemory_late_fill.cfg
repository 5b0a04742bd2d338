SPECIFICATION Spec
CONSTANTS
  u1 = u1
  Users = {u1}
  Nobody = Nobody
  NoEntry = NoEntry
  NoMessage = NoMessage
  Limit = 2
  r1 = r1
  r2 = r2
  Requests = {r1, r2}
  MaxRequests = 3
  SearchFails = FALSE
  Posts = FALSE
  Edits = FALSE
  RedisFails = FALSE
  Faults = FALSE
INVARIANTS
  CacheIsCurrent
