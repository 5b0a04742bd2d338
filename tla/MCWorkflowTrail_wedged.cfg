SPECIFICATION TrailSpec
CONSTANTS
  N = 2
  TypeOf <- Types2
  DeclaredAccess <- Declared2
  Consequential <- Second
  Redacted <- None
  Unavailable <- None
  MaxRetries <- Retries2
  r1 = r1
  Requests = {r1}
  MaxRequests = 4
  ExecCap = 0
  Faults = TRUE
  TrailCap = 2
INVARIANTS
  ResumedReachesItsGate
