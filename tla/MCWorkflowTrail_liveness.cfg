SPECIFICATION FairTrailSpec
CONSTANTS
  N = 3
  TypeOf <- Types3
  DeclaredAccess <- Declared3
  Consequential <- Second
  Redacted <- None
  Unavailable <- None
  MaxRetries <- Retries3
  r1 = r1
  r2 = r2
  Requests = {r1, r2}
  MaxRequests = 3
  ExecCap = 0
  Faults = FALSE
  TrailCap = 2
INVARIANTS
  EvidenceMatchesState
PROPERTIES
  EveryRequestEnds
  ApprovedIsConsumed
