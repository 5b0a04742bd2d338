SPECIFICATION FairSpec
CONSTANTS
  N = 2
  TypeOf <- Types2
  DeclaredAccess <- Declared2
  Consequential <- Second
  Redacted <- None
  Unavailable <- None
  MaxRetries <- Retries2
  r1 = r1
  r2 = r2
  Requests = {r1, r2}
  MaxRequests = 4
  ExecCap = 0
  Faults = FALSE
PROPERTIES
  TerminalIsFinal
