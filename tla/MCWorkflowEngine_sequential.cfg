SPECIFICATION Spec
CONSTANTS
  N = 5
  TypeOf <- Types5
  DeclaredAccess <- Declared5
  Consequential <- SecondAndFifth
  Redacted <- Fifth
  Unavailable <- None
  MaxRetries <- Retries5
  r1 = r1
  Requests = {r1}
  MaxRequests = 7
  ExecCap = 0
  Faults = TRUE
INVARIANTS
  RunningCanGoOn
  ProgressIsRecorded
  PendingWhileWaiting
  RedactedNeverCalled
PROPERTIES
  TerminalIsFinal
  LapsedOnlyCancels
  ActsOnCommittedState
