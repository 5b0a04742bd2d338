SPECIFICATION Spec
CONSTANTS
  N = 3
  TypeOf <- Types3
  DeclaredAccess <- Declared3
  Consequential <- Second
  Redacted <- None
  Unavailable <- None
  MaxRetries <- Retries3
  r1 = r1
  r2 = r2
  Requests = {r1, r2}
  MaxRequests = 4
  ExecCap = 3
  Faults = TRUE
SYMMETRY Slots
INVARIANTS
  TypeOK
  ConsequentialAtMostOnce
  ActedOnlyOnApproval
  WaitingAtOneGate
  CompletedWasCalled
  CancelledLeavesNothingPending
  GateInv
  TriesAreBounded
PROPERTIES
  DecisionsAreFinal
  ImplementsPromise
