SPECIFICATION Spec
CONSTANTS
  e1 = e1
  e2 = e2
  Emails = {e1, e2}
  n1 = n1
  n2 = n2
  Names = {n1, n2}
  Nobody = Nobody
  r1 = r1
  r2 = r2
  Requests = {r1, r2}
  MaxRequests = 4
  Faults = TRUE
SYMMETRY Slots
INVARIANTS
  OneAccountEach
  RotationIsAtomic
  UsedIsUsedUp
