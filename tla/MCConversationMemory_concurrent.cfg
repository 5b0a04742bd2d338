SPECIFICATION Spec
CONSTANTS
  u1 = u1
  u2 = u2
  Users = {u1, u2}
  Nobody = Nobody
  NoEntry = NoEntry
  NoMessage = NoMessage
  Limit = 2
  r1 = r1
  r2 = r2
  Requests = {r1, r2}
  MaxRequests = 3
  SearchFails = TRUE
  Posts = TRUE
  Edits = TRUE
  RedisFails = TRUE
  Faults = TRUE
SYMMETRY Slots
INVARIANTS
  TurnsInOrder
  OwnersOnly
  DeletedStaysGone
  RecallsCommitted
PROPERTIES
  EditsKeepApart
