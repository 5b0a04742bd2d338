SPECIFICATION FairSpec
CONSTANTS
  ChunkSize = 4
  Overlap = 1
  TextOf <- MCTextOf
  d1 = d1
  d2 = d2
  Documents = {d1, d2}
  x1 = x1
  x2 = x2
  Deletions = {x1, x2}
  NoDocument = NoDocument
  Users = {u1, u2}
  u1 = u1
  u2 = u2
  OwnerOf <- MCOwnerOf
  s1 = s1
  Searches = {s1}
  DatabaseFails = TRUE
  Faults = TRUE
INVARIANTS
  ReadyIsComplete
  SearchesSeeWhole
  NoFileForgotten
PROPERTIES
  SettledStays
  UploadsSettle
  DeletionsEnd
