CONSTANTS
  Calls = {c1, c2}
  Tokens = {t1, t2}
  LastVersion = 3
  Rejected = {2}
  CacheTTL = 2
  Capacity = 1
  Slots = 1
  MaxTime = 3
SPECIFICATION Spec
SYMMETRY Symmetry
INVARIANTS
  TypeOK
  ServedRecently
  EntriesFresh
  CacheBounded
PROPERTIES
  LiveEntryKept
