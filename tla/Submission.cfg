CONSTANTS
  Calls = {c1, c2}
  alice = alice
  bob = bob
  x = x
  y = y
  Callers = {alice, bob}
  NoOne = NoOne
  Values = {x, y}
  Absent = Absent
  Other = Other
  NoURL = NoURL
  Inputs <- Cascade
  Payloads <- CascadePayloads
  AllowedCallers = {}
  RequireIdentity = TRUE
  LastVersion = 2
  Grants <- MCGrants
  FetchTimeout = 1
  MaxTime = 3
SPECIFICATION Spec
SYMMETRY Symmetry
INVARIANTS
  TypeOK
  EntriesFresh
  EnqueuedGranted
  DependenciesGranted
  OwnLists
