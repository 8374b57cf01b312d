SPECIFICATION Spec
CONSTANTS
  a = a
  b = b
  c = c
  u1 = u1
  u2 = u2
  v = v
  Actions <- MCActions
  Uuids <- MCUuids
  StateOf <- MCStateOf
  Described <- MCDescribed
  Absent = Absent
  Rooms = {r}
  Serials = {s1, s2}
  MaxPeers = 3
  MaxCrashes = 2
  MaxDeletes = 2
  QuickHolders = TRUE
SYMMETRY Symmetry
CONSTRAINT CrashesAndDeletions
CHECK_DEADLOCK FALSE
INVARIANTS
  IndexesAgree
  
  
  NoOrphanRows
  HeardSinceStart
PROPERTY SearchesSettle
