SPECIFICATION Spec
CONSTANTS
  None = None
  Unused = Unused
  Uuid = uuid
  Rooms <- MCRooms
  NoRoom = NoRoom
  Default = Default
  Entries <- MCEntries
  Interfaces = {i1, i2}
  MaxSaves = 3
  MaxCrashes = 2
  KindEntries <- MCKindEntries
  KindInterfaces = {i1}
  MaxKindSaves = 2
  MaxKindCrashes = 1
  Callers = {c1, c2}
  Clients = {client}
  Searcher = search
  Values = {x, y}
  MaxSteps = 3
  Channels = 3
  MaxEntries = 4
  MaxPackets = 4
  u1 = u1
  u2 = u2
  u3 = u3
  r1 = r1
  r2 = r2
  kitchen = kitchen
  hall = hall
  x = x
  y = y
CHECK_DEADLOCK FALSE
INVARIANTS
  RowsFaithful
  OwnValues
  Carried
  ParametersAgree
  EntriesShown
PROPERTY HomeKept
