SPECIFICATION Spec
CONSTANTS
  a = a
  b = b
  t = t
  Unused = Unused
  Tables = {"value", "daytimer"}
  Signals = {"keepalive"}
  Handshake = 2
  MaxRead = 5
  MaxMessages = 6
  MaxConnections = 2
  MaxEntries = 3
  MaxCount = 5
CHECK_DEADLOCK FALSE
INVARIANTS
  MessagesIntact
  EntriesIntact
PROPERTIES
  LoopEnds
  DeletionEnds
  
