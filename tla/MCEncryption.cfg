SPECIFICATION Spec
CONSTANTS
  None = None
  InitThread = init
  Refresher = refresh
  Unused = Unused
  Callers = {rpc1}
  MaxUses = 2
  Salts = {1, 2, 3}
  MaxWire = 1
  Senders = {rpc1, rpc2}
  MaxSalts = 3
  MaxLosses = 1
  MaxConnections = 3
  MaxKeys = 4
CHECK_DEADLOCK FALSE
INVARIANTS
  InStep
  OneAnswer
  NotRefused
  UpdatesLoggedIn
PROPERTY Resyncs
