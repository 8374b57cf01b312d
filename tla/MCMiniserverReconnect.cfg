CONSTANTS
  rpc1 = rpc1
  None = None
  Rpc = {}
  InitSteps = 1
  SoftSteps = {}
SPECIFICATION FairSpec
PROPERTY
  Reconnects
CHECK_DEADLOCK FALSE
