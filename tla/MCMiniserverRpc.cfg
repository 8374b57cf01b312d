CONSTANTS
  rpc1 = rpc1
  None = None
  Rpc <- OneRpc
  InitSteps = 1
  SoftSteps = {}
SPECIFICATION Spec
CONSTRAINT NoOverlap
CHECK_DEADLOCK FALSE
INVARIANT StopHolds
