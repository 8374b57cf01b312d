CONSTANTS
  rpc1 = rpc1
  None = None
  Rpc = {}
  InitSteps = 2
  SoftSteps <- FirstStep
SPECIFICATION FairSpec
CHECK_DEADLOCK FALSE
INVARIANTS
  Watched
  StopHolds
PROPERTIES
  OnlyThrowsStrand
  ReconnectsUnlessSendFails
  StopReturns
