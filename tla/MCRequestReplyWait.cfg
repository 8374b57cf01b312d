CONSTANTS
  t1 = t1
  t2 = t2
  command = command
  close = close
  None = None
  Threads <- OneThread
  Commands <- OneCommand
  CloseCommand = close
  WaitForSeconds = 15
  MaxCalls = 1
SPECIFICATION Spec
INVARIANT
  WaitsForSeconds
CHECK_DEADLOCK FALSE
