CONSTANTS
  t1 = t1
  t2 = t2
  command = command
  close = close
  None = None
  Threads <- MCThreads
  Commands <- MCCommands
  CloseCommand = close
  WaitForSeconds = 3
  MaxCalls = 2
SPECIFICATION FairSpec
PROPERTIES
  MutexReleased
  ImplementsSerialCalls
CHECK_DEADLOCK FALSE
