CONSTANTS
  t1 = t1
  t2 = t2
  command = command
  close = close
  None = None
  Threads <- MCThreads
  Commands <- MCCommands
  CloseCommand = close
  WaitForSeconds = 3
  MaxCalls = 3
SPECIFICATION Spec
SYMMETRY ThreadSymmetry
INVARIANTS
  TypeOK
  OneExchange
  EntryOwned
  AnswersMatch
  StaleNeedsGiveUp
  WaitsAtMostHalf
PROPERTIES
  EntryKept
CHECK_DEADLOCK FALSE
