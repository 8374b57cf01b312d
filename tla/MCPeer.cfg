SPECIFICATION Spec
CONSTANTS
  Threads = {t1, t2}
  States <- MCStates
  Frame <- MCFrame
  Stored <- MCStored
  Requests <- MCRequests
  Values = {a, b}
  MaxCalls = 2
  MaxChanges = 2
SYMMETRY MCSymmetry
CHECK_DEADLOCK FALSE
INVARIANTS
  ValuesAgree
  DatabaseFollows
  EventsFollow
