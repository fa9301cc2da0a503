SPECIFICATION Spec
CONSTANTS
  e1 = e1
  e2 = e2
  e3 = e3
  None = None
  Strangers <- MCStrangers
  Requests <- MCReplayOnly
CHECK_DEADLOCK FALSE
INVARIANTS
  UndeliveredReachedNobody
