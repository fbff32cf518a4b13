SPECIFICATION Spec
CONSTANTS
  t1 = t1
  t2 = t2
  Threads <- MCThreads
  Priority <- MCPriority
  Reporting <- MCReporting
  MaxRequests = 2
  MaxActions = 1
INVARIANTS
  OneFinalReply
  StopHitsItsOwn
  LiveRequests
PROPERTIES
  Concludes
  BotsKept
CHECK_DEADLOCK FALSE
