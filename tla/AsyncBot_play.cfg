SPECIFICATION FairSpec
CONSTANTS
  MaxCalls = 4
  MaxVisits = 2
INVARIANTS
  OneOwner
PROPERTIES
  MoveIsThere
  StopReturns
  BotSpec
CHECK_DEADLOCK FALSE
