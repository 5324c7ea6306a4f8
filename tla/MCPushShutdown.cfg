\* The push facade destroyed while the sched_ahead thread runs its loop.
CONSTANTS
  Clients <- MCPushClients
  InfoChoices <- MCPushInfoBA
  Scale = 2
  SystemCapacity = 2
  WinSize = 2
  AllowLimitBreak = TRUE
  AnticipationTimeout = 0
  IdleAge = 200
  EraseAge = 300
  CheckTime = 4
  DistValues = {1}
  MaxTag = 1000
  MaxTime = 4
  MaxTick = 1
  CallerOps = {}
  Capacity = 1
  Shutdown = TRUE

SPECIFICATION Spec
\* the bounded clock stops at MaxTime, and an idle queue waits for calls
CHECK_DEADLOCK FALSE
PROPERTY DestructorReturns
