\* The push facade without limit break: an A client waiting on its limit.
CONSTANTS
  Clients <- MCPushClients
  InfoChoices <- MCPushInfoBA
  Scale = 2
  SystemCapacity = 2
  WinSize = 2
  AllowLimitBreak = FALSE
  AnticipationTimeout = 0
  IdleAge = 200
  EraseAge = 300
  CheckTime = 4
  DistValues = {1}
  MaxTag = 1000
  MaxTime = 4
  MaxTick = 3
  CallerOps = {}
  Capacity = 1
  Shutdown = FALSE

SPECIFICATION Spec
\* the bounded clock stops at MaxTime, and an idle queue waits for calls
CHECK_DEADLOCK FALSE
INVARIANT NoStrandedRequest
