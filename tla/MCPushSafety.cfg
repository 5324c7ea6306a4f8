\* The push facade without limit break: R/B clients, one request handled
\* at a time, so dispatch waits on completions and on the sched_ahead thread.
CONSTANTS
  Clients <- MCPushClients
  InfoChoices <- MCPushInfoRB
  Scale = 2
  SystemCapacity = 2
  WinSize = 2
  AllowLimitBreak = FALSE
  AnticipationTimeout = 0
  IdleAge = 200
  EraseAge = 300
  CheckTime = 4
  DistValues = {1}
  MaxTag = 1000
  MaxTime = 4
  MaxTick = 3
  CallerOps = {}
  Capacity = 1
  Shutdown = TRUE

SPECIFICATION Spec
\* the bounded clock stops at MaxTime, and an idle queue waits for calls
CHECK_DEADLOCK FALSE
INVARIANT TypeOK
INVARIANT NoStrandedRequest
