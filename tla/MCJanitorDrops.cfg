\* The janitor erasing a client whose requests are still queued.
CONSTANTS
  Clients <- MCClients
  InfoChoices <- MCInfoChoicesFixed2
  Scale = 2
  SystemCapacity = 2
  WinSize = 2
  AllowLimitBreak = TRUE
  AnticipationTimeout = 0
  IdleAge = 2
  EraseAge = 2
  CheckTime = 1
  DistValues = {1}
  MaxTag = 1000
  MaxTime = 4
  MaxTick = 2
  CallerOps = {}

SPECIFICATION Spec
PROPERTY NoQueuedRequestErased
