\* A B client that becomes R keeps the compensated info it was created with.
CONSTANTS
  Clients <- MCClients
  InfoChoices <- MCInfoChoicesCore
  Scale = 2
  SystemCapacity = 2
  WinSize = 2
  AllowLimitBreak = TRUE
  AnticipationTimeout = 0
  IdleAge = 200
  EraseAge = 300
  CheckTime = 4
  DistValues = {1}
  MaxTag = 1000
  MaxTime = 4
  MaxTick = 3
  CallerOps = {}

SPECIFICATION Spec
INVARIANT CompensatedInfoCurrent
