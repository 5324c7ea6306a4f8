\* Without limit break a ready limit-heap top with an exhausted budget reaches next_call.
CONSTANTS
  Clients <- MCClients
  InfoChoices <- MCInfoChoicesCore
  Scale = 2
  SystemCapacity = 2
  WinSize = 2
  AllowLimitBreak = FALSE
  AnticipationTimeout = 0
  IdleAge = 200
  EraseAge = 300
  CheckTime = 4
  DistValues = {1}
  MaxTag = 1000
  MaxTime = 4
  MaxTick = 3
  CallerOps = {}

SPECIFICATION Spec
PROPERTY FutureIsAhead
