\* remove_by_req_filter erases a front request and exposes a placeholder tag.
CONSTANTS
  Clients <- MCClients
  InfoChoices <- MCInfoChoicesFixed2
  Scale = 2
  SystemCapacity = 2
  WinSize = 2
  AllowLimitBreak = TRUE
  AnticipationTimeout = 0
  IdleAge = 200
  EraseAge = 300
  CheckTime = 4
  DistValues = {1}
  MaxTag = 1000
  MaxTime = 4
  MaxTick = 2
  CallerOps = {"filter"}

SPECIFICATION Spec
INVARIANT FrontTagsComputed
