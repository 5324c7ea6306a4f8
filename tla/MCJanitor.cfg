\* The janitor: idle marking and erasure every time unit, one client that
\* may change class, one fixed B client; no limit break, so pulls also
\* return None and Future while requests are queued.
CONSTANTS
  Clients <- MCClients
  InfoChoices <- MCInfoChoicesFixed2
  Scale = 2
  SystemCapacity = 2
  WinSize = 2
  AllowLimitBreak = FALSE
  AnticipationTimeout = 0
  IdleAge = 2
  EraseAge = 2
  CheckTime = 1
  DistValues = {1}
  MaxTag = 1000
  MaxTime = 4
  MaxTick = 2
  CallerOps = {}

SPECIFICATION Spec
INVARIANT TotalWeightConsistent
INVARIANT ResourceIsShare
PROPERTY PollIdempotent
