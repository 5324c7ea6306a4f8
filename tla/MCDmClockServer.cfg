\* The core scheduler: one R/B client and one B/A client, with class changes
\* at window roll-overs, limit break allowed.
CONSTANTS
  Clients <- MCClients
  InfoChoices <- MCInfoChoicesCore
  Scale = 2
  SystemCapacity = 2
  WinSize = 2
  AllowLimitBreak = TRUE
  AnticipationTimeout = 0
  IdleAge = 200
  EraseAge = 300
  CheckTime = 4
  DistValues = {1}
  MaxTag = 1000
  MaxTime = 4
  MaxTick = 3
  CallerOps = {}

SPECIFICATION Spec
INVARIANT TypeOK
INVARIANT TotalWeightConsistent
INVARIANT ResourceIsShare
INVARIANT HeapsMatchClass
PROPERTY FrontTagsAdvance
PROPERTY ReservationsFirst
PROPERTY WorkConserving
PROPERTY FifoRefinement
