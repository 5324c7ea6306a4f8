\* Caller-driven maintenance: remove_by_client, remove_by_req_filter,
\* update_client_info and update_client_infos interleaved with admission
\* and dispatch: an R client and a B client of either of two weights.
CONSTANTS
  Clients <- MCClients
  InfoChoices <- MCInfoChoicesMaint
  Scale = 2
  SystemCapacity = 2
  WinSize = 2
  AllowLimitBreak = TRUE
  AnticipationTimeout = 0
  IdleAge = 200
  EraseAge = 300
  CheckTime = 4
  DistValues = {1}
  MaxTag = 1000
  MaxTime = 4
  MaxTick = 2
  CallerOps = {"remove", "filter", "update", "updates"}

SPECIFICATION Spec
CONSTRAINT WeightBound
PROPERTY ReservationsFirst
PROPERTY WorkConserving
PROPERTY FifoRefinement
