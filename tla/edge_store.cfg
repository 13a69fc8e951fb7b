SPECIFICATION Spec
CONSTANTS
  FetchHistory = 2
  Window = 1
  GoodEnough = 4
  FetchTimeout = 10
  FetchTimes = {1, 6, 8, 10}
  ModesAsked = {"available", "unavailable"}
  HourTimes = {0, 1, 2, 4}
  MaxTime = 4
  None = None
  Torn = Torn
INVARIANTS
  TypeOK
  HistoryBounded
  HistoryIsNewest
  FailedFetchFails
  FasterIsNeverWorse
  OperatorModeKept
