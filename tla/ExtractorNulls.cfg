SPECIFICATION Spec
CONSTANTS
  NoEngine = NoEngine
  NoOne = NoOne
  NoRun = NoRun
  Keys = {1, 2}
  Runs = {r1}
  Starts <- LegacyShadow
  PageSize = 1
  Lookback = 2
  CommitDelay = 1
  RunTime = 1
  Obstacles = {}
  Requests = {"start_shadow", "abort_shadow"}
  MaxClock = 2
  MaxWrites = 1
  MaxEpoch = 5
  MaxFaults = 0
INVARIANT NothingLeftBehind
CHECK_DEADLOCK FALSE
