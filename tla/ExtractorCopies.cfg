SPECIFICATION Spec
CONSTANTS
  NoEngine = NoEngine
  NoOne = NoOne
  NoRun = NoRun
  Keys = {1, 2}
  Runs = {r1, r2}
  Starts <- CursorStarts
  PageSize = 1
  Lookback = 2
  CommitDelay = 1
  RunTime = 1
  Obstacles = {}
  Requests = {"start_shadow"}
  MaxClock = 4
  MaxWrites = 3
  MaxEpoch = 3
  MaxFaults = 0
INVARIANTS TypeOK NothingLeftBehind
SYMMETRY RunSymmetry
CHECK_DEADLOCK FALSE
