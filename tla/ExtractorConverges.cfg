SPECIFICATION FairSpec
CONSTANTS
  NoEngine = NoEngine
  NoOne = NoOne
  NoRun = NoRun
  Keys = {1, 2}
  Runs = {r1}
  Starts <- AllStarts
  PageSize = 1
  Lookback = 2
  CommitDelay = 1
  RunTime = 1
  Obstacles = {"lag", "cob", "dormant"}
  Requests = {"start_shadow", "abort_shadow", "pause", "resume"}
  MaxClock = 1
  MaxWrites = 2
  MaxEpoch = 5
  MaxFaults = 1
PROPERTY CopyConverges
CHECK_DEADLOCK FALSE
