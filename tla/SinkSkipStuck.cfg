SPECIFICATION FairSpec
CONSTANTS
  NoEngine = NoEngine
  NoOne = NoOne
  NoWorker = NoWorker
  s1 = s1
  s2 = s2
  s3 = s3
  k1 = k1
  p1 = p1
  Sources = {s1, s2}
  Keys = {k1}
  Partitions = {p1}
  Workers = {w1}
  Log <- MixedLog
  InitialOwner <- Mixed
  SkipUnknown = FALSE
  OffsetReset = FALSE
  MaxBatch = 2
  QuarantineRows = 1
  QuarantinePercent = 10
  Requests = {}
  Operated = {s1, s2}
  MaxEpoch = 3
  MaxGeneration = 1
  MaxFaults = 0
  MaxExpired = 0
PROPERTY UnownedTablesAreSkipped
