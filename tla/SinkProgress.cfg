SPECIFICATION FairSpec
CONSTANTS
  NoEngine = NoEngine
  NoOne = NoOne
  NoWorker = NoWorker
  s1 = s1
  s2 = s2
  s3 = s3
  k1 = k1
  p1 = p1
  Sources = {s1, s2, s3}
  Keys = {k1}
  Partitions = {p1}
  Workers = {w1}
  Log <- RefusedLog
  InitialOwner <- ThirdUnregistered
  SkipUnknown = TRUE
  OffsetReset = FALSE
  MaxBatch = 2
  QuarantineRows = 1
  QuarantinePercent = 10
  Requests = {"pause", "resume", "bump_generation"}
  Operated = {s1}
  MaxEpoch = 4
  MaxGeneration = 2
  MaxFaults = 2
  MaxExpired = 0
INVARIANT NothingVanishes
PROPERTIES EverythingIsConsumed BreakerStopsDeadLetters
