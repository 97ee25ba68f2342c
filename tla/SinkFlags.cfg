SPECIFICATION Spec
CONSTANTS
  NoEngine = NoEngine
  NoOne = NoOne
  NoWorker = NoWorker
  s1 = s1
  s2 = s2
  s3 = s3
  k1 = k1
  p1 = p1
  Sources = {s1, s2}
  Keys = {k1}
  Partitions = {p1}
  Workers = {w1}
  Log <- RefusedSecond
  InitialOwner <- FirstPython
  SkipUnknown = FALSE
  OffsetReset = FALSE
  MaxBatch = 2
  QuarantineRows = 1
  QuarantinePercent = 10
  Requests = {"assign", "start_shadow", "cutover", "abort_shadow", "pause", "resume", "force_assign", "register"}
  Operated = {s1, s2}
  MaxEpoch = 4
  MaxGeneration = 2
  MaxFaults = 0
  MaxExpired = 0
INVARIANTS TypeOK NothingVanishes AppliedIsVisible
PROPERTIES OnlyTheOwnerWrites SkipsAreCurrent
