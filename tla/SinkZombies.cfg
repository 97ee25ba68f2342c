SPECIFICATION Spec
CONSTANTS
  NoEngine = NoEngine
  NoOne = NoOne
  NoWorker = NoWorker
  s1 = s1
  s2 = s2
  s3 = s3
  k1 = k1
  p1 = p1
  Sources = {s1}
  Keys = {k1}
  Partitions = {p1}
  Workers = {w1, w2}
  Log <- RedeliveryLog
  InitialOwner <- KafkaOwns
  SkipUnknown = FALSE
  OffsetReset = FALSE
  MaxBatch = 2
  QuarantineRows = 1
  QuarantinePercent = 10
  Requests = {"pause"}
  Operated = {s1}
  MaxEpoch = 3
  MaxGeneration = 1
  MaxFaults = 2
  MaxExpired = 2
INVARIANTS AppliedIsVisible GapsOnlyByReset
CHECK_DEADLOCK FALSE
PROPERTIES OffsetsNeverRegress NoResurrection
SYMMETRY WorkerSymmetry
