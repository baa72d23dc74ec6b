SPECIFICATION FairSpec
CONSTANTS
  Item = {i1, i2}
  Id = {d1, d2}
  NoItem = NoItem
  SendTimes = {0, 2}
  InitialRetries <- Retries
  MinInt <- Smallest
  MaxInt <- Largest
  Interval = 2
  MaxClock = 3
INVARIANTS
  OneWorkerWhileDispatching
  PublishedOnce
  StatusTruthful
  TriesAsRequested
PROPERTIES
  KeepsPromise
  EventuallySettled
