\* Two producers compete for one slot of the channel; any call may fail.
SPECIFICATION FairSpec
CONSTANTS
  Tuples = {t1}
  Invalid = {}
  Producers = {p1, p2}
  Capacity = 1
  MaxBatch = 2
  MaxRetries = 1
  MaxSends = 3
PROPERTIES
  AcceptedResolves
  ShutdownEnds
  SendReturns
  RefusedBatchEnds
