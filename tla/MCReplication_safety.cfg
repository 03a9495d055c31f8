\* Two producers, two tuples; any reply may be lost, any call may fail.
SPECIFICATION Spec
CONSTANTS
  Tuples = {t1, t2}
  Invalid = {}
  Producers = {p1, p2}
  Capacity = 1
  MaxBatch = 2
  MaxRetries = 1
  MaxSends = 3
SYMMETRY Symmetry
INVARIANTS
  TypeOK
  Accounting
  BatchBoundary
  LastEventWins
  FailClosedSignal
PROPERTIES
  StopFlushesBuffer
  ImplementsEventLog
