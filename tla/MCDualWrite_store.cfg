\* Two tasks write directly what a producer sends through the pipeline.
SPECIFICATION DualSpec
CONSTANTS
  Tuples = {t1, t2}
  Invalid = {t2}
  Producers = {p1}
  Capacity = 1
  MaxBatch = 2
  MaxRetries = 1
  MaxSends = 2
  Callers = {c1, c2}
  MaxCalls = 2
SYMMETRY DualSymmetry
INVARIANTS
  AcknowledgedWritesHold
PROPERTY
  LossStopsCallers
