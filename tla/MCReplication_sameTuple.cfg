SPECIFICATION Spec
CONSTANTS
  Tuples = {t1}
  Invalid = {}
  Producers = {p1}
  Capacity = 1
  MaxBatch = 2
  MaxRetries = 1
  MaxSends = 2
INVARIANT
  OneUpdatePerRelationship
