\* A process boots while two tasks of another share a schema manager.
SPECIFICATION FairSpec
CONSTANTS
  Boots = {b1}
  Managers = {m1, m2}
  Schemas <- E2ESchemas
  Requests <- E2ERequests
INVARIANTS
  TypeOK
  OkWasRight
  DifferenceWasReal
  OkStays
PROPERTIES
  CallsEnd
  ImplementsCompareAndWrite
