\* Writes, checks and lookups of the grants on two resources; no policies.
SPECIFICATION Spec
CONSTANTS
  Callers = {c1, c2}
  Resources = {r1, r2}
  Users = {u1}
  Ops = {"check", "register", "revoke", "revokeByFilter", "lookup"}
  Dsls = {"none"}
  Overrides = {"none"}
  Contexts = {"none"}
  Setting = TRUE
  MaxCalls = 3
SYMMETRY Symmetry
INVARIANTS
  TypeOK
  AcknowledgedWritesSeen
  LookupAgreesWithCheck
PROPERTY
  FailClosedDrains
