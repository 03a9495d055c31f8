SPECIFICATION Spec
CONSTANTS
  Callers = {c1}
  Resources = {r1}
  Users = {u1, u2}
  Ops = {"check", "register", "revoke", "revokeByFilter", "lookup"}
  Dsls = {"none"}
  Overrides = {"none"}
  Contexts = {"none"}
  Setting = TRUE
  MaxCalls = 1
PROPERTY
  FilterSparesOthers
