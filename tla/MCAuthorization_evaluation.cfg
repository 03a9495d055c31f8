SPECIFICATION Spec
CONSTANTS
  Callers = {c1}
  Resources = {r1}
  Users = {u1, u2}
  Ops = {"check", "register", "revoke", "revokeByFilter", "lookup"}
  Dsls = {"none"}
  Overrides = {"none", "guarded"}
  Contexts = {"none", "fails", "compliant", "noncompliant"}
  Setting = TRUE
  MaxCalls = 1
INVARIANT
  EvaluationErrorsReturned
