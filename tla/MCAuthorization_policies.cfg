\* Hot swaps, overrides, malformed policies, forged and noncompliant contexts,
\* while grants are written, checked and looked up.
SPECIFICATION FairSpec
CONSTANTS
  Callers = {c1, c2}
  Resources = {r1}
  Users = {u1}
  Ops = {"check", "register", "revoke", "lookup"}
  Dsls = {"none", "guarded", "malformed"}
  Overrides = {"none", "filter"}
  Contexts = {"claims", "noncompliant"}
  Setting = TRUE
  MaxCalls = 2
INVARIANTS
  AnswerExplained
  FiltersNeverGrant
PROPERTIES
  CallsReturn
  ImplementsSharedEngine
