\* The same, asking whether the groups of a table let their members in.
SPECIFICATION Spec
CONSTANTS
  u1 = u1
  n1 = n1
  n2 = n2
  g1 = g1
  g2 = g2
  p1 = p1
  t1 = t1
  t2 = t2
  e1 = e1
  Users = {u1}
  Tenants = {n1, n2}
  Groups = {g1, g2}
  Projects = {p1}
  Tables = {t1, t2}
  EntityStates = {e1}
  Given <- Parents
  Possible <- Varied
  Home <- TwoTenants
INVARIANT
  GroupAccessConveys
