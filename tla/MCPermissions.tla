---------------------------- MODULE MCPermissions ----------------------------
(* Instances of Permissions for TLC. *)
EXTENDS Permissions

CONSTANTS u1, n1, n2, g1, g2, p1, t1, t2, e1

(* Two tenants; the first has a group, a project and a table, the second   *)
(* the rest.                                                               *)
TwoTenants ==
  [o \in {n1, n2, g1, g2, p1, t1, t2, e1} |-> IF o \in {n1, g1, p1, t1} THEN n1 ELSE n2]

Parents ==
  {<<g1, "parent", n1>>, <<g2, "parent", n2>>, <<p1, "parent", n1>>,
   <<t1, "parent", n1>>, <<t2, "parent", n2>>, <<e1, "parent", n2>>}

(* Groups that grant resources which name them: chains, cycles, and links  *)
(* from one tenant to the other.                                           *)
Links ==
  {<<n1, "group", g1>>, <<p1, "group", g1>>, <<t1, "group", g1>>,
   <<t2, "group", g2>>, <<e1, "group", g2>>,
   <<g1, "grants_project", p1>>, <<g1, "grants_table", t1>>,
   <<g1, "grants_table", t2>>, <<g2, "grants_table", t2>>,
   <<g2, "grants_entity_state", e1>>}

Roles ==
  {<<n1, "administrator", u1>>, <<n2, "member", u1>>,
   <<g1, "member", u1>>, <<g2, "member", u1>>, <<p1, "administrator", u1>>,
   <<t2, "writer", u1>>, <<t2, "administrator", u1>>}

Varied == Links \cup Roles

=============================================================================
