----------------------------- MODULE Permissions -----------------------------
(***************************************************************************)
(* The permission schema (schema.zed): what SpiceDB grants, given the      *)
(* relationships of one revision.  The permissions refer to each other in  *)
(* cycles (tenant and group, resource and group), and a user has one if it *)
(* can be derived: every step derives all that follows from what is known. *)
(*                                                                         *)
(* SpiceDB is not part of the repository.  It evaluates top-down and       *)
(* reports an error where it gets into a cycle, so that it grants no more  *)
(* than what is derived here.                                              *)
(***************************************************************************)
EXTENDS Naturals

CONSTANTS
  Users, Tenants, Groups, Projects, Tables, EntityStates,
  Given,     \* relationships that exist
  Possible,  \* relationships that may exist
  Home       \* the tenant that an object was created in

Objects == Tenants \cup Groups \cup Projects \cup Tables \cup EntityStates

Powers     == {"write", "delete", "share", "admin"}
Permission == {"read"} \cup Powers

\* Who has which of the canonical permissions on what.
Fact == Objects \X Permission \X Users

(* The relations of schema.zed, with the types they admit. *)
Relationship ==
  LET States == Tables \cup EntityStates
  IN  (Tenants \X {"administrator", "member"} \X Users)
      \cup (Groups \X {"member"} \X Users)
      \cup (Projects \X {"administrator", "member"} \X Users)
      \cup (States \X {"administrator", "writer", "reader"} \X Users)
      \cup ((Groups \cup Projects \cup States) \X {"parent"} \X Tenants)
      \cup ((Tenants \cup Projects \cup States) \X {"group"} \X Groups)
      \cup (Groups \X {"grants_project"} \X Projects)
      \cup (Groups \X {"grants_table"} \X Tables)
      \cup (Groups \X {"grants_entity_state"} \X EntityStates)

ASSUME KindsAssumption ==
  /\ Users \cap Objects = {}
  /\ Tenants \cap (Groups \cup Projects \cup Tables \cup EntityStates) = {}
  /\ Groups \cap (Projects \cup Tables \cup EntityStates) = {}
  /\ Projects \cap (Tables \cup EntityStates) = {}
  /\ Tables \cap EntityStates = {}
ASSUME RelationshipsAssumption == Given \cup Possible \subseteq Relationship
ASSUME HomeAssumption == Home \in [Objects -> Tenants]

VARIABLES
  rels,    \* the relationships of the revision
  granted  \* what has been derived from them

vars == <<rels, granted>>

TypeOK == rels \subseteq Relationship /\ granted \subseteq Fact

Init ==
  /\ \E extra \in SUBSET Possible : rels = Given \cup extra
  /\ granted = {}

-----------------------------------------------------------------------------
(* The operators of the schema language. *)

Related(o, relation, s) == <<o, relation, s>> \in rels

(* relation->permission: through some object that o is related to. *)
Arrow(o, relation, p, u) ==
  \E s \in Objects : Related(o, relation, s) /\ <<s, p, u>> \in granted

Mutant_InGroup(o, u) == \E g \in Groups : Related(g, "member", u)

(* group->member *)
InGroup(o, u) ==
  \E g \in Groups : Related(o, "group", g) /\ Related(g, "member", u)

-----------------------------------------------------------------------------
(* The definitions of the schema. *)

Mutant_TenantRule(o, p, u) ==
  \/ Related(o, "administrator", u)
  \/ Related(o, "member", u)
  \/ Arrow(o, "group", p, u)

TenantRule(o, p, u) ==
  \/ Related(o, "administrator", u)
  \/ p = "read" /\ Related(o, "member", u)
  \/ Arrow(o, "group", p, u)

(* What a parent must grant. *)
Inherited(p) == IF p = "read" THEN "read" ELSE "admin"

GroupRule(o, p, u) == Arrow(o, "parent", Inherited(p), u)

(* A group's read_project .. admin_entity_state: its members, as far as the*)
(* resource it grants gives them that permission.                          *)
Conveys(g, grants, p, u) == Related(g, "member", u) /\ Arrow(g, grants, p, u)

Mutant_ViaGroup(o, grants, p, u) ==
  /\ InGroup(o, u)
  /\ p # "read" => \E g \in Groups : Related(o, "group", g) /\ Conveys(g, grants, p, u)

ViaGroup(o, grants, p, u) ==
  /\ InGroup(o, u)
  /\ \E g \in Groups : Related(o, "group", g) /\ Conveys(g, grants, p, u)

(* Its write takes the group's admin_project. *)
ProjectRule(o, p, u) ==
  \/ Arrow(o, "parent", Inherited(p), u)
  \/ Related(o, "administrator", u)
  \/ p = "read" /\ (Related(o, "member", u) \/ InGroup(o, u))
  \/ p = "write" /\ ViaGroup(o, "grants_project", "admin", u)
  \/ p \in Powers \ {"write"} /\ ViaGroup(o, "grants_project", p, u)

Mutant_StateRule(o, grants, p, u) ==
  \/ Arrow(o, "parent", Inherited(p), u)
  \/ p # "read" /\ Related(o, "administrator", u)
  \/ p = "read" /\ Related(o, "reader", u)
  \/ p = "write" /\ Related(o, "writer", u)
  \/ ViaGroup(o, grants, p, u)

(* Tables and entity states. *)
StateRule(o, grants, p, u) ==
  \/ Arrow(o, "parent", Inherited(p), u)
  \/ Related(o, "administrator", u)
  \/ p = "read" /\ Related(o, "reader", u)
  \/ p = "write" /\ Related(o, "writer", u)
  \/ ViaGroup(o, grants, p, u)

Follows(o, p, u) ==
  \/ o \in Tenants /\ TenantRule(o, p, u)
  \/ o \in Groups /\ GroupRule(o, p, u)
  \/ o \in Projects /\ ProjectRule(o, p, u)
  \/ o \in Tables /\ StateRule(o, "grants_table", p, u)
  \/ o \in EntityStates /\ StateRule(o, "grants_entity_state", p, u)

Consequences == {f \in Fact : Follows(f[1], f[2], f[3])}

Derive ==
  /\ granted' = granted \cup Consequences
  /\ UNCHANGED rels

Next == Derive

Spec == Init /\ [][Next]_vars

-----------------------------------------------------------------------------
(* Properties. *)

Has(o, p, u) == <<o, p, u>> \in granted

(* Whoever administers an object may do everything else with it, however   *)
(* the administration was inherited or conveyed.                           *)
AdminGrantsAll ==
  \A o \in Objects, u \in Users : Has(o, "admin", u) => \A p \in Permission : Has(o, p, u)

(* The cycles bootstrap nothing: a user who is nowhere an administrator or *)
(* a writer has no power over anything, whatever tenants and groups it is a*)
(* member of and whatever these groups grant.                              *)
PowersAreRooted ==
  \A u \in Users :
    (\E o \in Objects, p \in Powers : Has(o, p, u))
      => \E o \in Objects : Related(o, "administrator", u) \/ Related(o, "writer", u)

(* Every object is related to objects of its own tenant only. *)
Confined == \A r \in rels : r[3] \in Objects => Home[r[3]] = Home[r[1]]

(* "Multi-tenant root object": as long as no relationship crosses tenants, *)
(* a user has permissions only inside the tenants where it is named.       *)
TenantIsolation ==
  Confined => \A f \in granted :
                \E r \in rels : r[3] = f[3] /\ Home[r[1]] = Home[f[1]]

(* Where a permission on o can have its origin: in a relationship of the   *)
(* user with s.                                                            *)
Roots(s, o, p) ==
  \/ s \in Tenants
  \/ \E kind \in {Projects, Tables, EntityStates} : {s, o} \subseteq kind
  \/ s \in Groups /\ o \in Projects /\ p = "read"

(* Groups carry permissions on, and are no source of them: whatever they   *)
(* grant, their members get nothing but the reading of projects that name  *)
(* them, unless they are related to a tenant or to a resource of the same  *)
(* kind besides.                                                           *)
AccessIsRooted ==
  \A f \in granted : \E r \in rels : r[3] = f[3] /\ Roots(r[1], f[1], f[2])

Complete == Consequences \subseteq granted

(* schema.zed:83, "Group-based access (preferred).": the members of a group*)
(* that a table names, and that grants the table, can read it.             *)
GroupAccessConveys ==
  Complete =>
    \A t \in Tables, g \in Groups, u \in Users :
      Related(t, "group", g) /\ Related(g, "grants_table", t) /\ Related(g, "member", u)
        => Has(t, "read", u)

=============================================================================
