-------------------------- MODULE PermissionsProofs --------------------------
(***************************************************************************)
(* Theorems about Permissions for every set of users and objects and every *)
(* set of relationships.  Each property is preserved by one derivation, so *)
(* that it holds in the fixpoint as well as on the way to it.              *)
(***************************************************************************)
EXTENDS Permissions, TLAPS

\* For comparison: another set of relationships, and a set of facts that
\* holds whatever follows from it with these relationships.
CONSTANTS Wider, Closed

Wide == INSTANCE Permissions WITH rels <- Wider, granted <- Closed

LEMMA InheritedIsPermission ==
  ASSUME NEW p \in Permission
  PROVE  Inherited(p) \in Permission /\ (p # "read" => Inherited(p) = "admin")
BY DEF Inherited, Permission, Powers

(* What was derived before, or follows from it. *)
LEMMA DerivedFact ==
  ASSUME TypeOK, Derive, NEW f \in granted'
  PROVE  \/ f \in granted
         \/ \E o \in Objects, p \in Permission, u \in Users :
              f = <<o, p, u>> /\ Follows(o, p, u)
BY DEF Derive, Consequences, Fact

LEMMA TypeStep == TypeOK /\ [Next]_vars => TypeOK'
BY DEF TypeOK, Next, Derive, Consequences, vars

(* Relationships are those of schema.zed, and only permissions are derived.*)
THEOREM TypeCorrect == Spec => []TypeOK
<1>1. Init => TypeOK
  BY RelationshipsAssumption DEF Init, TypeOK
<1>2. QED  BY <1>1, TypeStep, PTL DEF Spec

-----------------------------------------------------------------------------
(* Administrators have every permission. *)

(* What an administrator reaches through an arrow, anybody with another    *)
(* permission would.                                                       *)
LEMMA AdminArrow ==
  ASSUME AdminGrantsAll, NEW o, NEW relation, NEW u \in Users, NEW p \in Permission,
         Arrow(o, relation, "admin", u)
  PROVE  Arrow(o, relation, p, u)
BY DEF AdminGrantsAll, Arrow, Has

LEMMA AdminConveys ==
  ASSUME AdminGrantsAll, NEW o, NEW grants, NEW u \in Users, NEW p \in Permission,
         ViaGroup(o, grants, "admin", u)
  PROVE  ViaGroup(o, grants, p, u)
BY AdminArrow DEF ViaGroup, Conveys

LEMMA AdminFollows ==
  ASSUME AdminGrantsAll, NEW o \in Objects, NEW u \in Users, NEW p \in Permission,
         Follows(o, "admin", u)
  PROVE  Follows(o, p, u)
<1>1. Arrow(o, "parent", Inherited("admin"), u) => Arrow(o, "parent", Inherited(p), u)
  BY AdminArrow, InheritedIsPermission DEF Inherited, Permission
<1>2. CASE o \in Tenants /\ TenantRule(o, "admin", u)
  BY <1>2, AdminArrow DEF Follows, TenantRule
<1>3. CASE o \in Groups /\ GroupRule(o, "admin", u)
  BY <1>1, <1>3 DEF Follows, GroupRule
<1>4. CASE o \in Projects /\ ProjectRule(o, "admin", u)
  <2>1. ProjectRule(o, p, u)
    BY <1>1, <1>4, AdminConveys DEF ProjectRule, Permission, Powers, ViaGroup
  <2>2. QED  BY <1>4, <2>1 DEF Follows
<1>5. ASSUME NEW grants, StateRule(o, grants, "admin", u)
      PROVE  StateRule(o, grants, p, u)
  BY <1>1, <1>5, AdminConveys DEF StateRule
<1>6. CASE \/ o \in Tables /\ StateRule(o, "grants_table", "admin", u)
           \/ o \in EntityStates /\ StateRule(o, "grants_entity_state", "admin", u)
  BY <1>5, <1>6 DEF Follows
<1>7. QED  BY <1>2, <1>3, <1>4, <1>6 DEF Follows

(* Whoever administers an object has every permission on it (the canonical *)
(* permissions of schema.zed), for every set of relationships.             *)
THEOREM AdministratorsHaveAll == Spec => []AdminGrantsAll
<1>1. Init => AdminGrantsAll
  BY DEF Init, AdminGrantsAll, Has
<1>2. TypeOK /\ AdminGrantsAll /\ [Next]_vars => AdminGrantsAll'
  <2> SUFFICES ASSUME TypeOK, AdminGrantsAll, Derive,
                      NEW o \in Objects, NEW u \in Users, Has(o, "admin", u)',
                      NEW p \in Permission
               PROVE  Has(o, p, u)'
    BY DEF AdminGrantsAll, Has, Next, vars
  <2>1. Has(o, "admin", u) \/ Follows(o, "admin", u)
    BY DEF Has, Derive, Consequences
  <2>2. Has(o, p, u) \/ Follows(o, p, u)
    BY <2>1, AdminFollows DEF AdminGrantsAll
  <2>3. <<o, p, u>> \in Fact
    BY DEF Fact
  <2>4. QED  BY <2>2, <2>3 DEF Has, Derive, Consequences
<1>3. QED  BY <1>1, <1>2, TypeCorrect, PTL DEF Spec

-----------------------------------------------------------------------------
(* The cycles bootstrap nothing. *)

Rooted(u) == \E o \in Objects : Related(o, "administrator", u) \/ Related(o, "writer", u)

LEMMA PowerFollows ==
  ASSUME PowersAreRooted, NEW o \in Objects, NEW u \in Users, NEW p \in Powers,
         Follows(o, p, u)
  PROVE  Rooted(u)
<1>1. p # "read" /\ p \in Permission /\ "admin" \in Powers
  BY DEF Powers, Permission
<1>2. ASSUME NEW s, NEW relation, NEW q \in Powers, Arrow(s, relation, q, u)
      PROVE  Rooted(u)
  BY <1>2 DEF Arrow, PowersAreRooted, Has, Rooted
<1>3. Inherited(p) \in Powers
  BY <1>1 DEF Inherited
<1>4. ASSUME NEW grants, NEW q \in Powers, ViaGroup(o, grants, q, u) PROVE Rooted(u)
  BY <1>2, <1>4 DEF ViaGroup, Conveys
<1>5. CASE o \in Tenants /\ TenantRule(o, p, u)
  BY <1>1, <1>2, <1>5 DEF TenantRule, Rooted
<1>6. CASE o \in Groups /\ GroupRule(o, p, u)
  BY <1>2, <1>3, <1>6 DEF GroupRule
<1>7. CASE o \in Projects /\ ProjectRule(o, p, u)
  BY <1>1, <1>2, <1>3, <1>4, <1>7 DEF ProjectRule, Rooted
<1>8. ASSUME NEW grants, StateRule(o, grants, p, u) PROVE Rooted(u)
  BY <1>1, <1>2, <1>3, <1>4, <1>8 DEF StateRule, Rooted
<1>9. QED  BY <1>5, <1>6, <1>7, <1>8 DEF Follows

(* No user has a power who is not an administrator or a writer somewhere,  *)
(* whatever groups and grants refer to each other.                         *)
THEOREM PowersHaveRoots == Spec => []PowersAreRooted
<1>1. Init => PowersAreRooted
  BY DEF Init, PowersAreRooted, Has
<1>2. TypeOK /\ PowersAreRooted /\ [Next]_vars => PowersAreRooted'
  <2>1. CASE UNCHANGED vars
    BY <2>1 DEF vars, PowersAreRooted, Has, Related
  <2>2. CASE Derive
    <3> SUFFICES ASSUME PowersAreRooted, NEW u \in Users, NEW o \in Objects,
                        NEW p \in Powers, Has(o, p, u)'
                 PROVE  Rooted(u)'
      BY DEF PowersAreRooted, Rooted
    <3>1. Has(o, p, u) \/ Follows(o, p, u)
      BY <2>2 DEF Has, Derive, Consequences
    <3>2. Rooted(u)
      BY <3>1, PowerFollows DEF PowersAreRooted, Rooted
    <3>3. QED  BY <2>2, <3>2 DEF Derive, Rooted, Related
  <2>3. QED  BY <2>1, <2>2 DEF Next
<1>3. QED  BY <1>1, <1>2, TypeCorrect, PTL DEF Spec

-----------------------------------------------------------------------------
(* Permissions stay inside a tenant. *)

Named(o, u) == \E r \in rels : r[3] = u /\ Home[r[1]] = Home[o]

LEMMA RelatedIsNamed ==
  ASSUME NEW o, NEW relation, NEW u, Related(o, relation, u)
  PROVE  Named(o, u)
<1>1. <<o, relation, u>>[3] = u /\ <<o, relation, u>>[1] = o
  OBVIOUS
<1>2. QED  BY <1>1 DEF Related, Named

LEMMA ConfinedStaysHome ==
  ASSUME Confined, NEW o, NEW relation, NEW s \in Objects, Related(o, relation, s)
  PROVE  Home[s] = Home[o]
<1>1. <<o, relation, s>>[3] = s /\ <<o, relation, s>>[1] = o
  OBVIOUS
<1>2. QED  BY <1>1 DEF Related, Confined

LEMMA ArrowIsNamed ==
  ASSUME TenantIsolation, Confined, NEW o, NEW relation, NEW p, NEW u,
         Arrow(o, relation, p, u)
  PROVE  Named(o, u)
<1>1. PICK s \in Objects : Related(o, relation, s) /\ <<s, p, u>> \in granted
  BY DEF Arrow
<1>2. <<s, p, u>>[3] = u /\ <<s, p, u>>[1] = s
  OBVIOUS
<1>3. Named(s, u)
  BY <1>1, <1>2 DEF TenantIsolation, Named
<1>4. QED  BY <1>1, <1>3, ConfinedStaysHome DEF Named

LEMMA MemberIsNamed ==
  ASSUME Confined, NEW o, NEW u, InGroup(o, u)
  PROVE  Named(o, u)
<1>1. PICK g \in Groups : Related(o, "group", g) /\ Related(g, "member", u)
  BY DEF InGroup
<1>2. Home[g] = Home[o]
  BY <1>1, ConfinedStaysHome DEF Objects
<1>3. QED  BY <1>1, <1>2, RelatedIsNamed DEF Named

LEMMA FollowsIsNamed ==
  ASSUME TenantIsolation, Confined, NEW o, NEW p, NEW u, Follows(o, p, u)
  PROVE  Named(o, u)
BY RelatedIsNamed, ArrowIsNamed, MemberIsNamed
   DEF Follows, TenantRule, GroupRule, ProjectRule, StateRule, ViaGroup

(* As long as no relationship crosses tenants, a permission on an object   *)
(* goes back to a relationship of its user in the object's tenant.         *)
THEOREM TenantsAreIsolated == Spec => []TenantIsolation
<1>1. Init => TenantIsolation
  BY DEF Init, TenantIsolation
<1>2. TypeOK /\ TenantIsolation /\ [Next]_vars => TenantIsolation'
  <2>1. CASE UNCHANGED vars
    BY <2>1 DEF vars, TenantIsolation, Confined
  <2>2. CASE Derive
    <3> SUFFICES ASSUME TypeOK, TenantIsolation, Confined', NEW f \in granted'
                 PROVE  \E r \in rels' : r[3] = f[3] /\ Home[r[1]] = Home[f[1]]
      BY DEF TenantIsolation
    <3>1. rels' = rels /\ Confined
      BY <2>2 DEF Derive, Confined
    <3>2. CASE f \in granted
      BY <3>1, <3>2 DEF TenantIsolation
    <3>3. ASSUME NEW o \in Objects, NEW p \in Permission, NEW u \in Users,
                 f = <<o, p, u>>, Follows(o, p, u)
          PROVE  \E r \in rels' : r[3] = f[3] /\ Home[r[1]] = Home[f[1]]
      <4>1. f[3] = u /\ f[1] = o
        BY <3>3
      <4>2. Named(o, u)
        BY <3>1, <3>3, FollowsIsNamed
      <4>3. QED  BY <3>1, <4>1, <4>2 DEF Named
    <3>4. QED  BY <2>2, <3>2, <3>3, DerivedFact
  <2>3. QED  BY <2>1, <2>2 DEF Next
<1>3. QED  BY <1>1, <1>2, TypeCorrect, PTL DEF Spec

-----------------------------------------------------------------------------
(* The schema excludes nothing: no definition takes a permission away from *)
(* somebody for being related to something.                                *)

LEMMA ArrowGrows ==
  ASSUME rels \subseteq Wider, granted \subseteq Closed,
         NEW o, NEW relation, NEW p, NEW u, Arrow(o, relation, p, u)
  PROVE  Wide!Arrow(o, relation, p, u)
BY DEF Arrow, Related, Objects, Wide!Arrow, Wide!Related, Wide!Objects

LEMMA InGroupGrows ==
  ASSUME rels \subseteq Wider, NEW o, NEW u, InGroup(o, u)
  PROVE  Wide!InGroup(o, u)
BY DEF InGroup, Related, Wide!InGroup, Wide!Related

LEMMA ViaGroupGrows ==
  ASSUME rels \subseteq Wider, granted \subseteq Closed,
         NEW o, NEW grants, NEW p, NEW u, ViaGroup(o, grants, p, u)
  PROVE  Wide!ViaGroup(o, grants, p, u)
BY ArrowGrows, InGroupGrows
   DEF ViaGroup, Conveys, Related, Wide!ViaGroup, Wide!Conveys, Wide!Related

LEMMA FollowsGrows ==
  ASSUME rels \subseteq Wider, granted \subseteq Closed,
         NEW o, NEW p, NEW u, Follows(o, p, u)
  PROVE  Wide!Follows(o, p, u)
<1>1. \A relation : Related(o, relation, u) => Wide!Related(o, relation, u)
  BY DEF Related, Wide!Related
<1>2. \A q : Wide!Inherited(q) = Inherited(q)
  BY DEF Inherited, Wide!Inherited
<1>3. TenantRule(o, p, u) => Wide!TenantRule(o, p, u)
  BY <1>1, ArrowGrows DEF TenantRule, Wide!TenantRule
<1>4. GroupRule(o, p, u) => Wide!GroupRule(o, p, u)
  BY <1>2, ArrowGrows DEF GroupRule, Wide!GroupRule
<1>5. ProjectRule(o, p, u) => Wide!ProjectRule(o, p, u)
  BY <1>1, <1>2, ArrowGrows, InGroupGrows, ViaGroupGrows
     DEF ProjectRule, Wide!ProjectRule, Powers, Wide!Powers
<1>6. \A grants : StateRule(o, grants, p, u) => Wide!StateRule(o, grants, p, u)
  BY <1>1, <1>2, ArrowGrows, ViaGroupGrows DEF StateRule, Wide!StateRule
<1>7. QED
  BY <1>3, <1>4, <1>5, <1>6 DEF Follows, Wide!Follows

(* What is granted is the least that satisfies the schema, and grows with  *)
(* the relationships: it is within every set of facts that holds all its   *)
(* own consequences, under these relationships or more.  So a deleted      *)
(* relationship never grants a permission, and a created one never revokes *)
(* any: a revision that lags behind deletions errs only by granting more.  *)
THEOREM GrantsAreLeast ==
  Spec => [](rels \subseteq Wider /\ Wide!Consequences \subseteq Closed
               => granted \subseteq Closed)
<1> DEFINE Within == rels \subseteq Wider /\ Wide!Consequences \subseteq Closed
                       => granted \subseteq Closed
<1>1. Init => Within
  BY DEF Init
<1>2. Within /\ [Next]_vars => Within'
  <2>1. CASE UNCHANGED vars
    BY <2>1 DEF vars
  <2>2. CASE Derive
    <3> SUFFICES ASSUME Within, (rels \subseteq Wider)',
                        Wide!Consequences \subseteq Closed, NEW f \in granted'
                 PROVE  f \in Closed
      OBVIOUS
    <3>1. rels \subseteq Wider /\ granted \subseteq Closed
      BY <2>2 DEF Derive
    <3>2. CASE f \in granted
      BY <3>1, <3>2
    <3>3. CASE f \in Consequences
      <4>1. f \in Fact /\ Follows(f[1], f[2], f[3])
        BY <3>3 DEF Consequences
      <4>2. Wide!Follows(f[1], f[2], f[3])
        BY <3>1, <4>1, FollowsGrows
      <4>3. f \in Wide!Fact
        BY <4>1 DEF Fact, Wide!Fact, Objects, Wide!Objects,
                    Permission, Wide!Permission, Powers, Wide!Powers
      <4>4. QED  BY <4>2, <4>3 DEF Wide!Consequences
    <3>4. QED  BY <2>2, <3>2, <3>3 DEF Derive
  <2>3. QED  BY <2>1, <2>2 DEF Next
<1>3. QED  BY <1>1, <1>2, PTL DEF Spec

-----------------------------------------------------------------------------
(* Where permissions come from. *)

RootedIn(o, p, u) == \E r \in rels : r[3] = u /\ Roots(r[1], o, p)

(* The relations through which permissions are inherited or conveyed lead  *)
(* to objects of one kind each.                                            *)
LEMMA ArrowsAreTyped ==
  ASSUME TypeOK, NEW o, NEW relation, NEW s, Related(o, relation, s)
  PROVE  /\ relation = "parent" => s \in Tenants
         /\ relation = "group" => s \in Groups
         /\ relation = "grants_project" => s \in Projects
         /\ relation = "grants_table" => s \in Tables
         /\ relation = "grants_entity_state" => s \in EntityStates
<1>1. <<o, relation, s>> \in Relationship
  BY DEF TypeOK, Related
<1>2. QED  BY <1>1 DEF Relationship

LEMMA RelatedRoots ==
  ASSUME NEW s, NEW relation, NEW u, Related(s, relation, u),
         NEW o, NEW p, Roots(s, o, p)
  PROVE  RootedIn(o, p, u)
<1>1. <<s, relation, u>>[3] = u /\ <<s, relation, u>>[1] = s
  OBVIOUS
<1>2. QED  BY <1>1 DEF Related, RootedIn

(* A permission on s roots one on o if whatever roots that on s does.      *)
LEMMA ArrowRoots ==
  ASSUME AccessIsRooted, NEW o, NEW p, NEW q, NEW u, NEW s, NEW relation,
         Related(o, relation, s), <<s, q, u>> \in granted,
         \A x : Roots(x, s, q) => Roots(x, o, p)
  PROVE  RootedIn(o, p, u)
<1>1. <<s, q, u>>[1] = s /\ <<s, q, u>>[2] = q /\ <<s, q, u>>[3] = u
  OBVIOUS
<1>2. QED  BY <1>1 DEF AccessIsRooted, RootedIn

(* On tenants and groups, only a relationship with a tenant does.          *)
LEMMA TenantRoots ==
  ASSUME NEW x, NEW s \in Tenants \cup Groups, NEW q, Roots(x, s, q)
  PROVE  x \in Tenants
BY KindsAssumption DEF Roots

LEMMA StructureRoots ==
  ASSUME AccessIsRooted, TypeOK, NEW o, NEW p, NEW q, NEW u, NEW relation,
         relation \in {"parent", "group"}, Arrow(o, relation, q, u)
  PROVE  RootedIn(o, p, u)
<1>1. PICK s \in Objects : Related(o, relation, s) /\ <<s, q, u>> \in granted
  BY DEF Arrow
<1>2. s \in Tenants \cup Groups
  BY <1>1, ArrowsAreTyped
<1>3. \A x : Roots(x, s, q) => Roots(x, o, p)
  BY <1>2, TenantRoots DEF Roots
<1>4. QED  BY <1>1, <1>3, ArrowRoots

(* A group conveys a permission from one resource to another of its kind.  *)
LEMMA GroupRoots ==
  ASSUME AccessIsRooted, TypeOK, NEW o, NEW p, NEW q, NEW u, NEW grants,
         ViaGroup(o, grants, q, u), p = "read" \/ q # "read",
         \/ o \in Projects /\ grants = "grants_project"
         \/ o \in Tables /\ grants = "grants_table"
         \/ o \in EntityStates /\ grants = "grants_entity_state"
  PROVE  RootedIn(o, p, u)
<1>1. PICK g \in Groups, s \in Objects :
        Related(g, grants, s) /\ <<s, q, u>> \in granted
  BY DEF ViaGroup, Conveys, Arrow
<1>2. \E kind \in {Projects, Tables, EntityStates} : {s, o} \subseteq kind
  BY <1>1, ArrowsAreTyped
<1>3. \A x : Roots(x, s, q) => Roots(x, o, p)
  BY <1>2, KindsAssumption DEF Roots
<1>4. QED  BY <1>1, <1>3 DEF AccessIsRooted, RootedIn

LEMMA MemberRoots ==
  ASSUME NEW o \in Projects, NEW u, InGroup(o, u)
  PROVE  RootedIn(o, "read", u)
BY RelatedRoots DEF InGroup, Roots

LEMMA FollowsIsRooted ==
  ASSUME AccessIsRooted, TypeOK, NEW o \in Objects, NEW p \in Permission, NEW u,
         Follows(o, p, u)
  PROVE  RootedIn(o, p, u)
<1>1. ASSUME NEW relation, Related(o, relation, u), o \notin Groups
      PROVE  RootedIn(o, p, u)
  BY <1>1, RelatedRoots DEF Roots, Objects
<1>2. CASE o \in Tenants /\ TenantRule(o, p, u)
  BY <1>1, <1>2, StructureRoots, KindsAssumption DEF TenantRule
<1>3. CASE o \in Groups /\ GroupRule(o, p, u)
  BY <1>3, StructureRoots DEF GroupRule
<1>4. CASE o \in Projects /\ ProjectRule(o, p, u)
  BY <1>1, <1>4, StructureRoots, GroupRoots, MemberRoots, KindsAssumption
     DEF ProjectRule, Powers
<1>5. CASE o \in Tables /\ StateRule(o, "grants_table", p, u)
  BY <1>1, <1>5, StructureRoots, GroupRoots, KindsAssumption DEF StateRule
<1>6. CASE o \in EntityStates /\ StateRule(o, "grants_entity_state", p, u)
  BY <1>1, <1>6, StructureRoots, GroupRoots, KindsAssumption DEF StateRule
<1>7. QED  BY <1>2, <1>3, <1>4, <1>5, <1>6 DEF Follows

(* Whoever has a permission on a table or an entity state is related to a  *)
(* tenant or to an object of that kind; being in groups is not enough.     *)
THEOREM AccessHasRoots == Spec => []AccessIsRooted
<1>1. Init => AccessIsRooted
  BY DEF Init, AccessIsRooted
<1>2. TypeOK /\ AccessIsRooted /\ [Next]_vars => AccessIsRooted'
  <2>1. CASE UNCHANGED vars
    BY <2>1 DEF vars, AccessIsRooted
  <2>2. CASE Derive
    <3> SUFFICES ASSUME TypeOK, AccessIsRooted, NEW f \in granted'
                 PROVE  \E r \in rels : r[3] = f[3] /\ Roots(r[1], f[1], f[2])
      BY <2>2 DEF AccessIsRooted, Derive
    <3>1. ASSUME NEW o \in Objects, NEW p \in Permission, NEW u \in Users,
                 f = <<o, p, u>>, Follows(o, p, u)
          PROVE  \E r \in rels : r[3] = f[3] /\ Roots(r[1], f[1], f[2])
      <4>1. f[1] = o /\ f[2] = p /\ f[3] = u
        BY <3>1
      <4>2. QED  BY <3>1, <4>1, FollowsIsRooted DEF RootedIn
    <3>2. QED  BY <2>2, <3>1, DerivedFact DEF AccessIsRooted
  <2>3. QED  BY <2>1, <2>2 DEF Next
<1>3. QED  BY <1>1, <1>2, TypeCorrect, PTL DEF Spec

=============================================================================
