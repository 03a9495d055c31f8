---------------------------- MODULE Authorization ----------------------------
(***************************************************************************)
(* The hybrid orchestrator (src/engine.rs, src/cedar/abac.rs and           *)
(* src/spicedb/rebac.rs): tasks share one LothEngine, whose calls pass the *)
(* fail-closed guard, take the client they all share for one RPC, and, for *)
(* a check, end with a Cedar evaluation under the policies of that moment. *)
(*                                                                         *)
(* A grant is a relationship between a resource and a user, and also the   *)
(* permission a check asks for.  SpiceDB keeps every revision; one that a  *)
(* caveat qualifies was written by another client.  Nobody else writes     *)
(* here, and a request has no effect after its error was returned or its   *)
(* future dropped.                                                         *)
(***************************************************************************)
EXTENDS Naturals, Sequences, FiniteSets, Line

CONSTANTS
  Callers,    \* tasks
  Resources,
  Users,
  Ops,        \* the operations the tasks call
  Dsls,       \* policy sources given to from_config and update_policies
  Overrides,  \* those given to with_policy_override; "none" is no override
  Contexts,   \* those given to with_context
  Setting,    \* EngineSettings.enable_replication_fail_closed
  MaxCalls    \* bound: how many calls are made in all

\* "malformed" does not parse; "filter" permits what is_structural_allowed
\* says; "permit" and "forbid" do not look at it; "guarded" is a filter with a
\* forbid that reads an attribute of the context.  None is passthrough.
Dsl == {"none", "malformed", "filter", "permit", "forbid", "guarded"}

\* "claims" writes is_structural_allowed itself; "fails" cannot be built; the
\* last two carry the attribute that "guarded" reads.
Context == {"none", "claims", "fails", "compliant", "noncompliant"}

ASSUME DslAssumption ==
  Dsls \subseteq Dsl /\ Overrides \subseteq Dsl /\ Contexts \subseteq Context
ASSUME CallersAssumption == IsFiniteSet(Callers)
ASSUME SettingAssumption == Setting \in BOOLEAN
ASSUME BoundAssumption == MaxCalls \in Nat

VARIABLES
  attached,  \* the engine was given a fatal_rx
  fatal,     \* the replication pipeline has failed for good
  policies,  \* the ArcSwapOption of AbacEngine
  line,      \* the tasks at the client's mutex; the first one holds it
  revs,      \* SpiceDB's revisions, oldest first
  call,      \* what every task is doing, or what it did last
  begun      \* how many calls have been made

\* History: the policies the application asked for, and what the writes that
\* returned Ok say of a grant, unless another write of it has begun since.
VARIABLES intended, settled

vars == <<attached, fatal, policies, line, revs, call, begun, intended,
          settled>>

Grant == [resource : Resources, user : Users]

\* No relation, one without and one with a caveat.
Relation == {"absent", "plain", "caveated"}

AnySubject == "any"  \* a subject id that was not given

Request ==
  [op : Ops \cap {"check"}, grant : Grant, strict : BOOLEAN, override : Overrides,
   context : Contexts]
  \cup [op : Ops \cap {"register", "revoke"}, grant : Grant]
  \cup [op : Ops \cap {"revokeByFilter"}, resource : Resources,
        type : {"none", "user"}, id : Users \cup {AnySubject}]
  \cup [op : Ops \cap {"lookup"}, user : Users]

IsWrite(req) == req.op \in {"register", "revoke", "revokeByFilter"}

Idle == [phase |-> "idle"]

\* An item of a lookup's stream.
Item == [resource : Resources, permissionship : {"has", "conditional"}]

(* A call: rev is the revision it read or wrote; left what the stream of a *)
(* lookup still holds, listed what came out of it; verdict what the call   *)
(* returned.  expected and seen are history: what settled said of the grant*)
(* when the check began, and the policies asked for since then.            *)
Call ==
  [phase : {"queued", "served", "abac", "returned"}, req : Request,
   rev : Nat, left : SUBSET Item, listed : SUBSET Resources,
   verdict : {"pending", "true", "false", "ok", "error"},
   expected : {"absent", "present", "unknown"}, seen : SUBSET Dsl]

InFlight == {c \in Callers : call[c].phase \in {"queued", "served", "abac"}}

TypeOK ==
  /\ attached \in BOOLEAN /\ fatal \in BOOLEAN
  /\ policies \in Dsl \ {"malformed"} /\ intended \in Dsl \ {"malformed"}
  /\ line \in Seq(Callers) /\ Len(line) <= Cardinality(Callers)
  /\ \A i, j \in DOMAIN line : line[i] = line[j] => i = j
  /\ revs \in Seq([Grant -> Relation]) /\ revs # <<>>
  /\ call \in [Callers -> Call \cup {Idle}]
  /\ begun \in 0 .. MaxCalls
  /\ settled \in [Grant -> {"absent", "present", "unknown"}]

(* from_config, which does not read the setting, and, where the application*)
(* calls it, with_replication_fail_closed, before the engine is shared.    *)
Init ==
  /\ attached \in BOOLEAN /\ fatal = FALSE
  /\ policies \in Dsls \ {"malformed"} /\ intended = policies
  /\ line = <<>>
  /\ \E rels \in [Grant -> Relation] : revs = <<rels>>
  /\ call = [c \in Callers |-> Idle]
  /\ begun = 0
  /\ settled = [g \in Grant |-> "unknown"]

(* The worker gives up: see Replication. *)
ReplicationFails ==
  /\ ~fatal /\ fatal' = TRUE
  /\ UNCHANGED <<attached, policies, line, revs, call, begun, intended,
                 settled>>

-----------------------------------------------------------------------------
(* Requests and their answers. *)

(* The relationships a write names.  A subject id without a subject type is*)
(* dropped with it: then every subject matches.                            *)
Matched(req, g) ==
  IF req.op = "revokeByFilter"
  THEN /\ g.resource = req.resource
       /\ req.type = "user" /\ req.id # AnySubject => g.user = req.id
  ELSE g = req.grant

(* The relationships after a write; TOUCH replaces the caveat as well. *)
Effect(req, rels) ==
  [g \in Grant |-> IF Matched(req, g)
                   THEN IF req.op = "register" THEN "plain" ELSE "absent"
                   ELSE rels[g]]

(* What SpiceDB makes of a grant: a permission that a caveat qualifies is  *)
(* conditional, for no request brings a context.                           *)
Permissionship(rels, g) ==
  CASE rels[g] = "absent"   -> "no"
    [] rels[g] = "plain"    -> "has"
    [] rels[g] = "caveated" -> "conditional"

(* A check counts a conditional permission as allowed. *)
Structural(rels, g) == Permissionship(rels, g) \in {"has", "conditional"}

(* What SpiceDB streams for a request: the resources a lookup's user has a *)
(* permission on, conditional or not, and which of the two.                *)
Streamed(req, rels) ==
  IF req.op = "lookup"
  THEN {item \in Item : item.permissionship =
          Permissionship(rels, [resource |-> item.resource, user |-> req.user])}
  ELSE {}

Mutant_Readable(req) == 1 .. Len(revs)

(* The revisions SpiceDB may read for a request: the latest one if the     *)
(* check is fully consistent, any that suits it otherwise.                 *)
Readable(req) ==
  IF req.op = "check" /\ req.strict THEN {Len(revs)} ELSE 1 .. Len(revs)

(* A policy reads an attribute that the context does not have. *)
EvaluationFails(policy, context) ==
  policy = "guarded" /\ context \notin {"compliant", "noncompliant"}

(* What Cedar decides; the context comes after, and over, the engine's own *)
(* is_structural_allowed.  A policy whose evaluation fails is left out of  *)
(* the decision, and is_allowed does not ask for the errors.               *)
Permits(policy, structural, context) ==
  \/ policy = "permit"
  \/ /\ policy \in {"filter", "guarded"}
     /\ structural \/ context = "claims"
     /\ policy = "guarded" /\ ~EvaluationFails(policy, context) => context = "compliant"

Mutant_Answer(policy, structural, context) ==
  CASE policy = "none"      -> "true"
    [] policy = "malformed" -> "error"
    [] context = "fails"    -> "error"
    [] OTHER -> IF Permits(policy, structural, context) THEN "true" ELSE "false"

(* is_allowed: passthrough without policies, else Cedar or an error. *)
Answer(policy, structural, context) ==
  CASE policy = "none"      -> IF structural THEN "true" ELSE "false"
    [] policy = "malformed" -> "error"
    [] context = "fails"    -> "error"
    [] OTHER -> IF Permits(policy, structural, context) THEN "true" ELSE "false"

-----------------------------------------------------------------------------
(* The steps of a call. *)

Latest == revs[Len(revs)]

Free(c) == call[c].phase \in {"idle", "returned"}

AsksPolicies(req) == req.op = "check" /\ req.override = "none"

Started(req) ==
  [phase |-> "queued", req |-> req, rev |-> 0, left |-> {}, listed |-> {},
   verdict |-> "pending",
   expected |-> IF req.op = "check" THEN settled[req.grant] ELSE "unknown",
   seen |-> IF AsksPolicies(req) THEN {intended} ELSE {}]

Failed(k) == [k EXCEPT !.phase = "returned", !.verdict = "error"]

(* A write that begins unsettles what it names, for the checks under way   *)
(* as well.                                                                *)
Unsettle(req, c) ==
  /\ settled' = [g \in Grant |-> IF Matched(req, g) THEN "unknown" ELSE settled[g]]
  /\ call' = [d \in Callers |->
       IF d = c THEN Started(req)
       ELSE IF d \in InFlight /\ call[d].req.op = "check" /\ Matched(req, call[d].req.grant)
            THEN [call[d] EXCEPT !.expected = "unknown"]
            ELSE call[d]]

Broken == attached /\ fatal

Mutant_Begin(c, req) ==
  /\ Free(c) /\ begun < MaxCalls
  /\ ~Broken \/ req.op = "revokeByFilter"
  /\ begun' = begun + 1
  /\ line' = Append(line, c)
  /\ \/ IsWrite(req) /\ Unsettle(req, c)
     \/ ~IsWrite(req) /\ call' = [call EXCEPT ![c] = Started(req)] /\ UNCHANGED settled
  /\ UNCHANGED <<attached, fatal, policies, revs, intended>>

(* A call that passes the guard goes for the client. *)
Begin(c, req) ==
  /\ Free(c) /\ begun < MaxCalls
  /\ ~Broken
  /\ begun' = begun + 1
  /\ line' = Append(line, c)
  /\ \/ IsWrite(req) /\ Unsettle(req, c)
     \/ ~IsWrite(req) /\ call' = [call EXCEPT ![c] = Started(req)] /\ UNCHANGED settled
  /\ UNCHANGED <<attached, fatal, policies, revs, intended>>

(* fail_closed_if_replication_broken returns the error. *)
FailClosed(c, req) ==
  /\ Free(c) /\ begun < MaxCalls
  /\ Broken
  /\ begun' = begun + 1
  /\ call' = [call EXCEPT ![c] = Failed(Started(req))]
  /\ UNCHANGED <<attached, fatal, policies, line, revs, intended, settled>>

(* A call that read revision r, with the stream it was given. *)
Opened(k, r) ==
  [k EXCEPT !.phase = "served", !.rev = r, !.left = Streamed(k.req, revs[r])]

(* SpiceDB executes the request of the task that holds the client. *)
Serve(c) ==
  /\ line # <<>> /\ Head(line) = c /\ call[c].phase = "queued"
  /\ \/ /\ IsWrite(call[c].req)
        /\ revs' = Append(revs, Effect(call[c].req, Latest))
        /\ call' = [call EXCEPT ![c].phase = "served", ![c].rev = Len(revs')]
     \/ /\ ~IsWrite(call[c].req)
        /\ \E r \in Readable(call[c].req) :
             call' = [call EXCEPT ![c] = Opened(call[c], r)]
        /\ UNCHANGED revs
  /\ UNCHANGED <<attached, fatal, policies, line, begun, intended, settled>>

Mutant_Received(k, item) ==
  [k EXCEPT !.left = @ \ {item},
            !.listed = IF item.permissionship = "has" THEN @ \cup {item.resource} ELSE @]

(* An item of the stream is listed whatever its permissionship. *)
Received(k, item) ==
  [k EXCEPT !.left = @ \ {item}, !.listed = @ \cup {item.resource}]

(* The next item of a lookup's stream, while the client is still held. *)
Receive(c) ==
  /\ call[c].phase = "served"
  /\ \E item \in call[c].left : call' = [call EXCEPT ![c] = Received(call[c], item)]
  /\ UNCHANGED <<attached, fatal, policies, line, revs, begun, intended, settled>>

(* What is settled once the write of c has returned Ok: nothing of a grant *)
(* that another write under way names.                                     *)
Settle(c) ==
  [g \in Grant |->
     IF /\ IsWrite(call[c].req) /\ Matched(call[c].req, g)
        /\ \A d \in InFlight \ {c} :
             IsWrite(call[d].req) => ~Matched(call[d].req, g)
     THEN IF call[c].req.op = "register" THEN "present" ELSE "absent"
     ELSE settled[g]]

Mutant_Reply(c) ==
  /\ call[c].phase = "served" /\ call[c].left = {}
  /\ \/ /\ call[c].req.op = "check"
        /\ call' = [call EXCEPT ![c].phase = "abac"]
        /\ line' = Tail(line)
     \/ /\ call[c].req.op # "check"
        /\ call' = [call EXCEPT ![c].phase = "returned", ![c].verdict = "ok"]
        /\ UNCHANGED line
  /\ settled' = Settle(c)
  /\ UNCHANGED <<attached, fatal, policies, revs, begun, intended>>

(* The RPC returns, or the stream ends, and the client is free. *)
Reply(c) ==
  /\ call[c].phase = "served" /\ call[c].left = {}
  /\ line' = Tail(line)
  /\ \/ /\ call[c].req.op = "check"
        /\ call' = [call EXCEPT ![c].phase = "abac"]
     \/ /\ call[c].req.op # "check"
        /\ call' = [call EXCEPT ![c].phase = "returned", ![c].verdict = "ok"]
  /\ settled' = Settle(c)
  /\ UNCHANGED <<attached, fatal, policies, revs, begun, intended>>

Mutant_RpcFails(c) ==
  /\ line # <<>> /\ Head(line) = c /\ call[c].phase \in {"queued", "served"}
  /\ call' = [call EXCEPT ![c] = Failed(call[c])]
  /\ UNCHANGED <<attached, fatal, policies, line, revs, begun, intended, settled>>

(* The RPC fails, before or after SpiceDB executed it or in the middle of  *)
(* the stream, whose items are then dropped, or it returns no known        *)
(* permissionship.                                                         *)
RpcFails(c) ==
  /\ line # <<>> /\ Head(line) = c /\ call[c].phase \in {"queued", "served"}
  /\ line' = Tail(line)
  /\ call' = [call EXCEPT ![c] = Failed(call[c])]
  /\ UNCHANGED <<attached, fatal, policies, revs, begun, intended, settled>>

(* The task's future is dropped while it waits for the client, wherever it *)
(* stands in the line, or for SpiceDB's answer: its request may have been  *)
(* executed.                                                               *)
Cancel(c) ==
  /\ call[c].phase \in {"queued", "served"}
  /\ line' = Without(line, c)
  /\ call' = [call EXCEPT ![c] = Failed(call[c])]
  /\ UNCHANGED <<attached, fatal, policies, revs, begun, intended, settled>>

Allowed(k) == Structural(revs[k.rev], k.req.grant)

Verdict(k, policy) == Answer(policy, Allowed(k), k.req.context)

Mutant_Evaluate(c) ==
  LET override == call[c].req.override
      policy   == IF override # "none" THEN override ELSE policies
  IN  /\ call[c].phase = "abac"
      /\ call' = [call EXCEPT ![c].phase = "returned",
                              ![c].verdict = Verdict(call[c], policy)]
      /\ policies' = IF policy = "malformed" THEN policies ELSE policy
      /\ UNCHANGED <<attached, fatal, line, revs, begun, intended, settled>>

(* The end of check(): under the override, parsed only now and used only   *)
(* here, or under the policies the engine has by now.                      *)
Evaluate(c) ==
  LET override == call[c].req.override
      policy   == IF override # "none" THEN override ELSE policies
  IN  /\ call[c].phase = "abac"
      /\ call' = [call EXCEPT ![c].phase = "returned",
                              ![c].verdict = Verdict(call[c], policy)]
      /\ UNCHANGED <<attached, fatal, policies, line, revs, begun,
                     intended, settled>>

(* update_cedar_policies parses before it stores. *)
UpdatePolicies(dsl) ==
  /\ dsl # "malformed"
  /\ policies' = dsl /\ intended' = dsl
  /\ call' = [c \in Callers |-> IF c \in InFlight /\ AsksPolicies(call[c].req)
                                THEN [call[c] EXCEPT !.seen = @ \cup {dsl}]
                                ELSE call[c]]
  /\ UNCHANGED <<attached, fatal, line, revs, begun, settled>>

Next ==
  \/ \E c \in Callers :
       \/ \E req \in Request : Begin(c, req) \/ FailClosed(c, req)
       \/ Serve(c) \/ Receive(c) \/ Reply(c) \/ RpcFails(c) \/ Cancel(c)
       \/ Evaluate(c)
  \/ \E dsl \in Dsls : UpdatePolicies(dsl)
  \/ ReplicationFails

Spec == Init /\ [][Next]_vars

(* SpiceDB answers every call, and a task that can go on does. *)
Fairness ==
  \A c \in Callers :
    WF_vars(Serve(c) \/ Receive(c) \/ Reply(c) \/ RpcFails(c) \/ Evaluate(c))

FairSpec == Spec /\ Fairness

-----------------------------------------------------------------------------
(* Properties. *)

Checks == {k \in {call[c] : c \in Callers} :
             k.phase \in {"abac", "returned"} /\ k.req.op = "check" /\ k.rev # 0}
Answered == {k \in Checks : k.verdict \in {"true", "false"}}

(* A fully consistent check sees every write that had returned Ok before it*)
(* began, and that no later write contradicts: a revocation takes effect.  *)
AcknowledgedWritesSeen ==
  \A k \in Checks :
    k.req.strict /\ k.expected # "unknown"
      => (Allowed(k) <=> k.expected = "present")

(* Whatever hot swaps and overrides of other requests happen meanwhile, an *)
(* answer is that of one policy set the application had asked for while    *)
(* the check ran, or of the override of that very check.                   *)
AnswerExplained ==
  \A k \in Answered :
    IF k.req.override # "none" THEN k.verdict = Verdict(k, k.req.override)
    ELSE \E policy \in k.seen : k.verdict = Verdict(k, policy)

(* Policies that test is_structural_allowed, or forbid, never grant what the*)
(* relationships do not, unless the context writes that key itself: not    *)
(* under a swap or a revocation in the middle of the check either.         *)
FiltersNeverGrant ==
  \A k \in Answered :
    /\ k.req.context # "claims"
    /\ k.req.override # "permit" /\ "permit" \notin k.seen
    => (k.verdict = "true" => Allowed(k))

(* A lookup that returns Ok lists every resource that a check of its user  *)
(* at its revision would allow structurally, and no other: no item of the  *)
(* stream is passed over for being conditional, and no list ends early     *)
(* because the stream broke.                                               *)
LookupAgreesWithCheck ==
  \A c \in Callers :
    call[c].phase = "returned" /\ call[c].verdict = "ok" /\ call[c].req.op = "lookup"
      => \A r \in Resources :
           r \in call[c].listed
             <=> Structural(revs[call[c].rev], [resource |-> r, user |-> call[c].req.user])

(* Once the engine sees the fatal state no call begins, of any kind; those *)
(* that had passed the guard end, and nothing else writes.                 *)
FailClosedDrains ==
  [][Broken => /\ InFlight' \subseteq InFlight
               /\ (revs' # revs => \E c \in InFlight : IsWrite(call[c].req))]_vars

(* Every call returns, however many wait for the client. *)
CallsReturn == \A c \in Callers : c \in InFlight ~> c \notin InFlight

(* engine.rs:31, "Whether to enforce fail-closed checks if replication     *)
(* trackers fault": with the setting on no call begins after the failure.  *)
SettingFailsClosed == [][Setting /\ fatal => InFlight' \subseteq InFlight]_vars

(* engine.rs:397, "Returns `AuthError` on connection, evaluation, or       *)
(* replication failures.": no check is allowed under policies one of which *)
(* could not be evaluated.                                                 *)
EvaluationErrorsReturned ==
  \A k \in Answered :
    k.verdict = "true" => ~EvaluationFails(k.req.override, k.req.context)

(* engine.rs:247, "Prunes relationships based on optional subject filters":*)
(* a filter that names a subject leaves the other subjects alone.          *)
FilterSparesOthers ==
  [][\A c \in Callers :
       (call[c].phase = "queued" /\ call'[c].phase = "served"
          /\ call[c].req.op = "revokeByFilter" /\ call[c].req.id # AnySubject)
         => \A g \in Grant : g.user # call[c].req.id
              => revs'[Len(revs')][g] = Latest[g]]_vars

-----------------------------------------------------------------------------
(* This module and the SharedEngine it implements: a call takes effect when*)
(* SpiceDB executes its request, and a check is decided after that.        *)

About(req) ==
  {g \in Grant : IF req.op = "lookup" THEN g.user = req.user ELSE Matched(req, g)}

Existing(rels) == {g \in Grant : Structural(rels, g)}

Present == Existing(Latest)
Past    == {Existing(revs[i]) : i \in DOMAIN revs}

StageOf(k) ==
  CASE k.phase = "queued" -> "asked"
    [] k.phase \in {"served", "abac"} -> "done"
    [] OTHER -> k.phase

(* The resources of a lookup, those still in its stream included. *)
Resolved(k) == k.listed \cup {item.resource : item \in k.left}

FoundBy(k) ==
  IF k.phase = "idle" \/ k.rev = 0 \/ IsWrite(k.req) THEN {}
  ELSE IF k.req.op = "lookup" THEN {g \in About(k.req) : g.resource \in Resolved(k)}
  ELSE Existing(revs[k.rev]) \cap About(k.req)

Stages    == [c \in Callers |-> StageOf(call[c])]
Requested == [c \in Callers |-> IF call[c].phase = "idle" THEN [op |-> "none"]
                                ELSE call[c].req]
Findings  == [c \in Callers |-> FoundBy(call[c])]
Verdicts  == [c \in Callers |-> IF call[c].phase = "idle" THEN "pending"
                                ELSE call[c].verdict]

Decisions ==
  [policy \in Dsl |-> [allowed \in BOOLEAN |-> [context \in Context |->
     Answer(policy, allowed, context)]]]

Shared == INSTANCE SharedEngine WITH
  Requests <- Request, Grants <- Grant, Policies <- Dsl \ {"malformed"},
  Names    <- [req \in Request |-> About(req)],
  Answers  <- Decisions,
  store <- Present, past <- Past, closed <- Broken,
  stage <- Stages, asked <- Requested, found <- Findings, verdict <- Verdicts

(* Whatever the tasks do at the same time to the client, the policies and  *)
(* each other, every call is one read or one write at one moment, and a    *)
(* check one decision after it; no call begins after the engine has seen   *)
(* the pipeline fail.                                                      *)
ImplementsSharedEngine == Shared!Spec

=============================================================================
