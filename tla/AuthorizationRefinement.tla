------------------------ MODULE AuthorizationRefinement ------------------------
(***************************************************************************)
(* Authorization implements SharedEngine, for every number of tasks and    *)
(* calls, and all resources, users, policies and contexts.                 *)
(*                                                                         *)
(* What a step does to the call it is about is proved per action; that it  *)
(* leaves the other calls and what they found alone is one lemma, for it is*)
(* the same for all of them: SpiceDB's revisions never change.             *)
(***************************************************************************)
EXTENDS AuthorizationProofs

-----------------------------------------------------------------------------
(* The invariant: a call that was executed has read or written a revision, *)
(* and only a check goes on to the policies.                               *)

Grounded ==
  \A c \in Callers : call[c].phase \in {"served", "abac"} =>
    /\ call[c].rev \in 1 .. Len(revs)
    /\ call[c].phase = "abac" => call[c].req.op = "check"

LEMMA GroundedInit == Init => Grounded
BY DEF Init, Grounded, Idle

(* Revisions are only ever added. *)
LEMMA MoreRevisions ==
  ASSUME Shapes, [Next]_vars
  PROVE  /\ Len(revs) \in Nat \ {0} /\ Len(revs') \in Nat
         /\ 1 .. Len(revs) \subseteq 1 .. Len(revs')
         /\ \A r \in 1 .. Len(revs) : revs'[r] = revs[r]
<1>1. revs' = revs \/ \E e \in [Grant -> Relation] : revs' = Append(revs, e)
  BY RevisionsGrow
<1>2. Len(revs) \in Nat \ {0}
  BY LatestTyped
<1>3. Len(revs') \in {Len(revs), Len(revs) + 1}
  BY <1>1, AppendProperties DEF Shapes
<1>4. QED  BY <1>2, <1>3, RevisionsStay

(* What a request reads is a revision, what it writes is one. *)
LEMMA ServeReads ==
  ASSUME Shapes, NEW c \in Callers, Serve(c)
  PROVE  call'[c].rev \in 1 .. Len(revs')
<1>1. /\ IsWrite(call[c].req) => /\ revs' = Append(revs, Effect(call[c].req, Latest))
                                 /\ call'[c].rev = Len(revs')
      /\ ~IsWrite(call[c].req) => revs' = revs /\ call'[c].rev \in Readable(call[c].req)
  BY StepKeeps, StepMoves
<1>2. Len(revs) \in Nat \ {0} /\ Effect(call[c].req, Latest) \in [Grant -> Relation]
  BY LatestTyped, EffectTyped
<1>3. CASE IsWrite(call[c].req)
  <2>1. Len(revs') = Len(revs) + 1
    BY <1>1, <1>2, <1>3, AppendProperties DEF Shapes
  <2>2. QED  BY <1>1, <1>2, <1>3, <2>1
<1>4. CASE ~IsWrite(call[c].req)
  BY <1>1, <1>2, <1>4 DEF Readable
<1>5. QED  BY <1>3, <1>4

(* Two records of a call tell the same, but for its history. *)
Alike(k, l) ==
  /\ k.phase = l.phase
  /\ k.phase # "idle" =>
       /\ k.req = l.req /\ k.rev = l.rev /\ k.verdict = l.verdict
       /\ k.left = l.left /\ k.listed = l.listed

OthersKept(c) == \A d \in Callers \ {c} : Alike(call[d], call'[d])

LEMMA BeginMoves ==
  ASSUME Shapes, NEW c \in Callers, NEW req \in Request, Begin(c, req)
  PROVE  /\ call'[c].phase = "queued" /\ call'[c].req = req
         /\ call'[c].rev = 0 /\ call'[c].verdict = "pending"
         /\ OthersKept(c)
<1>1. ASSUME NEW d \in InFlight PROVE Alike(call[d], [call[d] EXCEPT !.expected = "unknown"])
  <2>1. call[d] \in Call
    BY Underway DEF InFlight
  <2>2. QED  BY <2>1 DEF Call, Alike
<1>2. call'[c] = Started(req) /\ OthersKept(c)
  <2>1. CASE Unsettle(req, c)
    BY <1>1, <2>1 DEF Unsettle, OthersKept, Alike
  <2>2. CASE call' = [call EXCEPT ![c] = Started(req)]
    BY <2>2 DEF Shapes, OthersKept, Alike
  <2>3. QED  BY <2>1, <2>2 DEF Begin
<1>3. QED  BY <1>2 DEF Started

LEMMA RefuseMoves ==
  ASSUME Shapes, NEW c \in Callers, NEW req \in Request, FailClosed(c, req)
  PROVE  /\ call'[c].phase = "returned" /\ call'[c].req = req
         /\ call'[c].rev = 0 /\ call'[c].verdict = "error"
         /\ OthersKept(c)
<1>1. OthersKept(c)
  BY RefusalMoves DEF OthersKept, Alike
<1>2. QED  BY <1>1, RefusalMoves

LEMMA StepOthers ==
  ASSUME Shapes, NEW c \in Callers,
         Serve(c) \/ Receive(c) \/ Reply(c) \/ RpcFails(c) \/ Cancel(c) \/ Evaluate(c)
  PROVE  OthersKept(c)
BY StepKeeps DEF OthersKept, Alike

LEMMA SwapMoves ==
  ASSUME Shapes, NEW dsl, UpdatePolicies(dsl), NEW d \in Callers
  PROVE  Alike(call[d], call'[d])
<1>1. ASSUME NEW k \in Call, NEW s PROVE Alike(k, [k EXCEPT !.seen = s])
  BY DEF Call, Alike
<1>2. CASE d \in InFlight /\ AsksPolicies(call[d].req)
  <2>1. call[d] \in Call
    BY <1>2, Underway DEF InFlight
  <2>2. call'[d] = [call[d] EXCEPT !.seen = call[d].seen \cup {dsl}]
    BY <1>2 DEF UpdatePolicies
  <2>3. QED  BY <1>1, <2>1, <2>2
<1>3. CASE ~(d \in InFlight /\ AsksPolicies(call[d].req))
  BY <1>3 DEF UpdatePolicies, Alike
<1>4. QED  BY <1>2, <1>3

LEMMA GroundedStep == Shapes /\ Grounded /\ [Next]_vars => Grounded'
<1> SUFFICES ASSUME Shapes, Grounded, [Next]_vars, NEW d \in Callers,
                    call'[d].phase \in {"served", "abac"}
             PROVE  /\ call'[d].rev \in 1 .. Len(revs')
                    /\ call'[d].phase = "abac" => call'[d].req.op = "check"
  BY DEF Grounded
<1> DEFINE Good == /\ call'[d].rev \in 1 .. Len(revs')
                   /\ call'[d].phase = "abac" => call'[d].req.op = "check"
<1>1. ASSUME Alike(call[d], call'[d]) PROVE Good
  BY <1>1, MoreRevisions DEF Grounded, Alike
<1>2. ASSUME NEW c \in Callers,
             Serve(c) \/ Receive(c) \/ Reply(c) \/ RpcFails(c) \/ Cancel(c) \/ Evaluate(c)
      PROVE  Good
  <2>1. CASE d # c
    BY <1>1, <1>2, <2>1, StepOthers DEF OthersKept
  <2>2. CASE d = c /\ Serve(c)
    BY <2>2, ServeReads, StepKeeps, StepMoves
  <2>3. CASE d = c /\ Reply(c)
    <3>1. /\ call[c].phase = "served" /\ call'[c].rev = call[c].rev
          /\ call'[c].phase = "abac" => call'[c].req.op = "check"
      BY <2>3, StepKeeps, StepMoves DEF Reply
    <3>2. QED  BY <2>3, <3>1, MoreRevisions DEF Grounded
  <2>4. CASE d = c /\ (RpcFails(c) \/ Cancel(c) \/ Evaluate(c))
    BY <2>4, StepKeeps, StepMoves
  <2>5. CASE d = c /\ Receive(c)
    <3>1. /\ call[c].phase = "served" /\ call'[c].rev = call[c].rev
          /\ call'[c].phase = "served"
      BY <2>5, ReceiveMoves
    <3>2. QED  BY <2>5, <3>1, MoreRevisions DEF Grounded
  <2>6. QED  BY <1>2, <2>1, <2>2, <2>3, <2>4, <2>5
<1>3. ASSUME NEW c \in Callers, NEW req \in Request, Begin(c, req) \/ FailClosed(c, req)
      PROVE  Good
  <2>1. OthersKept(c) /\ call'[c].phase \in {"queued", "returned"}
    BY <1>3, BeginMoves, RefuseMoves
  <2>2. QED  BY <1>1, <2>1 DEF OthersKept
<1>4. ASSUME NEW dsl \in Dsls, UpdatePolicies(dsl)
      PROVE  Good
  BY <1>1, <1>4, SwapMoves
<1>5. ASSUME UNCHANGED call PROVE Good
  BY <1>1, <1>5 DEF Alike
<1>6. QED  BY <1>2, <1>3, <1>4, <1>5 DEF Next, vars, ReplicationFails

-----------------------------------------------------------------------------
(* The mapping. *)

(* What a call found, after a step. *)
LEMMA FoundNext ==
  ASSUME NEW d \in Callers
  PROVE  FoundBy(call[d])' =
           IF call'[d].phase = "idle" \/ call'[d].rev = 0 \/ IsWrite(call'[d].req) THEN {}
           ELSE IF call'[d].req.op = "lookup"
                THEN {g \in About(call'[d].req) : g.resource \in Resolved(call'[d])}
                ELSE Existing(revs'[call'[d].rev]) \cap About(call'[d].req)
<1>1. Resolved(call[d])' = Resolved(call'[d])
  BY DEF Resolved
<1>2. QED  BY <1>1 DEF FoundBy

(* What a call found is what it found: the revisions stay. *)
LEMMA SameAbstraction ==
  ASSUME Shapes, Revisions, [Next]_vars, NEW d \in Callers, Alike(call[d], call'[d])
  PROVE  /\ StageOf(call'[d]) = StageOf(call[d])
         /\ FoundBy(call[d])' = FoundBy(call[d])
<1>1. StageOf(call'[d]) = StageOf(call[d])
  BY DEF StageOf, Alike
<1>2. FoundBy(call[d])' =
        IF call'[d].phase = "idle" \/ call'[d].rev = 0 \/ IsWrite(call'[d].req) THEN {}
        ELSE IF call'[d].req.op = "lookup"
             THEN {g \in About(call'[d].req) : g.resource \in Resolved(call'[d])}
             ELSE Existing(revs'[call'[d].rev]) \cap About(call'[d].req)
  BY FoundNext
<1>3. CASE call[d].phase = "idle" \/ call[d].rev = 0 \/ IsWrite(call[d].req)
  BY <1>1, <1>2, <1>3 DEF FoundBy, Alike
<1>4. CASE ~(call[d].phase = "idle" \/ call[d].rev = 0 \/ IsWrite(call[d].req))
  <2>1. call[d].rev \in 1 .. Len(revs)
    BY <1>4, MoreRevisions DEF Revisions
  <2>2. revs'[call[d].rev] = revs[call[d].rev]
    BY <2>1, RevisionsStay
  <2>3. Resolved(call'[d]) = Resolved(call[d])
    BY <1>4 DEF Resolved, Alike
  <2>4. QED  BY <1>1, <1>2, <1>4, <2>2, <2>3 DEF FoundBy, Alike
<1>5. QED  BY <1>3, <1>4

(* So the abstraction of a step of one call changes that call only. *)
CallsKept(c) ==
  /\ Stages' = [Stages EXCEPT ![c] = StageOf(call'[c])]
  /\ Requested' = [Requested EXCEPT ![c] = Requested'[c]]
  /\ Findings' = [Findings EXCEPT ![c] = Findings'[c]]
  /\ Verdicts' = [Verdicts EXCEPT ![c] = Verdicts'[c]]

LEMMA OneCall ==
  ASSUME Shapes, Revisions, [Next]_vars, NEW c \in Callers, OthersKept(c)
  PROVE  CallsKept(c)
<1>1. ASSUME NEW d \in Callers \ {c}
      PROVE  /\ Stages'[d] = Stages[d] /\ Requested'[d] = Requested[d]
             /\ Findings'[d] = Findings[d] /\ Verdicts'[d] = Verdicts[d]
  <2>1. Alike(call[d], call'[d])
    BY <1>1 DEF OthersKept
  <2>2. Stages'[d] = Stages[d] /\ Findings'[d] = Findings[d]
    BY <2>1, SameAbstraction DEF Stages, Findings
  <2>3. Requested'[d] = Requested[d] /\ Verdicts'[d] = Verdicts[d]
    BY <2>1 DEF Alike, Requested, Verdicts
  <2>4. QED  BY <2>2, <2>3
<1>2. Stages'[c] = StageOf(call'[c])
  BY DEF Stages
<1>3. Stages' = [Stages EXCEPT ![c] = Stages'[c]]
  BY <1>1 DEF Stages
<1>4. Requested' = [Requested EXCEPT ![c] = Requested'[c]]
  BY <1>1 DEF Requested
<1>5. Findings' = [Findings EXCEPT ![c] = Findings'[c]]
  BY <1>1 DEF Findings
<1>6. Verdicts' = [Verdicts EXCEPT ![c] = Verdicts'[c]]
  BY <1>1 DEF Verdicts
<1>7. QED  BY <1>2, <1>3, <1>4, <1>5, <1>6 DEF CallsKept

LEMMA FieldsKept ==
  ASSUME NEW c \in Callers, CallsKept(c)
  PROVE  /\ Stages'[c] = Stages[c] => UNCHANGED Stages
         /\ Requested'[c] = Requested[c] => UNCHANGED Requested
         /\ Findings'[c] = Findings[c] => UNCHANGED Findings
         /\ Verdicts'[c] = Verdicts[c] => UNCHANGED Verdicts
<1>1. Stages = [d \in Callers |-> Stages[d]] /\ Requested = [d \in Callers |-> Requested[d]]
  BY DEF Stages, Requested
<1>2. Findings = [d \in Callers |-> Findings[d]] /\ Verdicts = [d \in Callers |-> Verdicts[d]]
  BY DEF Findings, Verdicts
<1>3. StageOf(call'[c]) = Stages'[c]
  BY DEF Stages
<1>4. QED  BY <1>1, <1>2, <1>3 DEF CallsKept

LEMMA NoCall ==
  ASSUME Shapes, Revisions, [Next]_vars, \A d \in Callers : Alike(call[d], call'[d])
  PROVE  UNCHANGED <<Stages, Requested, Findings, Verdicts>>
<1>1. UNCHANGED Stages
  BY SameAbstraction DEF Stages
<1>2. UNCHANGED Findings
  <2>1. \A d \in Callers : FoundBy(call[d])' = FoundBy(call[d])
    BY SameAbstraction
  <2>2. QED  BY <2>1 DEF Findings
<1>3. UNCHANGED <<Requested, Verdicts>>
  BY DEF Requested, Verdicts, Alike
<1>4. QED  BY <1>1, <1>2, <1>3

(* Only a write changes the store. *)
LEMMA StoreStays == UNCHANGED revs => UNCHANGED <<Present, Past>>
BY DEF Present, Past, Latest, Existing

-----------------------------------------------------------------------------
(* The actions. *)

LEMMA SharedInit == Init => Shared!Init
<1> SUFFICES ASSUME Init PROVE Shared!Init
  OBVIOUS
<1>1. PICK rels \in [Grant -> Relation] : revs = <<rels>>
  BY DEF Init
<1>2. Present \in SUBSET Grant /\ Past = {Present}
  BY <1>1 DEF Present, Past, Latest, Existing
<1>3. \A c \in Callers : call[c].phase = "idle"
  BY DEF Init, Idle
<1>4. Broken = FALSE
  BY DEF Init, Broken
<1>5. policies \in Dsl \ {"malformed"}
  BY DslAssumption DEF Init
<1>6. QED
  BY <1>2, <1>3, <1>4, <1>5
     DEF Shared!Init, Shared!Nothing, Stages, Requested, Findings, Verdicts, StageOf, FoundBy

(* A call of the abstract engine, by its fields. *)
LEMMA Fields ==
  ASSUME NEW c \in Callers
  PROVE  /\ Stages[c] = StageOf(call[c]) /\ Findings[c] = FoundBy(call[c])
         /\ call[c].phase # "idle" =>
              Requested[c] = call[c].req /\ Verdicts[c] = call[c].verdict
BY DEF Stages, Findings, Requested, Verdicts

LEMMA SharedAsk ==
  ASSUME Shapes, Revisions, [Next]_vars, NEW c \in Callers, NEW req \in Request,
         Begin(c, req) \/ FailClosed(c, req)
  PROVE  [Shared!Next]_(Shared!vars)
<1>1. /\ call[c].phase \in {"idle", "returned"}
      /\ UNCHANGED <<attached, fatal, policies, revs>>
  BY DEF Begin, FailClosed, Free
<1>2. UNCHANGED <<Present, Past, policies, Broken>>
  BY <1>1, StoreStays DEF Broken
<1>3. OthersKept(c) /\ call'[c].req = req /\ call'[c].rev = 0 /\ call'[c].phase # "idle"
  BY BeginMoves, RefuseMoves
<1>4. CallsKept(c)
  BY <1>3, OneCall
<1>5. Stages[c] \in {"idle", "returned"}
  BY <1>1 DEF Stages, StageOf
<1>6. Requested'[c] = req /\ Findings'[c] = {} /\ Verdicts'[c] = call'[c].verdict
  BY <1>3 DEF Requested, Findings, Verdicts, FoundBy
<1>7. \E r \in Request : Requested' = [Requested EXCEPT ![c] = r]
  <2>1. Requested' = [Requested EXCEPT ![c] = req]
    BY <1>4, <1>6 DEF CallsKept
  <2>2. QED  BY <2>1
<1>8. ASSUME NEW s, NEW v, StageOf(call'[c]) = s, Verdicts'[c] = v
      PROVE  Shared!Ask(c, s, v)
  <2>1. /\ Stages' = [Stages EXCEPT ![c] = s]
        /\ Findings' = [Findings EXCEPT ![c] = {}]
        /\ Verdicts' = [Verdicts EXCEPT ![c] = v]
    BY <1>4, <1>6, <1>8 DEF CallsKept
  <2>2. QED  BY <1>2, <1>5, <1>7, <2>1 DEF Shared!Ask, Shared!Free
<1>9. CASE Begin(c, req)
  <2>1. StageOf(call'[c]) = "asked" /\ Verdicts'[c] = "pending"
    BY <1>6, <1>9, BeginMoves DEF StageOf
  <2>2. ~Broken
    BY <1>9 DEF Begin
  <2>3. QED  BY <1>8, <2>1, <2>2 DEF Shared!Next, Shared!Begin
<1>10. CASE FailClosed(c, req)
  <2>1. StageOf(call'[c]) = "returned" /\ Verdicts'[c] = "error"
    BY <1>6, <1>10, RefuseMoves DEF StageOf
  <2>2. Broken
    BY <1>10 DEF FailClosed
  <2>3. QED  BY <1>8, <2>1, <2>2 DEF Shared!Next, Shared!Refuse
<1>11. QED  BY <1>9, <1>10

(* What a step of a call leaves alone. *)
LEMMA StepFrame ==
  ASSUME Shapes, NEW c \in Callers,
         Serve(c) \/ Receive(c) \/ Reply(c) \/ RpcFails(c) \/ Cancel(c) \/ Evaluate(c)
  PROVE  /\ UNCHANGED <<attached, fatal, policies>> /\ UNCHANGED Broken
         /\ ~Serve(c) => UNCHANGED revs
<1>1. UNCHANGED <<attached, fatal, policies>>
  <2>1. ASSUME Reply(c) \/ Evaluate(c) PROVE UNCHANGED <<attached, fatal, policies>>
    BY <2>1 DEF Reply, Evaluate
  <2>2. QED  BY <2>1, ServeMoves, ReceiveMoves, FailMoves
<1>2. ~Serve(c) => UNCHANGED revs
  <2>1. ASSUME Reply(c) \/ Evaluate(c) PROVE UNCHANGED revs
    BY <2>1 DEF Reply, Evaluate
  <2>2. QED  BY <2>1, ReceiveMoves, FailMoves
<1>3. QED  BY <1>1, <1>2 DEF Broken

(* The request of a call, and the grants it is about. *)
LEMMA RequestNames ==
  ASSUME Shapes, NEW c \in Callers, call[c].phase # "idle"
  PROVE  /\ call[c].req \in Request
         /\ [req \in Request |-> About(req)][call[c].req] = About(call[c].req)
BY Underway

(* A write adds the grants it is about, or takes them away. *)
LEMMA EffectOfWrite ==
  ASSUME NEW req, NEW rels \in [Grant -> Relation], IsWrite(req)
  PROVE  Existing(Effect(req, rels)) =
           IF req.op = "register" THEN Existing(rels) \cup About(req)
                                  ELSE Existing(rels) \ About(req)
<1>1. req.op # "lookup"
  BY DEF IsWrite
<1>2. \A g \in Grant : g \in About(req) <=> Matched(req, g)
  BY <1>1 DEF About
<1>3. \A g \in Grant :
        Effect(req, rels)[g] = IF Matched(req, g)
                               THEN IF req.op = "register" THEN "plain" ELSE "absent"
                               ELSE rels[g]
  BY DEF Effect
<1>4. About(req) \subseteq Grant
  BY DEF About
<1>5. \A e \in [Grant -> Relation], g \in Grant : g \in Existing(e) <=> e[g] # "absent"
  BY StructuralExists DEF Existing
<1>6. Effect(req, rels) \in [Grant -> Relation]
  BY EffectTyped
<1>7. Existing(Effect(req, rels)) \subseteq Grant /\ Existing(rels) \subseteq Grant
  BY DEF Existing
<1>8. QED  BY <1>2, <1>3, <1>4, <1>5, <1>6, <1>7

LEMMA SharedWrite ==
  ASSUME Shapes, Revisions, [Next]_vars, NEW c \in Callers, Serve(c), IsWrite(call[c].req)
  PROVE  Shared!Write(c)
<1> DEFINE req == call[c].req
           e == Effect(req, Latest)
<1>1. /\ call[c].phase = "queued" /\ call'[c].phase = "served"
      /\ call'[c].verdict = call[c].verdict /\ call'[c].req = req
      /\ revs' = Append(revs, e) /\ call[c].rev = 0
  BY StepKeeps, StepMoves DEF Revisions, Serve
<1>2. e \in [Grant -> Relation] /\ Latest \in [Grant -> Relation] /\ Len(revs) \in Nat \ {0}
  BY LatestTyped, EffectTyped
<1>3. CallsKept(c)
  BY StepOthers, OneCall
<1>4. /\ Stages[c] = "asked" /\ StageOf(call'[c]) = "done"
      /\ Requested[c] = req /\ Requested'[c] = req
      /\ Findings[c] = {} /\ Findings'[c] = {}
      /\ Verdicts'[c] = Verdicts[c]
  BY <1>1 DEF Stages, StageOf, Requested, Findings, FoundBy, Verdicts
<1> HIDE DEF e
<1>5. /\ Len(revs') = Len(revs) + 1 /\ revs'[Len(revs')] = e
      /\ DOMAIN revs' = 1 .. Len(revs) + 1 /\ DOMAIN revs = 1 .. Len(revs)
      /\ \A i \in 1 .. Len(revs) : revs'[i] = revs[i]
  BY <1>1, <1>2, AppendProperties, LenProperties DEF Shapes
<1>6. Present' = Existing(e)
  BY <1>5 DEF Present, Latest, Existing
<1>7. Present' = IF req.op = "register" THEN Present \cup About(req) ELSE Present \ About(req)
  BY <1>2, <1>6, EffectOfWrite DEF Present, e
<1>8. Past' = Past \cup {Present'}
  <2>1. Past' = {Existing(revs'[i]) : i \in 1 .. Len(revs) + 1}
    BY <1>5 DEF Past, Existing
  <2>2. Past = {Existing(revs[i]) : i \in 1 .. Len(revs)}
    BY <1>5 DEF Past
  <2>3. 1 .. Len(revs) + 1 = (1 .. Len(revs)) \cup {Len(revs) + 1}
    BY <1>2
  <2>4. QED  BY <1>5, <1>6, <2>1, <2>2, <2>3
<1>9. UNCHANGED <<policies, Broken, Requested, Findings, Verdicts>>
  <2>1. UNCHANGED <<policies, Broken>>
    BY StepFrame
  <2>2. UNCHANGED <<Requested, Findings, Verdicts>>
    BY <1>3, <1>4, FieldsKept
  <2>3. QED  BY <2>1, <2>2
<1>10. [r \in Request |-> About(r)][Requested[c]] = About(req)
  BY <1>1, <1>4, RequestNames
<1>11. Stages' = [Stages EXCEPT ![c] = "done"]
  BY <1>3, <1>4 DEF CallsKept
<1>12. Requested[c].op \in {"register", "revoke", "revokeByFilter"}
  BY <1>4 DEF IsWrite
<1>13. QED
  BY <1>4, <1>7, <1>8, <1>9, <1>10, <1>11, <1>12 DEF Shared!Write

(* A read finds what there is, or was, of what it is about. *)
LEMMA SharedRead ==
  ASSUME Shapes, Revisions, Streams, [Next]_vars, NEW c \in Callers, Serve(c),
         ~IsWrite(call[c].req)
  PROVE  Shared!Read(c)
<1> DEFINE req == call[c].req
           r == call'[c].rev
<1>1. /\ call[c].phase = "queued" /\ call'[c].phase = "served"
      /\ call'[c].verdict = call[c].verdict /\ call'[c].req = req
      /\ revs' = revs /\ r \in Readable(req)
  BY StepKeeps, StepMoves DEF Revisions, Serve
<1>2. /\ Len(revs) \in Nat \ {0} /\ DOMAIN revs = 1 .. Len(revs)
      /\ r \in 1 .. Len(revs) /\ r # 0
  BY <1>1, LatestTyped, LenProperties, ServeReads DEF Shapes
<1>3. req \in Request /\ [q \in Request |-> About(q)][req] = About(req)
  BY <1>1, RequestNames
<1>4. req.op \in {"check", "lookup"}
  BY <1>3 DEF Request, IsWrite
<1>5. CallsKept(c)
  BY StepOthers, OneCall
<1>6. /\ Stages[c] = "asked" /\ StageOf(call'[c]) = "done"
      /\ Requested[c] = req /\ Requested'[c] = req
      /\ Verdicts'[c] = Verdicts[c]
  BY <1>1 DEF Stages, StageOf, Requested, Verdicts
<1>7. Findings'[c] = Existing(revs[r]) \cap About(req)
  <2>1. Findings'[c] =
          IF req.op = "lookup" THEN {g \in About(req) : g.resource \in Resolved(call'[c])}
          ELSE Existing(revs[r]) \cap About(req)
    <3>1. Findings'[c] = FoundBy(call[c])'
      BY DEF Findings
    <3>2. QED  BY <1>1, <1>2, <3>1, FoundNext
  <2>2. CASE req.op # "lookup"
    BY <2>1, <2>2
  <2>3. CASE req.op = "lookup"
    <3>1. Resolved(call'[c]) = {item.resource : item \in Streamed(req, revs[r])}
      <4>1. call[c].rev = 0 /\ call[c].listed = {}
        BY <1>1 DEF Revisions, Streams, StreamHolds
      <4>2. call'[c].left = Streamed(req, revs[r]) /\ call'[c].listed = {}
        BY <4>1, ServeMoves
      <4>3. QED  BY <4>2 DEF Resolved
    <3>2. \A g \in About(req) : g \in Grant /\ g = [resource |-> g.resource, user |-> req.user]
                                /\ g.resource \in Resources
      BY <2>3 DEF About, Grant
    <3>3. \A g \in About(req) : g.resource \in Resolved(call'[c]) <=> Structural(revs[r], g)
      BY <1>3, <2>3, <3>1, <3>2, StreamIsComplete
    <3>4. \A g \in About(req) : g \in Existing(revs[r]) <=> Structural(revs[r], g)
      BY <3>2 DEF Existing
    <3>5. QED  BY <2>1, <2>3, <3>3, <3>4
  <2>4. QED  BY <2>2, <2>3
<1>8. Existing(revs[r]) \in IF Shared!Latest(req) THEN {Present} ELSE Past
  <2>1. CASE Shared!Latest(req)
    BY <1>1, <2>1 DEF Shared!Latest, Readable, Present, Latest
  <2>2. CASE ~Shared!Latest(req)
    BY <1>2, <2>2 DEF Past
  <2>3. QED  BY <2>1, <2>2
<1> HIDE DEF req, r
<1>9. \E s \in IF Shared!Latest(Requested[c]) THEN {Present} ELSE Past :
        Findings' = [Findings EXCEPT ![c] = s \cap [q \in Request |-> About(q)][Requested[c]]]
  <2>1. Findings' = [Findings EXCEPT ![c] = Existing(revs[r]) \cap About(req)]
    BY <1>5, <1>7 DEF CallsKept
  <2>2. QED  BY <1>3, <1>6, <1>8, <2>1
<1>10. UNCHANGED <<Present, Past, policies, Broken>>
  BY <1>1, StoreStays, StepFrame
<1>11. UNCHANGED <<Requested, Verdicts>>
  BY <1>5, <1>6, FieldsKept
<1>12. Stages' = [Stages EXCEPT ![c] = "done"]
  BY <1>5, <1>6 DEF CallsKept
<1>13. QED  BY <1>4, <1>6, <1>9, <1>10, <1>11, <1>12 DEF Shared!Read

(* What it found does not depend on how far a list of it has come. *)
LEMMA SameFindings ==
  ASSUME NEW c \in Callers, call[c].phase # "idle", call'[c].phase # "idle",
         call'[c].req = call[c].req, call'[c].rev = call[c].rev,
         Resolved(call'[c]) = Resolved(call[c]), UNCHANGED revs
  PROVE  Findings'[c] = Findings[c]
<1>1. FoundBy(call[c])' = FoundBy(call[c])
  BY FoundNext DEF FoundBy
<1>2. QED  BY <1>1 DEF Findings

(* The end of a call, with what it returns. *)
LEMMA SharedEnd ==
  ASSUME Shapes, Revisions, [Next]_vars, NEW c \in Callers,
         Reply(c) \/ RpcFails(c) \/ Cancel(c) \/ Evaluate(c),
         call'[c].phase = "returned"
  PROVE  Shared!End(c, call'[c].verdict)
<1>1. /\ call[c].phase # "idle" /\ call'[c].req = call[c].req /\ call'[c].rev = call[c].rev
      /\ call'[c].left = call[c].left /\ call'[c].listed = call[c].listed
      /\ UNCHANGED revs
  <2>1. call[c].phase # "idle" /\ call[c] \in Call /\ call'[c].req = call[c].req
    BY StepKeeps DEF InFlight
  <2>2. /\ call'[c].rev = call[c].rev
        /\ call'[c].left = call[c].left /\ call'[c].listed = call[c].listed
    BY <2>1, StepMoves
  <2>3. UNCHANGED revs
    BY StepFrame, ServeMoves
  <2>4. QED  BY <2>1, <2>2, <2>3
<1>2. CallsKept(c)
  BY StepOthers, OneCall
<1>3. /\ StageOf(call'[c]) = "returned"
      /\ Requested'[c] = Requested[c]
      /\ Verdicts'[c] = call'[c].verdict
  BY <1>1 DEF StageOf, Requested, Verdicts
<1>4. Findings'[c] = Findings[c]
  <2>1. Resolved(call'[c]) = Resolved(call[c])
    BY <1>1 DEF Resolved
  <2>2. QED  BY <1>1, <2>1, SameFindings
<1>5. UNCHANGED <<Present, Past, policies, Broken>>
  BY <1>1, StoreStays, StepFrame
<1>6. UNCHANGED <<Requested, Findings>>
  BY <1>2, <1>3, <1>4, FieldsKept
<1>7. /\ Stages' = [Stages EXCEPT ![c] = "returned"]
      /\ Verdicts' = [Verdicts EXCEPT ![c] = call'[c].verdict]
  BY <1>2, <1>3 DEF CallsKept
<1>8. QED  BY <1>5, <1>6, <1>7 DEF Shared!End

LEMMA SharedFail ==
  ASSUME Shapes, Revisions, [Next]_vars, NEW c \in Callers, RpcFails(c) \/ Cancel(c)
  PROVE  Shared!Fail(c)
<1>1. /\ call[c].phase \in {"queued", "served"}
      /\ call'[c].phase = "returned" /\ call'[c].verdict = "error"
  BY StepKeeps, StepMoves DEF RpcFails, Cancel
<1>2. Stages[c] \in {"asked", "done"}
  BY <1>1 DEF Stages, StageOf
<1>3. Shared!End(c, "error")
  BY <1>1, SharedEnd
<1>4. QED  BY <1>2, <1>3 DEF Shared!Fail

(* A check goes on to its policies, which nobody sees; other calls return. *)
LEMMA SharedReply ==
  ASSUME Shapes, Revisions, [Next]_vars, NEW c \in Callers, Reply(c)
  PROVE  [Shared!Next]_(Shared!vars)
<1>1. /\ call[c].phase = "served" /\ call'[c].req = call[c].req
      /\ call'[c].rev = call[c].rev
      /\ call'[c].left = call[c].left /\ call'[c].listed = call[c].listed
      /\ UNCHANGED revs
  BY StepKeeps, StepMoves DEF Reply
<1>2. Stages[c] = "done" /\ Requested[c] = call[c].req
  BY <1>1 DEF Stages, StageOf, Requested
<1>3. CASE call[c].req.op # "check"
  <2>1. call'[c].phase = "returned" /\ call'[c].verdict = "ok"
    BY <1>3, StepKeeps, StepMoves
  <2>2. Shared!End(c, "ok")
    BY <2>1, SharedEnd
  <2>3. QED  BY <1>2, <1>3, <2>2 DEF Shared!Next, Shared!Return
<1>4. CASE call[c].req.op = "check"
  <2>1. call'[c].phase = "abac" /\ call'[c].verdict = call[c].verdict
    BY <1>4, StepKeeps, StepMoves
  <2>2. CallsKept(c)
    BY StepOthers, OneCall
  <2>3. /\ Stages'[c] = "done" /\ Requested'[c] = Requested[c]
        /\ Verdicts'[c] = Verdicts[c]
    BY <1>1, <2>1 DEF Stages, StageOf, Requested, Verdicts
  <2>4. Findings'[c] = Findings[c]
    <3>1. Resolved(call'[c]) = Resolved(call[c])
      BY <1>1 DEF Resolved
    <3>2. QED  BY <1>1, <2>1, <3>1, SameFindings
  <2>5. UNCHANGED <<Stages, Requested, Findings, Verdicts>>
    BY <1>2, <2>2, <2>3, <2>4, FieldsKept
  <2>6. UNCHANGED <<Present, Past, policies, Broken>>
    BY <1>1, StoreStays, StepFrame
  <2>7. QED  BY <2>5, <2>6 DEF Shared!vars
<1>5. QED  BY <1>3, <1>4

(* An item that is received was found before: nobody sees it. *)
LEMMA SharedReceive ==
  ASSUME Shapes, Revisions, [Next]_vars, NEW c \in Callers, Receive(c)
  PROVE  UNCHANGED Shared!vars
<1>1. /\ call[c].phase = "served" /\ call'[c].phase = "served"
      /\ call'[c].req = call[c].req /\ call'[c].rev = call[c].rev
      /\ call'[c].verdict = call[c].verdict /\ UNCHANGED revs
  BY ReceiveMoves
<1>2. Resolved(call'[c]) = Resolved(call[c])
  BY ReceiveMoves DEF Resolved
<1>3. CallsKept(c)
  BY StepOthers, OneCall
<1>4. /\ Stages'[c] = Stages[c] /\ Requested'[c] = Requested[c]
      /\ Verdicts'[c] = Verdicts[c]
  BY <1>1 DEF Stages, StageOf, Requested, Verdicts
<1>5. Findings'[c] = Findings[c]
  BY <1>1, <1>2, SameFindings
<1>6. UNCHANGED <<Stages, Requested, Findings, Verdicts>>
  BY <1>3, <1>4, <1>5, FieldsKept
<1>7. UNCHANGED <<Present, Past, policies, Broken>>
  BY <1>1, StoreStays, StepFrame
<1>8. QED  BY <1>6, <1>7 DEF Shared!vars

(* A check is decided by what it found, and by the policies of now. *)
LEMMA SharedDecide ==
  ASSUME Shapes, Revisions, Grounded, [Next]_vars, NEW c \in Callers, Evaluate(c)
  PROVE  Shared!Decide(c)
<1> DEFINE req == call[c].req
           policy == IF req.override # "none" THEN req.override ELSE policies
           found == FoundBy(call[c])
<1>1. /\ call[c].phase = "abac" /\ call'[c].phase = "returned"
      /\ call'[c].verdict = Answer(policy, Allowed(call[c]), req.context)
  BY StepKeeps, StepMoves DEF Evaluate, Verdict
<1>2. req \in Request /\ req.op = "check" /\ call[c].rev \in 1 .. Len(revs)
  BY <1>1, RequestNames DEF Grounded
<1>3. req.grant \in Grant /\ req.override \in Dsl /\ req.context \in Context
  <2>1. req.grant \in Grant
    BY <1>2, Named
  <2>2. req.override \in Overrides /\ req.context \in Contexts
    BY <1>2 DEF Request
  <2>3. QED  BY <2>1, <2>2, DslAssumption
<1>4. policy \in Dsl
  BY <1>3 DEF Shapes
<1>5. found = Existing(revs[call[c].rev]) \cap {req.grant}
  <2>1. About(req) = {req.grant}
    BY <1>2, <1>3 DEF About, Matched
  <2>2. call[c].rev # 0
    BY <1>2, LatestTyped
  <2>3. ~IsWrite(req) /\ req.op # "lookup" /\ call[c].phase # "idle"
    BY <1>1, <1>2 DEF IsWrite
  <2>4. found = Existing(revs[call[c].rev]) \cap About(req)
    BY <2>2, <2>3 DEF FoundBy
  <2>5. QED  BY <2>1, <2>4
<1>6. Allowed(call[c]) <=> found # {}
  BY <1>3, <1>5 DEF Allowed, Existing
<1>7. Allowed(call[c]) \in BOOLEAN /\ (found # {}) \in BOOLEAN
  BY DEF Allowed, Structural
<1>8. Allowed(call[c]) = (found # {})
  BY <1>6, <1>7
<1> HIDE DEF policy, found
<1>9. Decisions[policy][found # {}][req.context] = call'[c].verdict
  <2>1. Decisions[policy][found # {}][req.context] = Answer(policy, found # {}, req.context)
    BY <1>3, <1>4, <1>7 DEF Decisions
  <2>2. QED  BY <1>1, <1>8, <2>1
<1>10. Stages[c] = "done" /\ Requested[c] = req /\ Findings[c] = found
  BY <1>1 DEF Stages, StageOf, Requested, Findings, found
<1>11. Shared!Policy(req) = policy
  BY DEF Shared!Policy, policy
<1>12. Shared!End(c, call'[c].verdict)
  BY <1>1, SharedEnd
<1>13. QED  BY <1>2, <1>9, <1>10, <1>11, <1>12 DEF Shared!Decide

LEMMA SharedStep ==
  Shapes /\ Revisions /\ Grounded /\ Streams /\ [Next]_vars => [Shared!Next]_(Shared!vars)
<1> SUFFICES ASSUME Shapes, Revisions, Grounded, Streams, [Next]_vars
             PROVE  [Shared!Next]_(Shared!vars)
  OBVIOUS
<1>1. ASSUME NEW c \in Callers, NEW req \in Request, Begin(c, req) \/ FailClosed(c, req)
      PROVE  [Shared!Next]_(Shared!vars)
  BY <1>1, SharedAsk
<1>2. ASSUME NEW c \in Callers, Serve(c) PROVE [Shared!Next]_(Shared!vars)
  BY <1>2, SharedWrite, SharedRead DEF Shared!Next
<1>3. ASSUME NEW c \in Callers, Reply(c) PROVE [Shared!Next]_(Shared!vars)
  BY <1>3, SharedReply
<1>4. ASSUME NEW c \in Callers, RpcFails(c) \/ Cancel(c) PROVE [Shared!Next]_(Shared!vars)
  BY <1>4, SharedFail DEF Shared!Next
<1>5. ASSUME NEW c \in Callers, Evaluate(c) PROVE [Shared!Next]_(Shared!vars)
  BY <1>5, SharedDecide DEF Shared!Next
<1>6. ASSUME NEW dsl \in Dsls, UpdatePolicies(dsl) PROVE [Shared!Next]_(Shared!vars)
  <2>1. UNCHANGED <<Stages, Requested, Findings, Verdicts>>
    BY <1>6, SwapMoves, NoCall
  <2>2. UNCHANGED <<revs, attached, fatal>> /\ policies' \in Dsl \ {"malformed"}
    BY <1>6, DslAssumption DEF UpdatePolicies
  <2>3. UNCHANGED <<Present, Past, Broken>>
    BY <2>2, StoreStays DEF Broken
  <2>4. QED  BY <2>1, <2>2, <2>3 DEF Shared!Next, Shared!Swap
<1>7. ASSUME ReplicationFails PROVE [Shared!Next]_(Shared!vars)
  <2>1. UNCHANGED <<revs, call, policies, attached>> /\ fatal' = TRUE
    BY <1>7 DEF ReplicationFails
  <2>2. UNCHANGED <<Stages, Requested, Findings, Verdicts>>
    BY <2>1, NoCall DEF Alike
  <2>3. UNCHANGED <<Present, Past>>
    BY <2>1, StoreStays
  <2>4. CASE attached
    <3>1. Broken' = TRUE
      BY <2>1, <2>4 DEF Broken
    <3>2. QED  BY <2>1, <2>2, <2>3, <3>1 DEF Shared!Next, Shared!Close
  <2>5. CASE ~attached
    <3>1. UNCHANGED Broken
      BY <2>1, <2>5 DEF Broken
    <3>2. QED  BY <2>1, <2>2, <2>3, <3>1 DEF Shared!vars
  <2>6. QED  BY <2>4, <2>5
<1>8. CASE UNCHANGED vars
  <2>1. UNCHANGED <<revs, call, policies, attached, fatal>>
    BY <1>8 DEF vars
  <2>2. UNCHANGED <<Stages, Requested, Findings, Verdicts>>
    BY <2>1, NoCall DEF Alike
  <2>3. UNCHANGED <<Present, Past, Broken>>
    BY <2>1, StoreStays DEF Broken
  <2>4. QED  BY <2>1, <2>2, <2>3 DEF Shared!vars
<1>9. ASSUME NEW c \in Callers, Receive(c) PROVE [Shared!Next]_(Shared!vars)
  BY <1>9, SharedReceive
<1>10. QED  BY <1>1, <1>2, <1>3, <1>4, <1>5, <1>6, <1>7, <1>8, <1>9 DEF Next

(* The engine, with the client its tasks queue for, SpiceDB's revisions and*)
(* the steps of a check, behaves as if every call took effect at once.     *)
THEOREM EngineIsShared == Spec => ImplementsSharedEngine
<1>1. Init => Grounded /\ Shared!Init
  BY GroundedInit, SharedInit
<1>2. Shapes /\ Store /\ Streams /\ Grounded /\ [Next]_vars
        => Grounded' /\ [Shared!Next]_(Shared!vars)
  BY GroundedStep, SharedStep DEF Store
<1>3. QED
  BY <1>1, <1>2, Invariance, PTL DEF Spec, ImplementsSharedEngine, Shared!Spec

=============================================================================
