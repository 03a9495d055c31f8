-------------------------- MODULE AuthorizationProofs --------------------------
(***************************************************************************)
(* Theorems about Authorization for every number of tasks and calls, and   *)
(* all resources, users, policies and contexts.                            *)
(*                                                                         *)
(* The order of the module: types, the line in front of the client, what   *)
(* the acknowledged writes say of the store, under which policies a check  *)
(* is answered, and the properties that follow.                            *)
(***************************************************************************)
EXTENDS Authorization, LineProofs, SequenceTheorems, TLAPS

-----------------------------------------------------------------------------
(* Types.  The Boolean variables are kept apart from the others. *)

Flags == attached \in BOOLEAN /\ fatal \in BOOLEAN

Shapes ==
  /\ policies \in Dsl \ {"malformed"} /\ intended \in Dsl \ {"malformed"}
  /\ revs \in Seq([Grant -> Relation]) /\ revs # <<>>
  /\ call \in [Callers -> Call \cup {Idle}]
  /\ begun \in 0 .. MaxCalls
  /\ settled \in [Grant -> {"absent", "present", "unknown"}]

LEMMA FlagsStep == Flags /\ [Next]_vars => Flags'
<1> SUFFICES ASSUME Flags, [Next]_vars PROVE Flags'
  OBVIOUS
<1>1. ASSUME NEW c \in Callers, NEW req \in Request, Begin(c, req) \/ FailClosed(c, req)
      PROVE  Flags'
  BY <1>1 DEF Flags, Begin, FailClosed
<1>2. ASSUME NEW c \in Callers,
             Serve(c) \/ Receive(c) \/ Reply(c) \/ RpcFails(c) \/ Cancel(c) \/ Evaluate(c)
      PROVE  Flags'
  BY <1>2 DEF Flags, Serve, Receive, Reply, RpcFails, Cancel, Evaluate
<1>3. ASSUME (\E dsl \in Dsls : UpdatePolicies(dsl)) \/ ReplicationFails \/ UNCHANGED vars
      PROVE  Flags'
  BY <1>3 DEF Flags, UpdatePolicies, ReplicationFails, vars
<1>4. QED  BY <1>1, <1>2, <1>3 DEF Next

(* A call under way is a call. *)
LEMMA Underway ==
  ASSUME Shapes, NEW c \in Callers, call[c].phase # "idle"
  PROVE  call[c] \in Call /\ call[c].req \in Request
BY DEF Shapes, Call, Idle

LEMMA Named ==
  ASSUME NEW req \in Request, req.op # "revokeByFilter", req.op # "lookup"
  PROVE  req.grant \in Grant
BY DEF Request

LEMMA StartedTyped ==
  ASSUME Shapes, NEW req \in Request
  PROVE  Started(req) \in Call
<1>1. req.op = "check" => settled[req.grant] \in {"absent", "present", "unknown"}
  BY Named DEF Shapes
<1>2. {intended} \in SUBSET Dsl /\ {} \in SUBSET Dsl
  BY DEF Shapes
<1> DEFINE e == IF req.op = "check" THEN settled[req.grant] ELSE "unknown"
           s == IF AsksPolicies(req) THEN {intended} ELSE {}
<1>3. e \in {"absent", "present", "unknown"} /\ s \in SUBSET Dsl
  BY <1>1, <1>2
<1>4. Started(req) = [phase |-> "queued", req |-> req, rev |-> 0, left |-> {}, listed |-> {},
                      verdict |-> "pending", expected |-> e, seen |-> s]
  BY DEF Started
<1> HIDE DEF e, s
<1>5. QED  BY <1>3, <1>4 DEF Call

LEMMA StreamTyped ==
  ASSUME NEW req, NEW rels
  PROVE  Streamed(req, rels) \in SUBSET Item
BY DEF Streamed

(* A call that is read for. *)
LEMMA OpenedMoves ==
  ASSUME NEW k \in Call, NEW r \in Nat
  PROVE  LET l == Opened(k, r)
         IN  /\ l \in Call /\ l.phase = "served" /\ l.req = k.req /\ l.rev = r
             /\ l.verdict = k.verdict /\ l.expected = k.expected /\ l.seen = k.seen
             /\ l.left = Streamed(k.req, revs[r]) /\ l.listed = k.listed
<1> DEFINE s == Streamed(k.req, revs[r])
<1>1. Opened(k, r) = [k EXCEPT !.phase = "served", !.rev = r, !.left = s]
  BY DEF Opened
<1>2. s \in SUBSET Item
  BY StreamTyped
<1> HIDE DEF s
<1>3. LET l == Opened(k, r)
      IN  /\ l \in Call /\ l.phase = "served" /\ l.req = k.req /\ l.rev = r
          /\ l.verdict = k.verdict /\ l.expected = k.expected /\ l.seen = k.seen
          /\ l.left = s /\ l.listed = k.listed
  BY <1>1, <1>2 DEF Call
<1>4. QED  BY <1>3 DEF s

(* A lookup that goes on to the next item. *)
LEMMA ReceivedMoves ==
  ASSUME NEW k \in Call, NEW item \in k.left
  PROVE  LET l == Received(k, item)
         IN  /\ l \in Call /\ l.phase = k.phase /\ l.req = k.req /\ l.rev = k.rev
             /\ l.verdict = k.verdict /\ l.expected = k.expected /\ l.seen = k.seen
             /\ l.left = k.left \ {item} /\ l.listed = k.listed \cup {item.resource}
<1>1. item \in Item /\ k.left \ {item} \in SUBSET Item
  BY DEF Call
<1>2. k.listed \cup {item.resource} \in SUBSET Resources
  BY <1>1 DEF Call, Item
<1>3. Received(k, item) = [k EXCEPT !.left = k.left \ {item},
                                    !.listed = k.listed \cup {item.resource}]
  BY DEF Received
<1>4. QED  BY <1>1, <1>2, <1>3 DEF Call

(* A grant is allowed structurally if it exists, conditional or not. *)
LEMMA StructuralExists ==
  ASSUME NEW rels \in [Grant -> Relation], NEW g \in Grant
  PROVE  Structural(rels, g) <=> rels[g] # "absent"
BY DEF Structural, Permissionship, Relation

(* A call that returns an error. *)
LEMMA FailedMoves ==
  ASSUME NEW k \in Call
  PROVE  LET l == Failed(k)
         IN  /\ l \in Call /\ l.phase = "returned" /\ l.req = k.req /\ l.rev = k.rev
             /\ l.verdict = "error" /\ l.expected = k.expected /\ l.seen = k.seen
             /\ l.left = k.left /\ l.listed = k.listed
BY DEF Failed, Call

LEMMA LatestTyped == Shapes => /\ Len(revs) \in Nat \ {0} /\ Latest \in [Grant -> Relation]
<1> SUFFICES ASSUME Shapes PROVE Len(revs) \in Nat \ {0} /\ Latest \in [Grant -> Relation]
  OBVIOUS
<1>1. Len(revs) \in Nat /\ Len(revs) # 0
  BY LenProperties, EmptySeq DEF Shapes
<1>2. Latest \in [Grant -> Relation]
  BY <1>1, ElementOfSeq DEF Shapes, Latest
<1>3. QED  BY <1>1, <1>2

LEMMA EffectTyped ==
  ASSUME NEW req, NEW rels \in [Grant -> Relation]
  PROVE  Effect(req, rels) \in [Grant -> Relation]
BY DEF Effect, Relation

LEMMA AnswerTyped ==
  ASSUME NEW policy, NEW structural, NEW context
  PROVE  Answer(policy, structural, context) \in {"true", "false", "error"}
BY DEF Answer

LEMMA ShapesInit == Init => Shapes
<1> SUFFICES ASSUME Init PROVE Shapes
  OBVIOUS
<1>1. PICK rels \in [Grant -> Relation] : revs = <<rels>>
  BY DEF Init
<1>2. revs \in Seq([Grant -> Relation]) /\ revs # <<>>
  BY <1>1
<1>3. QED  BY <1>2, DslAssumption, BoundAssumption DEF Init, Shapes

(* A step of one call: what it becomes is a call again. *)
LEMMA CallMoves ==
  ASSUME Shapes, NEW c \in Callers, NEW k \in Call, call' = [call EXCEPT ![c] = k]
  PROVE  call' \in [Callers -> Call \cup {Idle}]
BY DEF Shapes

LEMMA SettleTyped ==
  ASSUME Shapes, NEW c
  PROVE  Settle(c) \in [Grant -> {"absent", "present", "unknown"}]
BY DEF Settle, Shapes

(* What SpiceDB's execution of a request changes. *)
LEMMA ServeMoves ==
  ASSUME Shapes, NEW c \in Callers, Serve(c)
  PROVE  /\ call[c] \in Call /\ call[c].phase = "queued"
         /\ line # <<>> /\ Head(line) = c
         /\ UNCHANGED <<attached, fatal, policies, line, begun, intended, settled>>
         /\ call'[c] \in Call /\ call' = [call EXCEPT ![c] = call'[c]]
         /\ call'[c].phase = "served" /\ call'[c].req = call[c].req
         /\ call'[c].verdict = call[c].verdict /\ call'[c].listed = call[c].listed
         /\ call'[c].expected = call[c].expected /\ call'[c].seen = call[c].seen
         /\ IF IsWrite(call[c].req)
            THEN /\ revs' = Append(revs, Effect(call[c].req, Latest))
                 /\ call'[c].rev = Len(revs') /\ call'[c].left = call[c].left
            ELSE /\ revs' = revs /\ call'[c].rev \in Readable(call[c].req)
                 /\ call'[c].left = Streamed(call[c].req, revs[call'[c].rev])
<1>1. call[c].phase = "queued" /\ line # <<>> /\ Head(line) = c
  BY DEF Serve
<1>2. call[c] \in Call
  BY <1>1, Underway
<1>3. UNCHANGED <<attached, fatal, policies, line, begun, intended, settled>>
  BY DEF Serve
<1>4. ASSUME NEW k \in Call, call' = [call EXCEPT ![c] = k]
      PROVE  call'[c] = k /\ call' = [call EXCEPT ![c] = call'[c]]
  BY <1>4 DEF Shapes
<1>5. CASE IsWrite(call[c].req)
  <2> DEFINE n == Len(revs')
             k == [call[c] EXCEPT !.phase = "served", !.rev = n]
  <2>1. /\ revs' = Append(revs, Effect(call[c].req, Latest))
        /\ call' = [call EXCEPT ![c].phase = "served", ![c].rev = n]
    BY <1>5 DEF Serve
  <2>2. n \in Nat
    BY <2>1, LatestTyped, EffectTyped, AppendProperties DEF Shapes
  <2> HIDE DEF n
  <2>3. call' = [call EXCEPT ![c] = k]
    BY <2>1 DEF Shapes
  <2>4. /\ k \in Call /\ k.phase = "served" /\ k.req = call[c].req /\ k.rev = n
        /\ k.verdict = call[c].verdict /\ k.listed = call[c].listed
        /\ k.expected = call[c].expected /\ k.seen = call[c].seen /\ k.left = call[c].left
    BY <1>2, <2>2 DEF Call
  <2> HIDE DEF k
  <2>5. call'[c] = k /\ call' = [call EXCEPT ![c] = call'[c]]
    BY <1>4, <2>3, <2>4
  <2>6. QED  BY <1>1, <1>2, <1>3, <1>5, <2>1, <2>4, <2>5 DEF n
<1>6. CASE ~IsWrite(call[c].req)
  <2>1. PICK r \in Readable(call[c].req) : call' = [call EXCEPT ![c] = Opened(call[c], r)]
    BY <1>6 DEF Serve
  <2>2. r \in Nat /\ revs' = revs
    BY <1>6, LatestTyped DEF Readable, Serve
  <2>3. Opened(call[c], r) \in Call
    BY <1>2, <2>2, OpenedMoves
  <2>4. call'[c] = Opened(call[c], r) /\ call' = [call EXCEPT ![c] = call'[c]]
    BY <1>4, <2>1, <2>3
  <2>5. QED  BY <1>1, <1>2, <1>3, <1>6, <2>2, <2>4, OpenedMoves
<1>7. QED  BY <1>5, <1>6

(* And what the next item of a stream changes. *)
LEMMA ReceiveMoves ==
  ASSUME Shapes, NEW c \in Callers, Receive(c)
  PROVE  /\ call[c] \in Call /\ call[c].phase = "served"
         /\ UNCHANGED <<attached, fatal, policies, line, revs, begun, intended, settled>>
         /\ call'[c] \in Call /\ call' = [call EXCEPT ![c] = call'[c]]
         /\ call'[c].phase = "served" /\ call'[c].req = call[c].req
         /\ call'[c].rev = call[c].rev /\ call'[c].verdict = call[c].verdict
         /\ call'[c].expected = call[c].expected /\ call'[c].seen = call[c].seen
         /\ \E item \in call[c].left :
              /\ call'[c].left = call[c].left \ {item}
              /\ call'[c].listed = call[c].listed \cup {item.resource}
<1>1. /\ call[c].phase = "served"
      /\ UNCHANGED <<attached, fatal, policies, line, revs, begun, intended, settled>>
  BY DEF Receive
<1>2. call[c] \in Call
  BY <1>1, Underway
<1>3. PICK item \in call[c].left : call' = [call EXCEPT ![c] = Received(call[c], item)]
  BY DEF Receive
<1>4. call'[c] = Received(call[c], item) /\ call' = [call EXCEPT ![c] = call'[c]]
  BY <1>3 DEF Shapes
<1>5. QED  BY <1>1, <1>2, <1>4, ReceivedMoves

(* The guard's refusal, and the failure of a request or the loss of its    *)
(* future.                                                                 *)
LEMMA RefusalMoves ==
  ASSUME Shapes, NEW c \in Callers, NEW req \in Request, FailClosed(c, req)
  PROVE  /\ call[c].phase \in {"idle", "returned"}
         /\ UNCHANGED <<attached, fatal, policies, line, revs, intended, settled>>
         /\ begun' \in 0 .. MaxCalls
         /\ call'[c] \in Call /\ call' = [call EXCEPT ![c] = call'[c]]
         /\ call'[c].phase = "returned" /\ call'[c].verdict = "error"
         /\ call'[c].req = req /\ call'[c].rev = 0
         /\ call'[c].left = {} /\ call'[c].listed = {}
         /\ \A d \in Callers \ {c} : call'[d] = call[d]
<1>1. /\ call[c].phase \in {"idle", "returned"}
      /\ UNCHANGED <<attached, fatal, policies, line, revs, intended, settled>>
      /\ call' = [call EXCEPT ![c] = Failed(Started(req))]
  BY DEF FailClosed, Free
<1>2. begun' \in 0 .. MaxCalls
  BY BoundAssumption DEF FailClosed, Shapes
<1>3. /\ call'[c] = Failed(Started(req)) /\ call' = [call EXCEPT ![c] = call'[c]]
      /\ \A d \in Callers \ {c} : call'[d] = call[d]
  BY <1>1 DEF Shapes
<1>4. Started(req) \in Call
  BY StartedTyped
<1>5. /\ Started(req).req = req /\ Started(req).rev = 0
      /\ Started(req).left = {} /\ Started(req).listed = {}
  BY DEF Started
<1>6. QED  BY <1>1, <1>2, <1>3, <1>4, <1>5, FailedMoves

LEMMA FailMoves ==
  ASSUME Shapes, NEW c \in Callers, RpcFails(c) \/ Cancel(c)
  PROVE  /\ call[c] \in Call /\ call[c].phase \in {"queued", "served"}
         /\ UNCHANGED <<attached, fatal, policies, revs, begun, intended, settled>>
         /\ \/ line # <<>> /\ Head(line) = c /\ line' = Tail(line)
            \/ line' = Without(line, c)
         /\ call'[c] \in Call /\ call' = [call EXCEPT ![c] = call'[c]]
         /\ call'[c].phase = "returned" /\ call'[c].verdict = "error"
         /\ call'[c].req = call[c].req /\ call'[c].rev = call[c].rev
         /\ call'[c].expected = call[c].expected /\ call'[c].seen = call[c].seen
         /\ call'[c].left = call[c].left /\ call'[c].listed = call[c].listed
<1>1. /\ call[c].phase \in {"queued", "served"}
      /\ UNCHANGED <<attached, fatal, policies, revs, begun, intended, settled>>
      /\ \/ line # <<>> /\ Head(line) = c /\ line' = Tail(line)
         \/ line' = Without(line, c)
      /\ call' = [call EXCEPT ![c] = Failed(call[c])]
  BY DEF RpcFails, Cancel
<1>2. call[c] \in Call
  BY <1>1, Underway
<1>3. call'[c] = Failed(call[c]) /\ call' = [call EXCEPT ![c] = call'[c]]
  BY <1>1 DEF Shapes
<1>4. QED  BY <1>1, <1>2, <1>3, FailedMoves

LEMMA ShapesStep == Shapes /\ [Next]_vars => Shapes'
<1> SUFFICES ASSUME Shapes, [Next]_vars PROVE Shapes'
  OBVIOUS
<1>1. ASSUME NEW c \in Callers, NEW req \in Request, Begin(c, req) PROVE Shapes'
  <2>1. begun' \in 0 .. MaxCalls
    BY <1>1, BoundAssumption DEF Begin, Shapes
  <2>2. UNCHANGED <<policies, intended, revs>>
    BY <1>1 DEF Begin
  <2>3. CASE Unsettle(req, c)
    <3>1. settled' \in [Grant -> {"absent", "present", "unknown"}]
      BY <2>3 DEF Unsettle, Shapes
    <3>2. ASSUME NEW d \in InFlight PROVE [call[d] EXCEPT !.expected = "unknown"] \in Call
      <4>1. call[d] \in Call
        BY Underway DEF InFlight
      <4>2. QED  BY <4>1 DEF Call
    <3>3. \A d \in Callers : call[d] \in Call \cup {Idle}
      BY DEF Shapes
    <3>4. call' \in [Callers -> Call \cup {Idle}]
      BY <2>3, <3>2, <3>3, StartedTyped DEF Unsettle
    <3>5. QED  BY <2>1, <2>2, <3>1, <3>4 DEF Shapes
  <2>4. CASE call' = [call EXCEPT ![c] = Started(req)] /\ UNCHANGED settled
    <3>1. call' \in [Callers -> Call \cup {Idle}]
      BY <2>4, StartedTyped, CallMoves
    <3>2. QED  BY <2>1, <2>2, <2>4, <3>1 DEF Shapes
  <2>5. QED  BY <1>1, <2>3, <2>4 DEF Begin
<1>2. ASSUME NEW c \in Callers, NEW req \in Request, FailClosed(c, req) PROVE Shapes'
  <2>1. /\ call' \in [Callers -> Call \cup {Idle}] /\ begun' \in 0 .. MaxCalls
        /\ UNCHANGED <<policies, revs, intended, settled>>
    BY <1>2, RefusalMoves, CallMoves
  <2>2. QED  BY <2>1 DEF Shapes
<1>3. ASSUME NEW c \in Callers, Serve(c) PROVE Shapes'
  <2>1. /\ call' \in [Callers -> Call \cup {Idle}]
        /\ UNCHANGED <<policies, begun, intended, settled>>
    BY <1>3, ServeMoves, CallMoves
  <2>2. revs' \in Seq([Grant -> Relation]) /\ revs' # <<>>
    <3>1. revs' = revs \/ revs' = Append(revs, Effect(call[c].req, Latest))
      BY <1>3, ServeMoves
    <3>2. QED  BY <3>1, LatestTyped, EffectTyped, AppendProperties DEF Shapes
  <2>3. QED  BY <2>1, <2>2 DEF Shapes
<1>4. ASSUME NEW c \in Callers, Reply(c) PROVE Shapes'
  <2>1. call[c] \in Call
    BY <1>4, Underway DEF Reply
  <2>2. /\ [call[c] EXCEPT !.phase = "abac"] \in Call
        /\ [call[c] EXCEPT !.phase = "returned", !.verdict = "ok"] \in Call
    BY <2>1 DEF Call
  <2>3. \/ call' = [call EXCEPT ![c] = [call[c] EXCEPT !.phase = "abac"]]
        \/ call' = [call EXCEPT ![c] = [call[c] EXCEPT !.phase = "returned", !.verdict = "ok"]]
    BY <1>4 DEF Reply, Shapes
  <2>4. call' \in [Callers -> Call \cup {Idle}]
    BY <2>2, <2>3, CallMoves
  <2>5. QED  BY <1>4, <2>4, SettleTyped DEF Reply, Shapes
<1>5. ASSUME NEW c \in Callers, RpcFails(c) \/ Cancel(c) PROVE Shapes'
  <2>1. /\ call' \in [Callers -> Call \cup {Idle}]
        /\ UNCHANGED <<policies, revs, begun, intended, settled>>
    BY <1>5, FailMoves, CallMoves
  <2>2. QED  BY <2>1 DEF Shapes
<1>6. ASSUME NEW c \in Callers, Evaluate(c) PROVE Shapes'
  <2>1. call[c] \in Call
    BY <1>6, Underway DEF Evaluate
  <2>2. PICK v \in {"true", "false", "error"} :
          call' = [call EXCEPT ![c].phase = "returned", ![c].verdict = v]
    <3> DEFINE override == call[c].req.override
               policy   == IF override # "none" THEN override ELSE policies
    <3>1. call' = [call EXCEPT ![c].phase = "returned", ![c].verdict = Verdict(call[c], policy)]
      BY <1>6 DEF Evaluate
    <3>2. Verdict(call[c], policy) \in {"true", "false", "error"}
      BY AnswerTyped DEF Verdict
    <3> HIDE DEF policy
    <3>3. QED  BY <3>1, <3>2
  <2>3. [call[c] EXCEPT !.phase = "returned", !.verdict = v] \in Call
    BY <2>1 DEF Call
  <2>4. call' = [call EXCEPT ![c] = [call[c] EXCEPT !.phase = "returned", !.verdict = v]]
    BY <2>2 DEF Shapes
  <2>5. QED  BY <1>6, <2>3, <2>4, CallMoves DEF Evaluate, Shapes
<1>7. ASSUME NEW dsl \in Dsls, UpdatePolicies(dsl) PROVE Shapes'
  <2>1. dsl \in Dsl \ {"malformed"}
    BY <1>7, DslAssumption DEF UpdatePolicies
  <2>2. ASSUME NEW c \in InFlight PROVE [call[c] EXCEPT !.seen = @ \cup {dsl}] \in Call
    <3>1. call[c] \in Call
      BY Underway DEF InFlight
    <3>2. call[c].seen \cup {dsl} \in SUBSET Dsl
      BY <2>1, <3>1 DEF Call
    <3>3. QED  BY <3>1, <3>2 DEF Call
  <2>3. \A c \in Callers : call[c] \in Call \cup {Idle}
    BY DEF Shapes
  <2>4. call' \in [Callers -> Call \cup {Idle}]
    BY <1>7, <2>2, <2>3 DEF UpdatePolicies
  <2>5. QED  BY <1>7, <2>1, <2>4 DEF UpdatePolicies, Shapes
<1>8. ASSUME NEW c \in Callers, Receive(c) PROVE Shapes'
  <2>1. /\ call' \in [Callers -> Call \cup {Idle}]
        /\ UNCHANGED <<policies, revs, begun, intended, settled>>
    BY <1>8, ReceiveMoves, CallMoves
  <2>2. QED  BY <2>1 DEF Shapes
<1>9. CASE ReplicationFails \/ UNCHANGED vars
  BY <1>9 DEF ReplicationFails, vars, Shapes
<1>10. QED  BY <1>1, <1>2, <1>3, <1>4, <1>5, <1>6, <1>7, <1>8, <1>9 DEF Next

-----------------------------------------------------------------------------
(* The line in front of the client. *)

AtClient == {"queued", "served"}

(* Who is in line waits or is served, once; who is served is the first. *)
InLine ==
  /\ line \in Seq(Callers)
  /\ \A i \in 1 .. Len(line) : call[line[i]].phase \in AtClient
  /\ \A i, j \in 1 .. Len(line) : line[i] = line[j] => i = j
  /\ \A c \in Callers : call[c].phase = "served" => line # <<>> /\ Head(line) = c

(* The calls of all tasks but c go on as they are. *)
OthersKeep(c) ==
  \A d \in Callers \ {c} :
    /\ call'[d].phase = call[d].phase
    /\ call[d].phase # "idle" =>
         /\ call'[d].req = call[d].req
         /\ call'[d].rev = call[d].rev
         /\ call'[d].verdict = call[d].verdict

LEMMA HeadInLine ==
  InLine /\ line # <<>> =>
    Head(line) \in Callers /\ Head(line) = line[1] /\ 1 \in 1 .. Len(line)
<1> SUFFICES ASSUME InLine, line # <<>>
             PROVE  Head(line) \in Callers /\ Head(line) = line[1] /\ 1 \in 1 .. Len(line)
  OBVIOUS
<1>1. Len(line) \in Nat /\ Len(line) # 0
  BY LenProperties, EmptySeq DEF InLine
<1>2. QED  BY <1>1, HeadTailProperties DEF InLine

(* A step of a task that stays where it is in the line, or is not there. *)
LEMMA LineStays ==
  ASSUME InLine, NEW c \in Callers, OthersKeep(c), line' = line,
         \/ call[c].phase \notin AtClient /\ call'[c].phase # "served"
         \/ line # <<>> /\ Head(line) = c /\ call'[c].phase \in AtClient
  PROVE  InLine'
<1>1. \A i \in 1 .. Len(line) : line[i] \in Callers
  BY ElementOfSeq DEF InLine
<1>2. \A i \in 1 .. Len(line) : call'[line[i]].phase \in AtClient
  BY <1>1, HeadInLine DEF InLine, OthersKeep
<1>3. \A d \in Callers : call'[d].phase = "served" => line # <<>> /\ Head(line) = d
  BY DEF InLine, OthersKeep, AtClient
<1>4. QED  BY <1>2, <1>3 DEF InLine

(* A task leaves the line, from its front or from anywhere. *)
LEMMA LineLeft ==
  ASSUME InLine, NEW c \in Callers, OthersKeep(c), call'[c].phase # "served",
         \/ line # <<>> /\ Head(line) = c /\ line' = Tail(line)
         \/ line' = Without(line, c)
  PROVE  InLine'
<1>1. /\ line' \in Seq(Callers)
      /\ \A i \in 1 .. Len(line') : \E k \in 1 .. Len(line) : line'[i] = line[k]
      /\ \A i \in 1 .. Len(line') : line'[i] # c
      /\ \A i, j \in 1 .. Len(line') : line'[i] = line'[j] => i = j
  <2>1. CASE line # <<>> /\ Head(line) = c /\ line' = Tail(line)
    BY <2>1, LineTail DEF InLine
  <2>2. CASE line' = Without(line, c)
    BY <2>2, LineWithout DEF InLine
  <2>3. QED  BY <2>1, <2>2
<1>2. \A i \in 1 .. Len(line') : line'[i] \in Callers
  BY <1>1, ElementOfSeq
<1>3. \A i \in 1 .. Len(line') : call'[line'[i]].phase \in AtClient
  BY <1>1, <1>2 DEF InLine, OthersKeep
<1>4. ASSUME NEW d \in Callers, call'[d].phase = "served"
      PROVE  line' # <<>> /\ Head(line') = d
  <2>1. d # c /\ line # <<>> /\ Head(line) = d
    BY <1>4 DEF InLine, OthersKeep
  <2>2. line' = Without(line, c)
    BY <2>1
  <2>3. QED  BY <2>1, <2>2, LineWithout DEF InLine
<1>5. QED  BY <1>1, <1>3, <1>4 DEF InLine

(* A task goes for the client. *)
LEMMA LineJoined ==
  ASSUME InLine, NEW c \in Callers, OthersKeep(c), line' = Append(line, c),
         call[c].phase \notin AtClient, call'[c].phase = "queued"
  PROVE  InLine'
<1>1. \A i \in 1 .. Len(line) : line[i] # c
  BY DEF InLine
<1>2. /\ line' \in Seq(Callers)
      /\ \A i \in 1 .. Len(line') : line'[i] = c \/ \E k \in 1 .. Len(line) : line'[i] = line[k]
      /\ \A i, j \in 1 .. Len(line') : line'[i] = line'[j] => i = j
  BY <1>1, LineAppend DEF InLine
<1>3. \A i \in 1 .. Len(line') : line'[i] \in Callers
  BY <1>2, ElementOfSeq
<1>4. \A i \in 1 .. Len(line') : call'[line'[i]].phase \in AtClient
  BY <1>2, <1>3 DEF InLine, OthersKeep, AtClient
<1>5. ASSUME NEW d \in Callers, call'[d].phase = "served"
      PROVE  line' # <<>> /\ Head(line') = d
  <2>1. d # c /\ line # <<>> /\ Head(line) = d
    BY <1>5 DEF InLine, OthersKeep
  <2>2. QED  BY <2>1, HeadTailAppend DEF InLine
<1>6. QED  BY <1>2, <1>4, <1>5 DEF InLine

(* What every action says of the other tasks. *)
LEMMA OneMoves ==
  ASSUME Shapes, NEW c \in Callers,
         \/ \E req \in Request : Begin(c, req) \/ FailClosed(c, req)
         \/ Serve(c) \/ Receive(c) \/ Reply(c) \/ RpcFails(c) \/ Cancel(c) \/ Evaluate(c)
  PROVE  OthersKeep(c)
<1>1. CASE \E req \in Request : Unsettle(req, c)
  <2>1. PICK req \in Request : Unsettle(req, c)
    BY <1>1
  <2>2. ASSUME NEW d \in Callers \ {c}
        PROVE  call'[d] = call[d]
                 \/ (d \in InFlight /\ call'[d] = [call[d] EXCEPT !.expected = "unknown"])
    BY <2>1 DEF Unsettle
  <2>3. ASSUME NEW d \in Callers \ {c}, d \in InFlight PROVE call[d] \in Call
    BY <2>3, Underway DEF InFlight
  <2>4. QED  BY <2>2, <2>3 DEF OthersKeep, Call
<1>2. CASE \E k : call' = [call EXCEPT ![c] = k]
  BY <1>2 DEF OthersKeep, Shapes
<1>3. CASE Reply(c) \/ Evaluate(c)
  BY <1>3 DEF Reply, Evaluate, OthersKeep, Shapes
<1>4. CASE Serve(c) \/ Receive(c) \/ RpcFails(c) \/ Cancel(c)
  BY <1>2, <1>4, ServeMoves, ReceiveMoves, FailMoves
<1>5. CASE \E req \in Request : Begin(c, req) \/ FailClosed(c, req)
  <2>1. ASSUME NEW req \in Request, Begin(c, req) PROVE OthersKeep(c)
    <3>1. Unsettle(req, c) \/ call' = [call EXCEPT ![c] = Started(req)]
      BY <2>1 DEF Begin
    <3>2. QED  BY <1>1, <1>2, <3>1
  <2>2. ASSUME NEW req \in Request, FailClosed(c, req) PROVE OthersKeep(c)
    BY <1>2, <2>2, RefusalMoves
  <2>3. QED  BY <1>5, <2>1, <2>2
<1>6. QED  BY <1>3, <1>4, <1>5

LEMMA LineInit == Init => InLine
BY DEF Init, InLine, Idle

LEMMA LineStep == Shapes /\ InLine /\ [Next]_vars => InLine'
<1> SUFFICES ASSUME Shapes, InLine, [Next]_vars PROVE InLine'
  OBVIOUS
<1> USE DEF AtClient
<1>1. ASSUME NEW c \in Callers, NEW req \in Request, Begin(c, req) PROVE InLine'
  <2>1. call[c].phase \notin AtClient /\ line' = Append(line, c)
    BY <1>1 DEF Begin, Free
  <2>2. call'[c] = Started(req)
    BY <1>1 DEF Begin, Unsettle, Shapes
  <2>3. QED  BY <1>1, <2>1, <2>2, OneMoves, LineJoined DEF Started
<1>2. ASSUME NEW c \in Callers, NEW req \in Request, FailClosed(c, req) PROVE InLine'
  <2>1. /\ call[c].phase \notin AtClient /\ line' = line
        /\ call'[c].phase = "returned"
    BY <1>2, RefusalMoves
  <2>2. QED  BY <1>2, <2>1, OneMoves, LineStays
<1>3. ASSUME NEW c \in Callers, Serve(c) PROVE InLine'
  <2>1. call'[c].phase = "served" /\ line' = line /\ line # <<>> /\ Head(line) = c
    BY <1>3, ServeMoves
  <2>2. QED  BY <1>3, <2>1, OneMoves, LineStays
<1>4. ASSUME NEW c \in Callers, Reply(c) PROVE InLine'
  <2>1. call'[c].phase # "served" /\ line' = Tail(line) /\ line # <<>> /\ Head(line) = c
    BY <1>4, Underway DEF Reply, Shapes, Call, InLine
  <2>2. QED  BY <1>4, <2>1, OneMoves, LineLeft
<1>5. ASSUME NEW c \in Callers, RpcFails(c) \/ Cancel(c) PROVE InLine'
  <2>1. /\ call'[c].phase # "served"
        /\ \/ line # <<>> /\ Head(line) = c /\ line' = Tail(line)
           \/ line' = Without(line, c)
    BY <1>5, FailMoves
  <2>2. QED  BY <1>5, <2>1, OneMoves, LineLeft
<1>6. ASSUME NEW c \in Callers, Evaluate(c) PROVE InLine'
  <2>1. call[c].phase \notin AtClient /\ call'[c].phase # "served" /\ line' = line
    BY <1>6, Underway DEF Evaluate, Shapes, Call
  <2>2. QED  BY <1>6, <2>1, OneMoves, LineStays
<1>7. ASSUME NEW dsl \in Dsls, UpdatePolicies(dsl) PROVE InLine'
  <2>1. ASSUME NEW c \in Callers PROVE call'[c].phase = call[c].phase
    BY <1>7, Underway DEF UpdatePolicies, InFlight, Call
  <2>2. \A i \in 1 .. Len(line) : line[i] \in Callers
    BY ElementOfSeq DEF InLine
  <2>3. line' = line
    BY <1>7 DEF UpdatePolicies
  <2>4. QED  BY <2>1, <2>2, <2>3 DEF InLine
<1>8. ASSUME NEW c \in Callers, Receive(c) PROVE InLine'
  <2>1. /\ call'[c].phase = "served" /\ line' = line
        /\ line # <<>> /\ Head(line) = c
    BY <1>8, ReceiveMoves DEF InLine
  <2>2. QED  BY <1>8, <2>1, OneMoves, LineStays
<1>9. CASE ReplicationFails \/ UNCHANGED vars
  BY <1>9 DEF ReplicationFails, vars, InLine
<1>10. QED  BY <1>1, <1>2, <1>3, <1>4, <1>5, <1>6, <1>7, <1>8, <1>9 DEF Next

(* Every variable has its type, and nobody is in the line for the client   *)
(* twice, not after a dropped future either: it is never longer than there *)
(* are tasks.                                                              *)
THEOREM TypeCorrect == Spec => []TypeOK
<1> DEFINE Inv == Flags /\ Shapes /\ InLine
<1>1. Init => Inv
  BY ShapesInit, LineInit DEF Init, Flags
<1>2. Inv /\ [Next]_vars => Inv'
  BY FlagsStep, ShapesStep, LineStep
<1>3. Inv => TypeOK
  <2> SUFFICES ASSUME Inv PROVE TypeOK
    OBVIOUS
  <2>1. line \in Seq(Callers) /\ Len(line) <= Cardinality(Callers)
    BY LineBound, CallersAssumption DEF InLine
  <2>2. \A i, j \in DOMAIN line : line[i] = line[j] => i = j
    BY LenProperties DEF InLine
  <2>3. QED  BY <2>1, <2>2 DEF TypeOK, Flags, Shapes
<1>4. QED  BY <1>1, <1>2, <1>3, PTL DEF Spec

-----------------------------------------------------------------------------
(* What acknowledged writes say of the store. *)

(* No write of a settled grant is under way, and SpiceDB agrees. *)
SettledHolds ==
  \A g \in Grant : settled[g] # "unknown" =>
    /\ \A c \in InFlight : IsWrite(call[c].req) => ~Matched(call[c].req, g)
    /\ Structural(Latest, g) <=> settled[g] = "present"

(* Until a write returns nobody else is served. *)
ServedHolds ==
  \A c \in Callers : call[c].phase = "served" /\ IsWrite(call[c].req) =>
    \A g \in Grant : Matched(call[c].req, g) =>
      (Structural(Latest, g) <=> call[c].req.op = "register")

Revisions ==
  \A c \in Callers : call[c].phase # "idle" =>
    /\ call[c].rev \in 0 .. Len(revs)
    /\ call[c].phase = "queued" => call[c].rev = 0

(* What a check expects is settled until it is served, and what it read. *)
ExpectationHolds(k) ==
  k.phase # "idle" /\ k.req.op = "check" /\ k.expected # "unknown" =>
    /\ k.phase = "queued" => k.expected = settled[k.req.grant]
    /\ k.rev # 0 /\ k.req.strict => (Allowed(k) <=> k.expected = "present")

Expectations == \A c \in Callers : ExpectationHolds(call[c])

Store == SettledHolds /\ ServedHolds /\ Revisions /\ Expectations

LEMMA StoreInit == Init => Store
BY DEF Init, Store, SettledHolds, ServedHolds, Revisions, Expectations,
       ExpectationHolds, Idle, InFlight

(* What the steps of a call after its beginning leave alone. *)
LEMMA StepKeeps ==
  ASSUME Shapes, NEW c \in Callers,
         Serve(c) \/ Receive(c) \/ Reply(c) \/ RpcFails(c) \/ Cancel(c) \/ Evaluate(c)
  PROVE  /\ c \in InFlight /\ call[c] \in Call
         /\ call'[c].phase \in {"served", "abac", "returned"}
         /\ call'[c].req = call[c].req
         /\ call'[c].expected = call[c].expected
         /\ call'[c].seen = call[c].seen
         /\ \A d \in Callers \ {c} : call'[d] = call[d]
         /\ UNCHANGED <<policies, intended>>
<1>1. c \in InFlight
  BY DEF Serve, Receive, Reply, RpcFails, Cancel, Evaluate, InFlight
<1>2. call[c] \in Call
  BY <1>1, Underway DEF InFlight
<1>3. CASE Reply(c) \/ Evaluate(c)
  BY <1>1, <1>2, <1>3 DEF Reply, Evaluate, Shapes, Call
<1>4. CASE Serve(c) \/ Receive(c) \/ RpcFails(c) \/ Cancel(c)
  <2>1. /\ call' = [call EXCEPT ![c] = call'[c]]
        /\ call'[c].phase \in {"served", "returned"}
        /\ call'[c].req = call[c].req /\ call'[c].expected = call[c].expected
        /\ call'[c].seen = call[c].seen /\ UNCHANGED <<policies, intended>>
    BY <1>4, ServeMoves, ReceiveMoves, FailMoves
  <2>2. \A d \in Callers \ {c} : call'[d] = call[d]
    BY <2>1 DEF Shapes
  <2>3. QED  BY <1>1, <1>2, <2>1, <2>2
<1>5. QED  BY <1>3, <1>4

(* And what becomes of the call itself. *)
LEMMA StepMoves ==
  ASSUME Shapes, NEW c \in Callers, call[c] \in Call
  PROVE  /\ Serve(c) =>
              /\ call[c].phase = "queued" /\ call'[c].phase = "served"
              /\ call'[c].verdict = call[c].verdict /\ call'[c].listed = call[c].listed
              /\ IF IsWrite(call[c].req)
                 THEN /\ revs' = Append(revs, Effect(call[c].req, Latest))
                      /\ call'[c].rev = Len(revs') /\ call'[c].left = call[c].left
                 ELSE /\ revs' = revs /\ call'[c].rev \in Readable(call[c].req)
                      /\ call'[c].left = Streamed(call[c].req, revs[call'[c].rev])
         /\ Receive(c) =>
              /\ call[c].phase = "served" /\ call'[c].phase = "served"
              /\ call'[c].rev = call[c].rev /\ call'[c].verdict = call[c].verdict
              /\ \E item \in call[c].left :
                   /\ call'[c].left = call[c].left \ {item}
                   /\ call'[c].listed = call[c].listed \cup {item.resource}
         /\ Reply(c) =>
              /\ call[c].phase = "served" /\ call[c].left = {}
              /\ call'[c].rev = call[c].rev
              /\ call'[c].left = call[c].left /\ call'[c].listed = call[c].listed
              /\ \/ /\ call[c].req.op = "check"
                    /\ call'[c].phase = "abac" /\ call'[c].verdict = call[c].verdict
                 \/ /\ call[c].req.op # "check"
                    /\ call'[c].phase = "returned" /\ call'[c].verdict = "ok"
         /\ RpcFails(c) \/ Cancel(c) =>
              /\ call'[c].rev = call[c].rev
              /\ call'[c].left = call[c].left /\ call'[c].listed = call[c].listed
              /\ call'[c].phase = "returned" /\ call'[c].verdict = "error"
         /\ Evaluate(c) =>
              /\ call'[c].rev = call[c].rev /\ call'[c].phase = "returned"
              /\ call'[c].left = call[c].left /\ call'[c].listed = call[c].listed
              /\ call'[c].verdict =
                   Verdict(call[c], IF call[c].req.override # "none"
                                    THEN call[c].req.override ELSE policies)
<1>1. Serve(c) => /\ call[c].phase = "queued" /\ call'[c].phase = "served"
                 /\ call'[c].verdict = call[c].verdict /\ call'[c].listed = call[c].listed
                 /\ IF IsWrite(call[c].req)
                    THEN /\ revs' = Append(revs, Effect(call[c].req, Latest))
                         /\ call'[c].rev = Len(revs') /\ call'[c].left = call[c].left
                    ELSE /\ revs' = revs /\ call'[c].rev \in Readable(call[c].req)
                         /\ call'[c].left = Streamed(call[c].req, revs[call'[c].rev])
  BY ServeMoves
<1>2. Receive(c) => /\ call[c].phase = "served" /\ call'[c].phase = "served"
                   /\ call'[c].rev = call[c].rev /\ call'[c].verdict = call[c].verdict
                   /\ \E item \in call[c].left :
                        /\ call'[c].left = call[c].left \ {item}
                        /\ call'[c].listed = call[c].listed \cup {item.resource}
  BY ReceiveMoves
<1>3. Reply(c) =>
        /\ call[c].phase = "served" /\ call[c].left = {}
        /\ call'[c].rev = call[c].rev
        /\ call'[c].left = call[c].left /\ call'[c].listed = call[c].listed
        /\ \/ /\ call[c].req.op = "check"
              /\ call'[c].phase = "abac" /\ call'[c].verdict = call[c].verdict
           \/ /\ call[c].req.op # "check"
              /\ call'[c].phase = "returned" /\ call'[c].verdict = "ok"
  BY DEF Reply, Shapes, Call
<1>4. RpcFails(c) \/ Cancel(c) =>
        /\ call'[c].rev = call[c].rev
        /\ call'[c].left = call[c].left /\ call'[c].listed = call[c].listed
        /\ call'[c].phase = "returned" /\ call'[c].verdict = "error"
  BY FailMoves
<1>5. Evaluate(c) =>
        /\ call'[c].rev = call[c].rev /\ call'[c].phase = "returned"
        /\ call'[c].left = call[c].left /\ call'[c].listed = call[c].listed
        /\ call'[c].verdict =
             Verdict(call[c], IF call[c].req.override # "none"
                              THEN call[c].req.override ELSE policies)
  <2> DEFINE v == Verdict(call[c], IF call[c].req.override # "none"
                                   THEN call[c].req.override ELSE policies)
  <2>1. Evaluate(c) => call' = [call EXCEPT ![c].phase = "returned", ![c].verdict = v]
    BY DEF Evaluate
  <2> HIDE DEF v
  <2>2. Evaluate(c) => /\ call'[c].rev = call[c].rev /\ call'[c].phase = "returned"
                      /\ call'[c].left = call[c].left /\ call'[c].listed = call[c].listed
                      /\ call'[c].verdict = v
    BY <2>1 DEF Shapes, Call
  <2>3. QED  BY <2>2 DEF v
<1>6. QED  BY <1>1, <1>2, <1>3, <1>4, <1>5

(* The store as it is, a call that moves on with what it read. *)
LEMMA StoreKept ==
  ASSUME Shapes, Store, NEW c \in Callers, UNCHANGED <<revs, settled>>,
         Reply(c) \/ RpcFails(c) \/ Cancel(c) \/ Evaluate(c)
  PROVE  Store'
<1>1. /\ call'[c].phase \in {"abac", "returned"} /\ call'[c].rev = call[c].rev
      /\ call[c].phase # "idle"
  BY StepKeeps, StepMoves DEF InFlight
<1>2. \A d \in InFlight' : d \in InFlight /\ call'[d].req = call[d].req
  BY StepKeeps DEF InFlight
<1>3. SettledHolds'
  BY <1>2 DEF Store, SettledHolds, Latest, Structural
<1>4. ServedHolds'
  BY <1>1, StepKeeps DEF Store, ServedHolds, Latest, Structural
<1>5. Revisions'
  BY <1>1, StepKeeps DEF Store, Revisions
<1>6. Expectations'
  BY <1>1, StepKeeps DEF Store, Expectations, ExpectationHolds, Allowed, Structural
<1>7. QED  BY <1>3, <1>4, <1>5, <1>6 DEF Store

(* Nor does a step that moves no call. *)
LEMMA StoreSame ==
  ASSUME Store, UNCHANGED <<revs, settled>>,
         \A c \in Callers :
           /\ call'[c].phase = call[c].phase
           /\ call[c].phase # "idle" =>
                /\ call'[c].req = call[c].req /\ call'[c].rev = call[c].rev
                /\ call'[c].expected = call[c].expected
  PROVE  Store'
<1>1. \A d \in InFlight' : d \in InFlight /\ call'[d].req = call[d].req
  BY DEF InFlight
<1>2. SettledHolds'
  BY <1>1 DEF Store, SettledHolds, Latest, Structural
<1>3. ServedHolds'
  BY DEF Store, ServedHolds, Latest, Structural
<1>4. Revisions'
  BY DEF Store, Revisions
<1>5. Expectations'
  BY DEF Store, Expectations, ExpectationHolds, Allowed, Structural
<1>6. QED  BY <1>2, <1>3, <1>4, <1>5 DEF Store

LEMMA StoreServe ==
  ASSUME Shapes, InLine, Store, NEW c \in Callers, Serve(c)
  PROVE  Store'
<1>1. /\ call[c].phase = "queued" /\ call'[c].phase = "served" /\ settled' = settled
      /\ \A d \in Callers \ {c} : call'[d] = call[d]
      /\ call'[c].req = call[c].req /\ call'[c].expected = call[c].expected
  BY StepKeeps, StepMoves DEF Serve
<1>2. \A d \in Callers \ {c} : call[d].phase # "served"
  BY DEF InLine, Serve
<1>3. \A d \in InFlight' : d \in InFlight /\ call'[d].req = call[d].req
  BY <1>1 DEF InFlight
<1>4. c \in InFlight
  BY <1>1 DEF InFlight
<1>5. CASE IsWrite(call[c].req)
  <2>1. revs' = Append(revs, Effect(call[c].req, Latest)) /\ call'[c].rev = Len(revs')
    BY <1>5, StepKeeps, StepMoves
  <2>2. /\ Len(revs) \in Nat /\ Len(revs') = Len(revs) + 1
        /\ \A r \in 1 .. Len(revs) : revs'[r] = revs[r]
        /\ Latest' = Effect(call[c].req, Latest)
    BY <2>1, LatestTyped, EffectTyped, AppendProperties DEF Shapes, Latest
  <2>3. ASSUME NEW g \in Grant
        PROVE  IF Matched(call[c].req, g)
               THEN Structural(Latest, g)' <=> call[c].req.op = "register"
               ELSE Structural(Latest, g)' <=> Structural(Latest, g)
    <3> DEFINE e == Effect(call[c].req, Latest)
    <3>1. Latest \in [Grant -> Relation] /\ e \in [Grant -> Relation]
      BY LatestTyped, EffectTyped
    <3>2. e[g] = IF Matched(call[c].req, g)
                 THEN IF call[c].req.op = "register" THEN "plain" ELSE "absent"
                 ELSE Latest[g]
      BY DEF Effect
    <3>3. Structural(Latest, g)' <=> Structural(e, g)
      BY <2>2 DEF Structural
    <3> HIDE DEF e
    <3>4. QED  BY <3>1, <3>2, <3>3, StructuralExists
  <2>4. SettledHolds'
    BY <1>1, <1>3, <1>4, <1>5, <2>3 DEF Store, SettledHolds
  <2>5. ServedHolds'
    BY <1>1, <1>2, <2>3 DEF ServedHolds
  <2>6. Revisions'
    BY <1>1, <2>1, <2>2 DEF Store, Revisions
  <2>7. call[c].req.op # "check"
    BY <1>5 DEF IsWrite
  <2>8. Expectations'
    <3> SUFFICES ASSUME NEW d \in Callers PROVE ExpectationHolds(call[d])'
      BY DEF Expectations
    <3>1. CASE d = c
      BY <1>1, <2>7, <3>1 DEF ExpectationHolds
    <3>2. CASE d # c
      <4>1. call[d].phase # "idle" /\ call[d].rev # 0 => Allowed(call[d])' <=> Allowed(call[d])
        BY <1>1, <2>2, <3>2 DEF Store, Revisions, Allowed, Structural
      <4>2. QED  BY <1>1, <3>2, <4>1 DEF Store, Expectations, ExpectationHolds
    <3>3. QED  BY <3>1, <3>2
  <2>9. QED  BY <2>4, <2>5, <2>6, <2>8 DEF Store
<1>6. CASE ~IsWrite(call[c].req)
  <2>1. PICK r \in Readable(call[c].req) : call'[c].rev = r
    BY <1>6, StepKeeps, StepMoves
  <2>2. revs' = revs /\ r \in 1 .. Len(revs)
    BY <1>6, LatestTyped DEF Serve, Readable
  <2>3. SettledHolds'
    BY <1>1, <1>3, <2>2 DEF Store, SettledHolds, Latest, Structural
  <2>4. ServedHolds'
    BY <1>1, <1>2, <1>6 DEF ServedHolds
  <2>5. Revisions'
    BY <1>1, <2>1, <2>2 DEF Store, Revisions
  <2>6. Expectations'
    <3> SUFFICES ASSUME NEW d \in Callers PROVE ExpectationHolds(call[d])'
      BY DEF Expectations
    <3>1. CASE d = c
      <4> SUFFICES ASSUME call[c].req.op = "check", call[c].expected # "unknown",
                          call[c].req.strict
                   PROVE  Allowed(call[c])' <=> call[c].expected = "present"
        BY <1>1, <3>1 DEF ExpectationHolds
      <4>1. r = Len(revs)
        BY <2>1 DEF Readable
      <4>2. Allowed(call[c])' <=> Structural(Latest, call[c].req.grant)
        BY <1>1, <2>1, <2>2, <4>1 DEF Allowed, Latest, Structural
      <4>3. call[c].expected = settled[call[c].req.grant] /\ call[c].req.grant \in Grant
        BY <1>1, Underway, Named DEF Store, Expectations, ExpectationHolds
      <4>4. QED  BY <4>2, <4>3 DEF Store, SettledHolds
    <3>2. CASE d # c
      BY <1>1, <2>2, <3>2 DEF Store, Expectations, ExpectationHolds, Allowed, Structural
    <3>3. QED  BY <3>1, <3>2
  <2>7. QED  BY <2>3, <2>4, <2>5, <2>6 DEF Store
<1>7. QED  BY <1>5, <1>6

LEMMA StoreReply ==
  ASSUME Shapes, InLine, Store, NEW c \in Callers, Reply(c)
  PROVE  Store'
<1>1. revs' = revs /\ call[c].phase = "served" /\ settled' = Settle(c)
  BY DEF Reply
<1>2. CASE ~IsWrite(call[c].req)
  <2>1. settled' = settled
    BY <1>1, <1>2 DEF Settle, Shapes
  <2>2. QED  BY <1>1, <2>1, StoreKept
<1>3. CASE IsWrite(call[c].req)
  <2>1. /\ call'[c].phase = "returned" /\ call'[c].rev = call[c].rev
        /\ call'[c].req = call[c].req /\ call[c].req.op # "check" /\ c \in InFlight
        /\ \A d \in Callers \ {c} : call'[d] = call[d]
    BY <1>3, StepKeeps, StepMoves DEF IsWrite
  <2>2. \A d \in InFlight' : d \in InFlight \ {c} /\ call'[d].req = call[d].req
    BY <2>1 DEF InFlight
  <2>3. ASSUME NEW g \in Grant
        PROVE  \/ settled'[g] = settled[g]
               \/ /\ settled'[g] = IF call[c].req.op = "register" THEN "present" ELSE "absent"
                  /\ Matched(call[c].req, g)
                  /\ \A d \in InFlight \ {c} : IsWrite(call[d].req) => ~Matched(call[d].req, g)
    BY <1>1 DEF Settle
  <2>4. SettledHolds'
    <3> SUFFICES ASSUME NEW g \in Grant, settled'[g] # "unknown"
                 PROVE  /\ \A d \in InFlight' : IsWrite(call'[d].req) => ~Matched(call'[d].req, g)
                        /\ Structural(Latest, g)' <=> settled'[g] = "present"
      BY DEF SettledHolds
    <3>1. Structural(Latest, g)' <=> Structural(Latest, g)
      BY <1>1 DEF Latest, Structural
    <3>2. CASE settled'[g] = settled[g]
      BY <2>2, <3>1, <3>2 DEF Store, SettledHolds
    <3>3. CASE settled'[g] # settled[g]
      <4>1. Structural(Latest, g) <=> call[c].req.op = "register"
        BY <1>1, <1>3, <2>3, <3>3 DEF Store, ServedHolds
      <4>2. QED  BY <2>2, <2>3, <3>1, <3>3, <4>1
    <3>4. QED  BY <3>2, <3>3
  <2>5. ServedHolds'
    BY <1>1, <2>1 DEF Store, ServedHolds, Latest, Structural
  <2>6. Revisions'
    BY <1>1, <2>1 DEF Store, Revisions
  <2>7. Expectations'
    <3> SUFFICES ASSUME NEW d \in Callers PROVE ExpectationHolds(call[d])'
      BY DEF Expectations
    <3>1. CASE d = c
      BY <2>1, <3>1 DEF ExpectationHolds
    <3>2. ASSUME d # c, call[d].phase = "queued", call[d].req.op = "check",
                 call[d].expected # "unknown"
          PROVE  settled'[call[d].req.grant] = settled[call[d].req.grant]
      <4>1. call[d].req.grant \in Grant /\ settled[call[d].req.grant] # "unknown"
        BY <3>2, Underway, Named DEF Store, Expectations, ExpectationHolds
      <4>2. ~Matched(call[c].req, call[d].req.grant)
        BY <1>3, <2>1, <4>1 DEF Store, SettledHolds
      <4>3. QED  BY <2>3, <4>1, <4>2
    <3>3. CASE d # c
      BY <1>1, <2>1, <3>2, <3>3 DEF Store, Expectations, ExpectationHolds, Allowed, Structural
    <3>4. QED  BY <3>1, <3>3
  <2>8. QED  BY <2>4, <2>5, <2>6, <2>7 DEF Store
<1>4. QED  BY <1>2, <1>3

(* A call that begins, or is refused by the guard, says nothing yet. *)
LEMMA BeginKeeps ==
  ASSUME Shapes, NEW c \in Callers, NEW req \in Request, Begin(c, req)
  PROVE  /\ Free(c) /\ call'[c] = Started(req)
         /\ UNCHANGED <<policies, revs, intended>>
         /\ \A d \in Callers \ {c} :
              /\ call[d].phase = "idle" => call'[d] = call[d]
              /\ call[d].phase # "idle" =>
                   /\ call'[d].phase = call[d].phase /\ call'[d].req = call[d].req
                   /\ call'[d].rev = call[d].rev /\ call'[d].verdict = call[d].verdict
                   /\ call'[d].left = call[d].left /\ call'[d].listed = call[d].listed
                   /\ call'[d].seen = call[d].seen
                   /\ \/ call'[d].expected = "unknown"
                      \/ /\ call'[d].expected = call[d].expected
                         /\ IsWrite(req) /\ d \in InFlight /\ call[d].req.op = "check"
                              => ~Matched(req, call[d].req.grant)
         /\ \/ IsWrite(req) /\ settled' = [g \in Grant |-> IF Matched(req, g) THEN "unknown"
                                                           ELSE settled[g]]
            \/ ~IsWrite(req) /\ settled' = settled
<1>1. Free(c) /\ UNCHANGED <<policies, revs, intended>>
  BY DEF Begin
<1>2. CASE IsWrite(req) /\ Unsettle(req, c)
  <2>1. call'[c] = Started(req)
    BY <1>2 DEF Unsettle
  <2>2. ASSUME NEW d \in Callers \ {c}
        PROVE  IF d \in InFlight /\ call[d].req.op = "check" /\ Matched(req, call[d].req.grant)
               THEN call'[d] = [call[d] EXCEPT !.expected = "unknown"]
               ELSE call'[d] = call[d]
    BY <1>2 DEF Unsettle
  <2>3. \A d \in Callers \ {c} : call[d].phase = "idle" => d \notin InFlight
    BY DEF InFlight
  <2>4. \A d \in Callers : call[d].phase # "idle" => call[d] \in Call
    BY Underway
  <2>5. \A k \in Call : LET l == [k EXCEPT !.expected = "unknown"]
                      IN  /\ l.phase = k.phase /\ l.req = k.req /\ l.rev = k.rev
                          /\ l.left = k.left /\ l.listed = k.listed
                          /\ l.verdict = k.verdict /\ l.seen = k.seen
                          /\ l.expected = "unknown"
    BY DEF Call
  <2>6. QED  BY <1>1, <1>2, <2>1, <2>2, <2>3, <2>4, <2>5 DEF Unsettle
<1>3. CASE ~IsWrite(req) /\ call' = [call EXCEPT ![c] = Started(req)] /\ UNCHANGED settled
  BY <1>1, <1>3 DEF Shapes
<1>4. QED  BY <1>2, <1>3 DEF Begin

LEMMA StoreBegin ==
  ASSUME Shapes, Store, NEW c \in Callers, NEW req \in Request, Begin(c, req)
  PROVE  Store'
<1>1. /\ call'[c] = Started(req) /\ revs' = revs
      /\ \A d \in Callers \ {c} :
           /\ call[d].phase = "idle" => call'[d] = call[d]
           /\ call[d].phase # "idle" =>
                /\ call'[d].phase = call[d].phase /\ call'[d].req = call[d].req
                /\ call'[d].rev = call[d].rev
  BY BeginKeeps
<1>2. /\ call'[c].phase = "queued" /\ call'[c].req = req /\ call'[c].rev = 0
      /\ call'[c].expected = IF req.op = "check" THEN settled[req.grant] ELSE "unknown"
  BY <1>1 DEF Started
<1>3. ASSUME NEW g \in Grant, settled'[g] # "unknown"
      PROVE  settled'[g] = settled[g] /\ (IsWrite(req) => ~Matched(req, g))
  BY <1>3, BeginKeeps DEF Shapes
<1>4. SettledHolds'
  <2> SUFFICES ASSUME NEW g \in Grant, settled'[g] # "unknown"
               PROVE  /\ \A d \in InFlight' : IsWrite(call'[d].req) => ~Matched(call'[d].req, g)
                      /\ Structural(Latest, g)' <=> settled'[g] = "present"
    BY DEF SettledHolds
  <2>1. settled'[g] = settled[g] /\ (IsWrite(req) => ~Matched(req, g))
    BY <1>3
  <2>2. Structural(Latest, g)' <=> settled'[g] = "present"
    BY <1>1, <2>1 DEF Store, SettledHolds, Latest, Structural
  <2>3. \A d \in InFlight' : d # c => d \in InFlight /\ call'[d].req = call[d].req
    BY <1>1 DEF InFlight
  <2>4. ASSUME NEW d \in InFlight', IsWrite(call'[d].req) PROVE ~Matched(call'[d].req, g)
    <3>1. CASE d = c
      BY <1>2, <2>1, <2>4, <3>1
    <3>2. CASE d # c
      BY <2>1, <2>3, <2>4, <3>2 DEF Store, SettledHolds
    <3>3. QED  BY <3>1, <3>2
  <2>5. QED  BY <2>2, <2>4
<1>5. ServedHolds'
  <2> SUFFICES ASSUME NEW d \in Callers, call'[d].phase = "served", IsWrite(call'[d].req),
                      NEW g \in Grant, Matched(call'[d].req, g)
               PROVE  Structural(Latest, g)' <=> call'[d].req.op = "register"
    BY DEF ServedHolds
  <2>1. d # c /\ call[d].phase = "served" /\ call'[d].req = call[d].req
    BY <1>1, <1>2
  <2>2. QED  BY <1>1, <2>1 DEF Store, ServedHolds, Latest, Structural
<1>6. Revisions'
  BY <1>1, <1>2, LatestTyped DEF Store, Revisions
<1>7. Expectations'
  <2> SUFFICES ASSUME NEW d \in Callers, call'[d].phase # "idle", call'[d].req.op = "check",
                      call'[d].expected # "unknown"
               PROVE  /\ call'[d].phase = "queued"
                           => call'[d].expected = settled'[call'[d].req.grant]
                      /\ call'[d].rev # 0 /\ call'[d].req.strict
                           => (Allowed(call[d])' <=> call'[d].expected = "present")
    BY DEF Expectations, ExpectationHolds
  <2>1. CASE d = c
    <3>1. settled' = settled
      BY <1>2, <2>1, BeginKeeps DEF IsWrite
    <3>2. QED  BY <1>2, <2>1, <3>1
  <2>2. CASE d # c
    <3>1. /\ call[d].phase # "idle" /\ call[d].req.op = "check"
          /\ call'[d].phase = call[d].phase /\ call'[d].req = call[d].req
          /\ call'[d].rev = call[d].rev /\ call'[d].expected = call[d].expected
          /\ IsWrite(req) /\ d \in InFlight => ~Matched(req, call[d].req.grant)
      BY <2>2, BeginKeeps
    <3>2. ExpectationHolds(call[d])
      BY DEF Store, Expectations
    <3>3. call[d].phase = "queued" => settled'[call[d].req.grant] = settled[call[d].req.grant]
      <4>1. call[d].req.grant \in Grant /\ (call[d].phase = "queued" => d \in InFlight)
        BY <3>1, Underway, Named DEF InFlight
      <4>2. QED  BY <3>1, <4>1, BeginKeeps
    <3>4. Allowed(call[d])' <=> Allowed(call[d])
      BY <1>1, <3>1 DEF Allowed, Structural
    <3>5. QED  BY <3>1, <3>2, <3>3, <3>4 DEF ExpectationHolds
  <2>3. QED  BY <2>1, <2>2
<1>8. QED  BY <1>4, <1>5, <1>6, <1>7 DEF Store

LEMMA StoreStep == Shapes /\ InLine /\ Store /\ [Next]_vars => Store'
<1> SUFFICES ASSUME Shapes, InLine, Store, [Next]_vars PROVE Store'
  OBVIOUS
<1>1. ASSUME NEW c \in Callers, NEW req \in Request, FailClosed(c, req) PROVE Store'
  <2>1. /\ UNCHANGED <<revs, settled>> /\ \A d \in Callers \ {c} : call'[d] = call[d]
        /\ call'[c].phase = "returned" /\ call'[c].rev = 0
        /\ call[c].phase \in {"idle", "returned"}
    BY <1>1, RefusalMoves
  <2>2. \A d \in InFlight' : d \in InFlight /\ call'[d].req = call[d].req
    BY <2>1 DEF InFlight
  <2>3. SettledHolds'
    BY <2>1, <2>2 DEF Store, SettledHolds, Latest, Structural
  <2>4. ServedHolds'
    BY <2>1 DEF Store, ServedHolds, Latest, Structural
  <2>5. Revisions'
    BY <2>1, LatestTyped DEF Store, Revisions
  <2>6. Expectations'
    BY <2>1 DEF Store, Expectations, ExpectationHolds, Allowed, Structural
  <2>7. QED  BY <2>3, <2>4, <2>5, <2>6 DEF Store
<1>2. ASSUME NEW dsl \in Dsls, UpdatePolicies(dsl) PROVE Store'
  <2>1. \A c \in Callers :
          /\ call'[c].phase = call[c].phase
          /\ call[c].phase # "idle" =>
               /\ call'[c].req = call[c].req /\ call'[c].rev = call[c].rev
               /\ call'[c].expected = call[c].expected
    BY <1>2, Underway DEF UpdatePolicies, InFlight, Call
  <2>2. UNCHANGED <<revs, settled>>
    BY <1>2 DEF UpdatePolicies
  <2>3. QED  BY <2>1, <2>2, StoreSame
<1>3. ASSUME NEW c \in Callers, Receive(c) PROVE Store'
  <2>1. \A d \in Callers :
          /\ call'[d].phase = call[d].phase
          /\ call'[d].req = call[d].req /\ call'[d].rev = call[d].rev
          /\ call'[d].expected = call[d].expected
    BY <1>3, StepKeeps, StepMoves
  <2>2. UNCHANGED <<revs, settled>>
    BY <1>3 DEF Receive
  <2>3. QED  BY <2>1, <2>2, StoreSame
<1>4. CASE ReplicationFails \/ UNCHANGED vars
  <2>1. UNCHANGED <<call, revs, settled>>
    BY <1>4 DEF ReplicationFails, vars
  <2>2. QED  BY <2>1, StoreSame
<1>5. ASSUME NEW c \in Callers, RpcFails(c) \/ Cancel(c) \/ Evaluate(c) PROVE Store'
  BY <1>5, StoreKept DEF RpcFails, Cancel, Evaluate
<1>6. QED
  BY <1>1, <1>2, <1>3, <1>4, <1>5, StoreBegin, StoreServe, StoreReply DEF Next

-----------------------------------------------------------------------------
(* Under which policies a check is answered. *)

(* The engine has the policies the application asked for last; a check that*)
(* will be answered by them has seen that they were.                       *)
ExplanationHolds(k) ==
  k.phase # "idle" =>
    /\ k.phase # "returned" =>
         /\ k.verdict = "pending"
         /\ AsksPolicies(k.req) => intended \in k.seen
    /\ k.req.op = "check" /\ k.rev # 0 /\ k.verdict \in {"true", "false"} =>
         IF k.req.override # "none" THEN k.verdict = Verdict(k, k.req.override)
         ELSE \E policy \in k.seen : k.verdict = Verdict(k, policy)

Explanations == policies = intended /\ \A c \in Callers : ExplanationHolds(call[c])

LEMMA ExplanationsInit == Init => Explanations
BY DEF Init, Explanations, ExplanationHolds, Idle

(* What was read stays readable: no revision changes. *)
LEMMA RevisionsGrow ==
  ASSUME Shapes, [Next]_vars
  PROVE  revs' = revs \/ \E e \in [Grant -> Relation] : revs' = Append(revs, e)
<1>1. ASSUME NEW c \in Callers, Serve(c)
      PROVE  revs' = revs \/ \E e \in [Grant -> Relation] : revs' = Append(revs, e)
  BY <1>1, LatestTyped, EffectTyped DEF Serve
<1>2. ASSUME NEW c \in Callers, NEW req \in Request, Begin(c, req) \/ FailClosed(c, req)
      PROVE  UNCHANGED revs
  BY <1>2 DEF Begin, FailClosed
<1>3. ASSUME NEW c \in Callers,
             Receive(c) \/ Reply(c) \/ RpcFails(c) \/ Cancel(c) \/ Evaluate(c)
      PROVE  UNCHANGED revs
  BY <1>3 DEF Receive, Reply, RpcFails, Cancel, Evaluate
<1>4. ASSUME (\E dsl \in Dsls : UpdatePolicies(dsl)) \/ ReplicationFails \/ UNCHANGED vars
      PROVE  UNCHANGED revs
  BY <1>4 DEF UpdatePolicies, ReplicationFails, vars
<1>5. QED  BY <1>1, <1>2, <1>3, <1>4 DEF Next

LEMMA RevisionsStay ==
  ASSUME Shapes, [Next]_vars, NEW r \in 1 .. Len(revs)
  PROVE  revs'[r] = revs[r]
BY RevisionsGrow, AppendProperties DEF Shapes

LEMMA ExplanationsStep == Shapes /\ Store /\ Explanations /\ [Next]_vars => Explanations'
<1> SUFFICES ASSUME Shapes, Store, Explanations, [Next]_vars PROVE Explanations'
  OBVIOUS
<1>1. ASSUME NEW c \in Callers, call[c].phase # "idle", call'[c].phase = call[c].phase,
             call'[c].req = call[c].req, call'[c].rev = call[c].rev,
             call'[c].verdict = call[c].verdict, call[c].seen \subseteq call'[c].seen,
             \/ intended' = intended
             \/ AsksPolicies(call[c].req) /\ call[c].phase # "returned"
                  => intended' \in call'[c].seen
      PROVE  ExplanationHolds(call[c])'
  <2>1. call[c].rev # 0 => Allowed(call[c])' = Allowed(call[c])
    BY <1>1, RevisionsStay DEF Store, Revisions, Allowed, Structural
  <2>2. \A policy : call[c].rev # 0 => Verdict(call[c], policy)' = Verdict(call[c], policy)
    BY <1>1, <2>1 DEF Verdict
  <2>3. ExplanationHolds(call[c])
    BY DEF Explanations
  <2>4. QED  BY <1>1, <2>2, <2>3 DEF ExplanationHolds
<1>2. ASSUME NEW c \in Callers, NEW req \in Request, Begin(c, req) PROVE Explanations'
  <2>1. /\ call'[c] = Started(req) /\ UNCHANGED <<policies, intended>>
    BY <1>2, BeginKeeps
  <2>2. ExplanationHolds(call[c])'
    BY <2>1 DEF ExplanationHolds, Started
  <2>3. ASSUME NEW d \in Callers \ {c} PROVE ExplanationHolds(call[d])'
    <3>1. CASE call[d].phase = "idle"
      <4>1. call'[d].phase = "idle"
        BY <1>2, <3>1, BeginKeeps
      <4>2. QED  BY <4>1 DEF ExplanationHolds
    <3>2. CASE call[d].phase # "idle"
      BY <1>1, <1>2, <2>1, <3>2, BeginKeeps
    <3>3. QED  BY <3>1, <3>2
  <2>4. QED  BY <2>1, <2>2, <2>3 DEF Explanations
<1>3. ASSUME NEW c \in Callers, NEW d \in Callers \ {c}, call'[d] = call[d], UNCHANGED intended
      PROVE  ExplanationHolds(call[d])'
  BY <1>1, <1>3 DEF ExplanationHolds
<1>4. ASSUME NEW c \in Callers, NEW req \in Request, FailClosed(c, req) PROVE Explanations'
  <2>1. /\ UNCHANGED <<policies, intended>> /\ \A d \in Callers \ {c} : call'[d] = call[d]
        /\ call'[c].phase = "returned" /\ call'[c].verdict = "error"
    BY <1>4, RefusalMoves
  <2>2. ExplanationHolds(call[c])'
    BY <2>1 DEF ExplanationHolds
  <2>3. QED  BY <1>3, <2>1, <2>2 DEF Explanations
<1>5. ASSUME NEW c \in Callers,
             Serve(c) \/ Receive(c) \/ Reply(c) \/ RpcFails(c) \/ Cancel(c) \/ Evaluate(c)
      PROVE  Explanations'
  <2>1. /\ call[c] \in Call /\ c \in InFlight /\ call[c].phase \notin {"idle", "returned"}
        /\ call'[c].req = call[c].req /\ call'[c].seen = call[c].seen
        /\ \A d \in Callers \ {c} : call'[d] = call[d]
        /\ UNCHANGED <<policies, intended>>
    BY <1>5, StepKeeps DEF InFlight
  <2>2. ExplanationHolds(call[c])
    BY DEF Explanations
  <2>3. ExplanationHolds(call[c])'
    <3>1. CASE Serve(c)
      BY <2>1, <2>2, <3>1, StepMoves DEF ExplanationHolds
    <3>2. CASE Reply(c)
      BY <2>1, <2>2, <3>2, StepMoves DEF ExplanationHolds
    <3>3. CASE RpcFails(c) \/ Cancel(c)
      BY <2>1, <2>2, <3>3, StepMoves DEF ExplanationHolds
    <3>4. CASE Evaluate(c)
      <4> DEFINE override == call[c].req.override
                 policy   == IF override # "none" THEN override ELSE policies
      <4>1. /\ call'[c].verdict = Verdict(call[c], policy) /\ call'[c].phase = "returned"
            /\ call'[c].rev = call[c].rev /\ revs' = revs
        BY <2>1, <3>4, StepMoves DEF Evaluate
      <4>2. \A p : Verdict(call[c], p)' = Verdict(call[c], p)
        BY <2>1, <4>1 DEF Verdict, Allowed, Structural
      <4>3. override = "none" /\ call[c].req.op = "check" => policy \in call[c].seen
        BY <2>1, <2>2 DEF ExplanationHolds, AsksPolicies, Explanations
      <4>4. QED  BY <2>1, <4>1, <4>2, <4>3 DEF ExplanationHolds
    <3>5. CASE Receive(c)
      BY <2>1, <2>2, <3>5, StepMoves DEF ExplanationHolds
    <3>6. QED  BY <1>5, <3>1, <3>2, <3>3, <3>4, <3>5
  <2>4. QED  BY <1>3, <2>1, <2>3 DEF Explanations
<1>6. ASSUME NEW dsl \in Dsls, UpdatePolicies(dsl) PROVE Explanations'
  <2>1. policies' = intended' /\ intended' = dsl
    BY <1>6 DEF UpdatePolicies
  <2>2. ASSUME NEW c \in Callers PROVE ExplanationHolds(call[c])'
    <3>1. CASE call[c].phase = "idle"
      <4>1. call'[c].phase = "idle"
        BY <1>6, <3>1 DEF UpdatePolicies, InFlight
      <4>2. QED  BY <4>1 DEF ExplanationHolds
    <3>2. CASE call[c].phase # "idle"
      <4>1. call[c] \in Call
        BY <3>2, Underway
      <4>2. call[c].phase # "returned" => c \in InFlight
        BY <3>2, <4>1 DEF Call, InFlight
      <4>3. /\ call'[c].phase = call[c].phase
            /\ call'[c].req = call[c].req /\ call'[c].rev = call[c].rev
            /\ call'[c].verdict = call[c].verdict /\ call[c].seen \subseteq call'[c].seen
            /\ c \in InFlight /\ AsksPolicies(call[c].req) => dsl \in call'[c].seen
        BY <1>6, <4>1 DEF UpdatePolicies, Call
      <4>4. QED  BY <1>1, <2>1, <3>2, <4>2, <4>3
    <3>3. QED  BY <3>1, <3>2
  <2>3. QED  BY <2>1, <2>2 DEF Explanations
<1>7. CASE ReplicationFails \/ UNCHANGED vars
  <2>1. UNCHANGED <<policies, intended, call>>
    BY <1>7 DEF ReplicationFails, vars
  <2>2. ASSUME NEW c \in Callers PROVE ExplanationHolds(call[c])'
    BY <1>1, <2>1 DEF ExplanationHolds
  <2>3. QED  BY <2>1, <2>2 DEF Explanations
<1>8. QED  BY <1>2, <1>4, <1>5, <1>6, <1>7 DEF Next

-----------------------------------------------------------------------------
(* What the stream of a lookup holds. *)

(* What a lookup has listed and what is still to come are the resources of *)
(* its revision, and it returns them only when nothing is.                 *)
StreamHolds(k) ==
  k.phase # "idle" =>
    /\ k.rev = 0 => k.left = {} /\ k.listed = {}
    /\ k.req.op = "lookup" /\ k.rev # 0 =>
         \A r \in Resources :
           r \in Resolved(k)
             <=> Structural(revs[k.rev], [resource |-> r, user |-> k.req.user])
    /\ k.phase = "served" => k.rev # 0
    /\ k.req.op = "lookup" /\ k.phase = "returned" /\ k.verdict = "ok" =>
         k.rev # 0 /\ k.left = {}

Streams == \A c \in Callers : StreamHolds(call[c])

LEMMA StreamsInit == Init => Streams
BY DEF Init, Streams, StreamHolds, Idle

LEMMA LookupUser ==
  ASSUME NEW req \in Request, req.op = "lookup"
  PROVE  req.user \in Users
BY DEF Request

(* The stream is what the user has, at the revision that was read. *)
LEMMA StreamIsComplete ==
  ASSUME NEW req \in Request, req.op = "lookup", NEW rels, NEW r \in Resources
  PROVE  r \in {item.resource : item \in Streamed(req, rels)}
           <=> Structural(rels, [resource |-> r, user |-> req.user])
<1> DEFINE p(q) == Permissionship(rels, [resource |-> q, user |-> req.user])
<1>1. Streamed(req, rels) = {item \in Item : item.permissionship = p(item.resource)}
  BY DEF Streamed
<1>2. Structural(rels, [resource |-> r, user |-> req.user]) <=> p(r) \in {"has", "conditional"}
  BY DEF Structural
<1> HIDE DEF p
<1>3. ASSUME p(r) \in {"has", "conditional"}
      PROVE  r \in {item.resource : item \in Streamed(req, rels)}
  <2> DEFINE item == [resource |-> r, permissionship |-> p(r)]
  <2>1. item \in Item /\ item.resource = r /\ item.permissionship = p(r)
    BY <1>3 DEF Item
  <2>2. QED  BY <1>1, <2>1
<1>4. ASSUME NEW item \in Streamed(req, rels), item.resource = r
      PROVE  p(r) \in {"has", "conditional"}
  BY <1>1, <1>4 DEF Item
<1>5. QED  BY <1>2, <1>3, <1>4

(* The stream of a call that goes on, or has ended, as it is. *)
LEMMA StreamKept ==
  ASSUME Shapes, Revisions, Streams, [Next]_vars, NEW d \in Callers,
         call[d].phase # "idle" =>
           /\ call'[d].req = call[d].req /\ call'[d].rev = call[d].rev
           /\ Resolved(call'[d]) = Resolved(call[d])
           /\ call[d].rev = 0 => call'[d].left = {} /\ call'[d].listed = {},
         call[d].phase = "idle" => call'[d].phase = "idle",
         call'[d].phase = "served" => call[d].phase = "served",
         call'[d].phase = "returned" /\ call'[d].verdict = "ok" =>
           /\ call'[d].left = call[d].left
           /\ \/ call[d].phase = "returned" /\ call[d].verdict = "ok"
              \/ call[d].phase = "served" /\ call[d].left = {}
  PROVE  StreamHolds(call[d])'
<1>1. StreamHolds(call[d])
  BY DEF Streams
<1>2. CASE call[d].phase = "idle"
  BY <1>2 DEF StreamHolds
<1>3. CASE call[d].phase # "idle"
  <2>1. call[d].rev # 0 => revs'[call[d].rev] = revs[call[d].rev]
    BY <1>3, RevisionsStay, LatestTyped DEF Revisions
  <2>2. call'[d].req.op = "lookup" /\ call'[d].rev # 0 =>
          \A r \in Resources :
            r \in Resolved(call'[d])
              <=> Structural(revs'[call'[d].rev], [resource |-> r, user |-> call'[d].req.user])
    BY <1>1, <1>3, <2>1 DEF StreamHolds
  <2>3. Resolved(call[d])' = Resolved(call'[d])
    BY DEF Resolved
  <2>4. \A r : Structural(revs[call[d].rev], [resource |-> r, user |-> call[d].req.user])'
                = Structural(revs'[call'[d].rev], [resource |-> r, user |-> call'[d].req.user])
    BY DEF Structural, Permissionship
  <2>5. QED  BY <1>1, <1>3, <2>2, <2>3, <2>4 DEF StreamHolds
<1>4. QED  BY <1>2, <1>3

LEMMA StreamsStep == Shapes /\ Store /\ Streams /\ [Next]_vars => Streams'
<1> SUFFICES ASSUME Shapes, Store, Streams, [Next]_vars PROVE Streams'
  OBVIOUS
<1>1. Revisions
  BY DEF Store
<1>2. ASSUME NEW d \in Callers, call'[d].phase = call[d].phase,
             call[d].phase # "idle" =>
               /\ call'[d].req = call[d].req /\ call'[d].rev = call[d].rev
               /\ call'[d].left = call[d].left /\ call'[d].listed = call[d].listed
               /\ call'[d].verdict = call[d].verdict
      PROVE  StreamHolds(call[d])'
  <2>1. call[d].phase # "idle" => Resolved(call'[d]) = Resolved(call[d])
    BY <1>2 DEF Resolved
  <2>2. StreamHolds(call[d])
    BY DEF Streams
  <2>3. CASE call[d].phase = "idle"
    BY <1>2, <2>3 DEF StreamHolds
  <2>4. CASE call[d].phase # "idle"
    <3>1. call[d].rev = 0 => call'[d].left = {} /\ call'[d].listed = {}
      BY <1>2, <2>2, <2>4 DEF StreamHolds
    <3>2. call'[d].phase = "returned" /\ call'[d].verdict = "ok"
            => call[d].phase = "returned" /\ call[d].verdict = "ok"
      BY <1>2, <2>4
    <3>3. QED  BY <1>1, <1>2, <2>1, <2>4, <3>1, <3>2, StreamKept
  <2>5. QED  BY <2>3, <2>4
<1>3. ASSUME NEW c \in Callers, NEW req \in Request, Begin(c, req) PROVE Streams'
  <2>1. StreamHolds(call[c])'
    <3>1. call'[c] = Started(req)
      BY <1>3, BeginKeeps
    <3>2. /\ call'[c].phase = "queued" /\ call'[c].rev = 0
          /\ call'[c].left = {} /\ call'[c].listed = {}
      BY <3>1 DEF Started
    <3>3. QED  BY <3>2 DEF StreamHolds
  <2>2. ASSUME NEW d \in Callers \ {c} PROVE StreamHolds(call[d])'
    BY <1>2, <1>3, BeginKeeps
  <2>3. QED  BY <2>1, <2>2 DEF Streams
<1>4. ASSUME NEW c \in Callers, NEW req \in Request, FailClosed(c, req) PROVE Streams'
  <2>1. /\ \A d \in Callers \ {c} : call'[d] = call[d]
        /\ call'[c].phase = "returned" /\ call'[c].verdict = "error"
        /\ call'[c].rev = 0 /\ call'[c].left = {} /\ call'[c].listed = {}
    BY <1>4, RefusalMoves
  <2>2. StreamHolds(call[c])'
    BY <2>1 DEF StreamHolds
  <2>3. QED  BY <1>2, <2>1, <2>2 DEF Streams
<1>5. ASSUME NEW c \in Callers,
             Serve(c) \/ Receive(c) \/ Reply(c) \/ RpcFails(c) \/ Cancel(c) \/ Evaluate(c)
      PROVE  Streams'
  <2>1. /\ call[c] \in Call /\ c \in InFlight /\ call'[c].req = call[c].req
        /\ \A d \in Callers \ {c} : call'[d] = call[d]
    BY <1>5, StepKeeps
  <2>2. call[c].phase # "idle" /\ StreamHolds(call[c])
    BY <2>1 DEF InFlight, Streams
  <2>3. CASE Serve(c)
    <3>1. /\ call[c].phase = "queued" /\ call'[c].phase = "served" /\ call[c].rev = 0
          /\ call[c].left = {} /\ call'[c].listed = {}
          /\ call'[c].rev \in Nat \ {0}
          /\ ~IsWrite(call[c].req) =>
               /\ revs' = revs
               /\ call'[c].left = Streamed(call[c].req, revs[call'[c].rev])
      <4>1. /\ call[c].phase = "queued" /\ call'[c].phase = "served"
            /\ call'[c].listed = call[c].listed
            /\ IF IsWrite(call[c].req)
               THEN revs' = Append(revs, Effect(call[c].req, Latest)) /\ call'[c].rev = Len(revs')
               ELSE /\ revs' = revs /\ call'[c].rev \in Readable(call[c].req)
                    /\ call'[c].left = Streamed(call[c].req, revs[call'[c].rev])
        BY <2>1, <2>3, StepMoves
      <4>2. call[c].rev = 0 /\ call[c].left = {} /\ call[c].listed = {}
        BY <1>1, <2>2, <4>1 DEF Revisions, StreamHolds
      <4>3. Len(revs) \in Nat \ {0} /\ Effect(call[c].req, Latest) \in [Grant -> Relation]
        BY LatestTyped, EffectTyped
      <4>4. CASE IsWrite(call[c].req)
        BY <4>1, <4>2, <4>3, <4>4, AppendProperties DEF Shapes
      <4>5. CASE ~IsWrite(call[c].req)
        BY <4>1, <4>2, <4>3, <4>5 DEF Readable
      <4>6. QED  BY <4>4, <4>5
    <3>2. ASSUME call[c].req.op = "lookup", NEW r \in Resources
          PROVE  r \in Resolved(call'[c])
                   <=> Structural(revs'[call'[c].rev], [resource |-> r, user |-> call'[c].req.user])
      <4>1. call[c].req \in Request /\ ~IsWrite(call[c].req)
        BY <2>2, <3>2, Underway DEF IsWrite
      <4>2. Resolved(call'[c]) = {item.resource : item \in Streamed(call[c].req, revs[call'[c].rev])}
        BY <3>1, <4>1 DEF Resolved
      <4>3. QED  BY <2>1, <3>1, <3>2, <4>1, <4>2, StreamIsComplete
    <3>3. StreamHolds(call[c])'
      <4>1. Resolved(call[c])' = Resolved(call'[c])
        BY DEF Resolved
      <4>2. \A r : Structural(revs[call[c].rev], [resource |-> r, user |-> call[c].req.user])'
                    = Structural(revs'[call'[c].rev], [resource |-> r, user |-> call'[c].req.user])
        BY DEF Structural, Permissionship
      <4>3. QED  BY <2>1, <3>1, <3>2, <4>1, <4>2 DEF StreamHolds
    <3>4. QED  BY <1>2, <2>1, <3>3 DEF Streams
  <2>4. CASE Receive(c)
    <3>1. PICK item \in call[c].left :
            /\ call'[c].left = call[c].left \ {item}
            /\ call'[c].listed = call[c].listed \cup {item.resource}
      BY <2>1, <2>4, StepMoves
    <3>2. Resolved(call'[c]) = Resolved(call[c])
      BY <3>1 DEF Resolved
    <3>3. /\ call[c].phase = "served" /\ call'[c].phase = "served"
          /\ call'[c].rev = call[c].rev /\ call[c].rev # 0
      BY <2>1, <2>2, <2>4, StepMoves DEF StreamHolds
    <3>4. StreamHolds(call[c])'
      BY <1>1, <2>1, <3>2, <3>3, StreamKept
    <3>5. QED  BY <1>2, <2>1, <3>4 DEF Streams
  <2>5. CASE Reply(c) \/ RpcFails(c) \/ Cancel(c) \/ Evaluate(c)
    <3>1. /\ call'[c].rev = call[c].rev /\ call'[c].left = call[c].left
          /\ call'[c].listed = call[c].listed /\ call'[c].phase \in {"abac", "returned"}
          /\ call'[c].verdict = "ok" /\ call'[c].phase = "returned" =>
               call[c].phase = "served" /\ call[c].left = {}
      <4>1. CASE Reply(c) \/ RpcFails(c) \/ Cancel(c)
        BY <2>1, <4>1, StepMoves
      <4>2. CASE Evaluate(c)
        <5> DEFINE v == Verdict(call[c], IF call[c].req.override # "none"
                                         THEN call[c].req.override ELSE policies)
        <5>1. v # "ok"
          BY AnswerTyped DEF Verdict
        <5> HIDE DEF v
        <5>2. /\ call'[c].rev = call[c].rev /\ call'[c].left = call[c].left
              /\ call'[c].listed = call[c].listed /\ call'[c].phase = "returned"
              /\ call'[c].verdict = v
          BY <2>1, <4>2, StepMoves DEF v
        <5>3. QED  BY <5>1, <5>2
      <4>3. QED  BY <2>5, <4>1, <4>2
    <3>2. Resolved(call'[c]) = Resolved(call[c])
      BY <3>1 DEF Resolved
    <3>3. StreamHolds(call[c])'
      BY <1>1, <2>1, <2>2, <3>1, <3>2, StreamKept DEF StreamHolds
    <3>4. QED  BY <1>2, <2>1, <3>3 DEF Streams
  <2>6. QED  BY <1>5, <2>3, <2>4, <2>5
<1>6. ASSUME NEW dsl \in Dsls, UpdatePolicies(dsl) PROVE Streams'
  <2>1. \A d \in Callers :
          /\ call'[d].phase = call[d].phase
          /\ call[d].phase # "idle" =>
               /\ call'[d].req = call[d].req /\ call'[d].rev = call[d].rev
               /\ call'[d].left = call[d].left /\ call'[d].listed = call[d].listed
               /\ call'[d].verdict = call[d].verdict
    BY <1>6, Underway DEF UpdatePolicies, InFlight, Call
  <2>2. QED  BY <1>2, <2>1 DEF Streams
<1>7. CASE ReplicationFails \/ UNCHANGED vars
  <2>1. UNCHANGED call
    BY <1>7 DEF ReplicationFails, vars
  <2>2. QED  BY <1>2, <2>1 DEF Streams
<1>8. QED  BY <1>3, <1>4, <1>5, <1>6, <1>7 DEF Next

-----------------------------------------------------------------------------
(* The theorems. *)

LEMMA Invariance == Spec => [](Shapes /\ Store /\ Explanations /\ Streams)
<1> DEFINE Inv == Shapes /\ InLine /\ Store /\ Explanations /\ Streams
<1>1. Init => Inv
  BY ShapesInit, LineInit, StoreInit, ExplanationsInit, StreamsInit
<1>2. Inv /\ [Next]_vars => Inv'
  BY ShapesStep, LineStep, StoreStep, ExplanationsStep, StreamsStep
<1>3. QED  BY <1>1, <1>2, PTL DEF Spec

(* A fully consistent check sees what was acknowledged before it began, a  *)
(* revocation above all, whoever writes, fails or gives up at the same time*)
(* on the shared client.                                                   *)
THEOREM WritesAreSeen == Spec => []AcknowledgedWritesSeen
<1>1. Store => AcknowledgedWritesSeen
  BY DEF Store, Expectations, ExpectationHolds, AcknowledgedWritesSeen, Checks
<1>2. QED  BY <1>1, Invariance, PTL

(* Every answer is that of one policy set that was in force while the check*)
(* ran, or of its own override, however often the policies are swapped.    *)
THEOREM AnswersAreExplained == Spec => []AnswerExplained
<1>1. Explanations => AnswerExplained
  BY DEF Explanations, ExplanationHolds, AnswerExplained, Answered, Checks
<1>2. QED  BY <1>1, Invariance, PTL

(* Policies that read is_structural_allowed never grant what the           *)
(* relationships deny, as long as the context does not forge the key.      *)
THEOREM FiltersOnlyFilter == Spec => []FiltersNeverGrant
<1>1. ASSUME NEW k, NEW policy, policy # "permit", k.req.context # "claims",
             Verdict(k, policy) = "true"
      PROVE  Allowed(k)
  <2>1. CASE policy \in {"none", "malformed"} \/ k.req.context = "fails"
    BY <1>1, <2>1 DEF Verdict, Answer
  <2>2. CASE policy \notin {"none", "malformed"} /\ k.req.context # "fails"
    BY <1>1, <2>2 DEF Verdict, Answer, Permits
  <2>3. QED  BY <2>1, <2>2
<1>2. AnswerExplained => FiltersNeverGrant
  BY <1>1 DEF AnswerExplained, FiltersNeverGrant
<1>3. QED  BY <1>2, AnswersAreExplained, PTL

(* A lookup that returns Ok lists what a check at its revision would allow *)
(* structurally, conditional permissions included, and all of it, whatever *)
(* is written, swapped, failed or dropped while its stream is read.        *)
THEOREM LookupsAgree == Spec => []LookupAgreesWithCheck
<1>1. Streams => LookupAgreesWithCheck
  <2> SUFFICES ASSUME Streams, NEW c \in Callers, call[c].phase = "returned",
                      call[c].verdict = "ok", call[c].req.op = "lookup", NEW r \in Resources
               PROVE  r \in call[c].listed
                        <=> Structural(revs[call[c].rev],
                                       [resource |-> r, user |-> call[c].req.user])
    BY DEF LookupAgreesWithCheck
  <2>1. StreamHolds(call[c])
    BY DEF Streams
  <2>2. call[c].rev # 0 /\ call[c].left = {}
    BY <2>1 DEF StreamHolds
  <2>3. Resolved(call[c]) = call[c].listed
    BY <2>2 DEF Resolved
  <2>4. QED  BY <2>1, <2>2, <2>3 DEF StreamHolds
<1>2. QED  BY <1>1, Invariance, PTL

(* Once the engine sees the fatal state of the pipeline no call begins, and*)
(* only the calls that had passed the guard still write.                   *)
THEOREM FailClosedHolds == Spec => FailClosedDrains
<1>1. ASSUME Shapes, [Next]_vars, Broken
      PROVE  /\ InFlight' \subseteq InFlight
             /\ revs' # revs => \E c \in InFlight : IsWrite(call[c].req)
  <2>1. ASSUME NEW c \in Callers,
               Serve(c) \/ Receive(c) \/ Reply(c) \/ RpcFails(c) \/ Cancel(c) \/ Evaluate(c)
        PROVE  InFlight' \subseteq InFlight
    <3>1. c \in InFlight /\ \A d \in Callers \ {c} : call'[d] = call[d]
      BY <1>1, <2>1, StepKeeps
    <3>2. QED  BY <3>1 DEF InFlight
  <2>2. ASSUME NEW c \in Callers, NEW req \in Request, FailClosed(c, req)
        PROVE  InFlight' \subseteq InFlight
    BY <1>1, <2>2, RefusalMoves DEF InFlight
  <2>3. ASSUME NEW dsl \in Dsls, UpdatePolicies(dsl) PROVE InFlight' \subseteq InFlight
    BY <2>3, Underway DEF UpdatePolicies, InFlight, Call
  <2>4. InFlight' \subseteq InFlight
    BY <1>1, <2>1, <2>2, <2>3 DEF Next, Begin, ReplicationFails, vars, InFlight
  <2>5. ASSUME revs' # revs PROVE \E c \in Callers : Serve(c) /\ IsWrite(call[c].req)
    <3>1. \A c \in Callers : Serve(c) => IsWrite(call[c].req)
      BY <1>1, <2>5, ServeMoves
    <3>2. ASSUME NEW c \in Callers, Receive(c) \/ Reply(c) \/ RpcFails(c) \/ Cancel(c) \/ Evaluate(c)
          PROVE  revs' = revs
      BY <3>2 DEF Receive, Reply, RpcFails, Cancel, Evaluate
    <3>3. ASSUME NEW c \in Callers, NEW req \in Request, Begin(c, req) \/ FailClosed(c, req)
          PROVE  revs' = revs
      BY <3>3 DEF Begin, FailClosed
    <3>4. ASSUME (\E dsl \in Dsls : UpdatePolicies(dsl)) \/ ReplicationFails \/ UNCHANGED vars
          PROVE  revs' = revs
      BY <3>4 DEF UpdatePolicies, ReplicationFails, vars
    <3>5. QED  BY <1>1, <2>5, <3>1, <3>2, <3>3, <3>4 DEF Next
  <2>6. \A c \in Callers : Serve(c) => c \in InFlight
    BY DEF Serve, InFlight
  <2>7. QED  BY <2>4, <2>5, <2>6
<1>2. QED  BY <1>1, Invariance, PTL DEF Spec, FailClosedDrains

=============================================================================
