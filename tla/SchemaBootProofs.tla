--------------------------- MODULE SchemaBootProofs ---------------------------
(***************************************************************************)
(* Theorems about SchemaBoot for every number of processes and managers,   *)
(* every set of schemas and whatever the calls ask for: first what they    *)
(* compare and write, for which the stub's mutex plays no part, then who   *)
(* holds that mutex and who waits for it.                                  *)
(***************************************************************************)
EXTENDS SchemaBoot, LineProofs, SequenceTheorems, TLAPS

-----------------------------------------------------------------------------
(* Comparing schemas. *)

(* The outcomes of the comparison: no difference, or a real one. *)
LEMMA NoDifference ==
  ASSUME NEW s, NEW d, NEW current,
         ~HasFunctionalDiff(Diffs(s, d), current, d.caveat),
         "CaveatExprChanged" \in Diffs(s, d) => current = s.caveat
  PROVE  SameFunction(s, d)
<1>1. {"Definition", "CaveatAddedOrRemoved", "CaveatExprChanged"} \subseteq DiffKind
  BY DEF DiffKind
<1>2. "Definition" \notin Diffs(s, d) /\ "CaveatAddedOrRemoved" \notin Diffs(s, d)
  BY DEF HasFunctionalDiff
<1>3. s.definitions = d.definitions /\ (s.caveat = "none" <=> d.caveat = "none")
  BY <1>1, <1>2 DEF Diffs
<1>4. "CaveatExprChanged" \in Diffs(s, d) => s.caveat = d.caveat
  BY DEF HasFunctionalDiff
<1>5. "CaveatExprChanged" \notin Diffs(s, d) => s.caveat = d.caveat
  BY <1>1, <1>3 DEF Diffs
<1>6. QED  BY <1>3, <1>4, <1>5 DEF SameFunction

LEMMA RealDifference ==
  ASSUME NEW s, NEW d, NEW current,
         HasFunctionalDiff(Diffs(s, d), current, d.caveat),
         "CaveatExprChanged" \in Diffs(s, d) => current = s.caveat
  PROVE  ~SameFunction(s, d)
<1>1. PICK kind \in Diffs(s, d) :
        /\ kind # "DocCommentChanged"
        /\ kind = "CaveatExprChanged" => current # d.caveat
  BY DEF HasFunctionalDiff
<1>2. CASE kind = "CaveatExprChanged"
  BY <1>1, <1>2 DEF SameFunction
<1>3. CASE kind \in {"Definition", "CaveatAddedOrRemoved"}
  BY <1>1, <1>3 DEF Diffs, SameFunction
<1>4. QED  BY <1>1, <1>2, <1>3 DEF Diffs, DiffKind

LEMMA NothingIsDifferent ==
  ASSUME NEW d \in Schemas
  PROVE  ~SameFunction(Absent, d)
BY SchemasAssumption DEF SameFunction

-----------------------------------------------------------------------------
(* The inductive invariant. *)

(* The part of TypeOK that does not speak of the mutex. *)
CallTypes ==
  /\ request \in [Calls -> Request]
  /\ phase \in [Calls -> Phase]
  /\ diffed \in [Calls -> Schemas \cup {Absent}]
  /\ remote \in Schemas \cup {Absent}
  /\ seen \in [Calls -> SUBSET (Schemas \cup {Absent})]

(* Which calls compare, and which write. *)
Purpose ==
  \A t \in Calls :
    /\ phase[t] \in {"wantsDiff", "diffed", "reflects", "mismatch"} => Ensures(request[t])
    /\ phase[t] \in {"wantsWrite", "written"} => MayWrite(t)
    /\ phase[t] \in {"wantsRead", "answered"} => request[t].op = "read"
    /\ phase[t] = "reflects" => NeedsCaveats(t)

(* What a call has seen by now. *)
Witnessed ==
  \A t \in Calls : Ensures(request[t]) =>
    /\ phase[t] \in Waiting \cup Holding => remote \in seen[t]
    /\ phase[t] \in {"diffed", "reflects"} => diffed[t] \in seen[t]
    /\ phase[t] = "written" => request[t].schema \in seen[t]

(* The schema is one that a call wanted to write. *)
Overwritten == \E u \in Calls : MayWrite(u) /\ remote = request[u].schema

(* What a call compared, wrote or ensured is still there, or overwritten.  *)
Traced ==
  \A t \in Calls :
    /\ phase[t] \in {"diffed", "reflects"} => remote = diffed[t] \/ Overwritten
    /\ phase[t] = "written" => Overwritten
    /\ Ensured(t) => Overwritten \/ SameFunction(remote, request[t].schema)

IInv ==
  /\ CallTypes /\ Purpose /\ Witnessed /\ Traced
  /\ OkWasRight /\ DifferenceWasReal

LEMMA IInvInit == Init => IInv
BY RequestsAssumption
   DEF Init, IInv, CallTypes, Purpose, Witnessed, Traced, OkWasRight,
       DifferenceWasReal, Ensured, Phase, Waiting, Holding, Ended

-----------------------------------------------------------------------------
(* Steps that leave the schema alone and move one call.  *)

Moves(t, p) ==
  /\ request' = request /\ remote' = remote
  /\ phase' = [phase EXCEPT ![t] = p]
  /\ diffed' \in [Calls -> Schemas \cup {Absent}]
  /\ \A u \in Calls \ {t} : diffed'[u] = diffed[u]

(* A call that was begun does not stop to be one that may write. *)
LEMMA MoveKeepsOthers ==
  ASSUME IInv, NEW t \in Calls, NEW p \in Phase \ {"idle"}, Moves(t, p),
         seen' \in [Calls -> SUBSET (Schemas \cup {Absent})],
         \A u \in Calls \ {t} : seen'[u] = seen[u]
  PROVE  /\ CallTypes'
         /\ \A u \in Calls : MayWrite(u) => MayWrite(u)'
         /\ Overwritten => Overwritten'
<1>1. CallTypes'
  BY DEF IInv, CallTypes, Moves
<1>2. \A u \in Calls : MayWrite(u) => MayWrite(u)'
  BY DEF IInv, CallTypes, Moves, MayWrite
<1>3. QED  BY <1>1, <1>2 DEF Moves, Overwritten

(* It keeps the invariant if what holds of the call itself does. *)
LEMMA MoveKeepsIInv ==
  ASSUME IInv, NEW t \in Calls, NEW p \in Phase \ {"idle"}, Moves(t, p),
         seen' \in [Calls -> SUBSET (Schemas \cup {Absent})],
         \A u \in Calls \ {t} : seen'[u] = seen[u],
         p \in {"wantsDiff", "diffed", "reflects", "mismatch"} => Ensures(request[t]),
         p \in {"wantsWrite", "written"} => MayWrite(t)',
         p \in {"wantsRead", "answered"} => request[t].op = "read",
         p = "reflects" => NeedsCaveats(t)',
         Ensures(request[t]) =>
           /\ p \in Waiting \cup Holding => remote \in seen'[t]
           /\ p \in {"diffed", "reflects"} => diffed'[t] \in seen'[t]
           /\ p = "written" => request[t].schema \in seen'[t]
           /\ p \in {"policies", "ok"} =>
                \E s \in seen'[t] : SameFunction(s, request[t].schema)
           /\ p \in {"wantsWrite", "written", "mismatch"} =>
                /\ p = "mismatch" <=> request[t].mode = "VerifyOnly"
                /\ \E s \in seen'[t] : ~SameFunction(s, request[t].schema),
         p \in {"diffed", "reflects"} => remote = diffed'[t] \/ Overwritten,
         p = "written" => Overwritten,
         p \in {"policies", "ok"} /\ Ensures(request[t]) =>
           Overwritten \/ SameFunction(remote, request[t].schema)
  PROVE  IInv'
<1>1. /\ CallTypes'
      /\ \A u \in Calls : MayWrite(u) => MayWrite(u)'
      /\ Overwritten => Overwritten'
  BY MoveKeepsOthers
<1>2. \A u \in Calls \ {t} : phase'[u] = phase[u] /\ diffed'[u] = diffed[u]
  BY DEF IInv, CallTypes, Moves
<1>3. phase'[t] = p /\ request' = request /\ remote' = remote
  BY DEF IInv, CallTypes, Moves
<1>4. Purpose'
  BY <1>1, <1>2, <1>3 DEF IInv, Purpose, NeedsCaveats, Reported
<1>5. Witnessed'
  BY <1>2, <1>3 DEF IInv, Witnessed
<1>6. Traced'
  BY <1>1, <1>2, <1>3 DEF IInv, Traced, Ensured
<1>7. OkWasRight'
  BY <1>2, <1>3 DEF IInv, OkWasRight, Ensured
<1>8. DifferenceWasReal'
  BY <1>2, <1>3 DEF IInv, DifferenceWasReal
<1>9. QED  BY <1>1, <1>4, <1>5, <1>6, <1>7, <1>8 DEF IInv

-----------------------------------------------------------------------------
(* The actions. *)

LEMMA BeginStep ==
  ASSUME IInv, NEW t \in Calls, Begin(t)
  PROVE  IInv'
<1> DEFINE p == FirstWait(request[t])
<1>1. request[t] \in Request
  BY DEF IInv, CallTypes
<1>2. request[t].op \in {"boot", "ensure", "write", "read"}
  BY <1>1 DEF Request
<1>3. /\ p \in Waiting
      /\ Ensures(request[t]) => p = "wantsDiff"
      /\ ~Ensures(request[t]) => p \in {"wantsWrite", "wantsRead"}
      /\ p = "wantsWrite" => request[t].op = "write"
      /\ p = "wantsRead" => request[t].op = "read"
  BY <1>2 DEF FirstWait, Ensures, Waiting
<1> HIDE DEF p
<1>4. Moves(t, p) /\ p \in Phase \ {"idle"}
  BY <1>3 DEF Begin, Moves, p, IInv, CallTypes, Phase, Waiting
<1>5. /\ seen' \in [Calls -> SUBSET (Schemas \cup {Absent})]
      /\ \A u \in Calls \ {t} : seen'[u] = seen[u]
      /\ seen'[t] = {remote}
  BY DEF Begin, IInv, CallTypes
<1>6. p = "wantsWrite" => MayWrite(t)'
  BY <1>3, <1>4 DEF MayWrite, Moves, IInv, CallTypes
<1>7. QED  BY <1>3, <1>4, <1>5, <1>6, MoveKeepsIInv DEF Waiting

(* A call that is over, with an error. *)
LEMMA FailStep ==
  ASSUME IInv, NEW t \in Calls, BootFails(t) \/ Fail(t)
  PROVE  IInv'
<1>1. Moves(t, "error") /\ "error" \in Phase \ {"idle"}
  BY DEF BootFails, Fail, Moves, IInv, CallTypes, Phase, Ended
<1>2. /\ seen' \in [Calls -> SUBSET (Schemas \cup {Absent})]
      /\ \A u \in Calls \ {t} : seen'[u] = seen[u]
  BY DEF BootFails, Fail, IInv, CallTypes
<1>3. "error" \notin Waiting \cup Holding
  BY DEF Waiting, Holding
<1>4. QED  BY <1>1, <1>2, <1>3, MoveKeepsIInv

LEMMA ServeDiffStep ==
  ASSUME IInv, NEW t \in Calls, ServeDiff(t)
  PROVE  IInv'
<1>1. Moves(t, "diffed") /\ "diffed" \in Phase \ {"idle"} /\ diffed'[t] = remote
  BY DEF ServeDiff, Moves, IInv, CallTypes, Phase, Holding
<1>2. /\ seen' = seen /\ seen \in [Calls -> SUBSET (Schemas \cup {Absent})]
      /\ phase[t] = "wantsDiff"
  BY DEF ServeDiff, IInv, CallTypes
<1>3. Ensures(request[t]) /\ remote \in seen[t]
  BY <1>2 DEF IInv, Purpose, Witnessed, Waiting
<1>4. QED  BY <1>1, <1>2, <1>3, MoveKeepsIInv

LEMMA ServeReadStep ==
  ASSUME IInv, NEW t \in Calls, ServeRead(t)
  PROVE  IInv'
<1>1. Moves(t, "answered") /\ "answered" \in Phase \ {"idle"}
  BY DEF ServeRead, Moves, IInv, CallTypes, Phase, Holding
<1>2. /\ seen' = seen /\ seen \in [Calls -> SUBSET (Schemas \cup {Absent})]
      /\ phase[t] = "wantsRead"
  BY DEF ServeRead, IInv, CallTypes
<1>3. request[t].op = "read" /\ ~Ensures(request[t])
  BY <1>2 DEF IInv, Purpose, Ensures
<1>4. QED  BY <1>1, <1>2, <1>3, MoveKeepsIInv

(* A write changes the schema under every call. *)
LEMMA ServeWriteStep ==
  ASSUME IInv, NEW t \in Calls, ServeWrite(t)
  PROVE  IInv'
<1>1. /\ request' = request /\ diffed' = diffed
      /\ phase[t] = "wantsWrite" /\ phase'[t] = "written"
      /\ \A u \in Calls \ {t} : phase'[u] = phase[u]
      /\ remote' = request[t].schema
      /\ \A u \in Calls : seen'[u] = IF Ensuring(u) THEN seen[u] \cup {remote'} ELSE seen[u]
  BY DEF ServeWrite, IInv, CallTypes
<1>2. MayWrite(t) /\ MayWrite(t)' /\ Overwritten'
  BY <1>1 DEF IInv, Purpose, MayWrite, Overwritten
<1>3. remote' \in Schemas
  <2>1. request[t] \in Request /\ (request[t].op = "write" \/ Ensures(request[t]))
    BY <1>2 DEF IInv, CallTypes, MayWrite
  <2>2. QED  BY <1>1, <2>1 DEF Request, Ensures
<1>4. CallTypes'
  BY <1>1, <1>3 DEF ServeWrite, IInv, CallTypes, Phase, Holding
<1>5. Purpose'
  BY <1>1, <1>2 DEF IInv, Purpose, MayWrite, NeedsCaveats, Reported
<1>6. Witnessed'
  BY <1>1 DEF IInv, Witnessed, Ensuring, Waiting, Holding
<1>7. Traced'
  BY <1>1, <1>2 DEF IInv, Traced, Ensured
<1>8. \A u \in Calls : seen[u] \subseteq seen'[u]
  BY <1>1
<1>9. OkWasRight'
  BY <1>1, <1>8 DEF IInv, OkWasRight, Ensured
<1>10. DifferenceWasReal'
  BY <1>1, <1>8 DEF IInv, DifferenceWasReal
<1>11. QED  BY <1>4, <1>5, <1>6, <1>7, <1>9, <1>10 DEF IInv

(* The end of ensure_schema. *)
LEMMA DecideStep ==
  ASSUME IInv, NEW t \in Calls, NEW differs \in BOOLEAN, Decide(t, differs),
         phase[t] \in {"diffed", "reflects"},
         differs <=> ~SameFunction(diffed[t], request[t].schema)
  PROVE  IInv'
<1>1. /\ Ensures(request[t]) /\ remote \in seen[t] /\ diffed[t] \in seen[t]
      /\ remote = diffed[t] \/ Overwritten
  BY DEF IInv, Purpose, Witnessed, Traced, Holding
<1>2. request[t].mode \in {"VerifyOnly", "ApplyIfDifferent"}
  BY <1>1 DEF IInv, CallTypes, Request, Ensures
<1>3. /\ seen' = seen /\ seen \in [Calls -> SUBSET (Schemas \cup {Absent})]
      /\ request' = request /\ remote' = remote
  BY DEF Decide, IInv, CallTypes
<1>4. CASE ~differs /\ Release(t, Succeeded(t))
  <2> DEFINE p == Succeeded(t)
  <2>1. p \in {"policies", "ok"}
    BY DEF Succeeded
  <2> HIDE DEF p
  <2>2. Moves(t, p) /\ p \in Phase \ {"idle"}
    BY <1>3, <1>4, <2>1 DEF Release, p, Moves, IInv, CallTypes, Phase, Ended
  <2>3. p \notin Waiting \cup Holding
    BY <2>1 DEF Waiting, Holding
  <2>4. QED  BY <1>1, <1>3, <1>4, <2>1, <2>2, <2>3, MoveKeepsIInv
<1>5. CASE differs /\ request[t].mode = "VerifyOnly" /\ Release(t, "mismatch")
  <2>1. Moves(t, "mismatch") /\ "mismatch" \in Phase \ {"idle"}
    BY <1>3, <1>5 DEF Release, Moves, IInv, CallTypes, Phase, Ended
  <2>2. "mismatch" \notin Waiting \cup Holding
    BY DEF Waiting, Holding
  <2>3. QED  BY <1>1, <1>3, <1>5, <2>1, <2>2, MoveKeepsIInv
<1>6. CASE /\ differs /\ request[t].mode = "ApplyIfDifferent"
           /\ phase' = [phase EXCEPT ![t] = "wantsWrite"]
           /\ diffed' = [diffed EXCEPT ![t] = Absent]
  <2>1. Moves(t, "wantsWrite") /\ "wantsWrite" \in Phase \ {"idle"}
    BY <1>3, <1>6 DEF Moves, IInv, CallTypes, Phase, Waiting
  <2>2. MayWrite(t)'
    BY <1>1, <1>3, <1>6, <2>1 DEF Moves, MayWrite, IInv, CallTypes
  <2>3. QED  BY <1>1, <1>3, <1>6, <2>1, <2>2, MoveKeepsIInv
<1>7. QED  BY <1>2, <1>4, <1>5, <1>6 DEF Decide

(* What the replies decide is whether the schemas differ. *)
LEMMA RepliesDecide ==
  ASSUME IInv, NEW t \in Calls
  PROVE  /\ phase[t] = "diffed" /\ ~NeedsCaveats(t) =>
              ((diffed[t] = Absent \/ Functional(t, "none"))
                 <=> ~SameFunction(diffed[t], request[t].schema))
         /\ Functional(t, Snapshot(t).caveat)
              <=> ~SameFunction(diffed[t], request[t].schema)
<1>1. phase[t] = "diffed" => request[t].schema \in Schemas
  BY DEF IInv, CallTypes, Purpose, Request, Ensures
<1>2. CASE diffed[t] = Absent
  BY <1>1, <1>2, NothingIsDifferent, NoDifference, RealDifference
     DEF Functional, Reported, Snapshot
<1>3. CASE diffed[t] # Absent
  BY <1>3, NoDifference, RealDifference DEF NeedsCaveats, Functional, Reported, Snapshot
<1>4. QED  BY <1>2, <1>3

LEMMA DiffReplyStep ==
  ASSUME IInv, NEW t \in Calls, DiffReply(t)
  PROVE  IInv'
<1>1. phase[t] = "diffed" /\ Ensures(request[t])
  BY DEF DiffReply, IInv, Purpose
<1>2. CASE NeedsCaveats(t) /\ phase' = [phase EXCEPT ![t] = "reflects"]
           /\ UNCHANGED <<request, diffed, locks, remote, seen>>
  <2>1. Moves(t, "reflects") /\ "reflects" \in Phase \ {"idle"}
    BY <1>2 DEF Moves, IInv, CallTypes, Phase, Holding
  <2>2. NeedsCaveats(t)'
    BY <1>2 DEF NeedsCaveats, Reported
  <2>3. /\ remote \in seen[t] /\ diffed[t] \in seen[t]
        /\ remote = diffed[t] \/ Overwritten
    BY <1>1 DEF IInv, Witnessed, Traced, Holding
  <2>4. seen \in [Calls -> SUBSET (Schemas \cup {Absent})]
    BY DEF IInv, CallTypes
  <2>5. QED  BY <1>1, <1>2, <2>1, <2>2, <2>3, <2>4, MoveKeepsIInv
<1>3. CASE ~NeedsCaveats(t) /\ Decide(t, diffed[t] = Absent \/ Functional(t, "none"))
  <2>1. (diffed[t] = Absent \/ Functional(t, "none"))
          <=> ~SameFunction(diffed[t], request[t].schema)
    BY <1>1, <1>3, RepliesDecide
  <2>2. QED  BY <1>1, <1>3, <2>1, DecideStep
<1>4. QED  BY <1>2, <1>3 DEF DiffReply

LEMMA ReflectReplyStep ==
  ASSUME IInv, NEW t \in Calls, ReflectReply(t)
  PROVE  IInv'
<1> DEFINE differs == Functional(t, Snapshot(t).caveat)
<1>1. differs <=> ~SameFunction(diffed[t], request[t].schema)
  BY RepliesDecide
<1>2. differs \in BOOLEAN
  BY DEF Functional, HasFunctionalDiff
<1>3. QED  BY <1>1, <1>2, DecideStep DEF ReflectReply

LEMMA WriteReplyStep ==
  ASSUME IInv, NEW t \in Calls, WriteReply(t)
  PROVE  IInv'
<1> DEFINE p == Succeeded(t)
<1>1. p \in {"policies", "ok"}
  BY DEF Succeeded
<1> HIDE DEF p
<1>2. Moves(t, p) /\ p \in Phase \ {"idle"} /\ p \notin Waiting \cup Holding
  BY <1>1 DEF WriteReply, Release, p, Moves, IInv, CallTypes, Phase, Ended,
              Waiting, Holding
<1>3. /\ seen' = seen /\ seen \in [Calls -> SUBSET (Schemas \cup {Absent})]
      /\ phase[t] = "written"
  BY DEF WriteReply, IInv, CallTypes
<1>4. Overwritten /\ (Ensures(request[t]) => request[t].schema \in seen[t])
  BY <1>3 DEF IInv, Traced, Witnessed
<1>5. SameFunction(request[t].schema, request[t].schema)
  BY DEF SameFunction
<1>6. QED  BY <1>1, <1>2, <1>3, <1>4, <1>5, MoveKeepsIInv

LEMMA ReadReplyStep ==
  ASSUME IInv, NEW t \in Calls, ReadReply(t)
  PROVE  IInv'
<1>1. Moves(t, "ok") /\ "ok" \in Phase \ {"idle"} /\ "ok" \notin Waiting \cup Holding
  BY DEF ReadReply, Release, Moves, IInv, CallTypes, Phase, Ended, Waiting, Holding
<1>2. /\ seen' = seen /\ seen \in [Calls -> SUBSET (Schemas \cup {Absent})]
      /\ phase[t] = "answered"
  BY DEF ReadReply, IInv, CallTypes
<1>3. request[t].op = "read" /\ ~Ensures(request[t])
  BY <1>2 DEF IInv, Purpose, Ensures
<1>4. QED  BY <1>1, <1>2, <1>3, MoveKeepsIInv

LEMMA LoadPoliciesStep ==
  ASSUME IInv, NEW t \in Calls, LoadPolicies(t)
  PROVE  IInv'
<1>1. PICK p \in {"ok", "error"} : phase' = [phase EXCEPT ![t] = p]
  BY DEF LoadPolicies
<1>2. Moves(t, p) /\ p \in Phase \ {"idle"} /\ p \notin Waiting \cup Holding
  BY <1>1 DEF LoadPolicies, Moves, IInv, CallTypes, Phase, Ended, Waiting, Holding
<1>3. /\ seen' = seen /\ seen \in [Calls -> SUBSET (Schemas \cup {Absent})]
      /\ phase[t] = "policies"
  BY DEF LoadPolicies, IInv, CallTypes
<1>4. Ensures(request[t]) =>
        /\ \E s \in seen[t] : SameFunction(s, request[t].schema)
        /\ Overwritten \/ SameFunction(remote, request[t].schema)
  BY <1>3 DEF IInv, OkWasRight, Traced, Ensured
<1>5. QED  BY <1>1, <1>2, <1>3, <1>4, MoveKeepsIInv

LEMMA IInvStep == IInv /\ [Next]_vars => IInv'
<1> SUFFICES ASSUME IInv, [Next]_vars PROVE IInv'
  OBVIOUS
<1>1. CASE UNCHANGED vars
  BY <1>1 DEF vars, IInv, CallTypes, Purpose, Witnessed, Traced, Overwritten,
              OkWasRight, DifferenceWasReal, Ensured, MayWrite, NeedsCaveats, Reported
<1>2. ASSUME NEW t \in Calls, Begin(t) \/ BootFails(t) \/ Continue(t) \/ Cancel(t)
      PROVE  IInv'
  BY <1>2, BeginStep, FailStep, ServeDiffStep, ServeWriteStep, ServeReadStep,
     DiffReplyStep, ReflectReplyStep, WriteReplyStep, ReadReplyStep, LoadPoliciesStep
     DEF Continue, RpcFails, Cancel
<1>3. QED  BY <1>1, <1>2 DEF Next, Terminated

LEMMA Invariance == Spec => []IInv
BY IInvInit, IInvStep, PTL DEF Spec

-----------------------------------------------------------------------------
(* The properties. *)

(* ensure_schema and from_config return Ok only if SpiceDB had the desired *)
(* schema, up to comments and spelling, at some moment of the call.        *)
THEOREM OkIsJustified == Spec => []OkWasRight
<1>1. IInv => OkWasRight
  BY DEF IInv
<1>2. QED  BY <1>1, Invariance, PTL

(* A mismatch is reported, and a schema overwritten by ensure_schema, only *)
(* if the schemas functionally differed at some moment of the call; and    *)
(* VerifyOnly never writes.                                                *)
THEOREM DifferencesAreReal == Spec => []DifferenceWasReal
<1>1. IInv => DifferenceWasReal
  BY DEF IInv
<1>2. QED  BY <1>1, Invariance, PTL

(* Processes that want functionally one schema do not disturb each other,  *)
(* however many boot at once.                                              *)
THEOREM AgreementHolds == Spec => []OkStays
<1>1. IInv => OkStays
  BY DEF IInv, Traced, OkStays, Overwritten, SameFunction
<1>2. QED  BY <1>1, Invariance, PTL

-----------------------------------------------------------------------------
(* The mutex of the stub. *)

(* Who holds it has a request under way, who waits has none; everybody is  *)
(* in the line of the own client, once.                                    *)
Mutex ==
  /\ guard \in [Clients -> Calls \cup {Nobody}]
  /\ waiters \in [Clients -> Seq(Calls)]
  /\ \A c \in Clients :
       /\ guard[c] # Nobody => phase[guard[c]] \in Holding /\ Client(guard[c]) = c
       /\ \A i \in 1 .. Len(waiters[c]) :
            phase[waiters[c][i]] \in Waiting /\ Client(waiters[c][i]) = c
       /\ \A i, j \in 1 .. Len(waiters[c]) : waiters[c][i] = waiters[c][j] => i = j

LEMMA ClientTyped == \A t \in Calls : Client(t) \in Clients
BY DEF Client, Clients, Calls

LEMMA PhasesApart == Waiting \cap Holding = {} /\ "idle" \notin Waiting \cup Holding
BY DEF Waiting, Holding

LEMMA MutexInit == Init => Mutex
<1> SUFFICES ASSUME Init PROVE Mutex
  OBVIOUS
<1>1. <<>> \in Seq(Calls) /\ Len(<<>>) = 0
  BY EmptySeq
<1>2. /\ guard \in [Clients -> Calls \cup {Nobody}]
      /\ waiters \in [Clients -> Seq(Calls)]
  BY <1>1 DEF Init
<1>3. \A c \in Clients : guard[c] = Nobody /\ waiters[c] = <<>>
  BY DEF Init
<1>4. QED  BY <1>1, <1>2, <1>3 DEF Mutex

(* A step of t to phase p: what changes concerns its own client.  The guard*)
(* stays with whom it was, or is t's as long as p holds it; in line nobody *)
(* is new but t.                                                           *)
GuardMoves(t, p, g) ==
  /\ g \in Calls \cup {Nobody}
  /\ guard' = [guard EXCEPT ![Client(t)] = g]
  /\ \/ g = Nobody
     \/ g = t /\ p \in Holding
     \/ g # t /\ g = guard[Client(t)]

LineMoves(t, p, w) ==
  /\ w \in Seq(Calls)
  /\ waiters' = [waiters EXCEPT ![Client(t)] = w]
  /\ \A i \in 1 .. Len(w) :
       \/ w[i] = t /\ p \in Waiting
       \/ w[i] # t /\ \E k \in 1 .. Len(waiters[Client(t)]) : w[i] = waiters[Client(t)][k]
  /\ \A i, j \in 1 .. Len(w) : w[i] = w[j] => i = j

LEMMA MutexMove ==
  ASSUME CallTypes, Mutex, NEW t \in Calls, NEW p \in Phase,
         phase' = [phase EXCEPT ![t] = p],
         NEW g, GuardMoves(t, p, g), NEW w, LineMoves(t, p, w)
  PROVE  Mutex'
<1> USE DEF GuardMoves, LineMoves
<1> DEFINE c == Client(t)
<1>1. c \in Clients
  BY ClientTyped
<1>2. /\ guard' \in [Clients -> Calls \cup {Nobody}]
      /\ waiters' \in [Clients -> Seq(Calls)]
      /\ guard'[c] = g /\ waiters'[c] = w
      /\ \A d \in Clients \ {c} : guard'[d] = guard[d] /\ waiters'[d] = waiters[d]
  BY <1>1 DEF Mutex
<1>3. phase'[t] = p /\ \A u \in Calls \ {t} : phase'[u] = phase[u]
  BY DEF CallTypes
<1>4. ASSUME NEW d \in Clients
      PROVE  guard'[d] # Nobody => phase'[guard'[d]] \in Holding /\ Client(guard'[d]) = d
  <2>1. CASE d = c
    BY <1>1, <1>2, <1>3, <2>1 DEF Mutex
  <2>2. CASE d # c
    <3>1. (guard'[d] = guard[d] /\ guard[d] # t) \/ guard'[d] = Nobody
      BY <1>2, <2>2 DEF Mutex
    <3>2. guard[d] # Nobody => guard[d] \in Calls
      BY DEF Mutex
    <3>3. QED  BY <1>2, <1>3, <2>2, <3>1, <3>2 DEF Mutex
  <2>3. QED  BY <2>1, <2>2
<1>5. ASSUME NEW d \in Clients, NEW i \in 1 .. Len(waiters'[d])
      PROVE  phase'[waiters'[d][i]] \in Waiting /\ Client(waiters'[d][i]) = d
  <2>1. \A k \in 1 .. Len(waiters[d]) : waiters[d][k] \in Calls
    BY ElementOfSeq DEF Mutex
  <2>2. CASE d = c
    <3>1. CASE w[i] = t /\ p \in Waiting
      BY <1>2, <1>3, <2>2, <3>1
    <3>2. ASSUME w[i] # t, NEW k \in 1 .. Len(waiters[c]), w[i] = waiters[c][k]
          PROVE  phase'[w[i]] \in Waiting /\ Client(w[i]) = c
      BY <1>1, <1>3, <2>1, <2>2, <3>2 DEF Mutex
    <3>3. QED  BY <1>2, <2>2, <3>1, <3>2
  <2>3. CASE d # c
    <3>1. waiters'[d] = waiters[d]
      BY <1>2, <2>3
    <3>2. Client(waiters[d][i]) = d /\ phase[waiters[d][i]] \in Waiting
      BY <3>1 DEF Mutex
    <3>3. waiters[d][i] # t /\ waiters[d][i] \in Calls
      BY <2>1, <2>3, <3>1, <3>2
    <3>4. QED  BY <1>3, <3>1, <3>2, <3>3
  <2>4. QED  BY <2>2, <2>3
<1>6. ASSUME NEW d \in Clients, NEW i \in 1 .. Len(waiters'[d]),
             NEW j \in 1 .. Len(waiters'[d]), waiters'[d][i] = waiters'[d][j]
      PROVE  i = j
  BY <1>1, <1>2, <1>6 DEF Mutex
<1>7. QED  BY <1>2, <1>4, <1>5, <1>6 DEF Mutex

(* A call that neither waits nor holds is nowhere in the mutex. *)
LEMMA Elsewhere ==
  ASSUME CallTypes, Mutex, NEW t \in Calls
  PROVE  /\ phase[t] \notin Waiting =>
              \A i \in 1 .. Len(waiters[Client(t)]) : waiters[Client(t)][i] # t
         /\ phase[t] \notin Holding => guard[Client(t)] \in {Nobody} \/ guard[Client(t)] # t
BY ClientTyped DEF Mutex

(* The phases change, the mutex does not. *)
LEMMA MutexKept ==
  ASSUME CallTypes, Mutex, NEW t \in Calls, NEW p \in Phase,
         phase' = [phase EXCEPT ![t] = p], UNCHANGED locks,
         phase[t] \notin Waiting, phase[t] \in Holding => p \in Holding
  PROVE  Mutex'
<1> DEFINE c == Client(t)
<1>1. c \in Clients /\ guard[c] \in Calls \cup {Nobody} /\ waiters[c] \in Seq(Calls)
  BY ClientTyped DEF Mutex
<1>2. guard' = [guard EXCEPT ![c] = guard[c]] /\ waiters' = [waiters EXCEPT ![c] = waiters[c]]
  BY DEF locks, Mutex
<1>3. \A i \in 1 .. Len(waiters[c]) : waiters[c][i] # t
  BY Elsewhere
<1>4. \/ guard[c] = Nobody
      \/ guard[c] = t /\ p \in Holding
      \/ guard[c] # t /\ guard[c] = guard[Client(t)]
  BY <1>1 DEF Mutex
<1>5. /\ \A i \in 1 .. Len(waiters[c]) :
           waiters[c][i] # t /\ \E k \in 1 .. Len(waiters[c]) : waiters[c][i] = waiters[c][k]
      /\ \A i, j \in 1 .. Len(waiters[c]) : waiters[c][i] = waiters[c][j] => i = j
  BY <1>1, <1>3 DEF Mutex
<1>6. GuardMoves(t, p, guard[c])
  BY <1>1, <1>2, <1>4 DEF GuardMoves
<1>7. LineMoves(t, p, waiters[c])
  BY <1>1, <1>2, <1>5 DEF LineMoves
<1>8. QED  BY <1>6, <1>7, MutexMove

(* The client is taken by the first in line. *)
LEMMA MutexLock ==
  ASSUME CallTypes, Mutex, NEW t \in Calls, NEW p \in Holding,
         phase' = [phase EXCEPT ![t] = p], HasTurn(t), Lock(t)
  PROVE  Mutex'
<1> DEFINE c == Client(t)
           w == Tail(waiters[c])
<1>1. /\ c \in Clients /\ waiters[c] \in Seq(Calls) /\ waiters[c] # <<>>
      /\ Head(waiters[c]) = t
      /\ \A i, j \in 1 .. Len(waiters[c]) : waiters[c][i] = waiters[c][j] => i = j
  BY ClientTyped DEF Mutex, HasTurn
<1> HIDE DEF c, w
<1>2. /\ w \in Seq(Calls)
      /\ \A i \in 1 .. Len(w) : \E k \in 1 .. Len(waiters[c]) : w[i] = waiters[c][k]
      /\ \A i \in 1 .. Len(w) : w[i] # t
      /\ \A i, j \in 1 .. Len(w) : w[i] = w[j] => i = j
  BY <1>1, LineTail DEF w
<1>3. guard' = [guard EXCEPT ![c] = t] /\ waiters' = [waiters EXCEPT ![c] = w]
  BY DEF Lock, c, w
<1>4. p \in Phase /\ t \in Calls \cup {Nobody}
  BY DEF Phase
<1>5. GuardMoves(t, p, t)
  BY <1>3, <1>4 DEF GuardMoves, c
<1>6. LineMoves(t, p, w)
  BY <1>2, <1>3 DEF LineMoves, c
<1>7. QED  BY <1>4, <1>5, <1>6, MutexMove

(* It is given back. *)
LEMMA MutexRelease ==
  ASSUME CallTypes, Mutex, NEW t \in Calls, NEW p \in Phase, Release(t, p),
         phase[t] \in Holding
  PROVE  Mutex'
<1> DEFINE c == Client(t)
<1>1. c \in Clients /\ waiters[c] \in Seq(Calls)
  BY ClientTyped DEF Mutex
<1>2. guard' = [guard EXCEPT ![c] = Nobody] /\ waiters' = [waiters EXCEPT ![c] = waiters[c]]
  BY DEF Release, Mutex
<1>3. \A i \in 1 .. Len(waiters[c]) : waiters[c][i] # t
  BY Elsewhere, PhasesApart
<1>4. phase' = [phase EXCEPT ![t] = p]
  BY DEF Release
<1>5. GuardMoves(t, p, Nobody)
  BY <1>2 DEF GuardMoves
<1>6. \A i, j \in 1 .. Len(waiters[c]) : waiters[c][i] = waiters[c][j] => i = j
  BY <1>1 DEF Mutex
<1>7. LineMoves(t, p, waiters[c])
  BY <1>1, <1>2, <1>3, <1>6 DEF LineMoves
<1>8. QED  BY <1>4, <1>5, <1>7, MutexMove

(* A call gets in line, after it let go of what it held. *)
LEMMA MutexQueue ==
  ASSUME CallTypes, Mutex, NEW t \in Calls, NEW p \in Waiting,
         phase' = [phase EXCEPT ![t] = p], phase[t] \notin Waiting,
         NEW g \in Calls \cup {Nobody}, guard' = [guard EXCEPT ![Client(t)] = g],
         g = Nobody \/ (g # t /\ g = guard[Client(t)]),
         waiters' = [waiters EXCEPT ![Client(t)] = Append(@, t)]
  PROVE  Mutex'
<1> DEFINE c == Client(t)
           w == Append(waiters[c], t)
<1>1. /\ c \in Clients /\ waiters[c] \in Seq(Calls)
      /\ \A i, j \in 1 .. Len(waiters[c]) : waiters[c][i] = waiters[c][j] => i = j
      /\ \A i \in 1 .. Len(waiters[c]) : waiters[c][i] # t
  BY ClientTyped, Elsewhere DEF Mutex
<1> HIDE DEF c, w
<1>2. /\ w \in Seq(Calls)
      /\ \A i \in 1 .. Len(w) :
           w[i] = t \/ \E k \in 1 .. Len(waiters[c]) : w[i] = waiters[c][k]
      /\ \A i, j \in 1 .. Len(w) : w[i] = w[j] => i = j
  BY <1>1, LineAppend DEF w
<1>3. waiters' = [waiters EXCEPT ![c] = w]
  BY DEF c, w
<1>4. p \in Phase
  BY DEF Phase
<1>5. GuardMoves(t, p, g)
  BY DEF GuardMoves
<1>6. \A i \in 1 .. Len(w) :
        \/ w[i] = t /\ p \in Waiting
        \/ w[i] # t /\ \E k \in 1 .. Len(waiters[c]) : w[i] = waiters[c][k]
  BY <1>2
<1>7. LineMoves(t, p, w)
  BY <1>2, <1>3, <1>6 DEF LineMoves, c
<1>8. QED  BY <1>4, <1>5, <1>7, MutexMove

(* A call that fails or is dropped leaves no trace. *)
LEMMA MutexFail ==
  ASSUME CallTypes, Mutex, NEW t \in Calls, Fail(t)
  PROVE  Mutex'
<1> DEFINE c == Client(t)
           w == Without(waiters[c], t)
           g == IF guard[c] = t THEN Nobody ELSE guard[c]
<1>1. /\ c \in Clients /\ waiters[c] \in Seq(Calls)
      /\ \A i, j \in 1 .. Len(waiters[c]) : waiters[c][i] = waiters[c][j] => i = j
  BY ClientTyped DEF Mutex
<1> HIDE DEF c, w, g
<1>2. /\ w \in Seq(Calls)
      /\ \A i \in 1 .. Len(w) : \E k \in 1 .. Len(waiters[c]) : w[i] = waiters[c][k]
      /\ \A i \in 1 .. Len(w) : w[i] # t
      /\ \A i, j \in 1 .. Len(w) : w[i] = w[j] => i = j
  BY <1>1, LineWithout DEF w
<1>3. g \in Calls \cup {Nobody} /\ (g = Nobody \/ (g # t /\ g = guard[c]))
  <2>1. guard[c] \in Calls \cup {Nobody}
    BY <1>1 DEF Mutex
  <2>2. QED  BY <2>1 DEF g
<1>4. /\ guard' = [guard EXCEPT ![c] = g] /\ waiters' = [waiters EXCEPT ![c] = w]
      /\ phase' = [phase EXCEPT ![t] = "error"]
  BY DEF Fail, c, w, g
<1>5. "error" \in Phase
  BY DEF Phase, Ended
<1>6. GuardMoves(t, "error", g)
  BY <1>3, <1>4 DEF GuardMoves, c
<1>7. LineMoves(t, "error", w)
  BY <1>2, <1>4 DEF LineMoves, c
<1>8. QED  BY <1>4, <1>5, <1>6, <1>7, MutexMove

LEMMA MutexStep == CallTypes /\ Mutex /\ [Next]_vars => Mutex'
<1> SUFFICES ASSUME CallTypes, Mutex, [Next]_vars PROVE Mutex'
  OBVIOUS
<1>1. ASSUME NEW t \in Calls, Begin(t) PROVE Mutex'
  <2>1. phase[t] \notin Waiting \cup Holding /\ phase[t] \in Phase
    BY <1>1, PhasesApart DEF Begin, CallTypes
  <2>2. FirstWait(request[t]) \in Waiting
    BY DEF CallTypes, Request, FirstWait, Ensures, Waiting
  <2>3. guard' = [guard EXCEPT ![Client(t)] = guard[Client(t)]]
    BY <1>1 DEF Begin, Mutex
  <2>4. guard[Client(t)] \in Calls \cup {Nobody}
    BY ClientTyped DEF Mutex
  <2>5. \/ guard[Client(t)] = Nobody
        \/ guard[Client(t)] # t /\ guard[Client(t)] = guard[Client(t)]
    BY <2>1, Elsewhere
  <2>6. /\ phase' = [phase EXCEPT ![t] = FirstWait(request[t])]
        /\ waiters' = [waiters EXCEPT ![Client(t)] = Append(@, t)]
    BY <1>1 DEF Begin
  <2>7. QED  BY <2>1, <2>2, <2>3, <2>4, <2>5, <2>6, MutexQueue
<1>2. ASSUME NEW t \in Calls, NEW p \in Phase, phase' = [phase EXCEPT ![t] = p],
             UNCHANGED locks, phase[t] \in {"idle", "policies"}
      PROVE  Mutex'
  <2>1. phase[t] \notin Waiting \cup Holding
    BY <1>2 DEF Waiting, Holding
  <2>2. QED  BY <1>2, <2>1, MutexKept
<1>3. ASSUME NEW t \in Calls, BootFails(t) PROVE Mutex'
  <2>1. "error" \in Phase
    BY DEF Phase, Ended
  <2>2. QED  BY <1>2, <1>3, <2>1 DEF BootFails
<1>4. ASSUME NEW t \in Calls, LoadPolicies(t) PROVE Mutex'
  <2>1. "error" \in Phase /\ "ok" \in Phase
    BY DEF Phase, Ended
  <2>2. QED  BY <1>2, <1>4, <2>1 DEF LoadPolicies
<1>5. ASSUME NEW t \in Calls, ServeDiff(t) \/ ServeWrite(t) \/ ServeRead(t) PROVE Mutex'
  <2>1. {"diffed", "written", "answered"} \subseteq Holding
    BY DEF Holding
  <2>2. PICK p \in Holding : phase' = [phase EXCEPT ![t] = p]
    BY <1>5, <2>1 DEF ServeDiff, ServeWrite, ServeRead
  <2>3. HasTurn(t) /\ Lock(t)
    BY <1>5 DEF ServeDiff, ServeWrite, ServeRead
  <2>4. QED  BY <2>2, <2>3, MutexLock
<1>6. ASSUME NEW t \in Calls, NEW differs, Decide(t, differs), phase[t] \in Holding
      PROVE  Mutex'
  <2>1. CASE \E p \in Phase : Release(t, p)
    BY <1>6, <2>1, MutexRelease
  <2>2. CASE /\ guard' = [guard EXCEPT ![Client(t)] = Nobody]
             /\ waiters' = [waiters EXCEPT ![Client(t)] = Append(@, t)]
             /\ phase' = [phase EXCEPT ![t] = "wantsWrite"]
    <3>1. "wantsWrite" \in Waiting /\ phase[t] \notin Waiting
      BY <1>6, PhasesApart DEF Waiting
    <3>2. QED  BY <2>2, <3>1, MutexQueue
  <2>3. Succeeded(t) \in Phase /\ "mismatch" \in Phase
    BY DEF Succeeded, Phase, Ended
  <2>4. QED  BY <1>6, <2>1, <2>2, <2>3 DEF Decide
<1>7. ASSUME NEW t \in Calls, DiffReply(t) PROVE Mutex'
  <2>1. phase[t] \in Holding /\ phase[t] \notin Waiting
    BY <1>7 DEF DiffReply, Holding, Waiting
  <2>2. CASE phase' = [phase EXCEPT ![t] = "reflects"] /\ UNCHANGED locks
    <3>1. "reflects" \in Holding /\ "reflects" \in Phase
      BY DEF Phase, Holding
    <3>2. QED  BY <2>1, <2>2, <3>1, MutexKept
  <2>3. CASE Decide(t, diffed[t] = Absent \/ Functional(t, "none"))
    BY <1>6, <2>1, <2>3
  <2>4. QED  BY <1>7, <2>2, <2>3 DEF DiffReply
<1>8. ASSUME NEW t \in Calls, ReflectReply(t) PROVE Mutex'
  <2>1. phase[t] \in Holding
    BY <1>8 DEF ReflectReply, Holding
  <2>2. QED  BY <1>6, <1>8, <2>1 DEF ReflectReply
<1>9. ASSUME NEW t \in Calls, WriteReply(t) \/ ReadReply(t) PROVE Mutex'
  <2>1. phase[t] \in Holding
    BY <1>9 DEF WriteReply, ReadReply, Holding
  <2>2. Succeeded(t) \in Phase /\ "ok" \in Phase
    BY DEF Succeeded, Phase, Ended
  <2>3. QED  BY <1>9, <2>1, <2>2, MutexRelease DEF WriteReply, ReadReply
<1>10. ASSUME NEW t \in Calls, RpcFails(t) \/ Cancel(t) PROVE Mutex'
  BY <1>10, MutexFail DEF RpcFails, Cancel
<1>11. CASE UNCHANGED vars
  BY <1>11 DEF vars, locks, Mutex
<1>12. QED
  BY <1>1, <1>3, <1>4, <1>5, <1>7, <1>8, <1>9, <1>10, <1>11
     DEF Next, Continue, Terminated

(* Nobody's request changes. *)
LEMMA RequestsStay == IInv /\ [Next]_vars => request' = request
BY DEF Next, vars, Terminated, Continue, Begin, BootFails, ServeDiff, ServeWrite,
       ServeRead, DiffReply, ReflectReply, Decide, WriteReply, ReadReply, RpcFails,
       Cancel, Fail, LoadPolicies

(* Every variable has its type; the call that holds a client has a request *)
(* under way, one that waits has none, so nobody waits for itself.         *)
THEOREM TypeCorrect == Spec => []TypeOK
<1> DEFINE Inv == IInv /\ Mutex /\ request \in [Calls -> Requests]
<1>1. Init => Inv
  BY IInvInit, MutexInit DEF Init
<1>2. Inv /\ [Next]_vars => Inv'
  BY IInvStep, MutexStep, RequestsStay DEF IInv
<1>3. Inv => TypeOK
  <2> SUFFICES ASSUME Inv PROVE TypeOK
    OBVIOUS
  <2>1. ASSUME NEW c \in Clients, NEW i \in DOMAIN waiters[c]
        PROVE  phase[waiters[c][i]] \in Waiting
    <3>1. DOMAIN waiters[c] = 1 .. Len(waiters[c])
      BY LenProperties DEF Mutex
    <3>2. QED  BY <3>1 DEF Mutex
  <2>2. QED  BY <2>1 DEF TypeOK, IInv, CallTypes, Mutex
<1>4. QED  BY <1>1, <1>2, <1>3, PTL DEF Spec

-----------------------------------------------------------------------------
(* Refinement of CompareAndWrite. *)

LEMMA CallingInit == Init => Calling!Init
<1> SUFFICES ASSUME Init PROVE Calling!Init
  OBVIOUS
<1>1. Stage = [t \in Calls |-> "idle"]
  BY DEF Init, Stage, StageOf
<1>2. QED  BY <1>1 DEF Init, Calling!Init

(* A step of one call is a step of its stage, or leaves the stages alone. *)
LEMMA StageMoves ==
  ASSUME NEW t \in Calls, NEW p, NEW q, UNCHANGED request,
         StageOf(t) = p, StageOf(t)' = q,
         \A u \in Calls \ {t} : phase'[u] = phase[u] /\ diffed'[u] = diffed[u]
  PROVE  Calling!Moves(t, p, q) /\ (p = q => UNCHANGED Stage)
<1>1. ASSUME NEW u \in Calls \ {t} PROVE StageOf(u)' = StageOf(u)
  BY <1>1 DEF StageOf, Compared
<1>2. Stage' = [u \in Calls |-> IF u = t THEN q ELSE StageOf(u)]
  BY <1>1 DEF Stage
<1>3. QED  BY <1>2 DEF Stage, Calling!Moves

(* Calls that were not begun fail as all others do. *)
LEMMA StageKnown ==
  ASSUME IInv, NEW t \in Calls, phase[t] \notin Ended
  PROVE  StageOf(t) \in {"idle", "called", "differs", "done"}
BY DEF IInv, CallTypes, Phase, Waiting, Holding, StageOf, Compared

(* The end of ensure_schema goes by what was compared. *)
LEMMA CallingDecide ==
  ASSUME IInv, NEW t \in Calls, NEW differs \in BOOLEAN, Decide(t, differs),
         phase[t] \in {"diffed", "reflects"},
         differs <=> ~SameFunction(diffed[t], request[t].schema)
  PROVE  [Calling!Next]_(Calling!vars)
<1>1. /\ UNCHANGED <<request, remote>>
      /\ \A u \in Calls \ {t} : phase'[u] = phase[u] /\ diffed'[u] = diffed[u]
      /\ Ensures(request[t])
  BY DEF Decide, Release, IInv, CallTypes, Purpose
<1>2. StageOf(t) = IF differs THEN "differs" ELSE "done"
  BY DEF StageOf, Compared
<1>3. CASE ~differs /\ Release(t, Succeeded(t))
  <2>1. phase'[t] = Succeeded(t) /\ Succeeded(t) \in {"policies", "ok"}
    BY <1>3 DEF Release, Succeeded, IInv, CallTypes
  <2>2. CASE Succeeded(t) = "policies"
    <3>1. StageOf(t)' = "done"
      BY <2>1, <2>2 DEF StageOf
    <3>2. UNCHANGED Stage
      BY <1>1, <1>2, <1>3, <3>1, StageMoves
    <3>3. QED  BY <1>1, <3>2 DEF Calling!vars
  <2>3. CASE Succeeded(t) = "ok"
    <3>1. StageOf(t)' = "ok"
      BY <2>1, <2>3 DEF StageOf
    <3>2. Calling!Moves(t, "done", "ok")
      BY <1>1, <1>2, <1>3, <3>1, StageMoves
    <3>3. QED  BY <1>1, <3>2 DEF Calling!Next, Calling!Return
  <2>4. QED  BY <2>1, <2>2, <2>3
<1>4. CASE differs /\ request[t].mode = "VerifyOnly" /\ Release(t, "mismatch")
  <2>1. phase'[t] = "mismatch"
    BY <1>4 DEF Release, IInv, CallTypes
  <2>2. StageOf(t)' = "mismatch"
    BY <2>1 DEF StageOf
  <2>3. Calling!Moves(t, "differs", "mismatch")
    BY <1>1, <1>2, <1>4, <2>2, StageMoves
  <2>4. QED  BY <1>1, <1>4, <2>3 DEF Calling!Next, Calling!Return
<1>5. CASE differs /\ phase' = [phase EXCEPT ![t] = "wantsWrite"]
  <2>1. phase'[t] = "wantsWrite" /\ Ensures(request'[t])
    BY <1>1, <1>5 DEF IInv, CallTypes
  <2>2. StageOf(t)' = "differs"
    BY <2>1 DEF StageOf
  <2>3. UNCHANGED Stage
    BY <1>1, <1>2, <1>5, <2>2, StageMoves
  <2>4. QED  BY <1>1, <2>3 DEF Calling!vars
<1>6. QED  BY <1>3, <1>4, <1>5 DEF Decide

LEMMA CallingBegin ==
  ASSUME IInv, NEW t \in Calls, Begin(t)
  PROVE  [Calling!Next]_(Calling!vars)
<1>1. /\ UNCHANGED <<request, remote>>
      /\ \A u \in Calls \ {t} : phase'[u] = phase[u] /\ diffed'[u] = diffed[u]
      /\ phase[t] = "idle" /\ phase'[t] = FirstWait(request[t])
  BY DEF Begin, IInv, CallTypes
<1>2. request[t].op \in {"boot", "ensure", "write", "read"}
  BY DEF IInv, CallTypes, Request
<1>3. /\ FirstWait(request[t]) \in {"wantsDiff", "wantsWrite", "wantsRead"}
      /\ FirstWait(request[t]) = "wantsWrite" => ~Ensures(request[t])
  BY <1>2 DEF FirstWait, Ensures
<1>4. StageOf(t) = "idle" /\ StageOf(t)' = "called"
  BY <1>1, <1>3 DEF StageOf
<1>5. Calling!Moves(t, "idle", "called")
  BY <1>1, <1>4, StageMoves
<1>6. QED  BY <1>1, <1>5 DEF Calling!Next, Calling!Begin

LEMMA CallingFail ==
  ASSUME IInv, NEW t \in Calls, phase[t] \notin Ended, phase' = [phase EXCEPT ![t] = "error"],
         \A u \in Calls \ {t} : diffed'[u] = diffed[u], UNCHANGED <<request, remote>>
  PROVE  [Calling!Next]_(Calling!vars)
<1>1. /\ phase'[t] = "error"
      /\ \A u \in Calls \ {t} : phase'[u] = phase[u]
  BY DEF IInv, CallTypes
<1>2. StageOf(t)' = "error"
  BY <1>1 DEF StageOf
<1>3. Calling!Moves(t, StageOf(t), "error")
  BY <1>1, <1>2, StageMoves
<1>4. QED  BY <1>3, StageKnown DEF Calling!Next, Calling!Fail

(* The comparison takes place when DiffSchema is executed. *)
LEMMA CallingServeDiff ==
  ASSUME IInv, NEW t \in Calls, ServeDiff(t)
  PROVE  [Calling!Next]_(Calling!vars)
<1>1. /\ UNCHANGED <<request, remote>>
      /\ \A u \in Calls \ {t} : phase'[u] = phase[u] /\ diffed'[u] = diffed[u]
      /\ phase[t] = "wantsDiff" /\ phase'[t] = "diffed" /\ diffed'[t] = remote
  BY DEF ServeDiff, IInv, CallTypes
<1>2. Ensures(request[t]) /\ request[t] \in Request /\ remote \in Schemas \cup {Absent}
  BY <1>1 DEF IInv, CallTypes, Purpose
<1>3. <<remote, request[t].schema>> \in Alike <=> SameFunction(remote, request[t].schema)
  BY <1>2 DEF Alike, Request, Ensures
<1>4. /\ StageOf(t) = "called"
      /\ StageOf(t)' = IF <<remote, request[t].schema>> \in Alike THEN "done" ELSE "differs"
  BY <1>1, <1>3 DEF StageOf, Compared
<1>5. Calling!Moves(t, "called",
                    IF <<remote, request[t].schema>> \in Alike THEN "done" ELSE "differs")
  BY <1>1, <1>4, StageMoves
<1>6. QED
  BY <1>1, <1>2, <1>5 DEF Calling!Next, Calling!Compare, Calling!Compares, Ensures

LEMMA CallingServeRead ==
  ASSUME IInv, NEW t \in Calls, ServeRead(t)
  PROVE  [Calling!Next]_(Calling!vars)
<1>1. /\ UNCHANGED <<request, remote>>
      /\ \A u \in Calls \ {t} : phase'[u] = phase[u] /\ diffed'[u] = diffed[u]
      /\ phase[t] = "wantsRead" /\ phase'[t] = "answered"
  BY DEF ServeRead, IInv, CallTypes
<1>2. request[t].op = "read"
  BY <1>1 DEF IInv, Purpose
<1>3. StageOf(t) = "called" /\ StageOf(t)' = "done"
  BY <1>1 DEF StageOf
<1>4. Calling!Moves(t, "called", "done")
  BY <1>1, <1>3, StageMoves
<1>5. QED  BY <1>1, <1>2, <1>4 DEF Calling!Next, Calling!Read

(* A write is what was asked for, or follows a difference. *)
LEMMA CallingServeWrite ==
  ASSUME IInv, NEW t \in Calls, ServeWrite(t)
  PROVE  [Calling!Next]_(Calling!vars)
<1>1. /\ UNCHANGED <<request, diffed>> /\ remote' = request[t].schema
      /\ \A u \in Calls \ {t} : phase'[u] = phase[u]
      /\ phase[t] = "wantsWrite" /\ phase'[t] = "written"
  BY DEF ServeWrite, IInv, CallTypes
<1>2. StageOf(t)' = "done"
  BY <1>1 DEF StageOf
<1>3. CASE Ensures(request[t])
  <2>1. request[t].mode = "ApplyIfDifferent"
    BY <1>1, <1>3 DEF IInv, Purpose, MayWrite, Ensures
  <2>2. StageOf(t) = "differs"
    BY <1>1, <1>3 DEF StageOf
  <2>3. Calling!Moves(t, "differs", "done")
    BY <1>1, <1>2, <2>2, StageMoves
  <2>4. QED  BY <1>1, <2>1, <2>3 DEF Calling!Next, Calling!Write
<1>4. CASE ~Ensures(request[t])
  <2>1. request[t].op = "write"
    BY <1>1, <1>4 DEF IInv, Purpose, MayWrite
  <2>2. StageOf(t) = "called"
    BY <1>1, <1>4 DEF StageOf
  <2>3. Calling!Moves(t, "called", "done")
    BY <1>1, <1>2, <2>2, StageMoves
  <2>4. QED  BY <1>1, <2>1, <2>3 DEF Calling!Next, Calling!Write
<1>5. QED  BY <1>3, <1>4

LEMMA CallingReply ==
  ASSUME IInv, NEW t \in Calls, DiffReply(t) \/ ReflectReply(t)
  PROVE  [Calling!Next]_(Calling!vars)
<1>1. CASE ReflectReply(t)
  <2>1. Functional(t, Snapshot(t).caveat) \in BOOLEAN
    BY DEF Functional, HasFunctionalDiff
  <2>2. QED  BY <1>1, <2>1, RepliesDecide, CallingDecide DEF ReflectReply
<1>2. CASE DiffReply(t) /\ ~NeedsCaveats(t)
  <2>1. (diffed[t] = Absent \/ Functional(t, "none")) \in BOOLEAN
    BY DEF Functional, HasFunctionalDiff
  <2>2. QED  BY <1>2, <2>1, RepliesDecide, CallingDecide DEF DiffReply
<1>3. CASE DiffReply(t) /\ NeedsCaveats(t)
  <2>1. /\ UNCHANGED <<request, remote, diffed>>
        /\ \A u \in Calls \ {t} : phase'[u] = phase[u]
        /\ phase[t] = "diffed" /\ phase'[t] = "reflects"
    BY <1>3 DEF DiffReply, IInv, CallTypes
  <2>2. StageOf(t)' = StageOf(t)
    BY <2>1 DEF StageOf, Compared
  <2>3. UNCHANGED Stage
    BY <2>1, <2>2, StageMoves
  <2>4. QED  BY <2>1, <2>3 DEF Calling!vars
<1>4. QED  BY <1>1, <1>2, <1>3

(* The answers to a write and to a read, and the policies of a boot. *)
LEMMA CallingEnds ==
  ASSUME IInv, NEW t \in Calls, WriteReply(t) \/ ReadReply(t) \/ LoadPolicies(t)
  PROVE  [Calling!Next]_(Calling!vars)
<1>1. /\ UNCHANGED <<request, remote>>
      /\ \A u \in Calls \ {t} : phase'[u] = phase[u] /\ diffed'[u] = diffed[u]
      /\ phase[t] \in {"written", "answered", "policies"}
      /\ phase'[t] \in {"policies", "ok", "error"}
  BY DEF WriteReply, ReadReply, LoadPolicies, Release, Succeeded, IInv, CallTypes
<1>2. StageOf(t) = "done"
  BY <1>1 DEF StageOf
<1>3. CASE phase'[t] = "policies"
  <2>1. StageOf(t)' = "done"
    BY <1>3 DEF StageOf
  <2>2. UNCHANGED Stage
    BY <1>1, <1>2, <2>1, StageMoves
  <2>3. QED  BY <1>1, <2>2 DEF Calling!vars
<1>4. CASE phase'[t] = "ok"
  <2>1. StageOf(t)' = "ok"
    BY <1>4 DEF StageOf
  <2>2. Calling!Moves(t, "done", "ok")
    BY <1>1, <1>2, <2>1, StageMoves
  <2>3. QED  BY <1>1, <2>2 DEF Calling!Next, Calling!Return
<1>5. CASE phase'[t] = "error"
  <2>1. StageOf(t)' = "error"
    BY <1>5 DEF StageOf
  <2>2. Calling!Moves(t, "done", "error")
    BY <1>1, <1>2, <2>1, StageMoves
  <2>3. QED  BY <1>1, <2>2 DEF Calling!Next, Calling!Fail
<1>6. QED  BY <1>1, <1>3, <1>4, <1>5

LEMMA CallingStep == IInv /\ [Next]_vars => [Calling!Next]_(Calling!vars)
<1> SUFFICES ASSUME IInv, [Next]_vars PROVE [Calling!Next]_(Calling!vars)
  OBVIOUS
<1>1. ASSUME NEW t \in Calls, BootFails(t) \/ RpcFails(t) \/ Cancel(t)
      PROVE  [Calling!Next]_(Calling!vars)
  <2>1. phase[t] \notin Ended
    BY <1>1 DEF BootFails, RpcFails, Cancel, Waiting, Holding, Ended
  <2>2. /\ phase' = [phase EXCEPT ![t] = "error"] /\ UNCHANGED <<request, remote>>
        /\ \A u \in Calls \ {t} : diffed'[u] = diffed[u]
    BY <1>1 DEF BootFails, RpcFails, Cancel, Fail, IInv, CallTypes
  <2>3. QED  BY <2>1, <2>2, CallingFail
<1>2. CASE UNCHANGED vars
  BY <1>2 DEF vars, Calling!vars, Stage, StageOf, Compared
<1>3. QED
  BY <1>1, <1>2, CallingBegin, CallingServeDiff, CallingServeWrite, CallingServeRead,
     CallingReply, CallingEnds DEF Next, Continue, Terminated

(* However many processes boot and manage schemas at once, and whichever   *)
(* of them fail or are dropped, each call is one comparison at one moment  *)
(* and at most one write of a whole schema.                                *)
THEOREM CallsCompareAndWrite == Spec => ImplementsCompareAndWrite
<1>1. Init => Calling!Init
  BY CallingInit
<1>2. IInv /\ [Next]_vars => [Calling!Next]_(Calling!vars)
  BY CallingStep
<1>3. QED
  BY <1>1, <1>2, Invariance, PTL DEF Spec, ImplementsCompareAndWrite, Calling!Spec

=============================================================================
