----------------------------- MODULE SchemaBoot -----------------------------
(***************************************************************************)
(* Booting against a shared SpiceDB (src/spicedb/schema.rs, from_config of *)
(* src/engine.rs, src/spicedb/client.rs).  ensure_schema asks SpiceDB for  *)
(* the difference to the desired schema, may have to read the caveats in a *)
(* second request, and writes in a third: other processes run in between.  *)
(*                                                                         *)
(* A call of from_config connects a client of its own; the other calls are *)
(* of SchemaManagers that share one client.  Every call is made once.      *)
(* Nobody else writes the schema, and a request has no effect after its    *)
(* error was returned or its future dropped.                               *)
(***************************************************************************)
EXTENDS Naturals, Sequences, Line

CONSTANTS
  Boots,     \* calls of LothEngine::from_config
  Managers,  \* calls of SchemaManager: ensure_schema, write_schema, read_schema
  Schemas,   \* schema texts: see Absent for what is told apart
  Requests   \* what the calls ask for

\* definitions: all that is functional but the caveat; caveat: its expression
\* as SpiceDB reflects it; form: how it is serialised; comments: the rest.
Absent == [definitions |-> "absent", caveat |-> "none", form |-> "none",
           comments |-> "none"]

ASSUME SchemasAssumption == \A s \in Schemas : s.definitions # Absent.definitions
ASSUME CallsAssumption   == Boots \cap Managers = {}

Calls == Boots \cup Managers

Request ==
  [op : {"boot", "ensure"}, schema : Schemas, mode : {"VerifyOnly", "ApplyIfDifferent"}]
  \cup [op : {"write"}, schema : Schemas] \cup [op : {"read"}]

ASSUME RequestsAssumption == Requests \subseteq Request

Ensures(req) == req.op \in {"boot", "ensure"}

VARIABLES
  request,  \* what every call asks for
  phase,    \* where it is: see Phase
  diffed,   \* the schema DiffSchema compared, which the token read_at names
  guard,    \* per client, the call that holds the schema stub's mutex, if any
  waiters,  \* per client, the calls that wait for it
  remote    \* SpiceDB's schema

\* History: the schemas SpiceDB has had while the call was under way.
VARIABLE seen

locks == <<guard, waiters>>
vars  == <<request, phase, diffed, locks, remote, seen>>

Nobody == "nobody"

Waiting == {"wantsDiff", "wantsWrite", "wantsRead"}
Holding == {"diffed", "reflects", "written", "answered"}
Ended   == {"ok", "mismatch", "error"}
Phase   == {"idle", "policies"} \cup Waiting \cup Holding \cup Ended

InFlight(t) == phase[t] \notin Ended \cup {"idle"}
Ensuring(t) == Ensures(request[t]) /\ phase[t] \in Waiting \cup Holding

Shared  == "shared"
Clients == Boots \cup {Shared}
Client(t) == IF t \in Boots THEN t ELSE Shared

(* Who holds a client has a request under way; who waits has none.         *)
TypeOK ==
  /\ request \in [Calls -> Requests]
  /\ phase \in [Calls -> Phase]
  /\ diffed \in [Calls -> Schemas \cup {Absent}]
  /\ guard \in [Clients -> Calls \cup {Nobody}]
  /\ waiters \in [Clients -> Seq(Calls)]
  /\ remote \in Schemas \cup {Absent}
  /\ seen \in [Calls -> SUBSET (Schemas \cup {Absent})]
  /\ \A c \in Clients :
       /\ guard[c] # Nobody => phase[guard[c]] \in Holding
       /\ \A i \in DOMAIN waiters[c] : phase[waiters[c][i]] \in Waiting

Init ==
  /\ request \in [Calls -> Requests]
  /\ \A t \in Calls : request[t].op = "boot" <=> t \in Boots
  /\ phase = [t \in Calls |-> "idle"]
  /\ diffed = [t \in Calls |-> Absent]
  /\ guard = [c \in Clients |-> Nobody]
  /\ waiters = [c \in Clients |-> <<>>]
  /\ remote \in Schemas \cup {Absent}
  /\ seen = [t \in Calls |-> {}]

-----------------------------------------------------------------------------
(* Schemas and their differences. *)

(* Two schemas decide alike. *)
SameFunction(s, t) == s.definitions = t.definitions /\ s.caveat = t.caveat

DiffKind == {"Definition", "CaveatAddedOrRemoved", "CaveatExprChanged",
             "DocCommentChanged"}

(* DiffSchema: it compares caveats as they are serialised. *)
Diffs(current, desired) ==
  {kind \in DiffKind :
     \/ kind = "Definition" /\ current.definitions # desired.definitions
     \/ kind = "CaveatAddedOrRemoved"
          /\ (current.caveat = "none") # (desired.caveat = "none")
     \/ kind = "CaveatExprChanged"
          /\ current.caveat # "none" /\ desired.caveat # "none"
          /\ <<current.caveat, current.form>> # <<desired.caveat, desired.form>>
     \/ kind = "DocCommentChanged" /\ current.comments # desired.comments}

Mutant_HasFunctionalDiff(diffs, current, candidate) ==
  \E kind \in diffs : kind = "CaveatExprChanged" => current # candidate

Mutant_IgnoresCaveats(diffs, current, candidate) ==
  \E kind \in diffs : kind \notin {"DocCommentChanged", "CaveatExprChanged"}

(* has_functional_schema_diff: comments never count, a caveat does if its  *)
(* reflected expression is another one.                                    *)
HasFunctionalDiff(diffs, current, candidate) ==
  \E kind \in diffs :
    /\ kind # "DocCommentChanged"
    /\ kind = "CaveatExprChanged" => current # candidate

Mutant_Snapshot(t) == remote

(* The schema ReflectSchema reads: AtExactSnapshot of the diff's token. *)
Snapshot(t) == diffed[t]

-----------------------------------------------------------------------------
(* The client's mutex: tokio's, served in order. *)

HasTurn(t) ==
  LET c == Client(t)
  IN  guard[c] = Nobody /\ waiters[c] # <<>> /\ Head(waiters[c]) = t

(* The mutex is locked and SpiceDB executes the request: until then nothing*)
(* of the call happens.                                                    *)
Lock(t) ==
  /\ guard' = [guard EXCEPT ![Client(t)] = t]
  /\ waiters' = [waiters EXCEPT ![Client(t)] = Tail(@)]

(* The guard is dropped, with what was read under it. *)
Release(t, p) ==
  /\ guard' = [guard EXCEPT ![Client(t)] = Nobody]
  /\ phase' = [phase EXCEPT ![t] = p]
  /\ diffed' = [diffed EXCEPT ![t] = Absent]
  /\ UNCHANGED waiters

-----------------------------------------------------------------------------
(* The steps of a call. *)

FirstWait(req) ==
  CASE Ensures(req)     -> "wantsDiff"
    [] req.op = "write" -> "wantsWrite"
    [] req.op = "read"  -> "wantsRead"

(* The client is connected, the text loaded, and the stub asked for. *)
Begin(t) ==
  /\ phase[t] = "idle"
  /\ phase' = [phase EXCEPT ![t] = FirstWait(request[t])]
  /\ seen' = [seen EXCEPT ![t] = {remote}]
  /\ waiters' = [waiters EXCEPT ![Client(t)] = Append(@, t)]
  /\ UNCHANGED <<request, diffed, guard, remote>>

(* from_config: no connection, a malformed token, an unreadable schema. *)
BootFails(t) ==
  /\ t \in Boots /\ phase[t] = "idle"
  /\ phase' = [phase EXCEPT ![t] = "error"]
  /\ UNCHANGED <<request, diffed, locks, remote, seen>>

(* DiffSchema, fully consistent: it compares the latest schema. *)
ServeDiff(t) ==
  /\ phase[t] = "wantsDiff" /\ HasTurn(t)
  /\ Lock(t)
  /\ phase' = [phase EXCEPT ![t] = "diffed"]
  /\ diffed' = [diffed EXCEPT ![t] = remote]
  /\ UNCHANGED <<request, remote, seen>>

ServeWrite(t) ==
  /\ phase[t] = "wantsWrite" /\ HasTurn(t)
  /\ Lock(t)
  /\ phase' = [phase EXCEPT ![t] = "written"]
  /\ remote' = request[t].schema
  /\ seen' = [u \in Calls |-> IF Ensuring(u) THEN seen[u] \cup {remote'} ELSE seen[u]]
  /\ UNCHANGED <<request, diffed>>

ServeRead(t) ==
  /\ phase[t] = "wantsRead" /\ HasTurn(t)
  /\ Lock(t)
  /\ phase' = [phase EXCEPT ![t] = "answered"]
  /\ UNCHANGED <<request, diffed, remote, seen>>

(* What follows the Ok of ensure_schema or write_schema. *)
Succeeded(t) == IF t \in Boots THEN "policies" ELSE "ok"

Mutant_Decide(t, differs) ==
  /\ \/ ~differs /\ Release(t, Succeeded(t))
     \/ /\ differs /\ request[t].mode = "VerifyOnly"
        /\ Release(t, "mismatch")
     \/ /\ differs /\ request[t].mode = "ApplyIfDifferent"
        /\ phase' = [phase EXCEPT ![t] = "wantsWrite"]
        /\ waiters' = [waiters EXCEPT ![Client(t)] = Append(@, t)]
        /\ UNCHANGED <<guard, diffed>>
  /\ UNCHANGED <<request, remote, seen>>

(* The end of ensure_schema, which drops its guard before write_schema     *)
(* asks for the stub again.                                                *)
Decide(t, differs) ==
  /\ \/ ~differs /\ Release(t, Succeeded(t))
     \/ /\ differs /\ request[t].mode = "VerifyOnly"
        /\ Release(t, "mismatch")
     \/ /\ differs /\ request[t].mode = "ApplyIfDifferent"
        /\ guard' = [guard EXCEPT ![Client(t)] = Nobody]
        /\ waiters' = [waiters EXCEPT ![Client(t)] = Append(@, t)]
        /\ phase' = [phase EXCEPT ![t] = "wantsWrite"]
        /\ diffed' = [diffed EXCEPT ![t] = Absent]
  /\ UNCHANGED <<request, remote, seen>>

Reported(t) == Diffs(diffed[t], request[t].schema)

(* has_caveat_expression_diff; without a schema there is nothing to ask. *)
NeedsCaveats(t) == diffed[t] # Absent /\ "CaveatExprChanged" \in Reported(t)

Functional(t, caveat) ==
  HasFunctionalDiff(Reported(t), caveat, request[t].schema.caveat)

(* The difference arrives; NotFound says that there is no schema at all.   *)
(* The caveats are asked for under the same guard.                         *)
DiffReply(t) ==
  /\ phase[t] = "diffed"
  /\ \/ /\ NeedsCaveats(t)
        /\ phase' = [phase EXCEPT ![t] = "reflects"]
        /\ UNCHANGED <<request, diffed, locks, remote, seen>>
     \/ /\ ~NeedsCaveats(t)
        /\ Decide(t, diffed[t] = Absent \/ Functional(t, "none"))

(* ReflectSchema is executed and answered: a snapshot does not change. *)
ReflectReply(t) ==
  /\ phase[t] = "reflects"
  /\ Decide(t, Functional(t, Snapshot(t).caveat))

WriteReply(t) ==
  /\ phase[t] = "written"
  /\ Release(t, Succeeded(t))
  /\ UNCHANGED <<request, remote, seen>>

ReadReply(t) ==
  /\ phase[t] = "answered"
  /\ Release(t, "ok")
  /\ UNCHANGED <<request, remote, seen>>

Mutant_RpcFails(t) ==
  /\ phase[t] \in Holding
  /\ phase' = [phase EXCEPT ![t] = "error"]
  /\ UNCHANGED <<request, diffed, locks, remote, seen>>

(* The call is over: it leaves the mutex, or its place in front of it, and *)
(* what it saw says nothing any more.                                      *)
Fail(t) ==
  /\ phase' = [phase EXCEPT ![t] = "error"]
  /\ waiters' = [waiters EXCEPT ![Client(t)] = Without(@, t)]
  /\ guard' = [guard EXCEPT ![Client(t)] = IF @ = t THEN Nobody ELSE @]
  /\ diffed' = [diffed EXCEPT ![t] = Absent]
  /\ seen' = [seen EXCEPT ![t] = {}]
  /\ UNCHANGED <<request, remote>>

(* The RPC fails, before or after SpiceDB executed it. *)
RpcFails(t) ==
  /\ phase[t] \in Holding \/ (phase[t] \in Waiting /\ HasTurn(t))
  /\ Fail(t)

(* from_config reads and parses the Cedar policies only now: the schema may*)
(* have been written when it fails.                                        *)
LoadPolicies(t) ==
  /\ phase[t] = "policies"
  /\ \E end \in {"ok", "error"} : phase' = [phase EXCEPT ![t] = end]
  /\ UNCHANGED <<request, diffed, locks, remote, seen>>

(* The caller drops the future at an await. *)
Cancel(t) ==
  /\ phase[t] \in Waiting \cup Holding
  /\ Fail(t)

Terminated == (\A t \in Calls : phase[t] \in Ended) /\ UNCHANGED vars

Continue(t) ==
  \/ ServeDiff(t) \/ ServeWrite(t) \/ ServeRead(t)
  \/ DiffReply(t) \/ ReflectReply(t) \/ WriteReply(t) \/ ReadReply(t)
  \/ RpcFails(t) \/ LoadPolicies(t)

Next ==
  \/ \E t \in Calls : Begin(t) \/ BootFails(t) \/ Continue(t) \/ Cancel(t)
  \/ Terminated

Spec == Init /\ [][Next]_vars

(* SpiceDB answers every request, and a task that can go on does. *)
Fairness == \A t \in Calls : WF_vars(Continue(t))

FairSpec == Spec /\ Fairness

-----------------------------------------------------------------------------
(* Properties. *)

Ensured(t) == Ensures(request[t]) /\ phase[t] \in {"policies", "ok"}

(* ensure_schema returns Ok only if SpiceDB had, at some moment of the     *)
(* call, a schema that decides like the desired one, whatever others wrote *)
(* between the requests of the call.                                       *)
OkWasRight ==
  \A t \in Calls : Ensured(t) => \E s \in seen[t] : SameFunction(s, request[t].schema)

(* A mismatch is reported, and a schema overwritten by ensure_schema, only *)
(* if SpiceDB's schema was functionally another one at some moment of the  *)
(* call: comments, order and spelling alone never cost a boot or a write.  *)
(* VerifyOnly never writes.                                                *)
DifferenceWasReal ==
  \A t \in Calls :
    Ensures(request[t]) /\ phase[t] \in {"wantsWrite", "written", "mismatch"}
      => /\ phase[t] = "mismatch" <=> request[t].mode = "VerifyOnly"
         /\ \E s \in seen[t] : ~SameFunction(s, request[t].schema)

MayWrite(t) ==
  /\ phase[t] # "idle"
  /\ \/ request[t].op = "write"
     \/ Ensures(request[t]) /\ request[t].mode = "ApplyIfDifferent"

(* Processes that want functionally one schema do not disturb each other:  *)
(* once a call has returned Ok, SpiceDB's schema stays the desired one, up *)
(* to comments, whoever booted at the same time and however late it writes.*)
OkStays ==
  \A t \in Calls :
    /\ Ensured(t)
    /\ \A u \in Calls : MayWrite(u) => SameFunction(request[u].schema, request[t].schema)
    => SameFunction(remote, request[t].schema)

(* Every call ends, although one that writes takes the mutex twice. *)
CallsEnd == \A t \in Calls : InFlight(t) ~> ~InFlight(t)

-----------------------------------------------------------------------------
(* A call of this module and the call of CompareAndWrite that it implements:*)
(* the comparison is decided when SpiceDB executes DiffSchema.             *)

Compared(t) == IF SameFunction(diffed[t], request[t].schema) THEN "done" ELSE "differs"

StageOf(t) ==
  CASE phase[t] \in {"wantsDiff", "wantsRead"} -> "called"
    [] phase[t] = "wantsWrite" -> IF Ensures(request[t]) THEN "differs" ELSE "called"
    [] phase[t] \in {"diffed", "reflects"} -> Compared(t)
    [] phase[t] \in {"written", "answered", "policies"} -> "done"
    [] OTHER -> phase[t]

Stage == [t \in Calls |-> StageOf(t)]

Alike == {p \in (Schemas \cup {Absent}) \X Schemas : SameFunction(p[1], p[2])}

Calling == INSTANCE CompareAndWrite WITH stage <- Stage, Stored <- Schemas \cup {Absent}

(* Whatever other processes and tasks do between its requests, a call is   *)
(* one comparison at one moment and one write of the whole schema, which   *)
(* happens only after a difference, or was asked for; VerifyOnly does not  *)
(* write, and a call that fails leaves either what there was or its schema.*)
ImplementsCompareAndWrite == Calling!Spec

=============================================================================
