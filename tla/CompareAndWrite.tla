--------------------------- MODULE CompareAndWrite ---------------------------
(***************************************************************************)
(* What the schema calls promise, without requests, clients and mutexes: a *)
(* call compares the stored schema with its own at one moment and decides  *)
(* by what they mean; it writes at another one, its schema as a whole and  *)
(* at most once.  Nothing is promised of the time between the two, nor that*)
(* a call that fails has not written.                                      *)
(***************************************************************************)
CONSTANTS
  Calls,
  Requests,  \* what the calls ask for: see SchemaBoot
  Stored,    \* the schemas there can be, the absent one included
  Alike      \* the pairs of schemas that decide alike

VARIABLES
  request,  \* what every call asks for
  stage,    \* how far it is
  remote    \* the stored schema

vars == <<request, stage, remote>>

Compares(req) == req.op \in {"boot", "ensure"}

Init ==
  /\ request \in [Calls -> Requests]
  /\ stage = [t \in Calls |-> "idle"]
  /\ remote \in Stored

Moves(t, from, to) == stage[t] = from /\ stage' = [stage EXCEPT ![t] = to]

Begin(t) == Moves(t, "idle", "called") /\ UNCHANGED <<request, remote>>

Compare(t) ==
  /\ Compares(request[t])
  /\ Moves(t, "called", IF <<remote, request[t].schema>> \in Alike THEN "done" ELSE "differs")
  /\ UNCHANGED <<request, remote>>

(* Without a comparison, or after one that found a difference. *)
Write(t) ==
  /\ \/ Moves(t, "called", "done") /\ request[t].op = "write"
     \/ Moves(t, "differs", "done") /\ request[t].mode = "ApplyIfDifferent"
  /\ remote' = request[t].schema
  /\ UNCHANGED request

Read(t) ==
  /\ request[t].op = "read"
  /\ Moves(t, "called", "done")
  /\ UNCHANGED <<request, remote>>

Return(t) ==
  /\ \/ Moves(t, "done", "ok")
     \/ Moves(t, "differs", "mismatch") /\ request[t].mode = "VerifyOnly"
  /\ UNCHANGED <<request, remote>>

Fail(t) ==
  /\ \E from \in {"idle", "called", "differs", "done"} : Moves(t, from, "error")
  /\ UNCHANGED <<request, remote>>

Next ==
  \E t \in Calls :
    Begin(t) \/ Compare(t) \/ Write(t) \/ Read(t) \/ Return(t) \/ Fail(t)

Spec == Init /\ [][Next]_vars

=============================================================================
