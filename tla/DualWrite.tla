------------------------------ MODULE DualWrite ------------------------------
(***************************************************************************)
(* The pipeline and an engine that writes the same relationships directly  *)
(* (register_relation and revoke_relation of src/engine.rs next to         *)
(* src/replication.rs): two paths into one SpiceDB, ordered by nothing but *)
(* the time at which a request takes effect.                               *)
(*                                                                         *)
(* Engine and worker share one client, as in examples/intelligence.rs: its *)
(* mutex is held from a request to its reply, so that a request under way  *)
(* excludes all others.  A backoff does not hold it.                       *)
(***************************************************************************)
EXTENDS Replication

CONSTANTS
  Callers,  \* tasks that write through the engine
  MaxCalls  \* bound: how many such calls are made in all

ASSUME CallsAssumption == MaxCalls \in Nat

VARIABLES
  call,   \* what every caller is doing
  begun   \* how many calls have been made

\* History: what SpiceDB must hold of a tuple, according to the last write of
\* it that was acknowledged; unknown while another write of it is under way.
VARIABLE settled

dualVars == <<vars, call, begun, settled>>

Idle == [phase |-> "idle"]

Call == [phase : {"queued", "served"}, ev : Event]

Verdict == {"unknown", "present", "absent"}

DualTypeOK ==
  /\ call \in [Callers -> Call \cup {Idle}]
  /\ begun \in 0 .. MaxCalls
  /\ settled \in [Tuples -> Verdict]

DualInit ==
  /\ Init
  /\ call = [c \in Callers |-> Idle]
  /\ begun = 0
  /\ settled = [x \in Tuples |-> "unknown"]

-----------------------------------------------------------------------------
(* Who is about to write a tuple. *)

Names(events, x) == \E i \in DOMAIN events : events[i].tuple = x

(* An event of it is on its way through the pipeline. *)
Pending(x) ==
  \/ \E i \in DOMAIN waiting : waiting[i].ev.tuple = x
  \/ Names(queue, x) \/ Names(buf, x) \/ Names(batch, x)

Writes(c, x) == call[c].phase # "idle" /\ call[c].ev.tuple = x

Outcome(op) == IF op = "Upsert" THEN "present" ELSE "absent"

-----------------------------------------------------------------------------
(* The pipeline's steps, with what they say of the tuples: an event that a *)
(* task sends unsettles its tuple, a batch that is acknowledged settles the*)
(* tuples nobody else is about to write.                                   *)

Entered(x) ==
  Len(waiting') > Len(waiting) /\ waiting'[Len(waiting')].ev.tuple = x

Written(x) ==
  {batch[i].op : i \in {j \in DOMAIN batch : batch[j].tuple = x}}

Acknowledged(x) ==
  /\ committed' # committed /\ Written(x) # {}
  /\ ~Pending(x)' /\ \A c \in Callers : ~Writes(c, x)

(* Nobody holds the client's mutex; who asks for it first is left open.    *)
ClientFree == worker # "written" /\ \A c \in Callers : call[c].phase # "served"

PipelineStep ==
  /\ Next
  /\ worker' = "written" /\ worker # "written" => ClientFree
  /\ settled' = [x \in Tuples |->
       IF Entered(x) THEN "unknown"
       ELSE IF Acknowledged(x) THEN Outcome(CHOOSE op \in Written(x) : TRUE)
       ELSE settled[x]]
  /\ UNCHANGED <<call, begun>>

-----------------------------------------------------------------------------
(* The engine's calls: an upsert is register_relation, a delete is         *)
(* revoke_relation.                                                        *)

Mutant_BeginCall(c, ev) ==
  /\ call[c] = Idle /\ begun < MaxCalls
  /\ begun' = begun + 1
  /\ call' = [call EXCEPT ![c] = [phase |-> "queued", ev |-> ev]]
  /\ settled' = [settled EXCEPT ![ev.tuple] = "unknown"]
  /\ UNCHANGED vars

(* The guard lets the call pass, unless the engine watches a pipeline that *)
(* has failed: then the call returns an error and nothing changes.         *)
BeginCall(c, ev) ==
  /\ call[c] = Idle /\ begun < MaxCalls
  /\ ~(attached /\ fatal)
  /\ begun' = begun + 1
  /\ call' = [call EXCEPT ![c] = [phase |-> "queued", ev |-> ev]]
  /\ settled' = [settled EXCEPT ![ev.tuple] = "unknown"]
  /\ UNCHANGED vars

(* SpiceDB executes the request, which carries one update. *)
ServeCall(c) ==
  /\ call[c].phase = "queued" /\ ClientFree
  /\ LET updates == BuildUpdates(<<call[c].ev>>)
     IN  ~Rejected(rels, updates) /\ rels' = Commit(rels, updates)
  /\ call' = [call EXCEPT ![c].phase = "served"]
  /\ UNCHANGED <<handle, attached, clones, waiting, queue, worker, resume, due,
                 buf, batch, attempt, fatal, sent, committed, lost, applied,
                 begun, settled>>

Mutant_CallReturns(c) ==
  /\ call[c].phase \in {"queued", "served"}
  /\ LET x == call[c].ev.tuple
     IN  settled' = [settled EXCEPT ![x] =
           IF Pending(x) \/ \E d \in Callers \ {c} : Writes(d, x)
           THEN @ ELSE Outcome(call[c].ev.op)]
  /\ call' = [call EXCEPT ![c] = Idle]
  /\ UNCHANGED <<vars, begun>>

(* The call returns Ok.  That settles its tuple if nobody else is about to *)
(* write it.                                                               *)
CallReturns(c) ==
  /\ call[c].phase = "served"
  /\ LET x == call[c].ev.tuple
     IN  settled' = [settled EXCEPT ![x] =
           IF Pending(x) \/ \E d \in Callers \ {c} : Writes(d, x)
           THEN @ ELSE Outcome(call[c].ev.op)]
  /\ call' = [call EXCEPT ![c] = Idle]
  /\ UNCHANGED <<vars, begun>>

(* It returns an error, or is dropped, before or after it took effect. *)
CallFails(c) ==
  /\ call[c] # Idle
  /\ call' = [call EXCEPT ![c] = Idle]
  /\ UNCHANGED <<vars, begun, settled>>

DualNext ==
  \/ PipelineStep
  \/ \E c \in Callers :
       \/ \E ev \in Event : BeginCall(c, ev)
       \/ ServeCall(c) \/ CallReturns(c) \/ CallFails(c)

DualSpec == DualInit /\ [][DualNext]_dualVars

-----------------------------------------------------------------------------
(* Properties. *)

(* A write that was acknowledged, on either path, stays in force until     *)
(* another write of its tuple begins: no retry, no batch held back and no  *)
(* request whose reply was lost undoes it.  An event that is still in the  *)
(* pipeline when the other path writes its tuple is such a write: it wins  *)
(* whenever it gets through, and a revoked relationship may come back.     *)
AcknowledgedWritesHold ==
  \A x \in Tuples :
    /\ settled[x] = "present" => x \in rels
    /\ settled[x] = "absent" => x \notin rels

(* Once the worker has given up and dropped events, an engine that watches *)
(* it begins no more writes: SpiceDB moves no further away from what the   *)
(* application sent.                                                       *)
LossStopsCallers ==
  [][worker = "failed" /\ attached =>
       /\ begun' = begun
       /\ rels' # rels => \E c \in Callers : call[c].phase = "queued"]_dualVars

=============================================================================
