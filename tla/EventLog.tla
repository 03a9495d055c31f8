------------------------------- MODULE EventLog -------------------------------
(***************************************************************************)
(* What the replication pipeline promises, without channels, batches or    *)
(* retries: the events it accepts form a log, and SpiceDB's relationships  *)
(* are only ever changed by applying the next events of that log, in order *)
(* and all or none of a request.  Once the pipeline has ended it accepts   *)
(* nothing and changes nothing; what was not applied by then never is.     *)
(***************************************************************************)
EXTENDS Relationships

VARIABLES
  log,      \* the accepted events, oldest first
  applied,  \* how many of them SpiceDB's relationships reflect
  store,    \* SpiceDB's relationships
  closed    \* the pipeline has ended

vars == <<log, applied, store, closed>>

Init ==
  /\ log = <<>>
  /\ applied = 0
  /\ store \in SUBSET Tuples
  /\ closed = FALSE

Accept ==
  /\ ~closed
  /\ \E ev \in Event : log' = Append(log, ev)
  /\ UNCHANGED <<applied, store, closed>>

(* The next events of the log, up to the n-th, take effect as one request. *)
Apply ==
  /\ ~closed
  /\ \E n \in (applied + 1) .. Len(log) :
       LET updates == BuildUpdates(SubSeq(log, applied + 1, n))
       IN  /\ ~Rejected(store, updates)
           /\ applied' = n
           /\ store' = Commit(store, updates)
  /\ UNCHANGED <<log, closed>>

Close ==
  /\ closed' = TRUE
  /\ UNCHANGED <<log, applied, store>>

Next == Accept \/ Apply \/ Close

Spec == Init /\ [][Next]_vars

=============================================================================
