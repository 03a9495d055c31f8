----------------------------- MODULE Replication -----------------------------
(***************************************************************************)
(* The replication pipeline (src/replication.rs): tasks enqueue relationship*)
(* events through clones of a ReplicationQueue into a bounded channel, and *)
(* one ReplicationWorker batches them and writes every batch to SpiceDB,   *)
(* retrying with a backoff until it gives up and fails closed.             *)
(*                                                                         *)
(* A producer is a task with its own clone of the queue and at most one    *)
(* send under way.  Nothing but the worker writes to SpiceDB here, and a   *)
(* request whose reply (or error) the worker has seen has no later effect; *)
(* it may have taken effect although its reply was lost.                   *)
(***************************************************************************)
EXTENDS Relationships, FiniteSets

CONSTANTS
  Producers,   \* tasks that send events
  Capacity,    \* queue_capacity of replication_pipeline
  MaxBatch,    \* ReplicationSettings.max_batch
  MaxRetries,  \* ReplicationSettings.max_retries
  MaxSends     \* bound: how many events are sent in all

\* mpsc::channel panics on a capacity of zero.
ASSUME CapacityAssumption == Capacity \in Nat \ {0}
ASSUME SettingsAssumption == MaxBatch \in Nat /\ MaxRetries \in Nat
ASSUME BoundAssumption    == MaxSends \in Nat

VARIABLES
  handle,    \* the ReplicationHandle: held, shut down or dropped
  attached,  \* an engine (or another task) holds a clone of fatal_rx
  clones,    \* the producers that hold a clone of the ReplicationQueue
  waiting,   \* sends under way, in the order the channel serves them
  queue,     \* the channel
  worker,    \* where the worker is: see Phase
  resume,    \* what run() does after the flush under way
  due,       \* next_flush has been reached
  buf,       \* buf of run()
  batch,     \* the events of the flush under way
  attempt,   \* attempt of flush()
  fatal,     \* the watch channel holds Some(error)
  rels       \* SpiceDB's relationships

\* History: what the channel accepted; what the worker knows was written;
\* what was dropped with the worker; how many of sent SpiceDB reflects.
VARIABLES sent, committed, lost, applied

clients == <<handle, attached, clones>>
flush   == <<resume, batch, attempt>>
vars    == <<handle, attached, clones, waiting, queue, worker, resume, due, buf,
             batch, attempt, fatal, rels, sent, committed, lost, applied>>

Running == {"select", "writing", "written", "backoff"}
Ended   == {"stopped", "failed", "aborted"}
Phase   == {"unstarted"} \cup Running \cup Ended

Send == [from : Producers, ev : Event]

IsSending(p) == \E i \in DOMAIN waiting : waiting[i].from = p

TypeOK ==
  /\ handle \in {"held", "shutdown", "dropped"}
  /\ attached \in BOOLEAN
  /\ clones \in SUBSET Producers
  /\ waiting \in Seq(Send)
  /\ queue \in Seq(Event) /\ Len(queue) <= Capacity
  /\ worker \in Phase
  /\ resume \in {"loop", "return"}
  /\ due \in BOOLEAN
  /\ buf \in Seq(Event)
  /\ batch \in Seq(Event)
  /\ attempt \in 0 .. MaxRetries
  /\ fatal \in BOOLEAN
  /\ rels \in SUBSET Tuples
  /\ sent \in Seq(Event) /\ committed \in Seq(Event) /\ lost \in Seq(Event)
  /\ applied \in Nat

(* replication_pipeline *)
Init ==
  /\ handle = "held" /\ attached = FALSE /\ clones = {}
  /\ waiting = <<>> /\ queue = <<>>
  /\ worker = "unstarted" /\ resume = "loop" /\ due = FALSE
  /\ buf = <<>> /\ batch = <<>> /\ attempt = 0
  /\ fatal = FALSE
  /\ rels \in SUBSET Tuples
  /\ sent = <<>> /\ committed = <<>> /\ lost = <<>> /\ applied = 0

-----------------------------------------------------------------------------
(* The handle and the queues. *)

(* handle.queue(), or the clone of a clone. *)
CloneQueue(p) ==
  /\ handle = "held" \/ clones # {}
  /\ p \notin clones
  /\ clones' = clones \cup {p}
  /\ UNCHANGED <<handle, attached, waiting, queue, worker, flush, due, buf,
                 fatal, rels, sent, committed, lost, applied>>

DropQueue(p) ==
  /\ p \in clones /\ ~IsSending(p)
  /\ clones' = clones \ {p}
  /\ UNCHANGED <<handle, attached, waiting, queue, worker, flush, due, buf,
                 fatal, rels, sent, committed, lost, applied>>

(* handle.fatal_rx(), given to an engine that keeps it. *)
AttachEngine ==
  /\ handle = "held" /\ ~attached
  /\ attached' = TRUE
  /\ UNCHANGED <<handle, clones, waiting, queue, worker, flush, due, buf,
                 fatal, rels, sent, committed, lost, applied>>

(* handle.shutdown() consumes the handle; dropping it closes the oneshot   *)
(* channel as well, and the worker's select! does not tell them apart.     *)
ReleaseHandle(how) ==
  /\ handle = "held"
  /\ handle' = how
  /\ UNCHANGED <<attached, clones, waiting, queue, worker, flush, due, buf,
                 fatal, rels, sent, committed, lost, applied>>

Shutdown   == ReleaseHandle("shutdown")
DropHandle == ReleaseHandle("dropped")

(* enqueue: the send queues up for a slot of the channel. *)
Enqueue(p, ev) ==
  /\ p \in clones /\ ~IsSending(p)
  /\ Len(sent) + Len(waiting) < MaxSends
  /\ waiting' = Append(waiting, [from |-> p, ev |-> ev])
  /\ UNCHANGED <<clients, queue, worker, flush, due, buf, fatal, rels, sent,
                 committed, lost, applied>>

Mutant_AcceptBeyondCapacity ==
  /\ worker \notin Ended
  /\ waiting # <<>>
  /\ waiting' = Tail(waiting)
  /\ queue' = Append(queue, Head(waiting).ev)
  /\ sent' = Append(sent, Head(waiting).ev)
  /\ UNCHANGED <<clients, worker, flush, due, buf, fatal, rels, committed, lost,
                 applied>>

(* The first send under way gets a slot: its enqueue returns Ok. *)
Accept ==
  /\ worker \notin Ended
  /\ waiting # <<>> /\ Len(queue) < Capacity
  /\ waiting' = Tail(waiting)
  /\ queue' = Append(queue, Head(waiting).ev)
  /\ sent' = Append(sent, Head(waiting).ev)
  /\ UNCHANGED <<clients, worker, flush, due, buf, fatal, rels, committed, lost,
                 applied>>

Leave(p) ==
  \E i \in DOMAIN waiting :
    /\ waiting[i].from = p
    /\ waiting' = SubSeq(waiting, 1, i - 1) \o SubSeq(waiting, i + 1, Len(waiting))

(* The receiver is gone: enqueue returns "replication queue closed". *)
Refuse(p) ==
  /\ worker \in Ended
  /\ Leave(p)
  /\ UNCHANGED <<clients, queue, worker, flush, due, buf, fatal, rels, sent,
                 committed, lost, applied>>

(* A task drops the future of its send before it has a slot. *)
CancelSend(p) ==
  /\ worker \notin Ended
  /\ Leave(p)
  /\ UNCHANGED <<clients, queue, worker, flush, due, buf, fatal, rels, sent,
                 committed, lost, applied>>

-----------------------------------------------------------------------------
(* The worker: ReplicationWorker::run and flush. *)

(* run() is polled for the first time. *)
Start ==
  /\ worker = "unstarted"
  /\ worker' = "select"
  /\ UNCHANGED <<clients, waiting, queue, flush, due, buf, fatal, rels, sent,
                 committed, lost, applied>>

TimerExpires ==
  /\ worker = "select" /\ ~due
  /\ due' = TRUE
  /\ UNCHANGED <<clients, waiting, queue, worker, flush, buf, fatal, rels, sent,
                 committed, lost, applied>>

Mutant_BeginFlush(events, then) ==
  /\ worker' = "writing"
  /\ resume' = then
  /\ batch' = events
  /\ attempt' = 0
  /\ buf' = buf

(* flush() of a buffer that is not empty: it is drained, and written. *)
BeginFlush(events, then) ==
  /\ worker' = "writing"
  /\ resume' = then
  /\ batch' = events
  /\ attempt' = 0
  /\ buf' = <<>>

(* The worker is dropped, and the receiver and what it holds with it. *)
End(status, dropped) ==
  /\ worker' = status
  /\ lost' = dropped \o queue
  /\ queue' = <<>> /\ buf' = <<>> /\ batch' = <<>>
  /\ UNCHANGED <<resume, attempt>>

Mutant_ShutdownWithoutFlush ==
  /\ worker = "select" /\ handle # "held"
  /\ End("stopped", buf)
  /\ UNCHANGED <<clients, waiting, due, fatal, rels, sent, committed, applied>>

Mutant_ShutdownIgnoresDrop ==
  /\ worker = "select" /\ handle = "shutdown"
  /\ \/ buf # <<>> /\ BeginFlush(buf, "return") /\ UNCHANGED <<queue, lost>>
     \/ buf = <<>> /\ End("stopped", <<>>)
  /\ UNCHANGED <<clients, waiting, due, fatal, rels, sent, committed, applied>>

(* The branch of the shutdown signal, and that of a closed channel. *)
OnShutdown ==
  /\ worker = "select" /\ handle # "held"
  /\ \/ buf # <<>> /\ BeginFlush(buf, "return") /\ UNCHANGED <<queue, lost>>
     \/ buf = <<>> /\ End("stopped", <<>>)
  /\ UNCHANGED <<clients, waiting, due, fatal, rels, sent, committed, applied>>

OnClosed ==
  /\ worker = "select" /\ handle # "held" /\ clones = {} /\ queue = <<>>
  /\ \/ buf # <<>> /\ BeginFlush(buf, "return") /\ UNCHANGED <<queue, lost>>
     \/ buf = <<>> /\ End("stopped", <<>>)
  /\ UNCHANGED <<clients, waiting, due, fatal, rels, sent, committed, applied>>

Mutant_FlushOneLate ==
  /\ worker = "select" /\ queue # <<>>
  /\ queue' = Tail(queue)
  /\ LET received == Append(buf, Head(queue))
     IN  \/ /\ Len(received) <= MaxBatch
            /\ buf' = received
            /\ UNCHANGED <<worker, flush>>
         \/ /\ Len(received) > MaxBatch
            /\ BeginFlush(received, "loop")
  /\ UNCHANGED <<clients, waiting, due, fatal, rels, sent, committed, lost,
                 applied>>

OnRecv ==
  /\ worker = "select" /\ queue # <<>>
  /\ queue' = Tail(queue)
  /\ LET received == Append(buf, Head(queue))
     IN  \/ /\ Len(received) < MaxBatch
            /\ buf' = received
            /\ UNCHANGED <<worker, flush>>
         \/ /\ Len(received) >= MaxBatch
            /\ BeginFlush(received, "loop")
  /\ UNCHANGED <<clients, waiting, due, fatal, rels, sent, committed, lost,
                 applied>>

Mutant_TimerWithoutFlush ==
  /\ worker = "select" /\ due
  /\ due' = FALSE
  /\ UNCHANGED <<clients, waiting, queue, worker, flush, buf, fatal, rels, sent,
                 committed, lost, applied>>

OnTimer ==
  /\ worker = "select" /\ due
  /\ \/ buf # <<>> /\ BeginFlush(buf, "loop") /\ UNCHANGED due
     \/ buf = <<>> /\ due' = FALSE /\ UNCHANGED <<worker, flush, buf>>
  /\ UNCHANGED <<clients, waiting, queue, fatal, rels, sent, committed, lost,
                 applied>>

-----------------------------------------------------------------------------
(* One WriteRelationships call of flush(). *)

(* SpiceDB applies the request.  It may do so again when the reply to an   *)
(* earlier attempt was lost.                                               *)
ServerApplies ==
  /\ worker = "writing"
  /\ ~Rejected(rels, BuildUpdates(batch))
  /\ worker' = "written"
  /\ rels' = Commit(rels, BuildUpdates(batch))
  /\ applied' = Len(committed) + Len(batch)
  /\ UNCHANGED <<clients, waiting, queue, flush, due, buf, fatal, sent,
                 committed, lost>>

(* write_relationships_batch returns Ok, and so does flush(). *)
ReplyOk ==
  /\ worker = "written"
  /\ committed' = committed \o batch
  /\ due' = FALSE
  /\ \/ /\ resume = "loop"
        /\ worker' = "select" /\ batch' = <<>>
        /\ UNCHANGED <<queue, buf, lost, resume, attempt>>
     \/ resume = "return" /\ End("stopped", <<>>)
  /\ UNCHANGED <<clients, waiting, fatal, rels, sent, applied>>

Mutant_Retry ==
  /\ worker \in {"writing", "written"} /\ attempt < MaxRetries
  /\ worker' = "backoff"
  /\ UNCHANGED <<clients, waiting, queue, flush, due, buf, fatal, rels, sent,
                 committed, lost, applied>>

(* It returns an error, before or after the request took effect. *)
Retry ==
  /\ worker \in {"writing", "written"} /\ attempt < MaxRetries
  /\ attempt' = attempt + 1
  /\ worker' = "backoff"
  /\ UNCHANGED <<clients, waiting, queue, resume, due, buf, batch, fatal, rels,
                 sent, committed, lost, applied>>

Mutant_GiveUpSilently ==
  /\ worker \in {"writing", "written"} /\ attempt = MaxRetries
  /\ End("failed", batch \o buf)
  /\ UNCHANGED <<clients, waiting, due, fatal, rels, sent, committed, applied>>

(* A watch channel without a receiver does not store what is sent to it. *)
GiveUp ==
  /\ worker \in {"writing", "written"} /\ attempt = MaxRetries
  /\ fatal' = (handle = "held" \/ attached)
  /\ End("failed", batch \o buf)
  /\ UNCHANGED <<clients, waiting, due, rels, sent, committed, applied>>

Mutant_BackoffDropsBatch ==
  /\ worker = "backoff"
  /\ worker' = "select"
  /\ batch' = <<>>
  /\ UNCHANGED <<clients, waiting, queue, resume, attempt, due, buf, fatal, rels,
                 sent, committed, lost, applied>>

BackoffElapsed ==
  /\ worker = "backoff"
  /\ worker' = "writing"
  /\ UNCHANGED <<clients, waiting, queue, flush, due, buf, fatal, rels, sent,
                 committed, lost, applied>>

(* The worker's task is aborted or panics, or the worker is never run. *)
Abort ==
  /\ worker \notin Ended
  /\ End("aborted", batch \o buf)
  /\ UNCHANGED <<clients, waiting, due, fatal, rels, sent, committed, applied>>

(* Everything has been dropped. *)
Terminated ==
  /\ worker \in Ended /\ handle # "held" /\ clones = {}
  /\ UNCHANGED vars

Next ==
  \/ \E p \in Producers :
       \/ CloneQueue(p)
       \/ DropQueue(p)
       \/ Refuse(p)
       \/ CancelSend(p)
       \/ \E ev \in Event : Enqueue(p, ev)
  \/ AttachEngine \/ Shutdown \/ DropHandle
  \/ Accept \/ Start \/ TimerExpires
  \/ OnShutdown \/ OnClosed \/ OnRecv \/ OnTimer
  \/ ServerApplies \/ ReplyOk \/ Retry \/ GiveUp \/ BackoffElapsed
  \/ Abort
  \/ Terminated

Spec == Init /\ [][Next]_vars

(* A channel serves its waiting senders, timers fire, select! takes a ready*)
(* branch (chosen at random, so none is passed over for ever), and SpiceDB *)
(* answers every call.  Clients, cancellations and aborts owe nothing.     *)
Fairness ==
  /\ WF_vars(Accept) /\ \A p \in Producers : WF_vars(Refuse(p))
  /\ WF_vars(TimerExpires)
  /\ SF_vars(OnShutdown) /\ SF_vars(OnRecv) /\ SF_vars(OnTimer)
  /\ WF_vars(ServerApplies \/ ReplyOk \/ Retry \/ GiveUp)
  /\ WF_vars(BackoffElapsed)

FairSpec == Spec /\ Fairness

-----------------------------------------------------------------------------
(* Properties. *)

(* Every event the channel accepted is in exactly one place, and in the    *)
(* order it was accepted: written, in the batch under way, buffered, queued*)
(* or dropped with the worker.  Nothing is dropped while the worker runs.  *)
Accounting ==
  /\ sent = committed \o batch \o buf \o queue \o lost
  /\ worker \notin Ended => lost = <<>>

(* No request carries more than max_batch updates (one, if that is zero);  *)
(* a batch is held exactly while it is being written, and what SpiceDB     *)
(* reflects ends at a batch boundary: before or after the one under way.   *)
BatchBoundary ==
  /\ worker \in {"unstarted", "select"} => batch = <<>> /\ applied = Len(committed)
  /\ worker = "unstarted" => buf = <<>>
  /\ worker = "select" => buf = <<>> \/ Len(buf) < MaxBatch
  /\ worker \in {"writing", "written", "backoff"} =>
       /\ buf = <<>> /\ batch # <<>>
       /\ Len(batch) = 1 \/ Len(batch) <= MaxBatch
       /\ applied \in {Len(committed), Len(committed) + Len(batch)}
  /\ worker = "written" => applied = Len(committed) + Len(batch)
  /\ worker \in Ended => queue = <<>> /\ buf = <<>> /\ batch = <<>>
  /\ Len(committed) <= applied /\ applied <= Len(sent)

(* Of the events SpiceDB reflects, the last one about a tuple decides      *)
(* whether the tuple exists, whatever was retried after a lost reply.      *)
LastEventWins ==
  \A i \in 1 .. applied :
    (\A j \in (i + 1) .. applied : sent[j].tuple # sent[i].tuple)
      => (sent[i].tuple \in rels <=> sent[i].op = "Upsert")

(* The pipeline fails closed for whoever watches it, and only when it has  *)
(* really given up.                                                        *)
FailClosedSignal ==
  /\ worker = "failed" /\ attached => fatal
  /\ fatal => worker = "failed"

(* run() returns Ok only once SpiceDB has acknowledged every event that was*)
(* received; only what was still queued is dropped.                        *)
StopFlushesBuffer ==
  [][worker # "stopped" /\ worker' = "stopped"
       => /\ sent = committed' \o queue
          /\ applied' = Len(committed')]_vars

(* The relationships change only by the next accepted events, in order,    *)
(* all or none of a batch, and never after the pipeline has ended: the     *)
(* retry of a batch that already took effect changes nothing.              *)
Log == INSTANCE EventLog WITH
         log <- sent, store <- rels, closed <- worker \in Ended

ImplementsEventLog == Log!Spec

IsRunning == worker \in Running

(* An accepted event is written, or the pipeline ends (and says so). *)
AcceptedResolves ==
  \A n \in 1 .. MaxSends :
    (IsRunning /\ Len(sent) >= n) ~> (Len(committed) >= n \/ worker \in Ended)

(* Once the handle is shut down or dropped the worker ends. *)
ShutdownEnds == (IsRunning /\ handle # "held") ~> worker \in Ended

(* Backpressure is not for ever: a send under way returns. *)
SendReturns == \A p \in Producers : (IsRunning /\ IsSending(p)) ~> ~IsSending(p)

(* A batch that SpiceDB refuses, for an event the schema does not admit or *)
(* two of one tuple, is retried, never written and never skipped: it ends  *)
(* the pipeline, whatever else it holds.                                   *)
RefusedBatchEnds ==
  (worker = "writing" /\ Rejected(rels, BuildUpdates(batch)))
    ~> (worker \in Ended /\ lost # <<>>)

(* proto/authzed/api/v1/error_reason.proto:171-183: a request must not     *)
(* update one relationship twice.                                          *)
OneUpdatePerRelationship == worker = "writing" => ~Conflicting(BuildUpdates(batch))

=============================================================================
