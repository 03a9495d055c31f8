# Loth in TLA+

Models, model-checking runs and machine-checked proofs for Loth
(`src/` in this repository): a Rust library that answers authorization questions
from two sources, SpiceDB (relationships, "ReBAC") and Cedar (policies, "ABAC"),
and that replicates relationship changes to SpiceDB in the background.

## 1. The system

### Components

| Component (source) | State it keeps | Operations | Talks to |
|---|---|---|---|
| Replication pipeline (`src/replication.rs`) | bounded mpsc channel, oneshot shutdown channel, watch channel of the fatal error; in the worker: the buffer, the flush deadline, the retry counter | `enqueue`, `upsert_tuple`, `delete_tuple`, cloning and dropping queues, `shutdown`, `run`, `flush` | ReBAC API (writes), engine (watch channel) |
| Engine (`src/engine.rs`) | its `Rebac`, its `AbacEngine`, the optional `fatal_replication` receiver | `from_config`, `with_replication_fail_closed`, `register_relation`, `revoke_relation`, `revoke_by_filter`, `lookup_resources`, `check_permission`/`check`, `update_cedar_policies` | everything |
| ABAC engine (`src/cedar/abac.rs`) | the active policy set, an `ArcSwapOption` | `update_policies`, `is_allowed` | Cedar |
| ReBAC API (`src/spicedb/rebac.rs`) | none | single and batched writes, deletion by filter, checks, lookups | client |
| SpiceDB client (`src/spicedb/client.rs`) | two gRPC stubs, each behind a tokio mutex | `connect`, locking a stub | SpiceDB |
| Schema manager (`src/spicedb/schema.rs`) | none (the schema is SpiceDB's) | `ensure_schema`, `read_schema`, `write_schema` | client (the schema stub) |
| Permission schema (`schema.zed`) | none: rules | the permissions of tenants, groups, projects, tables and entity states | evaluated by SpiceDB |
| Configuration, context, errors (`src/types.rs`, `src/lib.rs`) | none | loading text, `CedarContextBuilder`, error construction | engine |
| Generated and vendored protobuf (`src/generated`, `proto`, `build.rs`) | none | none | |
| Example, end-to-end test (`examples`, `tests`) | none | the intended call sequences | library |

### How they interact

* Tasks hold clones of a `ReplicationQueue` and await `enqueue`, which blocks
  while the bounded channel is full. One `ReplicationWorker::run` takes from the
  channel, and sends a batch to SpiceDB when `max_batch` events have been
  collected, when the flush deadline passes, or before it returns. A batch that
  fails is retried with a backoff; while it is, nothing is received. After
  `max_retries` retries the worker stores the error in a watch channel and
  returns, which drops the receiver.
* An engine is shared by many tasks (`&self` everywhere). Every SpiceDB call
  first looks at the watch channel, if the engine was given one, and then holds
  the mutex of the client's stub for the whole RPC. A check goes on with Cedar
  after the RPC, under the policies loaded *then*, or under a request-scoped
  override.
* `update_cedar_policies` swaps the policy set while checks are under way.

### What is hard

* **Interleavings**: a `select!` whose branches (shutdown, receive, closed
  channel, timer) become ready together and are chosen at random; tasks that
  share one engine and one client; a hot swap during the await of a check.
* **Processes**: several boot against one SpiceDB; between the diff and the write of
  `ensure_schema` the schema may have become another one.
* **Cycles**: the permissions of groups and of what they grant refer to each other.
* **Failure**: the reply of a write that took effect is lost and the write
  repeated; a batch that SpiceDB will never accept; the worker's task is aborted.
* **Ordering**: events of one relationship, across batches and retries.
* **Boundaries**: channel capacity, `max_batch` (zero included), `max_retries`.
* **Progress**: backpressure while the worker retries, a timer that has to flush
  a partial batch, shutdown in the middle of everything.

### What makes each component correct

* Pipeline: no accepted event is lost, duplicated or reordered while the worker
  runs; SpiceDB reflects whole batches in order; a retry of a write that took
  effect changes nothing; a worker that stops has written what it received; a
  worker that gives up is seen by the engine; every accepted event is resolved,
  every send returns and every shutdown ends.
* Engine, ReBAC and ABAC: a fully consistent check sees every acknowledged write
  (so a revocation takes effect); lookups and checks agree; after the failure of
  the pipeline nothing begins; an answer is that of one policy set in force while
  the check ran; policies written as filters never grant; every call returns,
  although futures are dropped at their awaits.
* Engine next to pipeline: what one of them was acknowledged is undone by nothing
  but another write of the same tuple.
* Schema manager: Ok means that SpiceDB had a schema that decides like the desired
  one at some moment of the call; a mismatch or an overwrite was caused by a
  difference that mattered; processes that agree do not disturb each other; no call
  waits for itself.
* Permission schema: administrators may do everything; cycles of groups create no
  power; permissions stay inside a tenant.

The full list of hazards, each with its line and the properties that cover it, is
`hazards` in `PROJECT.json`.

## 2. Modules

| Module | What it is |
|---|---|
| `Relationships` | The data: events, the updates `build_updates` makes of them, and (external) what SpiceDB does with one WriteRelationships request |
| `EventLog` | **Abstract specification** of the pipeline: a log of accepted events, a prefix of it applied, one atomic request after the other |
| `Replication` | The pipeline, in detail; implements `EventLog` |
| `Line` | The queue of a tokio mutex, which a dropped future leaves from the middle |
| `Authorization` | A shared engine: guard, client mutex, SpiceDB's revisions, Cedar, hot swaps, dropped futures; implements `SharedEngine` |
| `SharedEngine` | **Abstract specification** of the engine: every call takes effect at one moment between its beginning and its end, a check is decided by the policies of a later moment |
| `DualWrite` | **Composition**: the pipeline and the engine's direct writes on one store |
| `SchemaBoot` | Several processes in `from_config` and in the schema manager, one SpiceDB; implements `CompareAndWrite` |
| `CompareAndWrite` | **Abstract specification** of the schema calls: one comparison at one moment, at most one write of a whole schema at another |
| `Permissions` | `schema.zed`: the permissions derived from a set of relationships |
| `MC...` | The instances for TLC: symmetry sets, the schemas of the end-to-end test, a two-tenant object graph |
| `...Proofs` | The theorems about the module of that name |
| `AuthorizationRefinement` | The proof that `Authorization` implements `SharedEngine` |

`Replication` EXTENDS `Relationships` and INSTANCEs `EventLog` with
`log <- sent`, `store <- rels`, `closed <- worker \in Ended`. `DualWrite` EXTENDS
`Replication` and adds callers. `Authorization` sees the pipeline only through the
watch channel (`fatal`, `ReplicationFails`), which is all the engine sees of it.
`Authorization` INSTANCEs `SharedEngine`: the grants there are and were (`Present`,
`Past`) are read off the revisions, what a check found off the revision it read, and
what a lookup found off what it has listed and what its stream still holds.
`SchemaBoot` INSTANCEs `CompareAndWrite` with `stage <- Stage`, which is decided from
the phase of a call and, once SpiceDB has executed its diff, from the schema compared.
`Authorization` and `SchemaBoot` share `Line`, because both stubs of the client are
behind a tokio mutex.

### Replication: state and actions

| TLA+ | Code |
|---|---|
| `queue`, `Capacity` | the mpsc channel of `replication_pipeline` |
| `waiting` | the futures of `enqueue` that have no slot yet, in the FIFO order of tokio's semaphore |
| `handle`, `clones`, `attached` | who still owns a sender, the shutdown sender, a watch receiver |
| `buf`, `due`, `worker = "select"` | `run()` at its `select!`, `next_flush` |
| `batch`, `attempt`, `resume`, `worker` in `writing`, `written`, `backoff` | `flush()`: the drained events, the retry counter, and what `run()` does afterwards (go round the loop or return) |
| `fatal` | the watch channel holds `Some(error)` |
| `rels` | SpiceDB's relationships |
| `sent`, `committed`, `lost`, `applied` | history only: no guard reads them, apart from the bound `MaxSends` |

`OnShutdown`, `OnRecv`, `OnClosed` and `OnTimer` are the branches of `select!`; each
contains the beginning of the `flush()` it calls. A flush is four steps because
others run between them: `ServerApplies` (the transaction commits), `ReplyOk` (the
worker learns it), `Retry` or `GiveUp` (it gets an error, *before or after* the
commit), `BackoffElapsed`. `Abort` is an aborted or panicking task. When the worker
ends it drops the receiver: the queue is discarded and later sends are refused
(`Refuse`). Three details that are easy to lose: a oneshot receiver resolves when its
sender is dropped as well as when it is used, so that `OnShutdown` is enabled by
`DropHandle`; a watch sender without receivers stores nothing, so that `GiveUp` sets
`fatal` only if somebody can see it; and an aborted worker ends without setting it.

Durations are not modelled: a timer may fire at any time (`TimerExpires`,
`BackoffElapsed`). The delay of the backoff is a base duration times a shift whose
exponent the code caps; whether the product fits is a question of the base the
application configures, and delays have no module of their own. The attempt
counter of the code counts failures and gives up beyond `max_retries`; `attempt` is
the number of failures already retried.

### Authorization: state and actions

| TLA+ | Code |
|---|---|
| `line` | the tasks at the mutex of the permissions stub; the first holds it |
| `revs` | SpiceDB's revisions; a write appends one |
| `call` | per task: queued for the client, served by SpiceDB, in Cedar, or returned with a verdict |
| `rev`, `left`, `listed` of a call | the revision it read or wrote; for a lookup, what its stream still holds and the `out` vector of `lookup_resources` |
| `policies` | the `ArcSwapOption` of `AbacEngine` |
| `attached`, `fatal` | `fatal_replication` and what its channel holds |
| `intended`, `settled`, and `expected`, `seen` of a call | history: the policies the application asked for, what acknowledged writes say of a relationship |

`Begin`/`FailClosed` are the guard, `Serve` the execution by SpiceDB, `Receive` one
turn of the loop over a lookup's stream, `Reply` and `RpcFails` the return of the RPC
(with the release of the mutex), `Cancel` the drop of a future at an await, `Evaluate`
the rest of `check()`. A minimally consistent check may read any revision, a strict one
reads the latest.

What SpiceDB makes of a relationship is `Permissionship` (external): none, the
permission, or a conditional one where a caveat qualifies the relationship. The code
meets it twice. `check()` maps it, and counts a conditional permission as allowed
(`Structural`). A lookup is streamed items that carry it (`Streamed`) and never looks
at it (`Received`): what ends up in `listed` is decided by that loop, item by item,
while the client is held, and an error in the middle of the stream drops the list. A policy is one of: none
(passthrough), one that does not parse, one that tests `is_structural_allowed`, one
that permits and one that forbids regardless of it, and one that in addition forbids
by an attribute of the context, which Cedar skips when the attribute is missing. A
context is one of: nothing special, one that writes the key `is_structural_allowed`
itself (it comes after the engine's own, and the last one wins), one Cedar cannot
build, and two that carry the attribute. These are the cases the code tells apart.
`Answer` returns one error for a policy that does not parse and for a request Cedar
cannot build, since callers only see an `Err`.

`check_permission` is documented as "ReBAC only" (`engine.rs:170`); it is `check()`
with no overrides and goes through Cedar like it, so the model has one operation.

`SharedEngine` is what a caller may rely on, without clients, lines and revisions: a
write happens as a whole at one moment, a strict check reads what is there at one
moment of its call, another check or a lookup what is or was there; a check is decided
*after* that, by its override or by the policies of that later moment; once the engine
has seen the pipeline fail no call begins. It does not promise that a call which
returned an error had no effect, nor that a check sees one state of relationships and
policies: the two are read at two moments, and a swap may lie between them.

### SchemaBoot: state and actions

| TLA+ | Code |
|---|---|
| `request` | the arguments of the call: what, with which schema, in which mode |
| `phase` | where `from_config`, `ensure_schema`, `write_schema` or `read_schema` is |
| `guard`, `waiters` | the mutex of a client's schema stub; a boot connects a client of its own, the managers share one |
| `diffed` | the schema at the token `read_at` of the diff's answer |
| `remote` | SpiceDB's schema |
| `seen` | history: the schemas SpiceDB has had during the call |

A schema is four things: its definitions, its caveat's expression, how that
expression is serialised, and its comments, because `DiffSchema` and
`has_functional_schema_diff` tell exactly these apart. `ServeDiff`, `ServeWrite` and
`ServeRead` lock the stub and execute the request; `DiffReply` decides or, still
holding the guard, asks for the caveats (`ReflectReply`, at the exact snapshot);
`Decide` is the end of `ensure_schema`, which gives the mutex back before
`write_schema` asks for it. `LoadPolicies` is what follows in `from_config`: it can
fail after the schema was written. `RpcFails` and `Cancel` end a call wherever it is.

`CompareAndWrite` leaves out the requests and the mutex. Two things it admits because
the code does: between the comparison and the write the schema may become another one,
and a call may fail although it has written (`LoadPolicies` after the write of a boot).

### Permissions

`TenantRule`, `GroupRule`, `ProjectRule` and `StateRule` translate the definitions of
`schema.zed` (tables and entity states have the same one), `Conveys` the fifteen
group-scoped permissions. `Derive` adds all that follows from what has been derived:
the behaviour climbs to the least fixpoint, and every property is an invariant of
the climb. Two particulars of the schema are kept: `project.write` goes through
`admin_project` and not `write_project` (`schema.zed:69`), and the `writer` of a table
may write it and not read it (`schema.zed:87`).

### DualWrite

The steps of `Replication`, each with its effect on the history `settled`, and calls
of the engine (`BeginCall`, `ServeCall`, `CallReturns`, `CallFails`). Worker and
engine share the client, whose mutex is held from a request to its reply
(`ClientFree`) and not during a backoff. The guard of `BeginCall` reads the watch
channel.

### Assumptions about what is outside `src/`

* One WriteRelationships request is a transaction. It is refused as a whole if two
  of its updates name one relationship (`proto/authzed/api/v1/error_reason.proto`),
  if the schema does not admit one of them, or if a CREATE names an existing tuple.
* A request has no effect after its error has been returned or its future dropped. (A
  write that a proxy delivers later is not modelled.)
* In `Replication` nothing else writes to SpiceDB, in `Authorization` only the
  engine's own callers do, and in `SchemaBoot` only its calls write the schema;
  `DualWrite` has both paths.
* A producer has at most one send under way and uses its own clone.
* SpiceDB grants no more than what is derived: where its evaluation gets into a cycle
  it reports an error. `DiffSchema` always answers with a `read_at`, and the
  expression it reports for a changed caveat is that of the desired schema.
* A tokio mutex is fair (first come, first served).

## 3. Runs

| Run | Instance | Shows |
|---|---|---|
| `replication_safety` | 2 producers, 2 tuples, capacity 1, `max_batch` 2, 1 retry, 3 sends | types, `Accounting`, `BatchBoundary`, `LastEventWins`, `FailClosedSignal`, `StopFlushesBuffer`, and that `Replication` implements `EventLog` |
| `replication_liveness` | 2 producers, 1 tuple, the same bounds | `AcceptedResolves`, `ShutdownEnds`, `SendReturns`, `RefusedBatchEnds`: a batch that SpiceDB refuses is never skipped |
| `engine_writes` | 2 tasks, 3 calls of every kind, 2 resources, 1 user, no policies | types, `AcknowledgedWritesSeen`, `LookupAgreesWithCheck`, `FailClosedDrains` |
| `engine_policies` | 2 tasks, 2 calls (checks, writes, lookups), swaps, overrides, contexts | `AnswerExplained`, `FiltersNeverGrant`, `CallsReturn`, and that `Authorization` implements `SharedEngine` |
| `schema_boot` | 1 boot, 2 managers, the four schemas of the end-to-end test, both modes | types, `OkWasRight`, `DifferenceWasReal`, `OkStays`, `CallsEnd`, and that `SchemaBoot` implements `CompareAndWrite` |
| `permissions` | 2 tenants, 2 groups, 4 resources, 1 user; every subset of 17 links and roles | `AdminGrantsAll`, `PowersAreRooted`, `TenantIsolation`, `AccessIsRooted` |
| `dual_write` | 1 producer, 2 tasks, 2 tuples of which the schema refuses one, 2 sends, 2 calls | `AcknowledgedWritesHold`, `LossStopsCallers` |
| `replication_same_tuple`, `engine_evaluation`, `engine_setting`, `engine_filter`, `schema_grants` | the smallest that shows it | a counterexample to a statement of the repository: section 5 |

For every property of a passing run `PROJECT.json` names a mutant, a plausible bug of
one definition (a buffer that is not cleared, a flush that starts one event late, a
guard that is kept over a second lock, a reflection without its token, ...) under
which TLC finds the property violated. The mutants stand next to what they mutate, as
`Mutant_...`.

### Bounds, and why they are enough

`MaxSends` and `MaxCalls` are the only bounds on behaviours; every call of
`SchemaBoot` is made once. The other constants are parameters of the code or of its
environment. The theorems of section 4 hold for all values.

* Capacity 1 with two producers: one send is accepted, one waits, so backpressure,
  FIFO service and refusal at the end all occur. Batch size 2 with three sends: a
  full batch and a partial one in one behaviour, either first. One retry: failure
  with retry, success after a lost reply, giving up. Two tuples: batches that
  conflict with themselves and batches that do not.
* Two tasks and two resources: one task overtakes, waits behind or contradicts the
  other; a lookup's stream has two items, so that it can break, or others can change
  the relationships, between them, and one item may be conditional. One user: a filter
  that names one of two is in `engine_filter`, and in the proofs. Three calls: write,
  write, check (a settled state contradicted before the check). Producers, tasks and
  resources are symmetric; the runs that check liveness use no symmetry.
* Two calls in `engine_policies`: one writes or swaps in the middle of the other. Its
  contexts are one that writes `is_structural_allowed`, which lacks the attribute that
  the guarded policy reads as well, and one that has it. `SharedEngine` is checked in
  this run only, because it has policies to decide by; `engine_writes`, with more
  calls and resources, would take several times as long with it.
* One call that boots alone and two that share a client: another process overwrites
  the schema between any two requests of a call, and two calls compete for a mutex
  that one of them takes twice. The schemas differ pairwise in comments and spelling
  only, in the caveat, or in a definition.
* Two tenants with a group each, which grant resources that name them in turn:
  chains, cycles and links across the tenants. Users do not influence each other's
  permissions, so one is enough.
* One producer against two callers, on two tuples: an event queued or being retried
  while it is overtaken, and both kinds of write of either tuple.

`CHECK_DEADLOCK` is on everywhere. `Replication` and `SchemaBoot` end only in
`Terminated` (everything dropped, every call ended); `Authorization` can always swap
policies; `Permissions` goes on deriving nothing new.

### Fairness

* `Accept` weakly fair: tokio's semaphore serves waiting senders in order.
* `TimerExpires`, `BackoffElapsed` weakly fair: timers fire.
* `OnShutdown`, `OnRecv`, `OnTimer` strongly fair: `select!` without `biased` polls
  its branches in random order, so that a branch ready again and again is taken with
  probability one. Weak fairness would not do: another branch that wins disables
  them while its flush runs. `OnClosed` needs none, since `OnShutdown` is enabled
  whenever it is.
* One weak fairness for the outcome of an RPC (any of success, error, error after
  success): SpiceDB or the transport answers in the end. The code has no deadline
  and guarantees nothing by itself, so this is an assumption about the environment.
* In `Authorization` weak fairness of what a task does once it is scheduled (`Serve`,
  `Receive`, `Reply`, `RpcFails`, `Evaluate`), per task; in `SchemaBoot` of `Continue(t)`, per
  call. Weak is enough, since the mutex is first come, first served.
* Clients, cancellations, dropped futures, aborts, policy updates, new calls and the
  failure of the pipeline owe nothing.

## 4. Proofs

The theorems hold for all constants that satisfy the named assumptions: a channel has
at least one slot, settings and bounds are natural numbers, policies and contexts are
among the cases told apart, there are finitely many tasks, schemas have definitions,
boots are not managers, the kinds of objects are disjoint, relationships are of the
types the schema admits.

| Module | Theorem | Says |
|---|---|---|
| `ReplicationProofs` | `TypeCorrect` | capacity and retry limit are respected |
| | `EventsAccountedFor` | every accepted event is in exactly one place, in order |
| | `BatchesAreAtomic` | no oversized request, SpiceDB reflects whole batches |
| | `StoreFollowsLog` | retries neither resurrect nor drop a relationship |
| | `FailsClosed` | who watches learns of the failure, no false alarm |
| | `StopIsClean` | a worker that stops has written what it received |
| | `PipelineIsEventLog` | the refinement |
| `AuthorizationProofs` | `TypeCorrect` | types, and nobody is in line twice |
| | `WritesAreSeen` | a fully consistent check sees every acknowledged write |
| | `AnswersAreExplained` | an answer is that of one policy set in force |
| | `FiltersOnlyFilter` | filters never grant |
| | `FailClosedHolds` | after the failure no call begins |
| | `LookupsAgree` | a lookup that returns Ok lists all that a check at its revision would allow structurally, and nothing else |
| `AuthorizationRefinement` | `EngineIsShared` | the refinement of `SharedEngine` |
| `DualWriteProofs` | `DualTypeCorrect` | types |
| | `AcknowledgedWritesStand` | nothing but another write undoes an acknowledged one |
| | `FailureStopsWrites` | after a loss the engine begins no write |
| | `DualEventsAccountedFor`, `DualBatchesAreAtomic`, `DualFailsClosed`, `DualStopIsClean` | direct writes disturb none of these guarantees of the pipeline |
| `SchemaBootProofs` | `TypeCorrect` | types, and the discipline of the mutex |
| | `OkIsJustified` | Ok was right |
| | `DifferencesAreReal` | a mismatch or an overwrite had a cause |
| | `AgreementHolds` | processes that agree do not disturb each other |
| | `CallsCompareAndWrite` | the refinement of `CompareAndWrite` |
| `PermissionsProofs` | `TypeCorrect` | only permissions are derived |
| | `AdministratorsHaveAll` | administrators have every permission |
| | `PowersHaveRoots` | cycles create no power |
| | `TenantsAreIsolated` | permissions stay inside tenants |
| | `AccessHasRoots` | groups are no source of access |
| | `GrantsAreLeast` | what is granted is the least fixpoint, and grows with the relationships |

**Replication.** `IInv` is `Flow /\ LastEventWins`, where `Flow`, the conjunction
`TypeOK /\ Accounting /\ BatchBoundary /\ FailClosedSignal /\ Watched`, speaks of the
pipeline alone; both are inductive, most of their parts are not so alone.

* `Accounting`: when a flush begins `batch` is overwritten, and that nothing is lost
  needs that it was empty, which `BatchBoundary` says; when the worker ends, that
  `lost` was empty before.
* `BatchBoundary` needs `Accounting` for `applied <= Len(sent)`.
* `LastEventWins` needs both: `BatchInLog` derives from them that the batch under way
  is the slice of `sent` behind `committed`, and SpiceDB has applied all of it or none.
  A request that takes effect names every relationship once (SpiceDB refuses it
  otherwise), so that it decides those it names and leaves the others to the events
  before it, whether it takes effect for the first time or again.
* `FailClosedSignal` needs `Watched`: `fatal` is decided in the step that gives up, by
  whoever holds a receiver at that time, and a receiver can only be cloned from a
  handle that is still held.

In the refinement every step is `Accept`, `Close` or a stutter, except
`ServerApplies`: the first time it is `Apply` up to the end of the batch
(`BatchIsSlice`), and after a lost reply it is a stutter, because `LastEventWins` says
that the relationships are already as the batch leaves them
(`RepeatedRequestIsStutter`).

**Authorization.** The invariant is `Shapes /\ InLine /\ Store /\ Explanations /\
Streams`. `InLine` (who is in line is at the client, once; who is served is its head)
gives what `TypeOK` says of the line (nobody is in it twice, so that it is no longer
than there are tasks) and that two requests are never at SpiceDB together; `Line`
and `LineProofs` say what is left of a line when its head, or somebody in the middle,
leaves. `Store`: a settled grant is written by nobody under way and SpiceDB's latest
revision agrees with it (`SettledHolds`); a served write is still what the latest
revision says, since nobody else was served (`ServedHolds`, which needs `InLine`); what
a queued check expects is still what is settled (`Expectations`). `Explanations`: the
engine has the policies asked for last, and a check that will be answered by them has
seen them. `FiltersOnlyFilter` is a consequence of `AnswersAreExplained`.
`Streams` says of a lookup that was executed that what it has listed and what its
stream still holds are together the resources a check at its revision would allow
(`Resolved`), and that one that returned Ok has nothing left in its stream. `Serve`
establishes it, because SpiceDB streams conditional permissions too
(`StreamIsComplete`); `Receive` preserves it, because the loop moves the resource of
any item, and `Reply`, because the loop goes on to the end of the stream; a lookup
whose RPC fails ends without Ok. `LookupsAgree` is that invariant for an empty stream.

The refinement of `SharedEngine` adds `Grounded`: a call that was executed has read or
written a revision that exists, and only a check goes on to the policies. Together with
the fact that revisions are only added (`RevisionsGrow`), what a call found stays what
it found whatever the others do (`SameAbstraction`), so that a step of one call changes
its own abstraction and at most the store. `Serve` is `Write` or `Read`, `Evaluate` is
`Decide`, `Reply` is `Return` or, for a check, a stutter; joining and leaving the line is
a stutter, and so is the receipt of an item: it leaves `Resolved` alone.

**DualWrite.** `DualInv` says of a settled tuple that nobody, neither a caller nor any
place of the pipeline, is about to write it and that SpiceDB agrees (`SettledHolds`);
of a served call and of a batch that was written, that SpiceDB still is as they left
it (`CallStands`, `BatchStands`), which the client's mutex guarantees. The step of the
pipeline reuses the lemmas of `ReplicationProofs` about updates, and adds that no event
gets on its way without entering by the queue (`PendingStep`). That the pipeline keeps
its own guarantees is `Flow` again: a call changes nothing of the pipeline but the
relationships (`CallsLeavePipeline`), which `Flow` does not look at. `LastEventWins` is
the one guarantee that does not survive a second writer, and
`AcknowledgedWritesStand` is what takes its place.

**SchemaBoot.** `IInv` is `CallTypes /\ Purpose /\ Witnessed /\ Traced /\ OkWasRight /\
DifferenceWasReal`. `Witnessed`: what a call compared, and the schema there is now, are
among those it has seen, which makes Ok and mismatch true of *some* moment of the call.
`Traced`: the schema is as a call left it, or somebody who may write has written it
since; for processes that agree, that is no difference. The mutex plays no part in
it, and its invariant (`Mutex`) is proved apart, for `TypeOK`. In the refinement
`ServeDiff` is `Compare`: its outcome is settled when SpiceDB executes it, and
`RepliesDecide` shows that what the replies lead to is that outcome, the caveats that
are fetched by a second request included, because `Snapshot` pins them to the schema
that was compared. It needs `Purpose`, which says which calls can be in which phase.

**Permissions.** The properties are inductive themselves, by the rules one at a time.
`TenantIsolation` does not need that the derivation is complete or finite.
`AccessIsRooted` rests on the types of the relations (`ArrowsAreTyped`): an arrow over
`parent` or `group` leads to where only a tenant's relationships count, and an arrow over
`grants_...` from a resource to one of the same kind. `GrantsAreLeast` compares two
instances of the module: one with the relationships there are, another (`Wide`) with
more of them and with any set of facts that holds its own consequences; every rule is
monotone in both (`FollowsGrows`), because the schema has no exclusion.

Only model-checked: the liveness properties (`AcceptedResolves`, `ShutdownEnds`,
`SendReturns`, `RefusedBatchEnds`, `CallsReturn`, `CallsEnd`: the proof system does not
reason about fairness), and that `GroupAccessConveys` and the other statements of
section 5 fail. Every safety property that a passing run checks is a theorem.

## 5. Where the code and what is said of it differ

1. `replication_same_tuple`: two events of one relationship within one flush window
   are sent in one request. SpiceDB's API documents that it refuses such a request
   (`error_reason.proto:171`); it does so on every retry, and the pipeline fails
   closed. An upsert followed by a delete within `flush_interval` is enough.
2. `engine_evaluation`: `check()` "Returns `AuthError` on connection, evaluation, or
   replication failures" (`engine.rs:397`). A policy that Cedar could not evaluate is
   left out of the decision and its error stays in diagnostics nobody reads
   (`abac.rs:99`): a check is answered true although a forbid could not be evaluated.
3. `schema_grants`: "Group-based access (preferred)" (`schema.zed:83`). A table's read
   through its group needs the group's `read_table`, which needs the read of that same
   table: membership alone derives nothing.
4. `engine_setting`: `enable_replication_fail_closed` (`engine.rs:31`) is never read.
5. `engine_filter`: `revoke_by_filter` with a subject id and no subject type
   (`engine.rs:247`) deletes the relationships of every subject.

Consequently the passing runs state what does hold: `FailClosedDrains` is about
engines that were given the channel. Two more statements are read narrowly rather
than as wrong:

* "ABAC acts as the final contextual filter" (`abac.rs:3`): Cedar's decision replaces
  the structural one, so it is a filter for policies that test
  `is_structural_allowed`, as long as the context does not write that key;
  `FiltersNeverGrant` says so.
* "replication queue sender dropped; draining remaining events" (`replication.rs:240`):
  dropping the last sender means dropping the handle, which resolves the shutdown
  branch too; if `select!` picks that branch, queued events are discarded. `Accounting`
  allows it for an ended worker, and `StopFlushesBuffer` speaks of what was received.

An acknowledged revocation can also be undone by an upsert that was already in the
pipeline: nothing orders the two paths. No text promises otherwise, and
`AcknowledgedWritesHold` states what remains true.

## 6. What is done, and what could follow

Done, in the order of the plan: the pipeline with its proofs, the engine, the
counterexamples, schema boot, permissions, the composition of the two write paths,
the abstract specifications of the pipeline, the engine and the schema calls, and the
proofs about all of these.

What could follow:

1. A composition of `Authorization` with `SchemaBoot`: checks while another process
   overwrites the schema. The library does nothing about it, so there is little of
   its own to check.
2. A second engine, in another process, on the same SpiceDB.

## 7. Not modelled

* Of the 12,800 lines of implementation more than 10,000 are generated from protobuf
  files (`buf.validate`, `google.*`, `openapiv2`, and the message types of Authzed):
  declarations without behaviour, most of them never named by the library. The map
  names the stub methods and messages that the library's requests go through and no
  more; of the hand-written code, about 2,200 lines, most is covered.
* Connecting, TLS, the bearer token, reading files, error wording: I/O and formatting;
  only that they can fail, and where.
* Protobuf field copying: the kind of operation and the identity of the relationship
  are modelled.
* Cedar's language and SpiceDB's evaluation of the schema: external. So are caveats'
  contexts: a conditional permission counts as allowed in the code, in either result.
* Deadlines: no RPC has one; that every RPC ends is an assumption of the liveness
  properties (hazard at `rebac.rs:49`).
* That a failed boot takes its schema back (hazard at `engine.rs:91`): it does not, and
  no statement of the repository asks for it. `CompareAndWrite` says what is left.
* Durations: only that they elapse.
