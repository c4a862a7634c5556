# A TLA+ model of analyzer-ng

analyzer-ng is ReportPortal's failure analyzer: a Python service that takes
requests from RabbitMQ, keeps everything it knows in PostgreSQL, decides a defect
type for each failed test, learns a classifier from the corrections people make,
and optionally asks a local LLM for explanations. This directory specifies the
parts of it whose correctness depends on the order in which threads, processes,
statements and messages get to act, and the decision rules themselves. Paths below
are relative to `src/src/analyzer_ng/` unless they begin with `tools/`.

Run a configuration with `tlc -config MCTransportLive.cfg MCTransport` and check
the proofs with `tlapm TransportProofs.tla`. `PROJECT.json` lists the components,
the runs, the map from definitions to source lines, a mutant for every property of
every run, the hazards, the finding and the theorems.

## 1. Inventory

| Part | State it keeps | Operations | Talks to | Modules |
|---|---|---|---|---|
| Consumers (`amqp/consumer.py`) | connection, stop flag, one delivery in hand | connect, `_on_message`, stop | RabbitMQ, worker pool (blocking `submit`), publisher (dead letters) | Transport |
| Worker pool, dispatcher (`amqp/dispatcher.py`, `core/cancellation.py`) | bounded priority queue, per worker an item and its attempt | `submit`, `_run`, retry loop, `_publish_reply`, `_fail`, shutdown | handlers, publisher | Transport |
| Publisher (`amqp/client.py`) | outbox, connection | `reply`, `publish_result`, `dead_letter`, `_publish` (two tries), flush | RabbitMQ | Transport |
| Lifecycle (`service.py`, `main.py`) | shutdown progress, nightly timer | start, two signals, ordered shutdown, nightly jobs | all parts | Transport, Startup, and each job where its state is |
| Artifact store (`ml/artifacts.py`) | table `model_artifact` | `ship` (one transaction), reads of the active rows | PostgreSQL | ModelStore, Serving |
| Serving (`ml/serving.py`) | per process: the snapshot served, the last check | `predict`, `refresh`, `_ensure_current` | artifact store | Serving |
| Retrain loop (`ml/retrain.py`) | pending reason, failure marker | `request`, `_loop`, `maybe_retrain` | label log, trainer, gate, artifact store, serving | Retrain, Learning |
| Trainer, calibration, gate (`ml/trainer.py`, `ml/eval.py`, `ml/gate.py`, ...) | none | frame, train, calibrate, compare with the active model | retrain loop | Learning |
| Feedback (`core/handlers.py`, `db/repositories/labels.py`) | append-only `label_event` | `defect_update` | retrieval store, knowledge base, retrain loop | Store, Learning |
| Retrieval store (`db/repositories/retrieval.py`) | items, signatures, suggestions, tombstones | upserts, label updates, deletions, orphan reaper, hybrid queries | PostgreSQL | Store, Catalogue, Retrieval |
| Analysis engine (`core/analysis.py`, `decision.py`, `grouping.py`, `scope.py`) | none of its own | `analyze`, `analyze_item_early`, `suggest`, `search`, `cluster` | stores, serving, sidecar | Analysis, Decision, Grouping, Scope |
| Ingest, Drain3 (`core/ingest.py`, `ml/drain.py`, `db/repositories/drain3_state.py`) | versioned snapshot per project | lock, load, mine, compare-and-set save, write | PostgreSQL | Store |
| Knowledge base (`db/repositories/kb.py`, `seeds/`) | failure modes, members, purity | match, join, purity | PostgreSQL | Store, Retrieval |
| LLM sidecar (`llm/manager.py`, `queue.py`, `breaker.py`, `engine.py`, `apply.py`) | job queue, breaker, cache, availability | enqueue, evict, process, apply, probe | Ollama, suggestions | LlmSidecar |
| LLM roles and evaluation (`llm/roles/`, `llm/eval.py`) | `llm_role_state` | validation, cache keys, kill switch | sidecar | LlmRoles, LlmSidecar |
| Startup (`db/startup.py`, `db/migrate.py`) | schema, ledger, two advisory locks | create, check, migrate | PostgreSQL | Startup |
| Reporting (`ml/reporting.py`, `db/repositories/stats.py`) | `metrics_daily` | nightly roll-up of every replica | suggestions | Learning |
| Migration tool (`tools/rp-migrate/migrate.py`) | what it has copied so far | select, copy, map types, replay labels, verify | two ReportPortals and the target's analyzer | Transfer |
| Text, embedding, HTTP, metrics, configuration, inspector, demo data | none that others decide on | pure functions, read-only endpoints, generators | | not modelled, section 7 |

The behaviours that are hard: a message is acknowledged *before* it is worked on,
so the process alone carries it through five hand-overs; three kinds of thread and
the signal handler interleave during shutdown; the broker redelivers after a lost
connection; publishing can succeed and still raise; several processes ship and load
models through one table under READ COMMITTED; requests for a retrain race the
single thread that serves them; the writes of one feedback message are separate
transactions, and the index write and deletions meet row by row; the miner's state
is guarded by a lock that can be lost and a version that is compared; replicas of
different images start at once; a model's answer comes back when the suggestion it
was asked about is no longer the newest; a launch group's decision serves members
it was not taken for; a copying tool is killed, run again and repeats requests.
What makes the parts correct:

* transport - nothing acknowledged is lost or answered twice; a full queue stalls
  and does not drop; everything settles; shutdown ends;
* artifacts and serving - one complete model set is live; a booster is never served
  with older calibrators; what is served does not go back and becomes current;
* retraining - forced requests survive coalescing; shipments are spaced; failures
  do not loop; the counter fires on news; no request is lost; what trains and what
  judges a model are kept apart; a new install gets a first model;
* store - readers see whole items and whole batches; no mined template is lost; the
  reaper never takes the history of an item that is only being rebuilt; a
  half-done feedback message is repaired by the next;
* analysis - labels come from evidence the project's mode admits; the early pass
  agrees with the final one; groups and evidence do not depend on row order;
* sidecar - an open breaker is obeyed; text lands on the row it was written for and
  reads; verdicts mean the item the model chose; a full queue loses the least
  urgent; the queue drains;
* startup - whoever is up has its schema; concurrent starts converge and end;
* migration tool - each launch is copied once, its tree and meanings kept, and the
  coverage it reports is real.

## 2. The modules

### Transport.tla

Every thread is a program counter, and a step is what one thread does between two
points at which another may act.

| Code | Model |
|---|---|
| the two durable queues, bound to one fanout exchange | `inq` (ready), `pend` (delivered, callback not run), `acking` (settled by us, perhaps not seen by the broker) |
| `Consumer._run`, `_on_message` | `cpc`, `conn`, `hand`, `bad`; `ConsumerCheck`, `Connect`, `NoticeLoss`, `StopConsuming`, `OnMalformed` then `Nack`, `OnMessage` then `Submit` |
| `PriorityQueue` | `queue`, a set of items; `GetItem` takes the least by `Before` |
| `WorkerPool._run`, `_process_bound` | `wpc`, `item`, `attempt`; `HandlerReturns`, `HandlerRejects`, `UnknownKey`, `HandlerRaises`, `BackoffOver`, `BackoffStopped` |
| `ReplyPublisher` | `outbox`, `ppc`, `cur`, `sent`; `PubGet`, `PubEmpty` then `PubEmptyCheck`, `PublishOk`, `PublishFails`, `ConnectGivesUp` |
| `AnalyzerService.shutdown`, signals | `phase`, `overran`; `Sigterm`, `StopConsumer`, `JoinConsumer`, `StopPool`, `JoinPool`, `StopPublisher`, `JoinPublisher`, `SecondSignal` |

A handler is a choice among what it can do to the transport: return nothing, an
empty list or content; be rejected; raise. The broker is external and modelled
from how pika and RabbitMQ behave towards this code: prefetch limits deliveries
the broker has not seen settled; a lost connection requeues what was not settled
*as the broker saw it*, which is where duplicates come from. A join with a
timeout is one step that records in `overran` whether the thread had ended.

Left out: the synchronous DEBUG_MODE path, the `/health` registries, and the
teardown of sidecar, scheduler and timer between pool and publisher, which
touches none of this state.

### ModelStore.tla, Serving.tla

`ModelStore` is the promise: the active rows are a register that only changes to
one complete newer shipment. `Serving` is the implementation: per process a
trainer thread executing the statements of `ship()` - the snapshot of the UPDATE
(`BeginShip`), its waiting and re-checking (`Retire`), the INSERTs against the
partial unique index (`InsertGbm`, `InsertViolates`), the COMMIT - and one thread
at a time in `_ensure_current` (`BeginCheck`, `ProbeSettles`, `ProbeFindsNew`,
`LoadNothing`, `LoadGbm`, `LoadCalibrators`). Database errors and restarts, the
latter with another feature schema version, strike anywhere. The refinement
mapping is the identity on `active`.

A row's `id` is the id of the shipment's booster, also for calibrators. INSERTs
that would have to wait draw their id before they wait; whichever transaction
they wait for, they end in a violation or find it rolled back, so drawing the id
after the wait gives the same order of commits.

### Retrain.tla

`RetrainScheduler` (`pending`, `stopping`, `pc` with the condition variable's
sleep and notify) and `maybe_retrain` (`start`, `shippedAt`, `failedAt`,
`failedCold`). Training ends in `Cold`, `Reject`, `Ship`, `ShipNotRefreshed` (the
shipment is committed, `refresh()` raises) or `Raise`. `trained`, `asked` and
`last` are history variables. It is one process, whose clock and the database's
agree; the label log only grows. An event is appended atomically and its time is
that of the append. Handlers are not tracked: appending and requesting are
independent steps, since a `defect_update` of unknown items requests without
appending and one that raises appends without requesting.

### Catalogue.tla, Store.tla

`Catalogue` is the index as its readers may see it: an item is absent or whole, a
batch comes or goes at once. `Store` is what the handlers of several workers do to
the tables of one project, a statement or a transaction at a time:

| Code | Model |
|---|---|
| `core/ingest.py` `_index_project` | `Lock`, `Load`, `Save`, `Mirror`, then `Upsert` per row and the commit; `LockLost` is the lock's connection dying unnoticed |
| `drain3_state.py`, `ml/drain.py` | `drain` (messages learnt, version), `mirror`; `CasAllows` is the version check, an unreadable blob is rebuilt from the mirror |
| `delete*` of `retrieval.py` | `Purge` (children first, on its statement's snapshot), `Erase` |
| `defect_update` (`core/handlers.py`) | `Read`, `Relabel`, `Append_`, `Member`, `Count`, `WritePurity`, `Outcome`: seven transactions, `Fail` between any two |
| the writes of `analyze` | `Decide`, `Suggest`, `AutoLabel`, `Join` |
| `reap_orphan_label_events` | `Mark`, `Sweep`, with the other handlers between them |
| PostgreSQL | `writes` (rows locked by an open transaction), `Wanted`, `Granted`, `Victim` (its deadlock detector) |

A template is the set of messages it generalizes, so "no template lost" is a
statement about sets. The refinement mapping `Shelf` makes an item without
signature a third value, which `Catalogue` does not know.

### Lists, Scope, Retrieval, Decision, Grouping, Analysis

`Lists` has what a comprehension, `sorted` and a slice do to a list, and `WHERE`,
`ORDER BY` and `LIMIT` to rows: `Picked` keeps the positions of a set, `Sorted` orders
by a set of pairs of positions and leaves ties as they stand, `Prefix` cuts. They are
functions on positions and not recursive, so that the modules that use them
(`Retrieval`, `Decision`, `Grouping`, `Analysis`, `Transfer`) can be proved about.

`Scope` (what each analyzerMode admits and prefers), `Retrieval` (the hash, hybrid,
mode, seed and search queries: ranks of each leg, their fusion and tie-breaks),
`Decision` (the stages of `decision.py`: exact hash with its discriminant gates, KB
short circuit, model with bands and floors, seed, abstention) and `Grouping`
(buckets, attachment, merging, representatives, the burst prior) are pure
operators. `Analysis` is a request: `Ask` chooses item, history, modes and route;
`DecideItem` decides, fans out to a member of the group, says what is applied and
which LLM jobs are enqueued; `Answer` renders; `Search` and `AskLaunch` are the
other routes. Probabilities are whole per cents, an embedding is an angle, cosine
and trigram similarity are small scores of a row; the thresholds are the code's.

### LlmRoles.tla, LlmSidecar.tla

`LlmRoles` says, per role, what answers a model may give, which of them
`post_validate` accepts, what is displayed of a quote, the cache key, and when the
nightly evaluation disables a role. `LlmSidecar` has the routes (`Decides`,
`Enqueue`), the worker thread (`Pop`, `Load`, `Ask`, `Call`, `Put`, `Record`,
`Apply`, `InsertColdstart`, `ExplainColdstart`), the breaker with its cooldown, and
what happens beside them: `Forget`, `WarmsUp`, `Evaluate`, `Age`, `Crash`, `Stop`.
A call may time out, fail, be malformed, carry no answer, or carry any answer of
`LlmRoles`. A text is whole, stops in mid sentence or dangles, and the server gives
the reason "length", "stop" or none: nine endings (`Endings`), of which
`_looks_truncated` acts on four. `Twin` is the same worker answering about another
item of the same error hash: what it caches is found by this item's jobs where the
key does not name the excerpt, and its quotes are of the other item's log
("foreign"). `Record` writes the audit event, which is where the quotes of log lines
are kept (`quoted`); the suggestion row takes the sentence only. The kill switch is
one flag: every role is asked for, but the only evaluation there is
(`PgLlmComparisonSource`) compares the cold-start role, so no other is ever off. A
behaviour begins by choosing its deployment, the roles whose environment flag is on.

### Startup.tla

Replicas run `ensure_database`, `_create_database`, the checks and `apply_migrations`
against one server, each step of which another replica can come between; `Stop`
kills one anywhere, `Boot` starts it with any image. Session locks go with the
session. A file is a version, a checksum and whether it runs in a transaction;
`ran` counts how often each statement took effect.

### Learning.tla

Label events and suggestions in one `history`; `Fetch` reads the frame, `Cold`,
`GatePassed`, `GateRejected`, `Ship` and `Raise` are the endings of an attempt by
any replica. `BuildXY` and `UsableEvents` keep the different orders in which
trainer and evaluation filter and deduplicate; frames, slices and training sets are
sets of entries of `history`, ordered by their positions in it. A model is the set of rows it was
fitted on; the two reports the gate compares are any of `Reports`. A suggestion is by
the early pass, by a full decision, or the cold-start answer of the language model,
which like a full decision has a NULL source but no feature vector. The nightly job
of `ml/reporting.py` is `FetchDay` and, later, `WriteDay`, in every one of
`Reporters`: a write may be of a fetch older than what it replaces.

### Transfer.tla

`tools/rp-migrate/migrate.py` from selection to verification; `Sent` is what a
request can come to: answered, refused, done without an answer, or done twice by
the retrying adapter and then answered or not. `Run` starts the tool again after any
end, with the same options on the same source. `Index` and
`DefectUpdate` are the target's analyzer. The walks of `items_of_launch` (parent by
parent) and of `drop_passed` (child by child) are closures, `Reach`; what a filter
keeps of a list is `Picked`, in the list's order.

## 3. What the runs check

| Run | Question | Bounds | States |
|---|---|---|---|
| `transport_live` | Is every message settled, exactly once as far as this process goes, when one does not parse, a worker retries, the queue is full and a consumer connection dies? | 2 messages, 1 worker, queue 1, prefetch 1, 1 retry, 1 loss | 310k |
| `transport_pressure` | Do the two consumers' filters work against the fanout copies, whatever the order of timestamps and arrivals? | 3 messages of 3 routes, clock values around a stamped message, queue 2 | 484k |
| `transport_shutdown` | Does a signal, or a second one, at any point double an outcome or leave a worker behind? | 1 message, 1 retry, 2 publish faults | 479k |
| `serving` | Do racing shipments, torn reads, failed refreshes, crashes and mixed builds keep what is promised? | 2 processes, 2 schema versions, 2 shipments, 1 fault | 544k |
| `retrain` | Do coalescing, debounce, cooldown and counter hold against each other and against every ending of a training? | window 2, cooldown 1, threshold 1, 4 ticks, 2 events | 1.3M |
| `store` | Do indexing, deleting, relabelling, analyzing and the reaper, statement by statement, leave what readers and learners rely on? | 2 workers, 2 items of one shape, batches of 1 and 2 in opposite orders, 3 requests, 1 fault, 3 nights | 2.0M |
| `analysis` | Do the stages of every route agree on scope, gates, floors, fan-out and rendering? | 4 queries, up to 2 items of history that agree or disagree with each, 2 modes, 4 predictions, launches of 3 | 485k |
| `llm` | While the model fails, cuts and invents and candidates and suggestions change: is the breaker obeyed, is what is stored readable and on a row of its kind, does a verdict keep its meaning, and does the queue keep the urgent jobs and drain? | 3 deployments of 2 or 3 of the five roles, every ending, reason and kind of quote, 2 suggestion rows, queue 2, 3 candidates, threshold 1, cooldown 1 to 2, 1 outside change | 730k |
| `startup` | Do replicas of four images that start, die and start again end with the schema each needs? | 2 replicas, 3 starts, 5 servers, 2 statements a file, 1 outage | 145k |
| `learning` | What do two replicas of different builds train on, judge by, ship and count while people relabel, and a full decision, a cold-start answer or neither came between? | 3 items, 5 starting histories, 7 entries, 2 reporters, 1 error | 96k |
| `transfer` | What does the migration tool leave when it is killed, run again and repeats requests? | 3 launches of 6 items, 3 option sets, 2 runs, 1 fault | 196k |
| `transport_flush` | Are all replies flushed at shutdown, as the repository says? They are not; see section 6. | the smallest that shows it | |

Why the bounds are enough. *Transport*: the protocol of one message involves one
consumer, one worker and the publisher; interference between messages is on the
queue's order and its capacity, for which two and three messages and a queue of one
or two give every relation (earlier, later, equal timestamp; full, not full). A
second worker adds no shared state that the queue does not already mediate; the
theorems cover any number. One lost connection is enough to reach every point of a
delivery at which it can be lost; a second only repeats the first on the
redelivery. Two publish faults exhaust the two tries. *Serving, Retrain*: two
processes and two shipments give every race on the index, and a third shipment
meets the same states as the second; four ticks let a window and a cooldown begin,
end and overlap. *Store*: a lock conflict, a deadlock and a lost update each need
two transactions and two rows, in opposite orders; three requests are two that race
and one that repairs; three nights are a mark, a grace period and a sweep. The
refinement is proved for any number. *Analysis*: no stage compares more than two
pieces of evidence except by a total order, and a group's merge needs three
items. *LLM*: rows 1 and 2 are the one a job was made for and the one that came
since; the threshold and cooldowns are 1 and 2 so that opening, probing, doubling
and capping all happen; each deployment puts together roles that share a row, the
queue's priorities or a cached answer, and the theorems cover any set of roles. *Startup*: two replicas and one restart; images cover a
version that lands after a higher one, a no-transaction file and an edited file.
*Learning*: a start is three snapshots, two labels and what may come between them
and a relabelling, and the seventh entry is that relabelling or a newer decision. *Transfer*: the first run is interrupted at any
request, the second finds what it left. Bounds on faults, shipments, time, events,
requests, rows and runs (the constants named `Max...`) are used in guards only.

The properties, by what they guard:

* `Custody` counts the holders of each arrival over consumers, queue, workers,
  outbox and the broker: always at most one, exactly one while publishing does not
  fail. `NoSilentLoss` looks from the broker: what left its queue left a trace.
  `OnceWithoutRedelivery`: the fanout copy is filtered once. `EverythingSettles`,
  `WorkersQuit`: liveness.
* `ActiveMatched`: the active rows are one complete shipment. `RefreshSticks`: a
  check that met no error does not undo a refresh. `EventuallyCurrent`: liveness.
* `StrongestKept`, `TriggerMeansNews`, `RequestsTaken` (liveness).
* `IsCatalogue`: the refinement. `MinedKept`: no save forgets a learnt message, the
  lock lost or not. `HistoryKept`: the reaper purges only what every pass of more
  than the grace period found gone and what is gone at that statement.
  `Reconverges`: a `defect_update` that nothing overlaps leaves label, log, purity
  and outcomes agreeing, whatever half-done ones came before.
* `ScopeRespected`, `EarlyAgreesWithFinish`, `FloorIsEarned`, `FanOutFits`,
  `EvidenceStable`, `DockNeverDisplaces`, `GroupsStable`: see their comments; the
  last three compare the code's result with its result on permuted or reduced
  input.
* `NoCallWhileOpen`, `ExplanationFits`, `VerdictIsMeant`, `LosesLeastUrgent`,
  `QueueServed` (liveness). `StoredTextReads`: a stored quote is a line as the reader
  of a log of that error hash sees it, never sanitized and never made up, and a text
  that the budget cut or that dangles is marked.
* `UpMeansMigrated`, `StartsConverge`, `StartsSettle` (liveness).
* `TrainedHonestly`, `HeldOut`, `RollupCountsOnce`, `Bootstraps` (liveness).
* `CopiedOnce`, `CoverageIsReal`. `TreeKept`: in a finished launch every item the run
  carries has exactly one finished copy, under the finished copy of its parent and
  with exactly its log; whatever else is there is the bare, unfinished stray of a
  repeated request (`IsStray`). `MeaningKept`: the group and name of a label that
  ReportPortal or the source's settings know are kept, on a type the target has.

Proved for every value of the constants and therefore not repeated in a run:
`TypeOK` of Transport, Serving and Retrain, `NewNeverWithOld`, `ServedMonotone`,
`AtomicSwap`, `ShipSpacing`, `NoHotLoop`.

What these do not say. `Custody` and `NoSilentLoss` speak of a running process:
items queued, waiting for a retry or on the outbox when the process exits are gone;
acknowledging at parse time accepts that. A redelivered message is handled again,
as a second arrival. `RefreshSticks` is about checks that met no error; after an
error the old model is served for one more interval, and `EventuallyCurrent` says
it heals. `Reconverges` needs a request nothing overlaps: overlapping updates can
leave log and label in different orders, and an automatic label can replace a
human's (section 6). `IsCatalogue` allows a signature without item: `analyze` keeps
one for an item that was never indexed. `MinedKept` does not hold a save to what an
unreadable blob held. `StoredTextReads` does not say that a text in which the model
stopped by itself is whole, nor that the log is the item's own, `TrainedHonestly` not
that the suggestion has a feature vector, and `MeaningKept` nothing of a label the
source's settings do not list: none of these holds (section 6). `TreeKept` is about launches
the tool finished; one it died in stays partial. A copy has two logs when the upload
was done, its answer lost, and the text posted in its place. `RollupCountsOnce` does
not say that the row is the newest. `CopiedOnce` exempts requests the adapter itself
repeated.
`Bootstraps` says that a first model ships, not that it is good.

### Fairness

* Transport: each consumer, each worker, the publisher and the main thread keep
  running, handlers return (the watchdog and `statement_timeout` bound them), and
  the broker delivers what is ready on an open channel. Faults, signals and the
  timeouts of joins are not promised: `WorkersQuit` holds without them. Shutdown is
  not enabled in the run that shows `EverythingSettles`.
* Serving: time passes, predictions keep coming and queries return. Nothing is
  assumed of the trainers. Faults and shipments are finitely many by their bounds.
* Retrain: the scheduler's thread runs, and a query or a training that began ends.
* LlmSidecar: the worker thread runs; a call ends by the client's timeout. Routes,
  time and the outside are not promised.
* Startup: a process that is not killed goes on, and gets a lock it waits for once
  the lock is free (starts are few, and each takes each lock once).
* Learning: the nightly trigger retrains again and again and an attempt ends;
  nothing is assumed about the gate's numbers.

Deadlock checking is off where the modelled activity really ends: the process exits
(`transport_shutdown`, `transport_flush`), every start has settled (`startup`), the
tool is done (`transfer`), or the bounded requests have all been served and the
system is idle (`store`, `llm`).

## 4. What is proved

For all values of the constants, subject to the named assumptions
(`TransportAssumption`, `ServingAssumption`, `RetrainAssumption`,
`StoreAssumption`, `StartupAssumption`, `SidecarAssumption`, `RolesAssumption`,
`LearningAssumption`, `TransferAssumption`, `DecisionAssumption`,
`GroupingAssumption`, `AnalysisAssumption`: types of the constants; an item is once
in a history, by its primary key, and is sent once in a launch; `QueueSize` and
`Prefetch` positive, as zero means "unbounded" to the libraries; batches not empty;
no two files of an image with one version, and a checksum tells contents apart; the
source ReportPortal numbers its items uniquely and in the order they are started,
parents first, which is also what `items.sort` by id in the tool relies on):

* `TransportProofs`: `TypeCorrect`, `NothingVanishes`, `TakenByOneConsumer`,
  `OneCustodian`.
  `NoSilentLoss` is not inductive: `TransportInv` adds that a message about to be
  nacked already has its dead letter (`NackAfterDeadLetter`), that every trace
  belongs to a consumer in charge of its message (`TracesAreOwned`), and that
  without a loss a message is ready, delivered or traced but never two of these
  (`TakenOnce`). The step lemma moves a trace from holder to holder, one case per
  action. `Custody` counts holders, and a count says too little of a step that moves
  an item: `CustodyInv` says instead that the places of an arrival (`At`) hold it at
  most once and at most one of them does (`OneOf`), that one does while publishing
  has not failed (`SomeOf`), and that numbers not yet given out have no holder. The
  property follows by adding up cardinalities that are 0 but for one.
* `ModelProofs`, about serving: `ServingTypeCorrect`, `OneLiveShipment`,
  `NewBoosterNeverWithOldCalibrators`, `ServedNeverGoesBack`, `RefreshIsNotLost`,
  `ShipIsAtomic` (the refinement of `ModelStore`). `ServingInv` adds that ids in use are below the
  sequence (`Sequence`), that a transaction past its UPDATE has retired all of the
  live set or nothing of it (`Whole`), that at most one transaction holds the live
  rows or an uncommitted booster (`Exclusive`), and that what a reader has read or
  serves is not newer than what is live (`ReadsArePast`). `RefreshSticks` needs in
  addition that a process waiting for the answer to its refresh has shipped, and that
  a check which began since has read nothing older than that shipment.
* `ModelProofs`, about retraining: `RetrainTypeCorrect`, `ForcingIsNotDemoted`,
  `CounterFiresOnNews`, `ShipmentsAreSpaced`, `FailuresDoNotHotLoop`. `RetrainInv`
  adds that a training in progress began a window after the last shipment
  (`WindowHeld`), that the in-memory failure marker records the last ending that
  counts (`MarkerMatches`), and that the rows a shipped model was trained on are
  not newer than its `trained_at` (`LogBehind`).
* `DatabaseProofs`, about the store: `StoreIsCatalogue`, the refinement of `Catalogue`. A reader never
  meets a torn item because every item has its signature (`WholeInv`). A deletion
  selects twice, first the signatures and then the items, with other handlers'
  commits between the two; `DoomInv` says that it has marked no signature of an item
  it will not erase. `ShapeInv` and `RequestInv` give the tables their shape and say
  which requests can be at which place. `ReaperSparesReindexed`: a tombstone is no
  older than the unbroken run of passes that found its item gone (`ReaperInv`).
  `SaveForgetsNothing`: a load that can be trusted knows all its version knows, and
  versions only rise (`MinerInv`), so the version check alone protects a save whose
  lock was lost. `FeedbackReconverges`: `FeedbackInv` says what a `defect_update` that
  nobody overlaps has established at each of its statements (`DoneInv`), over what
  earlier ones left (`LogInv`, `ModeInv`).
* `DatabaseProofs`, about startup: `UpIsMigrated`, `ConcurrentStartsConverge`. `MigratedInv` needs no
  lock, since the ledger only grows and its primary key refuses a second
  application: what is recorded has run, a transactional file exactly once
  (`LedgerInv`), and every file of an image is recorded or still to be applied
  (`ProgressInv`). `SerialInv` is about the lock: who applies migrations holds it, so
  what was pending when it looked still is, and the primary key never refuses it.
* `LlmProofs`: `OpenBreakerIsObeyed`, `StoredTextIsReadable`,
  `ExplanationFitsItsRow`, `VerdictNamesWhatWasMeant`, `FullQueueLosesLeastUrgent`.
  `CallInv` is the first property with the breaker's type: it is inductive because
  only the worker records results, and an answer that is asked for again has closed
  the breaker first. `SidecarInv` follows an answer from the prompt to the row: the
  input read for a job fits its row (`InputFits`), an output that passed is storable
  for the candidates it was made from (`OutputFits`), and so is every cached answer
  for every job whose key finds it (`CacheFits`); the key holding the candidates is
  what carries a verdict over to a later job. The cached answers of another item are
  storable too, but for their quotes being "foreign".
* `LearningProofs`: `NoHindsight`, `GateIsLeakageFree`, `RollupIsIdempotent`.
  `LearningInv` says that a frame in use is the one its replica's history had at the
  moment it was read, and so is the active model's (`FramesAreReal`), and that the day
  rolled up is a prefix of the history (`DayIsReal`), of which a tally not yet written
  counts nothing twice (`TalliesAreReal`). The rest is about the operators:
  the newest usable event of an item is unique, so the two slices share no item.
* `TransferProofs`: `TransferInvariant` and from it `MigratesOnce`, `TreeIsKept`,
  `MeaningIsKept`, `CoverageReported`. None of the four is inductive. `TransferInv`
  says of the target that every item is a copy of some source item, with its launch,
  parent, log and label (`TargetOK`), whichever run made it; of the run, that what it
  remembers (`Remembers`), has passed (`Passed`), has in hand (`InHand`), translates
  (`Translates`) and will replay (`Replayable`) agrees with the target. A request only
  adds to the target (`Grows`), so what a lost or repeated one did disturbs nothing;
  one lemma per request shows that it keeps `TargetOK`, and is used once or twice as
  the request takes effect. That parents are started first rests on two closures:
  `items_of_launch` finds every item, by its parent having the smaller position
  (`AllAreFound`, from the least number principle), and `drop_passed` keeps the parents
  of what it keeps (`ParentsSurvive`). `TreeIsKept` needs more than that what is there
  is right: `CopyInv` says that the launch in hand holds the copies of the items
  passed so far and strays only (`Hand`), each with its log once its place in the walk
  has passed the log, and that every finished launch is whole (`AllWhole`); a
  repeated request makes a stray, and a run that died leaves a launch unfinished.

* `ListProofs`: what the operators of `Lists` return, for every list, choice and
  order. The one the rest is built on is `Ranks`: in a finite set of numbers, how many
  are at most i tells i apart and takes every value up to the cardinality. Hence
  `Picked` and `Sorted` are rearrangements of positions (`PickedEntries`,
  `SortedEntries`) and two lists of the same entries are sorted into the same list
  (`SortedStable`).
* `AnalysisProofs`, all seven properties of `Analysis`:
  - `EvidenceIsStable`: a history in another order has the same entries; every leg,
    the fusion, the scope and the boost of a row depend on the row alone, and each
    order is total on rows of different items, so sorting forgets the order of the
    scan (`LegSame`, `SearchSame`). A history has no item twice (`RequestInv`).
  - `LabelsStayInScope`, `InheritedLabelsFit`: by `DecidedRow`, what a decision
    carries is a row of its evidence, and by `StageCRows` and `HashRows` such a row is
    of the history, was admitted and, for a hash match, has the item's own hash.
  - `EarlyLabelsAgree`, for every early policy but `kb_inherit_and_pb`, which exists to
    let the model label early: an inherited label does not depend on the model.
  - `FloorEarned`, for `TauAuto > 45`: the floor is 45 per cent, and a tau below it
    would turn what it lets through into an automatic label. The default is 75.
  - `DockDisplacesNothing`: `DecisionInv` says that no item is twice among the rows
    behind a decision and that a decision with a label is at least as sure as the
    suggest threshold; `Judged` is the order the judge's choice puts them in, with and
    without the dock (`ReorderedRows`). What remains is about lists: picking what is
    at least the threshold from a concatenation, and prefixes of prefixes.
  - `GroupsAreStable`: the groups depend on the items sorted by id only
    (`GroupLaunchSame`), and what is replied belongs to one of the launches
    (`LaunchInv`). That every item is in exactly one group is shown pass by pass:
    `Puts` says of one attachment or one merge that it puts an item into at most one
    more group, `Counted` that what is put once over a whole pass is there once. A pass
    is a function defined along its list; `Folded` says that there is one, `UpTo` is
    induction up to the end of the list. Both follow from the least number principle,
    as the library's induction theorem cannot be instantiated.

Only model-checked: every liveness property (`EverythingSettles`, `WorkersQuit`,
`EventuallyCurrent`, `RequestsTaken`, `QueueServed`, `StartsSettle`, `Bootstraps`), as
the prover has neither fairness nor `ENABLED`. Every other property of a passing run
is stated by a theorem.

## 5. Order of work, and what is left

Built in this order: `Transport`, `ModelStore` and `Serving`, `Retrain`; then
`Store` with `Catalogue`, `Startup`, `LlmRoles` and `LlmSidecar`, `Scope`,
`Retrieval`, `Decision`, `Grouping` and `Analysis`, `Learning`, `Transfer`, with the
proofs of each once its run agreed. Left, most important first:

1. the connection pool as a resource of `Store`: holders of the project lock need a
   second connection, so as many holders and waiters as the pool has connections
   wait until its timeout;
2. one composition of `Learning` with `Serving`, so that the gate's read of the
   active model and the shipment race through the table's transactions.

## 6. Disagreements between text and code

With a run:

* `transport_flush`, `FlushComplete` (`amqp/client.py:267`): the publisher reads its
  stop flag after `queue.Empty` was raised; a reply enqueued in between stays on the
  outbox when the thread ends, although `service.py:419` says pending replies are
  flushed.

Met while modelling and visible in the models, without a run of their own:

* `llm/engine.py:149`: a text that stops in mid sentence is trusted unless the
  server's reason is "length", although `:180` and `:341` promise never to persist a
  silent mid-sentence cut (`Ends` is then "stopped").
* `llm/engine.py:232`: a cached explanation is not validated again and its key does
  not name the excerpt (`llm/roles/explainer.py:108`), so a quote may be missing from
  the item's log, although `:142` says that a reader can find it there (`Twin`,
  "foreign").
* `tools/rp-migrate/migrate.py:402`: a locator the source's settings do not list is
  kept as it is and written to the target, although `tools/rp-migrate/README.md:101`
  guarantees that the types exist.
* `db/repositories/labels.py:94`: the newest suggestion may be a cold-start answer
  without a feature vector; the row is not dropped, as `ml/trainer.py:90` says it
  would be, but trains with every feature at its default (`Sources`).
* `amqp/consumer.py:96`: a consumer that is connecting when it is stopped goes on
  to consume and acknowledge after "Stop accepting new messages" (`service.py:408`).
* `amqp/dispatcher.py:395`: "a watchdog timeout must not re-run the expensive task"
  (`:257`) holds for `TaskTimeout`, not for a statement cancelled because the same
  budget ran out.
* `ml/serving.py:152`: "never a mix" (`ml/artifacts.py:11`) holds of the table, not
  of a reader that uses two statements. `NewNeverWithOld` is what does hold.
* `core/analysis.py:410`: `analyze` writes an automatic label without looking at
  the label the item has by then; a human's given meanwhile is replaced.
* `llm/queue.py:97`: the docstring (`:82-85`) drops an incoming job that is "equally
  urgent but newer"; the code drops it only when it is less urgent, so a tie evicts
  the oldest queued job (`Enqueued`).
* `llm/manager.py:45`: `_REPROBE_INTERVAL_S` has no use; availability is what the
  probe at startup found.
* `ml/eval.py:103`: "later corrections supersede earlier ones" holds among usable
  events only: a correction to "ti" does not take the earlier label out of the
  replay, as it does out of the training set (`ml/trainer.py`).
* `core/analysis.py:1385`: the comment promises a KB short circuit's answer first;
  such a decision has no `relevant_item_id`, so no row is made of it.
* `db/repositories/drain3_state.py:34`: "deadlock-free" does not count the second
  connection each holder takes from the same pool.
* `tools/rp-migrate/README.md:93`: re-runs are idempotent "at launch level": a
  launch whose copy was interrupted is skipped by the next run and stays partial.

## 7. Not modelled

Text preprocessing, signatures and embeddings (pure functions over unbounded text
and tensors); the numeric feature vector, fitting and calibration curves (floating
point); prompts, JSON schemas, sanitizing and excerpts of the LLM roles; `/health`,
`/metrics`, configuration; `early_replay.py` (an offline report). The inspector is
a developer's page over the service's own routes, the demo data a generator.
`kb.spawn_candidate_mode`, `merge_modes`, `split_mode`, `set_status` and
`list_modes`, `Retrainer.retrain` and `PgModelStore.save(activate=True)` have no
callers in the service. `bump_test_history` is an increment inside the index
transaction that only features read. The size of the connection pool is not
modelled. Several replicas retraining within one window are outside `Retrain`;
`Learning` lets them, and claims no spacing for them.

Where a model is coarser than the code: the three DELETE statements of `_purge_items`
read one snapshot (`Purge`), so a deletion that misses a row committed meanwhile in
one table and catches one in the next is not shown; `Decide` keeps a signature that was
committed since its own read, where the upsert of `_persist_recomputed_signature`
replaces it by its own recomputation; equal label times of two hash matches are told
apart by item id, without `indexed_at` before it (`LabelledLater`); the adapter's five
repetitions of a request are one, and a report to ReportPortal takes effect when it
is answered (its asynchronous API only promises that it will); `metrics_daily` has
one row for all projects; the calibrators of a shipment, and the inactive row a
rejected candidate leaves, are not in `Learning`, as nothing there reads them.
