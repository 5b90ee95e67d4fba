# A TLA+ model of the vynmatrix execution platform

vynmatrix turns market data into strategy signals and signals into broker
orders. This directory models the parts on which a mistake costs money or
corrupts state that nobody looks at: the order path from the row that says
"execute this command" to the venue and the ledgers that record it, the worker
that repairs it, and the durable machinery around it: indicator workers, ordered
delivery, panel decisions, circuit breakers and the research queue. The modules
follow the Python code under `src/`; `PROJECT.json` names the lines behind each
definition.

## 1. The system

| Part | Code | State it owns | Operations |
| --- | --- | --- | --- |
| Transactional outbox | `lib_application/outbox.py` | `outbox_events` rows: status, attempts, claim owner, lease, redrive generation and audit | enqueue, claim batch (plain or in partition order), mark published, mark failed, redrive |
| Scoring outbox relay | `scoring_engine/outbox_relay.py`, `api.py` | the claimed batch of each worker | drain, deliver over HTTP, complete, redrive endpoint |
| Account serializer | `execution_engine/account_execution_serializer.py` | asyncio lock per process, PostgreSQL advisory lock, generation row | hold: lock, claim generation, body, release, unlock |
| Deduplicator | `execution_engine/deduplication.py` | one decision row per command, memory cache per process | claim, mark executed |
| Canonical order ledger | `execution_engine/canonical_execution_store.py` | intent, order, append-only executions | create or replay, abort, mark unknown, apply result |
| Recovery rows | `execution_engine/pending_orders.py`, `reconciliation_tracker.py` | `pending_orders` rows, cache per process | persist, resolve, mark unknown, cancel, reload at start |
| Order executor | `execution_engine/order_executor.py`, `broker_bridge.py` | none of its own | submit each leg, protective exits, cancel before close |
| Command handler | `execution_engine/api.py`, `engine.py`, `_dispatch.py`, `_execute.py`, `execution_result.py` | none of its own | one HTTP request from entry to answer |
| Reconciliation worker | `execution_engine/reconciliation.py` | settled keys per process | one cycle per account: book, compare, look up, settle |
| Circuit breaker | `execution_engine/circuit_breaker.py`, `circuit_breaker_manager.py`, `risk_breach_store.py` | failure windows per process, one stored row per key | admit, count, open, close, restore |
| Indicator worker | `indicator_runner/signal_worker.py`, `bar_recovery.py`, `process_manager.py`, `lib_data/watermark.py`, `price_ingestion_service.py` | bars, checkpoints with rebuild markers, stored model state, signal journal | upsert bars, bootstrap, rebuild, catch up, supervise |
| Signal relay | `indicator_runner/signal_delivery.py`, `runtime_journal.py` | wake flag, drain passes | wake, drain, post in partition order |
| Panel journal | `indicator_runner/panel_runtime.py`, `runtime_journal.py` | decision rows, stored core state | register, poll, submit, dispose, prepare, process, restart |
| Research queue | `services/research_jobs.py`, `dev_cli/core/research/` | jobs, attempts, supervisor control, containers, two advisory locks | enqueue, claim, launch, compute, finish, sweep, maintain |

Scoring writes a decision row and an outbox event in one transaction. The relay
claims the event under a lease and posts it to the execution engine; a 5xx
answer or a lost one is retried. The engine takes the account's serializer,
claims the command in the decision table, passes the gates, and for each order
leg creates a canonical order, persists a recovery row, calls the broker, and
applies the reply to the canonical ledger and then to the row. Each of these is
its own commit, and the process may die between any two. The reconciliation
worker takes the same serializer and settles what was left open. Upstream, an
indicator worker processes each stored bar in one transaction that moves its
checkpoint, its model state and its signal together, and a loop delivers the
signals in order.

What makes this hard: at-least-once delivery; workers that share one name;
leases that lapse under a live worker; a lock that belongs to a database session
the server may drop; two ledgers and a venue with no common transaction;
acknowledgements lost after the venue acted; a commit whose acknowledgement is
lost; history that is corrected behind a consumer; a cache per process; crashes
everywhere.

What correctness means here:

- an order leg reaches the venue at most once;
- an order the venue may hold is always findable after a crash, and the row of a
  finished one is eventually closed, of a live one never;
- the ledgers never claim a fill that did not happen, and never lose one;
- an event is published only after it was accepted, in order where order is
  promised, and always ends;
- a worker that lost its authority cannot destroy the work of its successor;
- stored model state is the history it claims to be, or a rebuild is pending;
- no lock, lease, request or attempt is kept forever.

`PROJECT.json` lists the hazards line by line with the property that guards each;
section 8 names the effects no property speaks of.

## 2. Modules

| Module | Models |
| --- | --- |
| `EventDelivery` | the contract of the outbox, with no rows, workers or leases |
| `Outbox` | the table and the operations of `OutboxStore`, one transaction each |
| `OutboxRelay` | workers draining the outbox, the consumer's answers, crashes, slow workers, the clock, the operator; implements `EventDelivery` |
| `SignalRelay` | the ordered relay of one indicator worker over the same `Outbox` |
| `EngineReplicas`, `ExecutionCommands` | constants shared by the execution modules: replicas, tasks, commands, legs |
| `AccountSerializer` | `AccountExecutionSerializer.hold` with every exit path |
| `ExecutionDedup` | `ExecutionDeduplicator`: decision row and memory cache |
| `OrderLedger` | canonical orders and executions, recovery rows, caches, and the venue (external) |
| `SignalExecution` | the command handler, composed of the four modules above |
| `Reconciliation` | the reconciliation worker, composed with `SignalExecution` |
| `CircuitBreaker` | breakers of several replicas over one stored row per key |
| `IndicatorWorker` | price writes, one worker, its supervisor |
| `PanelJournal` | a worker's panel decisions, taken by a poll and a direct caller |
| `ResearchJobs` | the queue, its supervisors, Docker (external), maintenance |
| `*Proofs` | theorems, section 5 |
| `MC*` | instances for TLC |

### Outbox, OutboxRelay, EventDelivery

`outbox[e]` is the row of event `e`; `batch[w]` the records worker `w` still has
to deliver; `posted[w]` the outcome of its current delivery. `accepted` (events
the consumer took) and `grants` (how often an event was claimed) are history
variables that only properties read. Time is two facts per row, *available* and
*lease lapsed*, that the clock may turn true. All workers use the default
consumer name, as deployed. A lease may lapse under a live worker (`MaxSlow`
times), or under a dead one, whenever it likes. The refinement mapping `StageOf`
reads the contract's stage from the row's status: pending, failed and processing
rows are due.

### AccountSerializer

A task is an asyncio task of one replica. `phase` follows `hold()`; `local`,
`advisory` and `genRow` are the two locks and the generation row. `LoseSession`
is the server dropping the connection that carries the advisory lock; the body
does not notice. `peers[t]` collects generations claimed while `t` was inside,
for the properties. Owner strings contain a fresh UUID, so the generation number
stands for the owner.

### SignalExecution and Reconciliation

`pc[t]` is the point of the handler between two commits or awaits, `work[t]` its
locals. Each handler step is one commit, one broker call or one reply. A
database write may raise, and a write that raised was committed or not. The
venue fills, works, cancels or refuses an order on its own. `LostReply` says how
an adapter shows a lost reply to the executor: it raises, it returns a rejected
result, or it returns an unresolved one. Gates (routing, freshness, risk,
session, circuit breaker) are one step that passes or stops with any outcome the
gates can produce. A command has a primary leg and, if bracketed, one protective
exit; a command is an entry or a close. Quantities are counted in `Lots`.

`sweep` is the worker's step and locals, `synced` the keys it settled before.
`ClientIdInBook`, `ClientIdLookup` and `NotFoundResult` say what the adapter
offers: client ids in the open-order book, lookup by client id, and not-found
answers as results. No adapter of the repository implements the lookup, so it only
finds the order or does not; it never answers with a rejection. Reading the book may fail, or come back empty after an error
the adapter swallowed.

### CircuitBreaker

`breakers[r][k]` is the memory of replica `r`, `breach[k]` the stored row. A
request is admitted or refused and later ends as success, failure, or
unrecorded. `tripped[r]` remembers, for the properties, until when a replica
must refuse. `CheckExecution` deletes the expired rows of both keys in one write
where the code makes two, and a refusal that cannot be recorded counts as a failed
request. `tripped` is given up exactly where the code gives it up: the row was not
written, not readable at restart, or deleted by another replica.

### IndicatorWorker

A feed is a row of bars with revisions; `UpsertCandles` inserts or corrects some
and marks the checkpoints it affects, in one transaction. `watermark[s]` is the
checkpoint with its rebuild marker and generation, `runtime` the committed model
state (which revision of which bar it has seen, and the boundary before which it
takes no decisions), `journal` the decisions. The worker bootstraps by restore,
cold start or exact rebuild, then catches up batch by batch; it exits for a
rebuild, or crashes. `missed` collects bars that were written where no marker
can be set; section 4, item 7. Every worker has the exact recovery of
`bar_recovery.py`.

### SignalRelay, PanelJournal, ResearchJobs

`SignalRelay`: the bar transaction enqueues a signal and wakes the loop; the
loop clears the flag, then runs passes that each claim, post and settle one batch
in partition order. Its thread may die at any point and take the worker with it.

`PanelJournal`: two threads, the poll and a direct caller, classify an input,
dispose of it or prepare it under the lock on the runtime row, advance the core
in memory, and commit. A failure between leaves memory ahead of the store and
forces an exit.

`ResearchJobs`: supervisors take control by heartbeat, sweep the containers of
their predecessor, claim, and launch inside the launch lock with a heartbeat
before and after Docker creates the container. The Docker client is a process of
its own and may outlive its supervisor (`spawned`). Loading inputs, saving
diagnostics and any Docker call of `SandboxProcess.close` may fail; a container
that `close` missed stays until a later sweep. Maintenance takes both locks in one
step (the code takes them in turn, waiting 5 s for each), drains and proves
the drain. `ClaimJob` ends every expired attempt where the code stops at
the first one still leased, which is the same while at most one attempt runs
(`OneRunning`, proved).

## 3. Runs

| Run | Instance | Shows |
| --- | --- | --- |
| `relay` | 2 workers, a command and an event of another topic, 2 attempts, 2 redrive requests, 1 crash, 1 slow lease | type, publication only after acceptance, exact fence inside a redrive generation, claims within the retry budget plus one per crash and lapse, audit trail; `DeliveryContract`: it implements `EventDelivery`, with every due event settled |
| `execution_overlap` | 2 replicas, an entry of 2 lots delivered twice, stale reclaim on and off, 1 session loss, 1 crash | sent at most once, one executor per command, the row of a live order is not closed, row, ledger and venue agree, fills are never lost |
| `execution_close` | 2 handlers of one replica, an entry and a close racing | a closed recovery row means the venue no longer works the order; every request is answered |
| `reconciliation` | handler and worker of one replica, a bracketed entry delivered twice, every kind of lost reply, 1 crash | aborted attempts were never sent, sent orders are recoverable, exits follow fills, a faultless cycle settles every finished order, the worker never closes a live one |
| `services` | six components, below | see below |

`services` picks one component in its initial state, and only that one moves, so
that each is explored by itself:

| Component | Instance | Shows |
| --- | --- | --- |
| serializer | 2 replicas, 3 tasks, 4 holds, 2 session losses, 1 crash | overlap only after a loss, overtaken writers are told, release clears only its own claim, the lock comes back |
| breaker | 2 replicas, one strategy key and the broker key, threshold 2, window 1, cooldown 2, clock to 3, 2 openings, 1 fault | no admission past a tripped breaker, over restarts; no breaker outlives one cooldown |
| indicator | a feed of 3 bars and one of 1, 2 revisions, 3 writes, 1 crash restart, 1 fault | stored state is the stored history or a rebuild is pending, decisions once and in order, checkpoints only advance, the worker catches up |
| signals | 3 signals of one partition, 2 attempts, 2 passes per wake, 2 loop deaths | delivered in order, no wake lost, each delivered or behind a dead letter |
| panels | 4 inputs: three of one session at different cutoffs, the first before the activation cutoff, and one of the next session; 1 fault, 1 direct submit | one input pins a session, stored state is the completed panels, every input is decided |
| research | 2 supervisors, 1 job with retries, 2 owner interventions, 1 fault | one computation, quiet maintenance, ended attempts are final, attempts end |

Seven runs each exhibit one disagreement between the code and what its own text
says; see section 4.

Bounds. Two workers or replicas are the least number that can overtake each
other, and a third task on one replica contends for the asyncio lock while the
advisory lock is busy. Two attempts reach both sides of the retry limit. Two
redrive requests let two operators race. One crash and one lost session suffice
for each pair of *crash here, redelivery there*, since what a crash leaves
behind is durable state that the second delivery meets. Two lots make partial
fills possible. Three bars are a bar to bootstrap on, one to decide and one to
insert or correct behind it. Three signals let one fail between a delivered and a
waiting one. `MaxHolds` is above what the deliveries can use, so it never cuts a
behaviour short in `execution_overlap` and `execution_close`; in
`reconciliation` it bounds the number of cycles. That run identifies states that
differ only in `answered` and `handled`, two history variables which no step
reads and about which it asks nothing but their type. Symmetry is over workers with
one name, or over replicas together with their handlers; runs with liveness use
none. Deadlock is checked in the relay runs; elsewhere the system may really
stop, when no request, bar or job is left, and liveness is a property instead.

Fairness. Relay: `run_forever` polls whatever the last drain did, a delivery
ends by its HTTP timeout, clocks advance; crashes and operators owe nothing.
Serializer and handler: a coroutine that started is scheduled until it ends;
nobody is obliged to enter, and nothing has to fail. Indicator worker: its loop
runs until it exits and the supervisor's loop restarts it. Signal loop: it wakes
at the latest after its idle interval, and back-off and leases end. Panels: the
poll is periodic, a thread that started runs on, a failed worker is restarted.
Research: a live supervisor and maintenance run on, Docker creates what it was
asked for, leases lapse. All of it is weak fairness; no strong fairness is used.

## 4. Where code and text disagree

1. `relay_fence`. `mark_published` promises completion only by the owner of
   "the exact claim generation". A redrive resets `attempts`, so a worker from
   before the redrive passes the fence of the claim made after it. Within one
   redrive generation the promise holds, and is proved.
2. `execution_rejected`. The executor says a lost acknowledgement "cannot prove
   rejection", but the shared adapter code turns exceptions into rejected
   results, so a live order is recorded as rejected.
3. `execution_duplicate`. A duplicate is said to mean "the original was already
   handled". After a crash behind the claim the row stays `executing`, and the
   redelivery is answered as a duplicate of something never handled.
4. `execution_unknown`. A test with a stub store expects the replay of an
   ambiguous order to be reported `submission_unknown` again. The real store
   leaves its marker in the payload it compares, and reports a collision.
5. `execution_resting`. A close is said to cancel the context's resting orders
   first. The replay of a command whose order still works drops the order from
   the cache the close reads.
6. `reconciliation_expired`. A live order is said to be settled only on "a
   definitive broker response", order-unknown included. An order whose reply was
   lost before its row learnt the venue's id, or was marked unknown, is asked for
   by a local id the venue never assigned; an adapter that answers not-found
   then gets the order expired while it rests at the venue. With adapters that
   do not, the run `reconciliation` shows the promise kept.
7. `indicator_gap`. A gap repair is said to have "the same consequence" as a
   correction for a strategy that has advanced. A bar inserted behind a batch
   already fetched, and ahead of the checkpoint, requests no rebuild, and the
   next bar of the batch moves the checkpoint past it. `StateIsHistory` holds up
   to this and to bars written during a cold start.

None of these breaks `SubmittedOnce`.

`hold()` also says it acquires a "non-overlapping writer generation". Two
writers do overlap after the server drops the lock session of the first, which
learns of it only on leaving; `OverlapOnlyAfterLoss` says that this is the only
way, and `SubmittedOnce` and `OneExecutor` are proved with such an overlap.

## 5. Proofs

All theorems hold for any sets of events, workers, replicas, tasks, commands,
legs, feeds, panels, supervisors and jobs and any bounds, from the named constant
assumptions of the modules.

| Module | Theorem | Statement |
| --- | --- | --- |
| `OutboxRelayProofs` | `TypeCorrect` | `Spec => []TypeOK` |
| | `FenceCorrect` | `Spec => []FenceExactInGeneration` |
| | `NothingPublishedUndelivered` | `Spec => []PublishedWasAccepted` |
| | `RetryBudgetRespected` | `Spec => []RetryBudget` |
| | `RedriveAuditComplete` | `Spec => []RedriveAudited` |
| | `PublishedFinal` | `Spec => PublishedIsFinal` |
| | `DeliverySafe` | `Spec => D!ContractSafety`: the relay implements the safety part of `EventDelivery` |
| `ExecutionTypeProofs` | `WritersExcluded` | `SerializerSpec => []OverlapOnlyAfterLoss` |
| | `OvertakenWriterTold` | `SerializerSpec => []OvertakenIsTold` |
| | `LateReleaseHarmless` | `SerializerSpec => ReleaseOnlyOwn` |
| | `HandlersUseSerializer` | `Spec => SerializerSpec`: the handlers use the serializer as it is meant to be used |
| `SignalExecutionProofs` | `NeverSubmittedTwice` | `Spec => []SubmittedOnce` |
| | `OneExecutorPerCommand` | `Spec => []OneExecutor` |
| | `DecisionsFinal` | `Spec => DecisionFinal` |
| | `ClosedRowsAreDead` | `"rejected" \notin LostReply => (Spec => []ClosedRowIsDead)` |
| | `ExitsAfterFill` | `Spec => []ExitAfterFill` |
| | `SentStaysRecoverable` | `Spec => [](losses = 0 => SentIsRecoverable)` |
| `ExecutionLedgerProofs` | `FillsKept` | `Spec => FillsNeverLost` |
| | `AbortProvesUnsent` | `Spec => []AbortedNeverSent` |
| | `LedgersAgree` | `Spec => []LedgerBetweenRowAndVenue` |
| `ReconciliationProofs` | `RecTypeSafe` | `RecSpec => []RecTypeOK` |
| | `WorkerUsesSerializer` | `RecSpec => SerializerSpec` |
| | `WorkerNeverResubmits` | `RecSpec => []SubmittedOnce` |
| | `WorkerKeepsLedgers` | `~NotFoundResult => (RecSpec => [](AbortedNeverSent /\ LedgerBetweenRowAndVenue /\ ExitAfterFill))` |
| | `WorkerClosesDead` | `~NotFoundResult => (RecSpec => SweepClosesDead)` |
| | `WorkerLeavesNoOrphan` | `~NotFoundResult /\ "rejected" \notin LostReply => (RecSpec => []ClosedRowIsDead)` |
| | `OneWriter` | until a lock session is dropped, at most one handler is past its entry, and none during a cycle |
| | `WorkerKeepsRecoverable` | `~NotFoundResult => (RecSpec => [](losses = 0 => SentIsRecoverable))` |
| | `CycleClosesFinished` | `~NotFoundResult => (RecSpec => [](losses = 0 => CycleSettles))` |
| `ServicesProofs` | `BreakerInvariant` | `BreakerSpec => []BreakerInv` |
| | `CooldownNeverExtended` | `BreakerSpec => []CooldownBounded` |
| | `TrippedRefuses` | `BreakerSpec => NoAdmissionWhileTripped` |
| | `PanelTypeSafe` | `PanelSpec => []PanelTypeOK` |
| | `SessionsPinned` | `PanelSpec => []SessionPinnedOnce` |
| | `ModelSound` | `PanelSpec => []ModelIsCompletedPanels` |
| | `SignalsInOrder` | `SignalSpec => []DeliveredInOrder` |
| | `WakesKept` | `SignalSpec => []NoWakeLost` |
| `IndicatorWorkerProofs` | `IndicatorInvariant` | `IndicatorSpec => []IndicatorInv` |
| | `StateSound` | `IndicatorSpec => []StateIsHistory` |
| | `DecisionsInOrder` | `IndicatorSpec => []DecidedInOrder` |
| | `CheckpointsKept` | `IndicatorSpec => CheckpointMonotone` |
| `ResearchJobsProofs` | `ResearchInvariant` | `ResearchSpec => []ResearchInv` |
| | `OneSupervisorComputes` | `ResearchSpec => []OneComputation` |
| | `MaintenanceIsQuiet` | `ResearchSpec => []MaintenanceQuiet` |
| | `OutcomesFinal` | `ResearchSpec => EndedIsFinal` |

**Outbox.** The fence is not inductive by itself: it says nothing of a record
that does not pass now but might pass after the row moves. The strengthening adds
`HeldRecordsBehind`, every held record is behind its row in
(redrive generation, attempts), with equal attempts in an equal
generation only for the latest grant, and `AbsentIsFresh`, a row not yet
enqueued still has its initial columns. A claim raises `attempts` and `grants`
together, so older records fall strictly behind; a redrive raises the generation,
so records from before it leave the scope of the statement.

`RetryBudget` bounds `grants`, over failures, crashes, lapses and redrives in any
order. `BudgetInv` says when a claim is in doubt (`Doubtful`: its lease lapsed, or
nobody alive holds it) and that doubt was paid for by a crash or by a lapse
(`BudgetOf`); a claim without doubt is followed by another only after a failure,
which compared `attempts` with the limit. It needs that a completion which the
fence refuses never drops the latest claim (`CurrentFenced`), and that a worker
has one delivery at a time (`OnePosted`).

The other theorems about the relay have one step per action, over the same typing. `DeliverySafe` maps each step of
the relay to the step of the contract it takes, or shows that it takes none; it
needs `PublishedWasAccepted` for *confirm only what was consumed*.

**Serializer.** `SerializerInv` ties the session to the lock (`SessionOwnsLock`),
numbers leases at most up to the row's generation and all different
(`LeasesNumbered`), numbers what a writer saw claimed while it was inside
(`PeersNumbered`), and says a clean exit had the latest generation
(`CleanIsLatest`). Exclusion then follows from the lock having one owner.

**Handlers.** `ExecutionTypeInv` adds to the types what the handler's locals
carry at each point (`UnderWay`) and that an open order at the venue is not
complete (`OpenIsUnfilled`). `SubmittedOnce` rests on the primary key of
`pending_orders` alone: a handler about to submit created the only row of its
leg, and a sent leg keeps its row. `AttemptInv` shows the second barrier, the
fence in `create_order`: at most one handler has the attempt of a leg in hand, it
has not been sent then, and once it was sent nobody can take or abort it. Either barrier alone is
enough, which is why none of the disagreements above leads to a second order.
`FillsInv` adds that a handler carries no more fills than the venue made
(`Carried`) and that state and executions of a canonical order agree
(`LegFills`).

**Closed rows and exits.** `ClosedRowIsDead` relates the row to the venue, but the
handler that closes a row learnt the end of the order some steps ago, from the
venue or from the canonical ledger. `DeadInv` follows the news: a terminal
canonical order was aborted before it was sent or is gone at the venue
(`LegDead`), so is the order whose end a handler carries, a fill it carries
happened (`Reported`), and a handler on the exit leg has an entry that traded
(`EntryTraded`). An end at the venue is final, so no answer goes stale. The
hypothesis on `LostReply` is needed for the first two only: an adapter that turns
a lost reply into a rejection breaks them, as the run `execution_rejected` shows.

**Reconciliation.** A step of the composition is a step of the handlers or of the
cycle (`RecSteps`), and the cycle writes through the same two store methods. It
needs one more invariant, `Settled`: while it settles an entry, the order was
sent, a terminal answer is about an order that is gone, the fills it fetched
happened, and a row is closed as filled after the ledger has all its fills. None
of it uses exclusion, so those theorems hold across dropped lock sessions too. The
hypothesis `~NotFoundResult` leaves out adapters that answer *not found* when
asked with the local id of an order; with them the worker expires orders the
venue holds, as the run `reconciliation_expired` shows.

**Recoverable orders and settled cycles.** `SentIsRecoverable` and `CycleSettles`
do need exclusion: after a dropped session a replayed *working* result can reopen
a canonical order whose row another handler closed. They are proved for the states
of a behaviour before its first dropped session (`losses = 0`), with any number of
crashes and with stale commands reclaimed or not. `LockHolds` says that whoever is
in a phase of the section has the advisory lock, `InSection` and `Enclosed` that
handlers past their entry and a cycle under way are in such a phase; `OneWriter`
follows. `RowsKept` then says what the single writer relies on between its commits:
`RowKept` relates row, canonical order, caches and venue (a sent order has a row, a
closed row has a closed order, an order marked unknown is closed only when it no
longer rests, the venue's id is only on orders the venue knows), and `InPlace` says
what a handler may assume of them at each of its steps. `SweepKept` is the same for
the cycle, and `Cycle` says that every order the cycle owes is closed or still
ahead of it (`Ahead`): not in the book, then on its list under the venue's id, then
the one being settled.

`PublishedIsFinal` and `DecisionFinal` are proved and in no run: the first is part
of what `DeliveryContract` checks, the second holds action by action.

**Breakers.** `NoAdmissionWhileTripped` speaks of one step, the admission; what
makes it true is older. `TripHolds` says that, as long as a replica must refuse,
its memory reaches at least that far, and so does the stored row unless the pair
is in `forgets` (the write or the read that would have kept it failed). A restart
trades the memory for the row, which is why both are needed. `CooldownBounded` is
inductive once openings lie in the past.

**Signal relay.** Order needs `HeldClaim`: the thread that posts a record holds
the claim of its row, and every older row is published; a lease that lapses
meanwhile changes neither, since no one else claims from this partition.
`NoWakeLost` needs
`QuietWhenIdle`, which also covers the thread between its last empty claim and
its wait.

**Panels.** `prepare_panel` has no unique index on the session; that it pins a
session once rests on the two sets it reads in its transaction. `OneOutstanding`
and `OutstandingIsNewest` state what it leaves behind, and the order of the model
follows from them. `PanelAssumption` asks that inputs with one cutoff are of one
session: `validate_strategy_panel_sessions` admits a cutoff only between the close
of its session and the next open.

**Indicator worker.** `StateIsHistory` compares the durable state with the
prices, but the state is written by a process that read both some steps ago. The
invariant therefore has one conjunct per point of the process: a cold start holds
what it read and no rows exist (`ColdCore`); a replay knows the watermarks, and a
generation no newer than the stored one (`SeenRows`); a rebuilt core has every
bar of the durable state and, while the generations still agree (`Fence`), each
bar in its stored revision (`RebuiltCore`); a running core is the durable state
(`LiveCore`); a fetched batch lies ahead of the watermark (`BatchAhead`).
`RowsTogether` and `RuntimeReached` say what the database holds. The
acknowledgement is safe because a write behind the watermark bumps the
generation, so `Fence` fails. `IndicatorAssumption` asks for a longest feed and
for at least one bootstrap bar (the code's default is 500).

**Research.** A heartbeat compares one attempt with the control row, the launch
lock excludes two launches, the sweep removes containers. None of them gives
`OneComputation` alone. `ResearchInv` joins them: at most one attempt runs
(`OneRunning`) and a supervisor's attempt was claimed by it (`AttemptHeld`); a
Docker client is at work only behind the launch lock (`LaunchHeld`,
`SpawnedBehindLock`); and while `w` computes in a verified container, a
controlling `v` is not past its sweep and has the container on its list
(`Overtaken`). `stray` in these conjuncts is the lost session of the launch lock,
after which the code promises nothing. `UpkeepQuiet` says what maintenance has
established by each of its steps.

The inductive invariants were checked with TLC on small instances as well.

Only model-checked, and why:

- every liveness property (the one in the contract of `EventDelivery` among them):
  fairness and ENABLED are outside the prover;
- `ServicesTypeOK` as a whole: its breaker part types the list of failure times
  through `SelectSeq`, whose typing takes an induction over the list. `Shape` is
  what the proofs use instead. The parts of the other services are proved, as
  conjuncts of the invariants above.

## 6. What the results rest on

- Each repository method that opens one session is one atomic transaction. READ
  COMMITTED gives that only to methods that lock the rows they read.
  `create_order`, the abort and `apply_broker_result` read without a lock and
  write later. Two handlers of one command meet there only if they overlap, that
  is after a dropped lock session with stale reclaim. Both could then revive one
  aborted order, and the abort of the one whose recovery row is refused would mark
  as aborted what the other sends. `AbortProvesUnsent` and the theorems about the
  ledgers are about the atomic methods; with unbroken sessions the account lock
  keeps two handlers apart, and `SubmittedOnce` rests on the primary key of
  `pending_orders`, not on this.
- PostgreSQL row locks, advisory locks and unique constraints work as documented;
  SQLite and the memory-only deduplication mode are not modelled.
- The venue executes a submission at most once per call and its order states
  only advance. Its fills, once reported by trade id, do not change.
- Hashes and UUIDs do not collide. Clocks of replicas agree.

## 7. Coverage

The repository is large, about 225,000 lines of Python, most of it numerical
strategy code, data ingestion, read models, tests and tools. The model covers
the protocols: what several processes do to shared durable state. Coverage of
the whole is small by design.

## 8. Not modelled

- Account rebalancing (`rebalance_*.py`): a second fenced protocol of the size of
  the command handler, over plan rows of its own. It is the largest part that
  would be worth modelling next.
- Reconciliation of positions and FIFO lots, and the local-paper lifecycle:
  comparisons and fills over decimal amounts.
- The rebuild of indicator workers that have no recovery snapshot
  (`_bootstrap_historical_rebuild`).
- Restoring the research database from an older snapshot.
- Scoring, indicators, sizing and option construction: floating-point arithmetic.
- Provider and broker network code beyond the replies it yields.
- Read models and CRUD of the backend; build, migration and certification tools.

Some effects are in the models, but no text of the repository promises anything
that could be stated of them:

- `attempts` of an outbox row is compared with its limit only when a delivery
  fails, so a worker that dies in every delivery retries without end
  (`RetryBudget` charges each such claim to the crash or lapse before it);
- a retry that computes another size or price collides with the order of its
  first attempt and cannot succeed any more;
- after a dropped lock session, under stale reclaim, a result read before a
  rejection was recorded can reopen the canonical order after it
  (`SentIsRecoverable` is checked and proved for unbroken sessions);
- the success of a request admitted before a trip closes the breaker, and a
  restored breaker counts its old failures as new ones;
- maintenance that aborts leaves the research queue fenced.
