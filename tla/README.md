# A TLA+ model of Fineract Business Intelligence

The platform copies tables of many Apache Fineract databases into one
warehouse.  Two engines can do it: a Python extractor that pages through tables
by timestamp, and a Kafka sink that applies Debezium change events.  A feature
flag per (source, table) says which engine writes, which one shadows it, and
under which *ownership epoch*; operators move tables from one engine to the
other while both keep running.  This project models the parts where that can go
wrong: the flag and the people and processes that change it, the sink that must
lose, repeat or misplace nothing while the flag moves, consumers rebalance and
processes fail, the extractor that must miss nothing in a table that changes
while it is read, the registry of sources with the reconciler that keeps Kafka
Connect and the replication slots in line with it, and the change log by which
dbt recomputes what has changed.

`PROJECT.json` lists the components, the runs, the source lines each definition
translates, the hazards, the findings and the theorems.  Paths below are
relative to the repository.

## 1. Inventory

| Component | State | Operations | What makes it correct |
|---|---|---|---|
| Feature flag (`controlplane/ownership.py`) | none: a pure function on a row | assign, start_shadow, begin/record_reconciliation, cutover, abort_shadow, pause, resume, force_assign | the rows it returns are legal; what changes the routing changes the epoch |
| Ownership repository, guard trigger, cutover gate (`ownership_repo.py`, `reconcile.py`, `warehouse/schema/platform.sql`) | `meta.ingestion_ownership`, its audit, `reconciliation_run`, `cutover_approval` | apply (lock, read, compute, guarded update), run_cutover_gate, approve_cutover | dual control; a cutover only after a reconciliation of that shadow; the engine changes only by cutover or administrator |
| Ownership cache and router (`routing/*.java`) | an immutable snapshot per process | refresh by timer and after a fence, route | stale snapshots are harmless because they are fenced |
| Sink worker (`SinkWorker.java`) | assigned partitions, buffered records, held partitions, retry state | poll, process, settle, hold, isolate, rebalance callbacks | nothing lost, nothing stuck |
| Warehouse write path (`WarehouseWriter.java`, `meta.apply_staged_batch`) | `raw.*`, `raw_shadow.*`, `meta.consumer_offsets` | verify skips, fence, deduplicate, upsert under the ordering guard, store offsets; promote and clear the shadow | rows and offsets move together; only the owner writes; newest wins |
| Dead-letter publisher | a Kafka topic | publish, flush | a letter is acknowledged before its offset moves |
| Python extractor (`extractor/*.py`) | watermarks `(cursor, pk)` per table | plan, page, lookback, NULL-cursor phase, delete reconciliation | no row missed, none deleted wrongly, fenced by the epoch |
| Source registry, onboarding, retirement (`registry.py`, `tasks.py`, `retire.py`) | `source_registry`, generation floor | upsert, create, lifecycle, bump generation, onboard, retire, forget | a row follows its lifecycle and is removed only when it owns nothing; generations never repeat |
| Connector planner and reconciler (`connectors.py`, `reconciler.py`) | Kafka Connect and replication slots, compared with the registry | list, observe, plan within budgets, execute, inspect slots, forget tombstones | converges; never deletes what is wanted now, whatever it read |
| Change log, dbt cursors, run lock (`platform.sql`, `dbt/macros`) | `entity_change_log`, `dbt_change_cursor`, `dbt_mart_cursor`, `dbt_mart_dirty`, `dbt_run_lock` | record, advance to the horizon, recompute, take and release the lock, purge | no change and no partition is passed over or purged unread |
| Envelope parser and value conversion | none | parse | an event, nothing, or poison |
| Contracts, DAGs, Superset, marts, load generator, scripts | configuration | – | not behaviour of this kind |

How they interact.  Operators and DAGs call the repository, which writes the
flag under an *exclusive* advisory lock.  Engines write under the *shared* lock
of the same flag and compare the epoch they planned with.  The cache reads the
flag without any lock, so a route is a guess that the write re-checks.  The gate
calls the repository twice and compares the copies in between, without a lock.
Debezium's generation (`capture_generation`) comes from the registry and orders
events that different captures produced.  Offsets live in the warehouse, in the
transaction that applies the events; Kafka's own group offsets are not used.
The reconciler reads registry and flags, and acts on Connect and on the source
databases, which share no transaction with them or with each other.  Both
engines log what they write to `raw`; dbt reads the log up to the oldest open
transaction.

What is hard here: a flag that moves between routing and writing; a snapshot
read in two statements; a worker that has lost its partition and does not know;
source rows that become visible out of the order of their timestamps, in a table
read page by page;
a commit whose outcome is unknown; records held back in the middle of a
partition; retention; NOW() being the start of a transaction that then waits
for a lock; reads without the lock (approvals, the comparison); plans that are
carried out long after what they are based on was read; transactions that commit
out of the order of their ids; a lease that a killed run leaves behind; and
everything that must eventually happen after any of these.

## 2. Modules

| Module | Models | Theorems |
|---|---|---|
| `Ownership` | `transition()`, the guard trigger, the CHECK constraints, the fence; no state | |
| `FeatureFlag` | the control plane of one (source, table) | |
| `MCFlag` | symmetry of names and gates for `FeatureFlag` | |
| `FeatureFlagProofs` | | the flag: section 6 |
| `Extremes` | | least and greatest elements of sets, for the proofs |
| `SinkRouting` | cache filter, route, skip re-check, ordering guard; no state | |
| `SinkDelivery` | the sink of one topic: workers, consumer group, retention, warehouse, operators | |
| `SinkProofs` | | types, offsets, ownership of writes, skips, the breaker |
| `SinkLossProofs` | | no record is lost |
| `SinkRowProofs` | | rows are as new as what was applied; no row is resurrected |
| `MCSink` | small logs and initial owners for `SinkDelivery` | |
| `Extractor` | the Python engine on one table: source, runs, watermarks, copies, operators | |
| `ExtractorProofs` | | types; no row falls behind the watermark |
| `MCExtractor` | initial tables and owners for `Extractor` | |
| `Connectors` | lifecycle table, names, `desired_connectors`, `plan_actions`, the slot decisions; no state | |
| `Capture` | registry, flags, onboarding, retirement and reconcilers on Connect and slots | |
| `SourceLife` | abstract: what the registry promises of a source | |
| `CaptureProofs` | | `Capture` implements `SourceLife`; types; generations are fresh |
| `MCCapture` | small fleets and requests for `Capture` | |
| `ChangeLog` | writers, `entity_change_log`, dbt runs, fact, marts, cursors, lock | |
| `ChangeLogProofs` | | types; no change and no partition is skipped |
| `MCChangeLog` | the initial partitions, the clients of the loans and the shadows for `ChangeLog` | |

`FeatureFlag`, `SinkDelivery`, `Extractor` and `Capture` share `Ownership`: the
requests that the first specifies in detail are the ones that move the flags
under the others, the row is the same record, and both engines pass the same
fence (`FenceAccepts`).

Definitions that begin with `Faulty` are never used by a specification.  Each is
a plausible mistake in the definition after it, kept to show that the property
named in `PROJECT.json` would notice it.

### Ownership and FeatureFlag

`OwnershipRow` is the row of `meta.ingestion_ownership`; every request has a
guard `Can<Request>` (its `_require` checks) and a next row.  NULL is
`NoEngine`, `NoOne` or 0.  `GuardAllows` and `GuardStamp` are the trigger
`meta.guard_ownership_update`, `RowChecks` the two CHECK constraints.

`OwnershipRepository.apply` is one transaction.  Between its lock and its commit
nobody else changes or needs the row, so that part is one action
(`Do<Request>`); `Begin` is a separate action because NOW() is fixed there and
the lock may come later.  `GateBegin`, `GateStart`, `GateRun`, `GateRecord` are
the four moments of `run_cutover_gate`; `GateFail` is its death at any of them.
`ApproveRead` and `ApproveInsert` are the unlocked read and the insert of
`meta.approve_cutover`.  The verdict of the comparison is a free choice.  A run
is identified by its `started_at`, unique because each transaction that reads
NOW() has a tick of its own; `finished_at` is the same NOW().

`shadowNo`, `starter` and `owned` are history variables: they say what really
happened, against which the columns of the row are judged.

### SinkRouting and SinkDelivery

The log of a partition is a constant sequence of records: an event (source, key,
LSN, delete or not), a rejected event (one whose data the warehouse refuses
whenever it is written), poison (unparseable), or empty (a tombstone or a
heartbeat).
Records are produced before the behaviour begins; a record not yet polled cannot
be told from one not yet produced.  A worker is a process with its own cache.

| Action | Code |
|---|---|
| `LoadSources`, `LoadFlags`, `LoadFails` | `OwnershipCache.load` and `refresh`: two statements, no transaction |
| `AssignPartition`, `RefusePartition` | `onPartitionsAssigned`: stored offset, gap check, seek |
| `RevokePartition`, `LosePartitions` | the two other rebalance callbacks and `dropBuffered` |
| `Evict` | `max.poll.interval.ms` expires at the coordinator; the worker goes on |
| `Expire`, `PollReset` | retention, and `auto.offset.reset=earliest` |
| `Poll` | `poll` and the buffer, one record at a time |
| `RouteBatch`, `PublishFails` | `process`: take the snapshot, route, publish dead letters |
| `WriteBatch`, `Fenced`, `WriteInterrupted` | `WarehouseWriter.write` and `settle`: committed, refused, or unknown |
| `RejectBatch` | SQLSTATE 22 or 23: `isolate` begins, or the batch is retried because the breaker has tripped |
| `IsolateApply`, `IsolateSplit`, `IsolateFenced`, `IsolateDone` | `isolate`: a part is written, halved, or repeated with a new snapshot; the holds are applied at the end |
| `Quarantine`, `TripQuarantine` | `quarantine`: publish the record, then store its offset; `QuarantineLimitException` and `quarantineTripped` |
| `IsolateInterrupted`, `AssignmentThrows` | an isolation ends by a failed call, or by a rebalance callback that throws inside `keepAlive` |
| `Crash` | the process ends at any point; buffers and cache are gone |
| `AssignTable` … `ForceAssignTable` | requests, with `promote_shadow` and `clear_shadow` |
| `RegisterSource`, `EnsureRows` | onboarding in two transactions |
| `BumpGeneration` | a generation change that leaves this table's epoch alone |

The write is one action because it holds the shared locks of every flag it
depends on until it commits, and requests take the exclusive lock.  `fate` is a
history variable: what has become of every record (applied to a copy, in a copy
discarded since, skipped, empty, dead-lettered).  `crossed` records the
partitions in which retention removed something that no assignment could have
compared with a stored offset.

Deliberate abstractions: between two attempts at a batch the code polls with the
partitions paused, the model may add records (more behaviours, not fewer).
A part of an isolation is published and written in one step, since its snapshot
is fixed and the write re-checks everything; rebalance callbacks come between
parts, in `keepAlive`.  The fifth fence in a row is a choice, and so is the
order in which records of different partitions are in the buffer: a part of an
isolation is the set of its records, and its first half any half that takes the
records of a partition from the front.
`stopped` is a process that the supervisor restarts only to meet the same gap
again.  The PYTHON engine's own writes to `raw` are not in this module.
What `retire.py` does to the flags is in `Capture`.
Left out: SQL errors that stop the sink, NULL LSNs, updates with partially available columns, a stored offset
beyond the log end, and starting without a stored offset anywhere but at the log
start.

### Extractor

The source table is external: a transaction stamps a row with the clock when it
writes it (`SourceWrites`) and the row becomes visible when it commits
(`SourceCommits`), at most `CommitDelay` ticks later; a row whose cursor is NULL
was there before (`legacy`).  Versions make copies comparable.  A run handles one
table and target, as the assignments of one run are independent; it dies at any
point by `Fail`.

| Action | Code |
|---|---|
| `Plan` | `plan_assignments`: the epoch is read once, PAUSED tables are left out |
| `Obstructs`, `Refused` | the replica lags, the close of business has not run, or the source is not running; `ensure_replica_safe` and `_ensure_cob_completed` end a run |
| `Lock`, `Unlock` | the session lock of `_process`; the reset of a backfill |
| `Open`, `ReadPage` | `_extract`: start with the lookback, `build_page_query` |
| `WritePage`, `Fenced` | `_write_page` with `meta.apply_staged_batch(…, 'PYTHON')` and the watermark, one transaction; or SQLSTATE FBI01 |
| `SwitchPhase` | the end of the NULL pass, a transaction without a fence |
| `CompareCounts`, `ListMissing`, `Recheck`, `WriteDeletes` | `_reconcile_deletes`: bucket counts, keys of a bucket, `_still_missing`, chunks of deletes |
| `StartShadowing` … `ResumeTable` | requests, with `clear_shadow` |

Each statement against the source is an action of its own, because the source
changes between any two.  The two sides of a comparison are read together: while
a run holds the session lock only `clear_shadow` changes its copy, and what it
removed is either not listed or fenced.  There is one bucket.  PYTHON's upsert
has no ordering guard (`v_guard` is TRUE), so a page overwrites.  The gates are
looked at together with the lock, since a run changes nothing between them.  Not
here: cutovers and what KAFKA writes, withheld PII columns, progress records.

### Connectors, Capture and SourceLife

`Connectors` holds the pure parts: `LifecycleTransitions`, the name of a
connector and slot as a pair (source, generation), `BuildConnectorConfig` (which
fails for a source without a connection), `DesiredConnectors`, `PlanActions`
with its two budgets and its order, and what the slot clean-up keeps.  `Capture`
puts them to work:

| Action | Code |
|---|---|
| `Register`, `EnsureEnvSource` | `upsert` and `ensure_rows`: a new row starts at the generation floor, an existing one takes the new connection |
| `SetLifecycle`, `Bump`, `MoveFlag` | the lifecycle and bump-generation commands; requests, of which a KAFKA shadow starts a generation |
| `OnboardCheck` … `OnboardActivate`, `OnboardFail` | the five transactions of `onboard_source`, and its end at any of them |
| `RetireRead`, `RetireCommit` | `retire_source`: the row is read, and in a later transaction the floor, lifecycle and flags are written |
| `RetireConnectors`, `RetireSlots`, `RetireNoSlots`, `RetireForget`, `RetireFail` | `retire_artifacts`, `--forget` and the tombstone |
| `List`, `ReadOwners`, `Observe`, `Execute` | `reconcile`: the shard, the owners, each cluster, one action of the plan at a time; the owners, which the code reads in two statements, are read in one step |
| `BeginCleanup`, `Inspect`, `ForgetSource`, `Finish` | `cleanup_stale_slots`: flags and rows are read again, then source by source |
| `Abort` | the time-out of the task, a lost connection |
| `TaskStarts`, `SlotReleased`, `TaskFails` | external: a connector's task opens (or creates) its slot and stores a position; the server notices that a reader is gone; a task fails |
| `CheckExpires` | the interval of a slot check has passed |

One flag stands for the tables of a source; its epoch is not kept, since nothing
here compares it.  `saved` is what Connect remembers per connector name after
the connector is gone.  Bounds of the model besides its constants: nobody
registers a source while its retirement runs; nobody hands tables to a RETIRED
source (one fleet begins that way); a registration creates ACTIVE rows only;
`NoConfig` stands for a missing host, database, user or secret; synthetic
sources, the purge of rows and `meta.connector_state` are left out.

`SourceLife` says what the registry promises, with two variables: the state and
generation of each row, and whether tables are owned under its name.  The
refinement maps the row of `meta.source_registry` to the first and the guard
trigger's condition to the second.

### ChangeLog

A writer (the sink, the extractor, a promotion) takes a transaction id, and when
it commits its rows and its log entry become visible together.  The entry is what
the code logs: a loan, a client, the reference tables or the source.  Only the
first names a loan; the others are joined, when `int_snapshot_scope` is built,
with the loans that are in `stg_m_loan` and disbursed at that moment (`Reaches`).
`absent` are the clients that are missing or deleted: their loans stay live for
the scope and get no facts (`Current`).  `dropped` is a history variable, the
loans that a promotion took out of `raw` and nobody has written since; see the
known gaps.  A dbt run builds
`int_change_window`, `int_snapshot_scope`, the fact and the marts; each model is
one transaction, and the fact two steps, because its INSERT and its post-hooks
read `raw` at different times.

| Action | Code |
|---|---|
| `TxBegin`, `TxRollback` | external: the transactions of the writers |
| `ApplyLoan`, `ApplyClient`, `ApplyGlobal` | `apply_staged_batch` of an authoritative batch: one entry per loan or per client, or one for a reference table |
| `PromoteShadow` | `promote_shadow`: the table is replaced, and one entry for the source logged |
| `Start` | `acquire_run_lock` and `acquire_dbt_lock`: a build of all or some marts, or the weekly full refresh of the marts |
| `BuildWindow`, `BuildScope` | cursor, horizon (`pg_snapshot_xmin`), run id; the loans that the entries in between name, and the live loans behind the others |
| `ReadRows`, `CommitFact` | `fact_loan_snapshot` with `record_dirty_partitions` before and after, and `advance_fact_cursor` |
| `BuildMart`, `Finish` | `mart_recompute_window`, delete and insert, `advance_mart_cursor`; `finish_run` |
| `ModelFails`, `Killed`, `LeaseExpires` | what depends on a failed model is skipped and `finish_run` runs; a killed run leaves its lock until the lease ends |
| `PurgeChangeLog` | any part of what the cursor has passed |

The history of a loan is the transaction that wrote it last; dates and the
roll-forward to a new day are left out.  A mart is what it takes from the fact.
What two of them take from the staging views, and so from `raw` as it is when the
mart is built, is left out: the flow metrics of `mart_portfolio_health` (lines
79-126) and `mart_repayment_behavior`.  Bounds: a transaction makes one change; a
loan keeps its client; there is one source; a run ends before its lease, so there
is one run at a time; the fact is built only with its ancestors; and only the
marts are rebuilt in full.  The last three matter, and so do the flows: see the
known gaps.

## 3. Runs

All passing runs are exhaustive for their constants.

| Run | Question | Bounds, and why they suffice |
|---|---|---|
| `FlagDatabase` | legal rows, fencing epochs, authorised engine changes, `IndependentApproval` | two logins (one admin), one gate, epoch up to 6, 7 ticks: two shadows of one table, with an approval read in the first and inserted in the second; 2.4 million states |
| `FlagPrompt` | `NamedDualControl`, and `ReconciledCutover` when no transaction waits for its lock (`MaxWait = 0`) | two names, two gates, two shadows, 7 ticks; 1.95 million states |
| `SinkZombies` | loss, overwriting, resurrection and offset regress with two workers and retention | three records with a re-delivery, of which two may expire, two failures of any kind (an eviction and a crash, an interrupted commit and a rebalance …), a pause; workers are symmetric; 334 000 states |
| `SinkFlags` | every request against one worker with a stale or torn snapshot | two sources in one partition, one not yet registered and sending an event the warehouse refuses, so that flags move between the parts of an isolation; epochs to 4, generations to 2; 724 000 states |
| `SinkProgress` | `NothingVanishes`, `BreakerStopsDeadLetters`, and `EverythingIsConsumed` under fairness, with one worker | five records: an event, one of an unknown source, two the warehouse refuses, poison; at most one record quarantined per isolation, so that the breaker trips; two failures, two generations, and a pause of the source that sends nothing refused; 54 000 states |
| `SinkSkipStuck` | `UnownedTablesAreSkipped`: **violated** | |
| `ExtractorCopies` | `NothingLeftBehind` with two overlapping runs | two keys, pages of one row, a lookback of 2 ticks that a commit delayed by 1 and a run of 1 just fit into, 4 ticks and 3 committed versions: a late commit, a page before and one after it, and a later run; 3.2 million states |
| `ExtractorConverges` | `CopyConverges` under fairness | all requests, a failed run, every gate, tables with and without a cursor, a deletion that meets an unseen insertion; 360 000 states |
| `ExtractorNulls` | `NothingLeftBehind` with an aborted and restarted shadow: **violated** | |
| `CaptureLife` | `WantedConnectorsStay`, `WantedSlotsStay`, `FreshGenerations`, `ImplementsLife`, and `Converges` under fairness | six fleets: a source that moves to KAFKA and back, one that arrives, one that leaves and returns, with and without a connection, one that is paused, bumped and reconfigured, and a tombstone that owns tables, each beside one that stays; one reconciler, budgets of one so that something is always deferred, generations 0 and 1, one failure; 225 000 states |
| `CaptureReturn` | `FreshGenerations` when the source is onboarded again: **violated** | |
| `ChangeLogCatchUp` | `FactIsOwed`, `MartIsOwed`, and `MartsCatchUp` under fairness | two loans of one client and two partitions, so that one is left and one entered; shadows in which one loan is anywhere, or missing; two marts, so that one can fail alone; two transactions, so that the second commits first; one failed model or killed run; 1.52 million states |

`MaxEpoch`, `MaxGeneration`, `MaxClock`, `MaxWait`, `MaxFaults`, `MaxExpired`,
`MaxWrites`, `MaxGen`, `MaxTx`, `LifecycleTargets`, `Offers`, `Requests` and
`Operated` (the sources that operators act on) are bounds of the exploration;
everything else among the constants is a setting or a set of participants of the system.  `MaxBatch = 2` is the smallest batch in which
one record can hold or fence another, and the smallest that can be split.
`QuarantineRows = 1` and `QuarantinePercent = 10` make the limit of an isolation
one record.  In the sink one key is enough: rows of different keys
never meet.  In the extractor two are needed, so that a page ends between rows
and counts can cancel out.

`CommitDelay` and `RunTime` are assumptions about the environment rather than
bounds of the search: a transaction of the source commits within `CommitDelay`
of its stamp, and the pages of one extraction are read within `RunTime`.
`NothingLeftBehind` needs `CommitDelay + RunTime <= Lookback`.  With
`RunTime = 2` in `ExtractorCopies` it fails: a row is stamped and not yet visible
when its place is read, the run goes on for longer than the lookback, and its
last page moves the watermark so far that the next run starts after the row.
`EXTRACT_LOOKBACK_SECONDS` thus has to cover the longest extraction of one table
as well as the longest transaction of the source.

Deadlock is checked except in the `Flag*` runs, where a control plane that has
used up its clock and epochs is simply idle, in the `Extractor*` runs, where the
same holds of a PAUSED table, in `SinkZombies`, where a sink that finds a gap
stops on purpose, in `ChangeLogCatchUp`, where nothing is left to do when the
marts are up to date, and in the `Capture*` runs.  In the other sink runs the refresh timer
never stops, so the absence of a deadlock says little; progress is what
`SinkProgress` is for.

### Fairness

`SinkDelivery!FairSpec` assumes, of each worker: the refresh timer keeps firing and a batch
that was routed is written or refused, an isolation goes on (weak fairness: one thread does it, and
nothing else runs in that thread meanwhile); what a poll can deliver again and
again – records, an assignment, the news of a loss – is delivered (strong
fairness: every iteration of `loop()` polls, and retries and refreshes come
between polls, so the actions are enabled again and again but not
continuously).  Failures and operators are never assumed to act.

`Extractor!FairSpec` assumes that a transaction of the source ends, that a run
goes on until it is done or fails (one process, nothing else to do), and that
incremental and reconcile runs of a target are started again and again when they
can be planned: `airflow/dags` schedules both.  The strong fairness of `Plan`
says that the scheduler serves each of them although they exclude one another in
the model's single process.

`Capture!FairSpec` assumes that a reconciler takes its next step
(`fbi_connector_reconciler` runs every two minutes, one run at a time), that the
database server notices a closed replication connection, and that the interval
of a slot check passes.  Operators, onboarding, retirement and the start of a
task are never assumed.  `Converges` is about the time after the registry and
the flags have come to rest; failures are finitely many by `MaxFaults`.

`ChangeLog!FairSpec` assumes that transactions end, that a run goes on, that a
lease ends, and, strongly, that a complete build starts when it can again and
again: `fbi_dbt_build` is scheduled every 15 minutes and competes with whatever
else people run for the lock.

## 4. Findings

* **A table that Kafka has no part in blocks its partition** (`SinkSkipStuck`).
  The cache drops rows without KAFKA, so such an event is routed SKIP with epoch
  0; the re-check compares 0 with an epoch that is at least 1 and refuses the
  batch.  Reloading gives 0 again.
* **The end of a NULL pass is not fenced** (`ExtractorNulls`).  `_extract` stores
  the watermark 1970-01-01 in a transaction that compares no epoch.  If the shadow
  was aborted and started again since the run was planned, the new, empty shadow
  starts its life after its own NULL pass, and its rows without a cursor are
  missing until a backfill.
* **An onboarded source can meet its former self** (`CaptureReturn`).
  Retirement records the next generation in `meta.source_generation_floor`, which
  only `upsert` reads.  `onboard_source` calls `create`, which inserts generation
  0; the connector of the returning source has the name of the deleted one, and
  Connect still has its position.  `CaptureLife` shows that registration by
  `register-source` is safe.

Two observations without a run of their own.  Retention that overtakes a consumer
while it runs, for example while a pause holds its partition, makes the client
reset it to the log start in silence; the stored offset is compared with the log
start only at an assignment.  `GapsOnlyByReset` shows that this, and a partition
without a stored offset, are the only ways past expired records.  And
`force_assign` to the engine a table already has needs no administrator, because
the guard asks for one only when the engine changes; it ends a pause.

### Known gaps

Met while the bounds above were chosen; each is outside the passing runs by the
bound named with it.

* `shadow_started_at` is NOW() of a transaction that may wait for its lock
  (`platform.sql:483`); a gate that ran over the previous shadow during the wait
  satisfies the test for the new one.  `FlagPrompt` has `MaxWait = 0`; with 1,
  `ReconciledCutover` fails.
* Events are stamped with the cached generation (`WarehouseWriter.java:208`),
  which a bump changes without an epoch.  An older update that is staged again
  under the new generation overwrites a delete staged under the old one; it takes
  two workers, one of them behind the bump, or one that starts below the stored
  offset because its assignment failed inside an isolation.  `SinkZombies`,
  which checks `NoResurrection`, has no bumps.
* A gap that an assignment finds inside an isolation does not stop the sink: the
  client wraps the `SinkFatalException` in a `KafkaException`, which
  `SinkWorker.java:312` takes for a dead letter that was not published, while
  `docs/cdc-ingestion.md:662` promises a stop.  With a refused event and
  retention together `GapsOnlyByReset` fails; `SinkZombies` has no refused
  events and `SinkProgress` no retention.  What the client does with its position
  afterwards is external.
* A hold met in one part of an isolation outlives the revocation and return of
  its partition in a later `keepAlive`: `heldFrom` is not purged, so the partition
  is paused with nothing buffered, and a worker that has no other partition never
  comes to resume it.  With `Operated` both of the registered sources,
  `EverythingIsConsumed` fails; in `SinkProgress` the source that may be paused
  sends nothing refused.
* An isolation that is interrupted starts counting afresh, so the retries of one
  batch can dead-letter more records than one limit allows.
* Two reconcilers that overlap around a generation bump (a DAG run and the
  follow-up of a request) can delete the connector and the slot of the new
  generation, and one reconciler can do so when a table returns to KAFKA without
  a bump (`assign` or `force_assign` after KAFKA had been given up).
  `CaptureLife` has one reconciler, and its captured sources are not given up
  and taken back within a generation.
* A reconciler that planned a creation before a retirement with `--forget` can
  execute it afterwards; the next run deletes the connector, but the slot it made
  is left, since no row names its database.  Slots of generation 0 are not
  inspected while the source wants no connector (`reconciler.py:277`).
* A registration that changes the connection (`--allow-connection-change`) leaves
  the slots in the former database; one that meets a tombstone clears its label.
* Tables assigned to a RETIRED tombstone make the guard trigger end every
  reconcile run at that source, and the sources after it are not inspected.
* `retire_source` reads the generation before its transaction: a bump in between
  is not covered by the floor.
* A creation that Connect always refuses keeps its place in the budget
  (`connectors.py:221`), and as many of them as the budget allows starve the rest.
* `dbt run -s fact_loan_snapshot` reuses the window, and so the run id, of an
  earlier run: the dirty entries it writes may be ones the marts have already
  passed, and a partition that a loan left is not recomputed.
* The dbt lease is not renewed.  A run that takes longer than it lets a second
  one start beside it, although the documents say that two never interleave.
* A full refresh of the fact records no partition a loan has left.
* A loan that is live in `raw` and is missing, deleted or not disbursed in the
  shadow that replaces it enters no scope: `promote_shadow` logs one entry for the
  source (`platform.sql:1339-1347`), which `int_snapshot_scope.sql:105-114` joins
  with the loans that are live afterwards.  The change cursor passes the entry, and
  the rows of the loan in the fact and in the marts stay until the loan is written
  again or the fact is rebuilt, although `docs/cdc-ingestion.md:611` says that the
  write path "records every change" and 630 that the fingerprints of an incremental
  and a full build "must be identical".  If the promotion commits between the
  INSERT of the fact and its post-hook, the partition the loan had just moved to is
  not marked either.  `dropped` holds exactly these loans; without the exception
  for them `FactIsOwed` fails as soon as the promotion commits, since no entry
  reaches the loan.
* The flows that `mart_portfolio_health` and `mart_repayment_behavior` read from
  `raw` are as new as the mart, not as the fact.  A loan that moves after the
  commit of the fact is counted where it is by a mart that recomputes that
  partition anyway; if it moves on before the next run, that run marks where the
  fact had it and where it is, and the flows of the partition in between stay.

## 5. What the passing runs show

`NothingVanishes` is the documents' "consumed = applied + skipped +
dead-lettered": no interleaving of holds, fences, evictions, crashes and unknown
commits stores an offset beyond a record that has no fate; nor does an isolation,
whose later parts must not pass what an earlier part held back.
`BreakerStopsDeadLetters` says that a tripped breaker is not forgotten before a
batch applies or the sink restarts.  `AppliedIsVisible`
and `OffsetsNeverRegress` say that a zombie's late write, or a repeated one,
undoes nothing.  `OnlyTheOwnerWrites` and `SkipsAreCurrent` say that a stale
cache can neither write a copy that was taken away nor drop events of a copy
that was just given.  `AppliedIsVisible` also checks promotion and clearing of
the shadow: the history and the copies move together.  `EverythingIsConsumed`
says that after a failure, and with tables that are written, unregistered or not
yet flagged, every record is consumed, refused ones included unless the breaker
stays tripped; a table that stays PAUSED, or that KAFKA
has no part in, is excluded by its premise, the second because of the first
finding.

`NothingLeftBehind` says that the watermark never lies: whatever a copy lacks is
in the part of the source that the next run reads, although rows appear behind
the pages already read, a backfill resets the watermark between two incremental
runs, and a row is deleted in the warehouse a moment after it was inserted again
at the source.  `CopyConverges` adds deletes:
counts that agree by accident hide a deleted row only until the row that makes
up for it is copied.

`WantedConnectorsStay` and `WantedSlotsStay` compare what is deleted with what
the registry wants at that moment, not with what the process had read: names
carry a generation that only grows, and sources whose configuration is unknown
are protected.  This is within the run's bounds, one reconciler and no return to
KAFKA without a bump; the known gaps say how each of the two breaks it.
`Converges` says that budgets, failed calls, half-finished retirements and skipped
slot checks only delay the reconciler.
`ImplementsLife` is the refinement of `SourceLife`, liveness aside.

`FactIsOwed` and `MartIsOwed` are debts: what is not up to date is written down
somewhere that a later build reads.  The second needs the partitions a loan left
as well as those it entered, and has a disjunct for the moment in which a loan
moved once more between the two readings of `raw`.  An entry that names no loan
owes only the loans it still reaches, those that are live: loans that are deleted
or written later are owed by entries of their own.  The only loans no entry owes
are those a promotion dropped, and the three properties except them and nothing
else.  `MartsCatchUp` says that the debts are paid, also after a run was killed
and its lease had to end first.

## 6. What is proved

For all values of the constants, and without regard to the bounds' values:

| Module | Theorem | Statement |
|---|---|---|
| `FeatureFlagProofs` | `TypeCorrectness` | `Spec => []TypeOK` |
| | `ChecksNeverFire` | `Spec => []ConstraintsNeverFire` |
| | `EpochsFence` | `Spec => EpochFencesRouting` |
| | `ApprovalIsIndependent` | `Spec => IndependentApproval` |
| | `NamesAreIndependent` | `Spec => NamedDualControl` |
| | `EngineChangesAreAuthorised` | `Spec => EngineChangeAuthorised` |
| | `CutoversAreReconciled` | `Spec /\ StartsAreNotOvertaken => ReconciledCutover` |
| | `PromptCutoversAreReconciled` | `MaxWait = 0 /\ Spec => ReconciledCutover` |
| `CaptureProofs` | `LifeIsImplemented` | `Spec => ImplementsLife` |
| | `FlagsHaveRows` | a flag never outlives the row of its source |
| | `CaptureTypes` | `Spec => []TypeOK` |
| | `GenerationsAreFresh` | `DisjointShards /\ OnboardedOnce /\ LabelledAreRetired /\ Spec /\ []RetiresWhatItRead => FreshGenerations` |
| `ChangeLogProofs` | `ChangeLogTypes` | `Spec => []TypeOK` |
| | `NoChangeIsSkipped` | `Spec => []FactIsOwed` |
| | `NoPartitionIsSkipped` | `Spec => []MartIsOwed` |
| `SinkProofs` | `SinkTypes` | `Spec => []TypeOK` |
| | `OffsetsOnlyGrow` | `Spec => OffsetsNeverRegress` |
| | `SinkWritesAsOwner` | `Spec => OnlyTheOwnerWrites` |
| | `SkipsAreJustified` | `Spec => SkipsAreCurrent` |
| | `TrippedBreakerHolds` | `SkipUnknown /\ Spec => BreakerStopsDeadLetters` |
| `SinkLossProofs` | `NoRecordVanishes` | `Spec => [](Retained => NothingVanishes)` |
| | `GapsOnlyWhereOvertaken` | `NothingRefused /\ Spec => []GapsOnlyByReset` |
| `SinkRowProofs` | `AppliedRowsAreVisible` | `Spec => [](FirstGeneration => AppliedIsVisible)` |
| | `NoRowIsResurrected` | `OneChangePerLsn /\ Spec /\ []FirstGeneration => NoResurrection` |
| `ExtractorProofs` | `ExtractorTypes` | `Spec => []TypeOK` |
| | `NoRowIsLeftBehind` | `LookbackCovers /\ NoLegacyShadow /\ Spec => []NothingLeftBehind` |

Every invariant that a passing run checks is thus a theorem, some of them under
hypotheses that are named formulas and explained below.  The runs stay: they
check liveness, and `SinkFlags` checks `AppliedIsVisible` across a bump, which
the theorem leaves out.

### The flag

Assumptions: `NoEngineAssumption` (NULL is no engine) and `FlagAssumption` (NULL
is no login or name, administrators are logins, settings and bounds have their
types).

The inductive invariant `FlagInv` has five parts.  `TypeOK` and
`ConstraintsNeverFire` are needed by every other step: `resume` keeps a legal row
legal only because a paused row with a shadow was legal.  `StarterRecorded` ties
the two requester columns to who really started the shadow; the guard and
`NamedApproval` look only at the columns.  `ApprovalsNameTheirShadow` is what
makes unlocked approvals safe: an approval, or one still being made, whose epoch
is the row's epoch names the current shadow, because every start and end of a
shadow raises the epoch.  `OwnershipRemembered` says `ever_owned` is truthful,
without which a table forced back to NONE could be assigned afresh.

Each action keeps the invariant by one of four lemmas: `CommitKeepsInv` for
requests that only raise the epoch, `StartShadowKeepsInv`, `GateUpdateKeepsInv`
and `OtherStepsKeepInv`.  The action properties follow from `RowMoves` (a step
leaves routing and epoch alone or is a commit that raises the epoch) and
`OnlyCutoverPromotes` (a step after which the shadow's engine owns the table is a
cutover).

A row of `meta.reconciliation_run` does not say which shadow was compared; the
guard infers it from `started_at >= shadow_started_at`.  `RunsNameTheirShadow`
says that the inference is right: of the runs stored, those that seem to be of
the current shadow are.  The gate keeps it, and so does every request but the
start of a shadow, which needs that no stored run is younger than its NOW()
(`StartsAreNotOvertaken`).  That is exactly what the first of the known gaps
violates.  Where no transaction waits for its lock it holds, because
transactions and runs have ticks of their own (`TicksDiffer`).

### The registry implements SourceLife

Assumptions: `ConnectorsAssumption` and `CaptureAssumption` (finite sets of
sources and clusters, budgets of at least one, settings and bounds of their
types, initial generations within the bound).  The initial states map to
initial states, and every step of `Capture` is one of `SourceLife` or leaves row state, generation and ownership alone.  The
invariant `LifeInv` is what the steps need: a flag exists only under a row, so
that a creation finds nothing owned; the processes under way name sources; and
the row a retirement has read was a row.  One lemma per kind of abstract step
(`CreateStep`, `AdvanceStep`, …) turns an update of one row and one flag into
that step, and one lemma per process (`OperatorIsSeen`, `RetireCommitIsSeen`, …)
finds the update in its actions.  Nothing is assumed about what the reconciler
has read: the guard trigger alone makes its removals safe.

### The registry, Connect and the slots: types

`CaptureTypes` says more than that values have their types: `TypeOK` bounds
generations, and `Execute` chooses the first action of a plan, so the type of
what a run carries holds only if a plan always has one.  It does because the
order of actions is total on a plan (`Plans`), and that needs `Wants` (at most
one connector of a source is wanted) and `Fleet` (Connect has at most one
connector of a name in a cluster): two actions of the same kind then differ in
what they are ordered by.  The first action is a least counterexample
(`PlanHasFirst`).

### Generations are fresh

A position in Connect outlives its connector, so a source that returns must not
get a name that has one.  When the row is gone, the danger is not only what
Connect has but what may still get there: a run may have listed a row, or
planned a creation, that it carries out after the retirement.  `Trace(n)` is the
union of these, and `Settled(s)` says that the floor is above all traces of `s`.
The invariant `FreshInv` says that no trace is ahead of its row while there is
one (`TracesAreOld`), that what is forgotten or labelled to be is settled
(`ForgottenIsSettled`), that a retirement settles its source before it removes
anything (`RetirementSettles`), and that a run forgets only what was a tombstone
when it read it and is settled (`RunsForgetTombstones`).  The hypotheses:

* `DisjointShards`: with two runs on one source, a stale one could forget a row
  that was registered again since.  One run, or several over different sources,
  satisfies it; a DAG run and the follow-up of a request on the same source do
  not, as in the known gap about overlapping reconcilers.
* `OnboardedOnce`: a source that is onboarded was not retired before.  Without
  it the property is false: `CaptureReturn`.
* `LabelledAreRetired`: in the initial fleet only retired rows carry the label
  that lets the reconciler forget them, as only a retirement sets it.
* `[]RetiresWhatItRead`: no bump comes between the two transactions of a
  retirement, one of the known gaps.

### No change and no partition is skipped

Assumption: `ChangeLogAssumption` (the marts are a finite set, every loan has a
client, homes and shadows put loans in partitions or nowhere).  `FactIsOwed` holds
at the commit of the fact only because of what the run did three transactions
earlier, so `CursorInv` follows a run:
`CursorIsBehind` (nothing that may still commit is behind the cursor),
`WindowIsComplete` (the window starts at the cursor and nothing below its
horizon is open), `ScopeIsComplete` (the scope has every loan that an entry in the
window reaches, but for loans that came back after the scope was built, for which
there is an entry at the horizon or after it) and
`RowsAreOwed` (what the rows that were read lack was logged at the horizon or
after it, or the loan was dropped).  The four writers share one description,
`Writes`: a commit adds one entry, and leaves each loan as it was, reaches it with
the entry, or drops it.

`MartIsOwed` excuses a partition whose wrong loans are pending or dropped.  That is not
inductive: the run that consumes the entries of a loan marks the partition the
fact has it in and the one it goes to, and no third one.  `MartOwed` therefore
adds that a wrong loan of an unmarked partition is in that partition, in the
fact.  `RunsGrow` orders the run ids of dirty entries, cursors and window, so that
what a run marks is after every mart's cursor.

### The sink

Assumption: `SinkAssumption` (finitely many partitions, whose logs are sequences
of records; settings and bounds of their types).  No bound is placed on the number
of sources, keys, workers or records.

*Types.*  `TypeInv` adds to `TypeOK` the ranges of positions: buffers, parts of an
isolation and stored offsets lie within the log.  It rests on lemmas about what
each operator returns (`Batch`, `Letters`, the newest event of a key in a batch),
which `Extremes` supports.  From it and a case distinction on what a step
does to the warehouse (`WarehouseSteps`) follow `OffsetsOnlyGrow` (the GREATEST of
the upsert) and `SinkWritesAsOwner` (the fence inside the transaction); no
property of the caches is needed, which is the point of the fence.

*Skips.*  Here caches matter, because a skip is re-checked by comparing epochs
only.  `SkipInv` says that a cached entry gives KAFKA a part in the table or is
the missing entry of epoch 0, that a flag of epoch 0 is a row that does not exist,
and that a source without a generation has no rows.

*The breaker.*  A worker that isolates has not tripped.  `SkipUnknown` is needed:
under the policy `dlt` an event of a source that a stale cache does not know is
published by its route, refused by the warehouse or not.

*Loss.*  A partition is `Whole` while retention has taken nothing from it or, in a
topic without refused records, while no consumer of it was overtaken.  `LossInv`
says of a whole partition that everything below the stored offset has a fate, and
of each worker that what it has taken out of its buffer has one (`ReadIsCovered`),
that its position is not below the log start (`NotOvertaken`), that the dead
letters of a routed batch are out (`LettersAreOut`), and that in an isolation
whatever is in front of a record is in its own part or an earlier one, unless it
was held (`PartsInOrder`).  The last is why isolating in halves may store offsets
part by part.  `NothingRefused` is needed for `GapsOnlyByReset`, because an
assignment that throws inside an isolation goes on without a seek: a known gap.

*Rows.*  `RowInv`: rows and caches have the generation of the registry or an
earlier one; every row is that of a change in the log; and a row is at least as
new as each record applied to its copy.  LSNs compare only within a generation, so
`FirstGeneration` is the hypothesis; across a bump a row may be replaced by one of
a lower LSN, and events are stamped with a generation that may be stale (known
gaps).  `OneChangePerLsn` says that two changes of a key with one LSN are one
change delivered twice; the guard admits an equal LSN.

### The extractor

Assumption: `ExtractorAssumption` (finitely many keys; settings and bounds of their
types).  A run passes rows over: they become visible behind the page it has
reached.  Such a row is `Late`: its stamp is at most `CommitDelay` before the
beginning of the run.  `ExtractorInv` says, of a run whose epoch is current, that
what lies before its position is copied or late (`ReadIsCopied`), that what lies
after it is on the page it has read, beyond a full page, or late (`PageIsNext`),
that a row on a page is the source's row unless that was written since
(`PageIsRecent`), and that a row about to be deleted that is there again will be
read again (`GoneIsAhead`).  The watermark is at most `RunTime` after the beginning
of the run that stored it, so the lookback of the next run reaches every late row
if `CommitDelay + RunTime <= Lookback` (`LookbackCovers`): the reason for the
remark on `EXTRACT_LOOKBACK_SECONDS` in section 3, now for every value.  Two runs
do not mix because the one that is past the lock holds it (`Locked`), and a run
planned before a request is fenced because requests raise the epoch (`Planned`).
`NoLegacyShadow`, that tables with rows without a cursor belong to PYTHON from the
start, excludes the finding of `ExtractorNulls`.

### Least counterexamples

The library's induction theorems cannot be used (they take an operator as a
parameter).  Where an argument is an induction over numbers or finite sets, as for
"a finite set of records has a newest one" or "a plan has a first action",
`Extremes` takes the least element of a set of counterexamples, from the
well-foundedness of the natural numbers.

### Only model-checked

The action properties `WantedConnectorsStay` and `WantedSlotsStay`, which are
planned, and all liveness properties: liveness under fairness and ENABLED are
outside what TLAPS 1.4.5 proves.

## 7. Plan

What is left, in this order.

1. Proofs: `WantedSlotsStay` and `WantedConnectorsStay`, under hypotheses that
   hold in `CaptureLife` and exclude the known gaps about reconcilers.
2. `Extractor`: cutovers, that is what the prod watermark means after a
   promotion; several sources per invocation.
3. `TableRequests`: requests over several tables, per-table commits of a
   cutover, lock order of requests and of writers.
4. Abstract specifications: a table copy that applies each event of the owner
   once and in order, implemented by the sink under the hypotheses of its
   passing runs; an abstract flag (owner, epoch), implemented by `FeatureFlag`.

## 8. Not modelled

Field-level decoding of Debezium envelopes, SQL of the marts, Superset and its
row-level security (a script that creates or updates objects of another product
one after the other), the load generator, packaging, secrets and scripts: data
transformation, configuration or I/O without state of its own.  Progress and
metrics: counters nobody decides by.  Airflow: an external scheduler, present as
fairness and time-outs.  Partition creation and the purging of statistics:
housekeeping.  Requests over several tables: plan item 3; `PROJECT.json` says what is left out of each component that is modelled
in part.
