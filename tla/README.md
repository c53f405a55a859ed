# Verification of Outboxer

Outboxer is a transactional-outbox relay: producers insert rows into an outbox
table in their own transactions, and one or more relay processes collect the
rows, publish them to Google Pub/Sub or Amazon SQS, and delete what was
published. This directory holds TLA+ models of the relay, the TLC
configurations that check them on small instances, and TLAPS proofs of the core
guarantees for every instance. `PROJECT.json` maps each definition to its
source lines.

## 1. The system

| Part (under `src/internal/outboxer`) | State | Operations | What makes it correct |
|---|---|---|---|
| Batch loop: `processor.go`, `run.go` | the open transaction, the batch, the senders' reports, the batch error | begin, select and lock, triage, send, dead-letter, delete, commit; cool down, idle, exit | no row is deleted unless sent or poison (S0); ordered domains stay in order (S2); everything is removed in the end (S5, S11) |
| Collection query: `db.go` | none; it reads the table and takes row locks | routes, per-route share, `ORDER BY id FOR UPDATE` | takes a prefix of each route, starves none, never deadlocks |
| Routing: `db.go`, `providers.go`, `config_validate.go` | configuration | target and destination resolution, ownership | agrees with the routing classification of `specs/requirements.md`; shards are disjoint |
| Dead letters: `dlq.go` | DLQ table | insert in the batch transaction; metadata check at startup | exactly one per removed poison event; a relay that starts can write them, as far as its check looks |
| Pub/Sub sender: `pubsub/` | publishes in the client, paused keys | unordered bundles, ordered groups, isolation, timeouts | reports are true of the event itself; one publish per key at a time; Send returns |
| SQS sender: `sqs/`, `events.go` | jobs, semaphore, requests | options to entries, chunks, FIFO groups, isolation, per-entry results | as above; nothing SQS would take is poison; requests within SQS's limits; no slot leaks or self-deadlock |
| Listener: `notify.go` | a pool of two connections, the subscription, buffered notifications | LISTEN, wait, drain, close | no row waits for the timer once the listener is up; the pool never runs dry |
| Backlog gauge: `backlog.go` | the gauge, its floor mark, time of the last probe | update after each commit | what the gauge says is true |
| Statistics: `stats.go` | cumulative counters, logging baseline | add, snapshot, log | records partition the counters |
| Failure limiter: `failure_logger.go` | entry per signature | log or suppress | one line per window, true counts |
| Process: `run.go`, `watchdog.go`, `http.go` | what is open, a progress counter, time of the last commit | start, mark, tick, serve, cancel, clean up | a hung process is ended and no healthy one; what is opened is closed; `/healthz` is honest |
| Configuration: `config*.go` | none | load from environment and command line, validate | what is accepted can work |
| Provisioning: `init.go` | the database catalog | one transaction of DDL and grants, validation, commit | the relay works on what init made; nothing but the storage settings it tunes is taken away; it ends |

The loop calls the senders, one goroutine per target, and waits for all of
them; senders report each event through callbacks (confirmed, poison,
progress, failure). All relays share the table, and PostgreSQL's row locks are
the only thing that keeps them apart. Publishing happens inside the database
transaction, so the two can part: the transaction can be lost while events are
being sent, and the commit can succeed without the relay learning of it. The
watchdog, the HTTP server, the statistics ticker and the senders run beside the
loop. `init --apply` runs beside all of it and meets the batches in table locks.

What is hard to test: relays that interleave on locks; crashes and lost
answers between publish and commit; results that arrive after their timeout; a
whole-request error that is one neighbour's fault; the semaphore while a
request is being taken apart; notifications between the empty select and the
wait; snapshots and clock readings taken before a lock; hangs outside the loop;
startup checks that ask less than the statements need; two applies at once. `PROJECT.json` lists these hazards with
the line where each bites and the properties aimed at it.

## 2. Modules

```
Events --+-- Collect --+-- Relay ------------------ MCRelay
         |             |     |                      Collect_proofs, Relay_proofs
         +-- Outbox ---|-----+
         |             +-- Backlog ---------------- MCBacklog, Backlog_proofs
         +-- Sender (contract; instantiated by both senders)
         +-- PubSubSender ------------------------- MCPubSubSender, PubSubSender_proofs
         +-- SQSSender -- SQSChunks --+
                          SQSOptions -+- SQSEntries MCSQSSender, SQSSender_proofs
Config --+-- Routing ------+
         +-- Provisioning -+-- Selection ---------- MCProvisioning, Provisioning_proofs
Lifecycle -----+
FailureLogger -+-- FailureLogs -------------------- MCLifecycle, Lifecycle_proofs
Notify -------------------------------------------- Notify_proofs (its own run)
Stats                                               (its own run)
```

* **Events**: an event is its id. What routing, validation and the provider
  make of its columns is given by constants: its route, its ordering group
  (`NoGroup` for none), and whether it is malformed, invalid, rejected by the
  provider or may expire.
* **Collect**: the collection query as a function of a table snapshot: the
  oldest rows of each owned route up to `max(1, ceil(target / routes))`.
* **Outbox**: the abstract specification. Five variables (table, rows ever
  committed, expired rows, delivered events, dead letters) and four actions:
  insert, expire, deliver in order, remove with dead letters.
* **Relay**: extends Outbox with any number of relay processes. Its variables
  are the row locks, publishes that may still land, and per process the loop's
  position, whether the transaction is open on the server, and the local
  variables of `processEventBatch`. Locks are taken one row at a time, after
  the snapshot. Each sender is reduced to what it does for one event:
  reject, publish in turn, acknowledge, fail, give up without a result. Faults
  (failed statements, a lost connection, a commit whose answer is lost,
  cancellation, a crash) are actions bounded by `MaxFaults`. The dead-letter
  insert and the delete are visible to others only at the commit, so their
  effect is `CommitOnServer`'s.
* **Sender**: what the loop relies on when it calls `Send`: reports are true,
  events are left behind only with an error, a group is reported and accepted
  from its head on. The two senders implement it (`ImplementsSender`), with a
  refinement mapping that hides requests, slots, bundles and isolation. `Promise`
  is what the relay may conclude from these steps at any time.
* **PubSubSender**, **SQSSender**: the two senders in full, over successive
  calls of `Send`, with their goroutines, the client library or service, and
  the relay reduced to "delete what was reported". Pub/Sub: bundles, key
  pausing, isolation, the fatal timeout. SQS: chunks, FIFO jobs, the semaphore,
  refused requests taken apart inside their slot, partial results, queues whose
  URL is unusable.
* **SQSChunks**: `chunkSQSStandardEvents` as a recursive function on the number
  of turns its loop has made.
* **SQSOptions**: from the options column to a batch entry: which forms of each
  option are unreadable, which are poison, and which ids an entry carries. A
  JSON value is one of the classes its readers tell apart.
* **SQSEntries**: the contents, ids and sizes of the events the sender prepares,
  and what SQS accepts of them and of a request, stated independently of the code.
  `Sendable` comes in two strengths: strictly, all of the service's rules; otherwise
  without the three the sender does not check (the length of a custom data type's
  name, the digits of a Number, the text of a trace header).
* **Config**: defaults, environment, command line, retired and refused values,
  and the rules of `validateStorage` and `validateRuntime`, for the settings
  that routing, storage and roles depend on.
* **Routing**: `resolvedTargetSQL`, `resolvedDestinationSQL`, `routableSQL`,
  `routeOwnershipSQL` and `routeMatchSQL` as written, in SQL's three-valued
  logic, and the classification of `specs/requirements.md` they are compared
  with.
* **Selection**: the relays that run on the provisioned database, the rows and
  the tables their queries are evaluated on.
* **Provisioning**: `init --apply`. The catalog is a set of facts (roles,
  owners, grants, columns, the DLQ table's shape, the trigger, whose storage
  settings the event table has); a statement adds facts and drops some; an apply is a
  transaction over it that executes `buildInitStatements` in order, validates
  and commits. Other applies and a relay's batch hold locks it waits for. The
  relay's startup checks and what its statements need are predicates of the
  same catalog; `Unchecked` is what the dead-letter insert meets and the check does
  not look at. PostgreSQL's part is marked external in the map: GRANT by a
  role that is not the owner warns and grants nothing; a statement waits for an
  uncommitted object of the same name; an object has one owner and a table one
  definition (`CatalogAssumption`); the run role is no superuser.
* **Lifecycle**: one process from `runRelay` to its exit, as a sequence of
  operations that return in time, fail or hang. Watchdog, health window and the
  order of the deferred cleanups are in it. `publishing` is the time batches have
  spent in their publishes since the last commit, `dbFailed` whether a database
  operation has failed since.
* **FailureLogger**: `shouldLog` for one signature, and the log it makes of a
  sequence of clock readings. **FailureLogs**: what that log says, next to the
  process whose loop and senders report to it.
* **Notify**: the idle wait, the listener, the pool of two, sessions that break,
  batches that are rolled back.
* **Backlog**, **Stats**: one observability component each, with the relays or
  goroutines that race in it.

Operators whose comment begins with "Mutant" are deliberate bugs: each one,
put in the place of the definition that follows it, makes TLC report the
property named in `PROJECT.json`.

## 3. Runs

| Run | Bounds | Shows |
|---|---|---|
| relay_order | 2 relays, 3 events (2 with a key), batch target 2, 2 faults | the inductive invariant, nothing lost, disjoint live batches, known outcomes first, no lock cycle, first deliveries in order |
| relay_poison | 2 relays, 3 events (one sendable that may expire, one the provider rejects, one invalid), 2 routes, batch target 3, 1 fault | one dead letter each; refinement of Outbox; every row is removed in the end |
| pubsub | 2 unordered events (one rejected), 4 with a key (one invalid, one rejected between two good ones), timeouts, cancellation, restarts | no paused key, one publish per key; the contract of Sender; Send returns |
| sqs | 2 standard events, a FIFO group of 3 with an invalid one inside, one event of an unusable queue, 2-entry chunks, 1 or 2 slots; every sequence of up to 5 sizes; every combination of option forms | slots match requests; the contract of Sender; Send returns; chunks fit a request and lose nothing; what SQS takes is never poison, what is sent breaks no rule but the three left to SQS; ids tell events apart |
| notify | 3 rows, 2 connections, 3 faults | no deaf wait, pool suffices, no pooled subscription, every row seen |
| backlog | 5 rows, 3 routes, batch target 3, probe limit 0 or 3, routes shared or not | probe exact when unmarked; exact when drained and never overstated (relay alone on its routes) |
| lifecycle | operations of at most 1 unit, interval 12, health window 9; up to 5 clock readings of 0 to 5, window 2 | healthy processes survive; a hang is ended within two intervals, after `/healthz` reported it; it turns unhealthy only by a hang, a database error or publishes longer than the window leaves; cancellation closes everything; one log line per window and true counts |
| provisioning | 2 applies, 11 loaded configurations, 8 catalogs (fresh, one user for all, a hand-made event table, and five hand-made DLQ tables: with a required column, without the run role's privilege, serial without and with USAGE on its sequence, partitioned without a partition), a relay's batch; every relay configuration of small sources, every table of up to 2 rows, batch target 1 | init, then relay works; a relay that starts can dead-letter, and stays able to, but for what its check does not see; nothing committed but storage settings is taken away; applies end; the query equals the classification, no starvation, disjoint shards, providers reachable |

Two relays are enough for every pairwise interference on locks and ordering;
two faults allow a lost transaction plus a late publish, or a lost commit
answer plus a crash. A key needs two events for an inversion, and the third,
unkeyed event makes batches that overlap without being equal. Relays are
symmetric in relay_order; no run with a liveness property uses symmetry. Deadlock checking
is off only where the model really ends: a bounded run of ticks (Stats), a
process that has exited (Lifecycle), applies that are over (Provisioning).

Lifecycle's bounds keep the proportions that matter: an idle relay commits
within eight operations of the last commit, which fit the health window with one
unit to spare for publishing (`Slack`), and
the window with two more operations fits the watchdog interval
(`LifecycleAssumption`; 30 s timeouts against 5 and 10 minutes). A
`PUBLISH_TIMEOUT_MS` of ten minutes, which validation accepts, breaks the
assumption and would let the watchdog end a healthy relay.

Properties of pure operators (chunks, options, identifiers, the limiter, the
query) are evaluated in initial states only: they quantify over all inputs
themselves and do not depend on the state.

Settings that a deployment fixes once and that matter to a property (the
capacity of the SQS semaphore, the probe limit, whether relays share routes)
are chosen in `Init`, so one run covers them all.

Four runs expect a violation; each states a sentence of the repository's own
docs or comments:

* **relay_latecommit**: `docs/events.md` promises `id` order per key; a lower
  id that commits late is delivered late. All ordering results carry the
  assumption `CommitsInIdOrder`.
* **relay_unwritable**: S11 says poison is removed; poison whose dead letter
  cannot be written (a NaN column, a NUL in decoded text) rolls its batch back
  for ever, together with the sendable events of the batch.
* **stats_race**: intervals are said to partition the counters; the snapshot is
  read before the lock, so a record can be negative. For the same reason the
  records need not add up to the counters after the final flush of `runRelay`.
* **provisioning_columns**: `docs/events.md` calls `id` and `payload` a
  sufficient table and `init` promises a relay-ready schema; the query names
  `target` and `destination` unless they are configured as `disabled`, so an
  apply and the startup check pass and every batch fails.

More divergences showed while modelling and are not runs of their own.

* `batchDrained` looks at the rows that came back locked, so rows another relay
  deleted during the lock wait make a truncated batch look drained and the gauge
  be marked exact: `ExactWhenDrained` and `NeverOverstated` are stated for
  unshared routes. Inside the probe interval a truncated batch leaves the gauge
  and its mark as they were (`UpdateThrottled`).
* `preparePubsubEvent` logs `Failed to send event` directly, around the failure
  limiter.
* `config.go:121`, `http.go:58` and `docs/observability.md:79` say that provider
  failures never flip `/healthz`. A batch commits whatever became of its events,
  but only when the last of them has an outcome. A batch of 10000 events in as
  many FIFO groups, 128 requests at a time, each into its 30 s timeout, or an ordered Pub/Sub group whose
  publishes each take seconds, keeps the commit away for longer than the five
  minutes. So `UnhealthyHasCause` has a third cause besides a hang and a database
  error, publishing for longer than `Slack`, and what it shows of the docs' claim
  is the rest: failures that come back promptly never flip it.
* `docs/events.md` says that standard queues never receive a `MessageGroupId`;
  `prepareSQSEvent` sets it from the `messageGroupId` option (`SQSOptions!entry`).
* `specs/requirements.md:114` treats an empty `AWSTraceHeader` as absent, line 617
  of it as poison; the code rejects it, `sqs_test.go:971` expects that, and
  `PoisonIsUnsendable` follows them.
* `specs/requirements.md:593` limits the name of a data type to 256 characters and
  line 617 refuses a trace header SQS cannot represent; `options.go` checks neither,
  nor that a Number is one. SQS refuses the entry then, and isolation finds it.
* `specs/init_requirements.md:256-271` and INIT-IDEM-05 of `specs/init_scenarios.md`
  say that `init` never alters the outbox table. `eventTableStorageSQL` is an
  `ALTER TABLE ... SET` on every apply: it overwrites the four autovacuum settings
  an owner may have chosen, and waits for the lock. `NonDestructive` names these
  settings as the one thing that is lost.
* `validateDLQTableMetadata` looks at the kind of the relation, the INSERT
  privilege and the columns. The insert also needs USAGE on the sequence behind a
  serial column's default when the run role does not own the table, a partition when
  the table is partitioned (the check accepts `relkind` `p`), and whatever
  constraints and policies ask. A relay starts on such a table, and its first poison
  event rolls every batch back. `StartupMeansWritable` excepts these tables
  (`Unchecked`); two of the run's catalogs are such tables.
* `init` checks the DLQ table with the privileges of its own role. On a table of
  another owner its GRANT only warns, so an apply can succeed where the relay
  then refuses to start. `RoundTrip` is stated where the init role owns the
  objects.

### Fairness

`Relay!FairSpec` assumes that a running process takes its enabled steps
(goroutines are scheduled, statements and publishes are bounded by
`PG_QUERY_TIMEOUT` and `PUBLISH_TIMEOUT_MS`) and that an exited process is
started again (the supervisor the docs require). It assumes nothing of
producers, of time, of abandoned publishes or of faults, which are finite in
number. The senders' `FairSpec` assumes that goroutines run and that each
publish or request is answered or times out. Notify's assumes that the process
runs, timers fire and restarts happen; nothing of connections. Lifecycle's
assumes that operations which do not hang return, and time and the ticker.
Provisioning's assumes that a statement of an apply executes or times out
(`PG_QUERY_TIMEOUT`) and that its validation and commit return; nothing of the
relay's batch, which may keep its locks for ever.

## 4. Proofs

Every safety property of a passing run is a theorem, and so are the refinements.
The theorems hold for every value of the constants that the named assumptions of
the modules admit. No invariant of interest is inductive as it stands; each proof
module begins with the conjuncts of its `IInv`.

**Relays** (`Collect_proofs`, `Relay_proofs`): any finite set of events, any
number of relays, any ownership, batch target and fault bound.

* `CollectedIsPrefix`: a batch contains, with a row, every older row of its
  route. A group lives in one route (`GroupsAreRouted`), so no snapshot skips an
  event of a group. `OldestIsCollected`: no route starves.
* `Inductive`: `IInv` is preserved by every action. `NeverLost` alone is not
  inductive: that a commit deletes only settled events needs `Reports` (what is
  confirmed was delivered, what is poison is poisonous) and `Phases` (where the
  reports are empty). Mutual exclusion needs `LocksMatch`: a lock is exactly a
  returned row of an open transaction. Dead letters need both: an event of a
  live batch is still in the table, so it has none. Order needs `GroupRuns` (in
  a batch a group is sent from its head) and `GroupPrefixes` (no batch skips an
  unsettled event, and whatever is in flight, abandoned or delivered has only
  settled predecessors), which survives another relay taking over rows whose
  publish may still land.
* From it: `NothingLost`, `DeadLettersExact`, `LiveBatchesExclusive`,
  `OutcomeKnownFirst`, `DeliveredInOrder` (under `CommitsInIdOrder`),
  `RelaysImplementOutbox` (each action maps to an outbox action or a stutter)
  and `NoDeadlockOnRows`: in a circle of waiting relays, the one that waits for
  the greatest row waits for a relay that waits for a row no greater than it
  already holds, against `LocksAscend`.
* `OutboxPromises`: what the abstract outbox guarantees by itself, from its four
  actions: nothing lost, one dead letter per removed poison event, and at every
  moment no gap before a delivered event of a domain (`DomainsDelivered`, under
  `CommitsInIdOrder`). The last is a fact of every state where the order of first
  deliveries is about steps: rows inserted and expired later must not undo it.
  `DomainsHaveNoGap` carries it to the relays through the refinement alone.

**Senders** (`PubSubSender_proofs`, `SQSSender_proofs`): any events, queues,
keys, capacities and chunk limits. The two invariants share their core. `Heads`:
a group is worked off from its head, so behind a kept event nothing is reported.
`Publishes` and `Requests`: whatever is on its way, or may yet be accepted
without a reader, is valid and has only accepted or hopeless predecessors.
`Reports`: what was reported is true. Pub/Sub adds `PausedForCause` (a key is
paused only until its failed publish is read, or the process ends) and
`OnePending`; they give `KeysAreResumed` and `OnePublishAtATime`. SQS adds
`Jobs` and `FifoAlone` (a group is one job with one message on its way, never
taken apart) and `SlotsMatchRequests`. With the invariant, every step maps to a
step of `Sender` or a stutter: `PubSubImplementsSender`, `SQSImplementsSender`.
`SQSKeepsPromise` and `PubSubKeepsPromise` need nothing more of either sender: the
contract's steps keep `Promise`, which speaks of all calls so far, so a row the
relay deleted was delivered or never could be.
`OnlyUnsendableIsPoison` and `EntryIdsAreUnique` are about one event's content
and the ids, for every combination of options, all attributes and all limits. The
first is two inclusions: what SQS takes is prepared, and what is prepared is what
the rules without the three left to SQS allow (`OptionsAreSendable`).

`ChunksAreRequests` is about the chunking loop for events of any number and sizes
up to the limit. Its invariant (`Looped`) says that after n turns the closed chunks with the
current one are the first n events, that `bytes` is the size of the current chunk,
and that every chunk fits. `JobsAreRequests` carries this to the sender: the events of a queue,
taken in their order, cut into pairwise disjoint chunks, so what shares a job is one
chunk, and stays so in the calls after. `RequestsAreTaken` adds the FIFO jobs (one
message on its way, `FifoAlone`) and isolation, which only takes entries away.

**Listener** (`Notify_proofs`): any rows, any number of faults, the pool of two.
`ConnsHeld` says who holds which connection, and gives `TwoConnectionsSuffice`
and `NothingPooledListens`. `WaitHearsOfRows` needs `Covered`: from the snapshot
on, a listener that was up before it has a notification for every later row
while its session lives.

**Lifecycle** (`Lifecycle_proofs`): any interval, window and operation bound
within `LifecycleAssumption`. The invariant accounts for time: `Unmarked` and
`Uncommitted` bound, for each operation, the time the operations since the last
mark and since the last commit can have taken, with the time spent publishing
counted apart. `HealthyProcessSurvives`,
`HangsAreEnded`, `KilledWasUnhealthy` and `NoFalseAlarm` follow. The proof uses
the assumption in both of its parts, so it is what operators have to keep.
`FailuresAreLogged` is about the limiter: sequences of readings of any length and
order. Its invariant (`LogOf`) says that the last line opened the window that
`nextLogAt` closes, and that lines, counts and the pending count add up.

**Backlog** (`Backlog_proofs`): any table, batch target and probe limit.
`DrainedIsWhole` is about `batchDrained` alone: a batch no route of which fills
its share is the whole snapshot. `Unthinned` carries it, on unshared routes, to
the moment of the update: `DrainedGaugeIsExact`, `GaugeIsAFloor`,
`UnmarkedProbeIsExact`.

**Provisioning and the query** (`Provisioning_proofs`): any number of applies,
any configurations that pass `validateStorage`, any consistent catalogs.
`AppliesOnlyAdd` needs `Triggers`: between DROP and CREATE TRIGGER the next
statement restores it, which `Plans` derives from the order of
`buildInitStatements`; the storage settings are all it gives up. `ApplyThenRun` needs `Effects` (what each executed
statement has left behind; a grant is missing only on another owner's object),
`Checked`, and `Separate` with `Views`: two open applies never create the same
object, so what commits stays consistent. `StartedRelayCanDeadLetter` compares
the startup check with the insert for every definition of the DLQ table, and shows
that no step of an apply undoes what the insert needs (`WritableStays`): definitions
and owners stay, and a view only grows (`StepGrows`).
`QueryIsClassification` is a calculation in three-valued logic: the target, the
destination, the ownership and the join of the query each equal their part of
the classification, for every configuration that passes `validateRuntime` and
tables of any length; `EveryRouteIsServed`, `ShardsNeverOverlap` and
`EveryProviderIsReachable` follow from its lemmas.

**Loops over data.** The chunks, the sum of sizes and the limiter's log are
recursive functions on 0..n. The library's induction theorems take the property as
an operator, which the provers cannot instantiate, so these inductions go by least
counterexample (`LeastNumber`, from the well-foundedness of the naturals): the
values at which a set of turns goes wrong have a least one, its predecessor is
right, and one turn of the loop (`OneMoreEvent`, `OneMoreReport`) contradicts it.
That the recursive functions exist is proved along the same way. The order in which
events are cut is `InOrder`, an increasing enumeration, whose existence is a lemma;
the library's sorting operator has no definition the provers can expand.

Only model-checked: the liveness properties (`EventuallyRemoved`, `SendReturns`,
`EveryRowSeen`, `CancelEnds`, `ApplyEnds`). The prover does not reason from
fairness.

## 5. What is not modelled

* Pub/Sub's content rules (sizes, attributes) and the timestamp formats of
  `eventTimestamp`: pure predicates without structure of their own, the
  constants `Malformed`, `Invalid`, `Rejected` and the action `Age` stand for
  their verdict. A sender agrees with its provider only as far as `Rejected`
  says: an event is refused always or never.
* Byte-level conversions: base64, UTF-8 ranges, JSON text, SHA-256, SQL quoting.
  `SQSOptions` starts from classes of values, and a digest is injective.
* Answers of SQS that leave an entry out: `SQSSender!Respond` has every entry of a
  request successful or failed, as the API has it. The code would keep such an event
  without an error, and on a FIFO queue end the group's turn.
* The two errors `triageEvents` returns on rows the query cannot have returned
  (`processor.go:181`): `Relay!FailBatch` covers them with the other batch errors.
* A health window of zero, which turns the check off: `LifecycleAssumption` has a
  window that fits a batch, as the constant of `config.go` does.
* Rows are immutable: `init` grants producers SELECT and INSERT. A row edited
  between the select's snapshot and its lock would be sent to its old route.
* The deduplication window of SQS FIFO queues, provider-side duplicates beyond
  "accepted at least once"; ids of two tables that share a FIFO queue.
* The growth of the limiter's map, which has no bound in the code.
* The `.env` file, connection, TLS, credential and logging settings: copied to
  the libraries that use them. SDK client construction and web identity tokens.
* `/metrics`, log formats, the printed script of `init`: rendering without state.
* The last-batch gauges of `stats.go`, plain stores.
* The cloud test harness, which is not part of the relay.

## 6. Plan

Done: all components are modelled and checked, all safety properties and
refinements are proved, and the abstract specifications have theorems of their own.

Left: shorter proofs. The two senders share lemmas about groups, and
`Provisioning` has leaves that expand more than they need.
