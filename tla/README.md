# Verification of the food delivery platform

TLA+ specifications of the platform's core services, model-checked with TLC on
small instances and, for the properties that matter most, proved with TLAPS for
every value of the constants.  Paths below are relative to the repository root.

## 1. The system

One NestJS process (`src/app.module.ts`) holds all components.  They call each
other directly, share a PostgreSQL database (reached through two data sources,
see 2.1), Redis, Bull queues and an in-process event emitter.  JavaScript runs
every synchronous stretch without interruption; whatever crosses an `await`
(a statement, a gateway call, a lock) can interleave with any other request,
timer or event.  That is what an atomic step is in every module here.

| Component | State it keeps | Operations | Interacts with | What makes it correct |
|---|---|---|---|---|
| Circuit breaker (`src/common/resilience`) | per circuit: state, failures in the window, successes, time of the last change; registry of health checks; a metric | `executeWithCircuitBreaker`, `resetCircuit`, health-check cron, monitor events | payments, notifications | opens on time, tests only after the timeout, closes after real tests, recovers, answers every call |
| Orders (`src/modules/orders`) | `orders`, `order_items`, `order_history`, `order_transactions` | create, update status, background processing of new orders | payments; clients that repeat requests | one order per transaction id, nothing lost, statuses follow the flow, the history is the truth |
| Payments (`src/modules/payments`) | `payments`, `payment_failure_queue`, cache; the gateway's payments | process, refund, retry queue | orders (idempotency rows), circuit breaker, gateway | rows agree with the money; no double charge or refund; failures can be followed up |
| Notifications (`src/modules/notifications`) | `notifications`, preferences, templates, Bull jobs, socket rooms | create, deliver per channel, fall back, read, delete | circuit breaker, queue, event emitter | every notification is delivered or its failure is recorded; user actions are not undone |
| Tracking (`src/modules/tracking`) | latest locations in memory, a batch, Redis, driver rows, sockets | process a location, flush the batch, look up, clean up | Bull queue, Redis, orders | no accepted location is forgotten; what is looked up is the newest |
| Geofencing (`src/modules/geofencing`; not imported by `AppModule`) | grid index, delivery zones, who is in which fence | index, query, enter, exit and dwell events, driver assignment | tracking's locations | queries find every fence; events keep their subscribers right; an order is offered one driver |
| Caching (`src/common/cache`; `CacheModule` is imported by no module) | values, tag sets, locks in Redis, refresh queue in memory | get, set, get-or-set with a lock, invalidate by tag, refresh | restaurant menus | no outdated value stays; an invalidation finds what it must; one generator at a time; waiters are answered |
| Restaurants and menus (`src/modules/restaurants`) | restaurants and menus in memory; with `CACHE_PROVIDER=redis` versioned menus and a pointer in Redis | read a menu, edit it with an expected version | Redis | readers never go back behind an edit they could have seen |
| Disaster recovery (`src/modules/backup/disaster-recovery.service.ts`) | the failover begun last | minute check, automatic and manual failover, rollback | both database servers | failovers end; a promoted secondary misses nothing, the monitor does not interfere and a rollback reverses what was done (these three are not kept, see section 3) |
| Backups (`src/modules/backup/backup.service.ts`) | dump files, a catalogue of metadata files | full, incremental and log backups, verification, cleanup | the shared directory, `pg_dump` | the catalogue is true; incrementals have a base; old backups go |
| Retention, verification, replication (`src/modules/backup`) | - | placeholders over empty lists, log lines | database servers | - |
| Rate limiting, API keys (`src/common/security`) | counters per window; keys and their status | check, clean up; generate, validate, rotate, revoke | nothing consults them | - |
| Pools and replicas (`src/common/services`) | replica list and round robin | route reads | database servers; no repository uses it | - |
| Users, auth, profiles, simulator, observability, performance, security reports, HTTP plumbing, health | see `PROJECT.json` | CRUD, tokens, output | - | mostly local |

The hard behaviours: validations that are stale when they are acted upon
(orders, payments, notifications), work repeated by clients, retries and
restarted processes (order creation, payments), money and rows that change one
after the other (payments), results that arrive in a state other than the one
they were requested in (circuit breaker), timers racing with calls (circuit
breaker, geofence dwell, cache locks, failover), entries written while they are
invalidated (cache), jobs that share a directory without knowing of each other
(backups), memory lost in a restart (payments' mock gateway, tracking's batch).  `PROJECT.json` lists each one at
its line with the properties that cover it.

## 2. What is modelled

| Module | Models | Abstract specification |
|---|---|---|
| `CircuitBreaker` | one circuit, its callers, health checks, metric | `CircuitContract`: the documented three-state machine, weaker in two places it names |
| `CircuitTests` | the same circuit with a history of who was let through in the present state | two sentences of `docs/circuit-breaker.md`, which fail |
| `OrderLifecycle` | one order's `updateOrderStatus` calls and `processNewOrder` | - |
| `OrderCreation` | `executeWithIdempotency` around `createOrder` | `OrderContract`: one order per transaction id |
| `Payments` | `processPayment`, `refundPayment`, gateway, rows, failure queue | - |
| `Notifications` | creation, the Bull queue and its worker, delivery and fallback, the user's reads and deletions | - |
| `TaggedCache` | tagged entries of `EnhancedRedisCache`: set, update, invalidation by tag, background refresh | - |
| `CacheFill` | the lock of `EnhancedRedisCache.getOrSet` | - |
| `Tracking` | location reports from the socket and over HTTP, memory, batches, the queue, rows | - |
| `Geofencing` | `GridIndex`, delivery zones, enter, exit and dwell events | a scan of all fences (`LookupsAnswerLikeAScan`) |
| `DriverAssignment` | which driver is offered an order: operators without state | `AnswersOnce`, checked for every fleet of three, proved for every fleet |
| `MenuCatalog` | `RedisMenuCache` and the menus of `RestaurantsService` | - |
| `Failover` | `DisasterRecoveryService`: health checks and failovers; the two servers | - |
| `Backups` | `BackupService`: jobs, catalogue, verification, cleanup | - |

`MC<module>` gives a module's constants small values where a .cfg alone cannot;
`MCCaches` checks two modules in one run.
The theorems are in `OrderLifecycle_proofs`, `OrderCreation_proofs`,
`Payments_proofs` and `Notifications_proofs`, and for the smaller components two or
three to a module, by area: `Common_proofs` (`CircuitBreaker`, `TaggedCache`),
`Caching_proofs` (`CacheFill`, `MenuCatalog`), `Recovery_proofs` (`Backups`,
`Failover`) and `Location_proofs` (`Tracking`, `Geofencing`, `DriverAssignment`).
Modules that share a proof module share no names, which is why some carry a
prefix (`CacheSpec`, `FillSpec`, `GeoSpec`, `BackupsSpec`).

A module implements its contract by an `INSTANCE ... WITH` that maps its state to
the contract's (`CircuitBreaker` and `OrderCreation` end with theirs), checked as
the property `ImplementsContract` and proved.  Definitions named `Bug...` are faulty versions of the
definition that follows them, each with the slip it stands for; no
specification uses them.  They record that the properties can fail.

### 2.1 Correspondence with the code

**CircuitBreaker.**  `state`, `failures`, `successCount` and `sinceChange` are
`CircuitData`; circuits live in a `Map` and do not affect each other, so one is
modelled.  `Enter` is `executeWithCircuitBreaker` up to the await of the
operation, `Return` everything from the operation settling to the caller's
answer.  Between the two any other call, reset, tick or health check may run.
`Date.now()` differences are kept as ages that saturate at the bound they are
compared with.  `RunHealthChecks`, `CheckCircuitHealth` and
`ExecuteHealthCheck` are the three stretches of the health-check job, which the
cron starts every minute whether or not the last run has ended.  `gauge` is the
`circuit_state` metric as the emitted events leave it; the change from OPEN to
HALF_OPEN emits none.  `dwell` is a history variable: how long the circuit has
really been OPEN.  `CircuitTests` adds `admitted`, the callers let through in the
present state.

**OrderLifecycle.**  Each caller reads the order (`ValidateStatusTransition`:
`getOrderById` and the check run in one stretch after the read), begins a
SERIALIZABLE transaction with its snapshot, and commits the status and the
history row together (`CommitTransaction`), or gets a serialization failure
when somebody wrote since its snapshot and retries at most `MaxRetries` times
without validating again.  `Break` is a database error at any point, after the
commit included.

**OrderCreation.**  One action per statement of the idempotency service: check
the transaction row, record it, count an attempt, complete or fail the row, and
the read of the row that follows each of the last three (`ReadRowBack`), so that
an error or a crash can come between the update and the answer.  In the order's
transaction, the search for an order of the same transaction id and the insert
with everything up to the commit are one action each; nothing in between is
seen by others.  `DatabaseError` and `Crash` strike anywhere.
`ReadBackSeesInsert` is a fact about the deployment: `createOrder` inserts
through `DatabaseConnectionService`'s own data source and reads the order back
before the commit through the default one (`orders.repository.ts:146`).  As the
modules are wired these are two connections and the read finds nothing; in the
repository's tests they are one.  With `FALSE` no order is ever placed: the
theorem `NothingWithoutReadBack` says so, and the run `order_creation_as_wired`
refutes that clients are answered.  The races of the protocol need an order, so
they are checked with `TRUE`; the safety properties are proved for both.

**Payments.**  A call of `processPayment` draws a new idempotency key, so a
call, its transaction row, its payment row and its gateway payment share one
identity.  `AuthorizePayment`, `CreatePaymentRecord`, `CapturePayment`,
`UpdatePaymentRecord`, `CompleteTransaction` and `HandleFailedPayment` are the
stretches between its awaits; `RefundPayment`, `CallRefund` and `RecordRefund`
those of a refund.  `gateway` is the mock's map, lost in a `Restart`; `charged`
and `refunded` are history variables for the money that moved.  The database is
the one the entities describe (`gatewayPaymentId` unique); the initial migration
creates tables with other columns.  Circuits show as what they let a caller
see: once a circuit has counted `Threshold` failures a call may be turned away
or answered null; `CircuitBreaker` says when.

**Notifications.**  A job is a notification and a channel (a channel named twice
in one request would make two jobs with the same messages and is left out).
`pc` follows `processNotification` from await to await: read the notification
(`GetNotification`), send (`Send...`), `UpdateDeliveryStatus`, and after a
refusal on the last attempt the in-app fallback, `GetForMetadata` and
`SaveMetadata`.  One process runs (`deploy/deployment.yaml:11`)
and Bull gives its worker one job at a time, so one `job` is enough; the user's
calls interleave with every step.  TypeORM's `save` selects the row, updates what
differs and inserts a row that is gone, in one transaction: one step here,
which writes the entity as it was read.  `Fetch` and `Restart` are what Bull
does: any waiting job may be next, and a job whose process died is handed out
again `MaxStalls` times (Bull's default is 1).  The providers are stubs that
always accept; the model lets them fail, which their circuits are there for.
`OtherSendFails` is a failing send for a user who is not modelled: a channel's
circuit is everybody's.
`sent` and `answer` are history variables.

**TaggedCache and CacheFill.**  One class, two questions, two modules.  Every
Redis command is a step; the commands of one method interleave with everything
else between them, which is what its `Promise.all`s and loops allow.
`TaggedCache` keeps versions instead of menus.  A call (`GetOrSet`, `Generate`,
`Store`, `AssociateKeyWithTags`) reads the database and then stores what it read;
`UpdateMenu` changes the database first and then the entry; `Invalidate` reads the
members of a tag set, deletes keys and their tag sets one by one (`Members`,
`DeleteNext`, `RemoveKeyFromTags`, `Delete`); `StartRefresh`, `CheckEntry` and
`RefreshEntry` are the timer's pass over the keys queued for refresh, which
stores without tags.  `raced` is a history variable: the keys written while an
invalidation that may touch them was in progress.  `CacheFill` has one entry and
its lock, which carries `Date.now()` of the call that took it, runs out by
itself (`LockExpires`), and is released by a `get` and a `del`
(`ReleaseLock`, `Unlock`).  `lapsed` remembers that a lock ran out under a call or
that two calls signed in the same millisecond.

**Tracking.**  A report is the number of its arrival.  `ProcessLocationUpdate` is
the stretch up to the first await: memory, batch, and the flush of a full batch;
`Looked` and `SaveLocation` the rest of the handler; `ProcessBatch` the timer,
`Queued` and `QueueFails` the two ends of `queue.add`, which may fail after the job
was stored.  Nothing consumes the queue: its processor is not a provider of the
module.  `lost` is a history variable: what died in memory with a process.

**Geofencing and DriverAssignment.**  Everything is synchronous, so each action
is a whole request, and what interleaves is their order and the dwell timer
(`Tick`, `CheckDwellEvents`).  The plane is an integer grid: a boundary is a
sequence of integer points, `IsPointInPolygon` is the code's ray casting with
the quotient multiplied out, `CellsOf` the cells of the bounding box.  Two history
variables: `told`, where the events so far place an entity, which a clear leaves
as it is because it emits nothing, and `dropped`, the fences a clear took from
it so.  Time is counted in ticks of the dwell timer: a timestamp set between two
ticks is at least 60 seconds old at the third one after it, or at the second if it
fell on a tick, which `UpdateEntityLocation` counts as the first.  Distances in
`DriverAssignment` are given in meters, not computed.

**MenuCatalog.**  `MenuCache` is bound to the in-memory cache by default and in
`deploy/configmap.yaml`, and to `RedisMenuCache` where `CACHE_PROVIDER` is `redis`, as
in `docker-compose.yml:32`; the latter is modelled.  (The third provider of
`restaurants.module.ts`, `EnhancedRedisMenuCache`, cannot be chosen:
`env-variables.ts:63` accepts only `memory` and `redis`, and `AppModule` validates
with it.)  The module opens the one connection at startup
(`restaurants.module.ts:69`).  Commands of one connection are executed in the order
sent: `sent` is that queue, `Execute` and `Fail` answer its head, and what the answer
resumes runs up to its next command.  Reads look up the pointer, then the
version, and fall back to the repository (`FallBack`); edits check the expected
version, replace the repository's menu and send the store, a `MULTI` of two
`SET`s, in one stretch (`UpsertMenu`).  Nothing catches a command that Redis refuses:
the request is answered with the error.  Nothing listens to the client's errors
either, so a broken connection ends the process and the restaurant with it.
`newest`, `floor` and `lost` are history variables.

**Failover.**  Two servers, as far as the service can or cannot see them:
`primary` is up or down, and `behind` says whether the secondary lacks a write.  The
primary writes whatever failovers run (`Write`), `Replicate` catches up until a
promotion.  Every query of the service goes to the primary, so when that is down
all of them fail (`LagsNow`), and the lag it reports is no function of `behind`:
`getReplicationLag` may say anything, on a server that replays nothing NULL, which
becomes 0.  A failover is `Validate`, `StopPrimaryWrites` (a `pg_promote()` that
stops nothing, and may fail), `WaitForReplicationSync` (a loop of looks at the lag
that ends in success or in a thrown timeout), `PromoteSecondary`,
`UpdateTrafficRouting`, `VerifyNewPrimary`, and `Rollback` after anything thrown;
`Monitor` and `Decide` are the two stretches of the minute check.  Nothing keeps
failovers from running beside each other, and `current` names only the one begun
last, as in the code.  `promoted` is a history variable: what each failover
promoted, a secondary that had every write or one that had not.

**Backups.**  A backup is a dump file and a metadata file, each written in
place: `writeFile` truncates before it writes, so a file can be seen and left
"torn".  A job lists and reads the catalogue (incremental ones, to find their
base: `List`, `ReadEntry`, `Looked`), dumps, measures, writes its entry, verifies it
and writes it again; a cleanup lists, reads, and unlinks dump and entry of every
backup older than its cutoff.  Jobs and cleanups of the cron and of the
controller interleave at every await.  The model assumes that `BACKUP_ENABLED` is
set and that each command writes the file it names; where the code's commands do
not, section 3 says so.

## 3. What the runs check

| Run | Instance | Shows |
|---|---|---|
| `circuit` | 2 callers, 2 health-check runs, threshold 2, window 1, timeout 2, under fairness | `NoMissedOpening`, `GaugeAgrees`, `FullTimeout`, that the breaker implements `CircuitContract`, and `Recovers`: a service that stays up ends with its circuit closed |
| `order_lifecycle` | 2 callers and the processor, 1 retry, histories up to 5 rows plus calls in progress | `EveryStatusEarned` (every status on record follows a status its caller validated against, and the history ends with the order's status), `WritesOnce` |
| `order_creation` | 2 requests, 1 key, 3 faults, one connection, under fairness | `RowNamesTheOrder`, the refinement of `OrderContract`, `PlacedOrdersAreTold`: once an order is placed, a client that repeats its request is told it |
| `order_creation_as_wired` | 2 requests, 1 key, no fault, two connections, under fairness | fails, as expected: `ClientsAreAnswered` |
| `payments` | 2 payments of 1 order, 2 refunds, 2 faults, threshold 1 | `EveryChargeIsRecorded`, `RecordsTellTheTruth`, `AnswersTellTheTruth`, `NeverRecaptured`, `RefundedOnce` |
| `notifications` | 1 notification on 3 channels (working, disabled, in-app), priorities with 1 and 2 attempts, 2 faults, threshold 1, under fairness | `SentOncePerRun`, `FailuresHappened`, `FallbackOnLastAttempt`, `JobsEnd` |
| `tagged_cache` | 1 key with 2 tags, 2 callers, 1 invalidation, 1 update, 1 fault, under fairness | types, `FindableByTag`: an entry nothing disturbed is found by its tags; `EventuallyFresh`: no outdated menu stays for good |
| `caches` | `CacheFill`: 3 callers, 2 stamps, 1 look by a waiter, 1 fault, under fairness; `MenuCatalog`: 2 requests, 3 edits, 1 refused command, evictions | types, `OneHolder`: only a lapsed lock has two holders; `EveryCallAnswered`; `ReadsSeeStoredMenus`, `OutdatedOnlyByLoss` |
| `tracking` | 1 driver, batches of 2, 3 reports, 2 faults, under fairness | `NothingForgotten`, `MemoryAheadOfRows`, `EventuallyQueued` |
| `geofencing` | 6 x 6 points in cells of side 2, 3 polygons, 2 fences, 1 zone, 1 entity, dwelling after 3 intervals, under fairness | `LookupsAnswerLikeAScan`, `SubscribersAgree`, `SilentEntitiesDwell`; and, evaluated once, `EveryFleetIsServed`: for every fleet of three drivers the assignment answers with one driver nobody beats on both sorts |
| `failover` | 2 failovers, 2 overlapping health checks, 3 looks at the lag, under fairness | `FailoversEnd`, also when the lag never goes |
| `backups` | 2 jobs, the cron's and an endpoint's cleanup, 2 faults, under fairness | `CatalogueIsTrue`, `ChainsStartWithAFull`, `OldBackupsGo` |

The type invariants of the other modules are proved (section 4).

`caches` checks two modules that share nothing, `CacheFill` and `MenuCatalog`, side by
side: a behaviour of `MCCaches` follows one of them.

**Counterexamples.**  Some sentences of the documents, comments and tests are not
kept by the code, and are stated as properties of the same models, which TLC
refutes.  The first is a run of `PROJECT.json`, with a finding; the others can be run
with the configuration named here.

| Property | `tlc -config` | What TLC finds |
|---|---|---|
| `ClientsAreAnswered` | `OrderCreationAsWired.cfg MCOrderCreation` (run `order_creation_as_wired`) | with two data sources and no fault, every repetition of a request fails |
| `MetricMeansOpen` | `CircuitEvents.cfg MCCircuitBreaker` | the circuit goes to HALF_OPEN, no event is emitted, the metric goes on saying open |
| `TestsAreLimited` | `CircuitTestsLimited.cfg CircuitTests` | with one success needed, two requests are under test in HALF_OPEN |
| `TestsAreTests` | `CircuitTestsGenuine.cfg CircuitTests` | a request from before the opening succeeds in HALF_OPEN and counts |
| `EntitiesThatStayDwell` | `GeofencingDwell.cfg MCGeofencing` | an entity that reports in a fence for ever never dwells there |
| `PromotedWhole` | `FailoverWhole.cfg Failover` | a write after the step that "stops" them, a lag of 0, and the secondary is promoted without it |
| `OneAutomaticFailover` | `FailoverAlone.cfg Failover` | a check begins a failover while the last one is pending |
| `RolledBackIsReversed` | `FailoverReversed.cfg Failover` | the verification fails after the promotion, the rollback demotes nobody |
| `ValidationJudgesTheSecondary` | `FailoverValidation.cfg Failover` | the primary is down, the lag it is asked for counts as 999999, a secondary that lacks nothing is refused |

**Where the code does not do what is said of it.**  The properties of the passing
runs are what the code does keep.  These disagreements were met while modelling;
the models contain the behaviour, and no property of a passing run claims
otherwise.

- *Circuit breaker.*  The call that starts the half-open test is answered null
  and never run (`circuit-breaker.service.ts:110`; the comments say "Will be
  overwritten by retry" there and "Result of the operation if successful" at `:53`).  A success of a call from before the
  opening counts as a test (`:227`; `docs/circuit-breaker.md:38`).  HALF_OPEN lets
  every request through (`:65`; "limited requests" in `docs/circuit-breaker.md:22`).
  OPEN to HALF_OPEN emits no event (`:317`; "Emitted when a circuit changes
  state", `docs/circuit-breaker.md:71`), so the metric says open there, and whoever
  follows the events never learns of HALF_OPEN.  The fallback
  runs for every failing operation, not only when the circuit is open
  (`docs/circuit-breaker.md:39`).
- *Orders.*  A transition is validated on a status read before the transaction
  (`orders.service.ts:118`; comment at `:152`), so neighbours in the history need not
  follow the flow.  `createOrder` and `updateOrderStatus` read back through the
  other data source: with the modules as wired no order is placed
  (`orders.repository.ts:146`; `test/orders.repository.spec.ts:398` and
  `business.prd.md:69` say otherwise), and the updated order is returned as it was
  (`:247` says "Return updated order").  A repeated
  `createOrder` is answered with an object that holds only the order's id
  (`technical.prd.md:74`).
- *Payments.*  A repeated request draws a new idempotency key and charges again
  (`payments.service.ts:60`; `technical.prd.md:72`,
  `payment-gateway.interface.ts:62`).  A refund that failed is stored as a refunded
  amount and turns CAPTURED into FAILED (`:349`, `:424`).  A second declined
  payment cannot be recorded, so it is not queued (`:194`; `technical.prd.md:81`).
- *Notifications.*  A job refused on an attempt that is not its last completes
  with neither retry nor fallback (`tasks/009-real-time-notifications.md:21`).
  What the circuit's fallback answers is taken for a delivery although "The
  actual notification will be queued for retry later"
  (`notification-circuit-breaker.service.ts:76`).
- *Tracking.*  The batches are queued for a worker that is no provider
  (`tracking.module.ts:50`; `location-processing.service.ts:137`): they are never
  stored.  Locations that came over the socket reach no row.
- *Menus.*  When Redis refuses the store of an edit, the client is told of an
  error although the repository has the edit, and its repetition with the same
  expected version is refused; the pointer, which has no time to live, names the
  menu before the edit until the next one is stored.
- *Geofencing.*  Every report renews the time an entity's stay is counted from:
  an entity that reports regularly never dwells
  (`geofence-event.service.ts:156`; "Staying within a geofence for a period of
  time", `:12`).  Clearing an entity emits no exit event (`:200`): whoever follows
  the events goes on placing it where it was, which the second part of
  `SubscribersAgree` says exactly.  Deleting a fence emits none either.  An
  assigned driver stays available.
- *Failover.*  A manual failover, or an automatic one while the last is still being
  validated, can begin beside one in progress (`disaster-recovery.service.ts:279`
  says "Don't trigger if already in failover").  `stopPrimaryWrites` runs
  `pg_promote()` on the primary, and the lag read there is NULL, hence 0
  (`:321`, `:454`; "Stop writes to primary", "Ensure replication is caught up",
  `:139`, `:143`): no promotion is known to be in sync, and no property of this
  project says so.  The rollback after a promotion does not demote anybody
  (`:396`).  With the primary down the validation of the secondary fails (`:305`),
  and so does the verification.
- *Payments and caches, at their limits.*  A charged row left AUTHORIZED by a
  restart is looked at by nothing again (`payments.service.ts:236`);
  `EveryChargeIsRecorded` counts it as recorded.  An entry tagged while an
  invalidation of the tag runs loses the tag (`enhanced-redis-cache.service.ts:898`);
  a lock that has run out is deleted under its next holder (`:504`).
  `FindableByTag` and `OneHolder` say that nothing else does.
- *Backups.*  Compressed dumps fail the text check of the verification
  (`backup.service.ts:590`); `pg_dump` knows no `--where` and `pg_receivewal` neither
  ends nor writes the file that is measured (`:484`, `:492`).  `getLastBackup`
  ignores the status, so an incremental backup may rest on a full one that failed
  verification (`:516`).  The cleanup goes by age alone: it deletes the last full
  backup and the base of younger incrementals (`:385`).  One torn metadata
  file makes every later listing empty: retention stops and every incremental
  becomes a full backup.  An entry whose dump is gone is never deleted (`:578`).
- *Simulator.*  Slowing down by 8 km/h at every update stops a driver before the
  20 m that count as arrival (`movement-pattern.service.ts`).

**Why the bounds are enough to be interesting.**  Two callers, each of which
calls again and again, let one call settle late while the other opens the
circuit and tests it; thresholds of 2 make "one short of the threshold" a state
of its own; a timeout of 2 and a window of 1 separate "expired" from "not yet".
Two callers and the processor make every order of read, validate, begin and
commit; five rows reach REFUNDED by the shortest path with a detour.  Two
requests race, and either is repeated after the other has placed the order; three
faults let both fail after the commit and one of the repetitions besides;
transaction ids share nothing but the supply of order ids, so one is enough for
TLC, and the theorems are for any number.  Two refunds are the smallest race, and the amounts 0, 1 and 3 of a
payment of 2 are "not given", a part and too much; with `Threshold = 1` a circuit
is able to turn calls away.  Notifications share nothing but the worker and the
circuits, so one with three channels gives it three jobs to choose from; one
attempt makes every refusal the last, two tell the last from the others, and
two faults are enough for a job to stall once too often or for an error to
follow a crash.

In the cache, keys meet only in the sets of shared tags, and every method treats
them one by one: one key under its own and a shared tag, with two callers, an
invalidation and the refresh, has every pair of writers, and one update makes
"outdated" possible.  Of three callers that miss, one holds the lock, one waits
and one arrives; two stamps let two sign alike or not.  Three reports with
batches of two fill a batch and begin the next, which may meet the one that
failed on its way back.  Polygons that end on cell borders, cross four cells and have a
notch are where box, cells and ray casting could disagree; two fences are enough
to delete one and keep the other.  Of two requests for a menu one reads while the other edits, or both edit; three edits
let a reader of the first be overtaken twice.  Two failovers overlap, a third would be told from them by
nothing, and three looks tell a first, a middle and a last one; for the
counterexamples two do.  Two backup jobs are a full one and one that
needs it, and two cleanups overlap.
Every counter is bounded by a named constant (`MaxHistory`, `MaxRetries`,
`MaxFaults`, `MaxVersion`, `MaxReports`, `MaxLooks`, `MaxTries`, `MaxBackups`) or
saturates at the bound the code compares it with.  Deadlock is checked except
where the system may rest because its bounded supply of work is used up.

**Fairness.**  `FairSpec` of `CircuitBreaker`: time passes, operations settle, and
callers keep arriving; the last is an assumption about the traffic, without
which nothing ever leaves OPEN, the code having no timer of its own.
`FairSpec` of `OrderCreation`: a request being served proceeds (the event loop and
the database answer or fail), and a client repeats a request until it is
answered, strongly fair because the slot it needs may be busy.  `FairSpec` of
`Notifications`: the worker goes on with the job it has and fetches one when it
has none (Bull's backoff delays end, and its search for stalled jobs runs every
30 seconds).  `TaggedCache`: calls and the refresh in progress proceed, and an
entry that is not written again runs out, as Redis sees to.  `CacheFill`: calls
in progress proceed; that locks run out is not assumed.  `Tracking`: the timer
fires, the queue answers, handlers proceed.  `Geofencing`: `setInterval` goes on
calling.  `Failover`: a failover under way proceeds, its pauses end;
nothing is assumed of the servers.  `Backups`:
jobs and cleanups proceed while the process runs, and the cron job keeps
starting cleanups.  All of these are weakly fair except the client of
`OrderCreation`.  Faults are never fair, and neither is anything users do.

## 4. What is proved

| Component | In | Theorems | Properties |
|---|---|---|---|
| `OrderLifecycle` | `OrderLifecycle_proofs` | `TypeCorrect`, `HistoryStaysCurrent`, `StatusesAreEarned`, `NoDoubleWrite` | `TypeOK`, the part of `EveryStatusEarned` about the last row, `EveryStatusEarned`, `WritesOnce` |
| `OrderCreation` | `OrderCreation_proofs` | `TypeCorrect`, `RowsNameOrders`, `CreationImplementsContract`, `OneOrderPerTransaction`, `NothingWithoutReadBack` | `TypeOK`, `RowNamesTheOrder`, `ImplementsContract`; the last two are stated there: at most one order per transaction id, and none at all when the read-back cannot see the insert |
| `Payments` | `Payments_proofs` | `TypeCorrect`, `ChargesAreRecorded`, `RowsTellTheTruth`, `AnswersAndQueueAreHonest`, `CapturedOnlyOnce`, `RefundsHappenOnce` | `TypeOK`, `EveryChargeIsRecorded`, `RecordsTellTheTruth`, `AnswersTellTheTruth`, `NeverRecaptured`, `RefundedOnce` |
| `Notifications` | `Notifications_proofs` | `TypeCorrect`, `MessagesSentOncePerRun`, `NamedFailuresHappened`, `LastRefusalIsRecorded` | `TypeOK`, `SentOncePerRun`, `FailuresHappened`, `FallbackOnLastAttempt` |
| `CircuitBreaker` | `Common_proofs` | `TypeCorrect`, `OpeningIsNeverMissed`, `GaugeIsRight`, `TestingAfterFullTimeout`, `BreakerImplementsContract` | `TypeOK`, `NoMissedOpening`, `GaugeAgrees`, `FullTimeout`, `ImplementsContract` |
| `TaggedCache` | `Common_proofs` | `CacheTypeCorrect`, `InvalidationFindsEntries` | `CacheTypeOK`, `FindableByTag` |
| `CacheFill` | `Caching_proofs` | `FillTypeCorrect`, `LockHasOneHolder` | `FillTypeOK`, `OneHolder` |
| `MenuCatalog` | `Caching_proofs` | `TypeCorrect`, `ReadersSeeStoredMenus`, `OnlyLossOutdates` | `TypeOK`, `ReadsSeeStoredMenus`, `OutdatedOnlyByLoss` |
| `Backups` | `Recovery_proofs` | `BackupsTypeCorrect`, `CatalogueCanBeReliedUpon`, `EveryChainHasItsBase` | `BackupsTypeOK`, `CatalogueIsTrue`, `ChainsStartWithAFull` |
| `Failover` | `Recovery_proofs` | `TypeCorrect` | `TypeOK`, with what a failover's status and promotion say of its step |
| `Tracking` | `Location_proofs` | `TypeCorrect`, `ReportsAreKept`, `MemoryIsAhead` | `TypeOK`, `NothingForgotten`, `MemoryAheadOfRows` |
| `Geofencing` | `Location_proofs` | `GeoTypeCorrect`, `GridAnswersLikeAScan`, `FollowersAgree` | `GeoTypeOK`, `LookupsAnswerLikeAScan`, `SubscribersAgree` |
| `DriverAssignment` | `Location_proofs` | `EveryFleetServed` | `AnswersOnce(fleet)` for a fleet of any size |

The assumptions are those of each module's `ASSUME` (numbers are natural,
thresholds positive, special values distinct); sets of callers, requests,
payments, drivers and keys may be of any size, infinite ones included.
`NothingWithoutReadBack` assumes `~ ReadBackSeesInsert` besides, and
`EveryFleetServed` that `Limit > 0` (`assignBestDriverForOrder` keeps the default
of 5).  `CoordinatesAssumption` of `Geofencing` says that points are pairs of
integers, nothing of the shape of a boundary: it may cross itself, repeat points
or have none.  Every safety property a passing run checks, and the type invariant of every
module with variables, is the conclusion of one of these theorems.

**The arguments.**
- *Circuit breaker.*  `FullTimeout` speaks of the history variable `dwell`, the
  code of `sinceChange`; `TimerIsDwell` says they agree while OPEN, which is what
  a late failure that restarted the timer would break.  `GaugeKept` says what the
  events amount to: the metric is 1 exactly while not CLOSED; it implies
  `GaugeAgrees`, which leaves HALF_OPEN out because nothing is emitted there.  `NoMissedOpening` needs
  that the failures are finitely many, part of `TypeOK`.
- *Order lifecycle.*  A stale validation is still a validation: `Validated` says
  that between reading and committing, the status a caller checked against is in
  the history, and `HistoryOnlyGrows` keeps it there.  That is why each status
  is earned although the flow between neighbours is not respected.
- *Order creation.*  `FreshIds` (no two requests hold one generated id, and none
  that is placed) and `ResultsPlaced` (what an operation returned is a committed
  order of its key) are what `CompleteTransaction` rests on; with
  `RowNamesTheOrder` they are inductive, and every answer then names a committed
  order, which is the refinement.
- *Payments.*  `PaymentSound` says what each place of `processPayment` knows of
  its row and of the gateway (before the capture: not charged; after it: charged
  exactly if the outcome says so), `RefundSound` that a refund in progress is of
  a charged payment whose `processPayment` has written its last, and that the
  result it carries is the gateway's.  The gateway's refusal of a second refund
  is what makes blind updates harmless for good news.
- *Notifications.*  A job that waits or has not been sent in its present run has a
  stall for every message that went out (`Unsent`), because after a send no
  error leads back into the queue; `Fresh` says that a channel still to be
  queued has no history.  Rows name only real failures because a refusal, once
  answered, is only overwritten in a run that follows a stall: what any reader
  holds (`EntitiesSound`, `WorkerSound`) stays true until it is saved.
- *Tracking.*  `MemoryIsNewest`: a location in memory is the last its driver
  reported, because memory is set in the stretch in which the report arrives and
  the clean-up only empties it; rows hold only reports that arrived
  (`RowsArrived`).  `NothingForgotten` is inductive with the types: a batch is
  handed on and put back whole.
- *Failover.*  Only that status, step and promotion of each failover belong
  together, which each step keeps by itself.  What one would want to prove, that
  promotions are in sync and failovers do not overlap, the code does not keep.
- *Menus.*  `Storing`: stores on their way carry menus in the order of the edits,
  none older than what Redis has, and the last of them the repository's menu;
  a read of the repository and the store of what it gave are one stretch, and one
  connection keeps the order.  `Looking`: a version asked for is no older than what
  Redis had when its reader began.  Both need `Matching`: a request awaits only its
  own command.  `Settled` says that Redis lags only behind a store on its way or
  one it refused.
- *Tagged cache.*  `Undisturbed` says, of an entry that nobody wrote while an
  invalidation that may touch it ran, who answers for its tags at each moment: a
  call between its `SET` and its last `SADD`, which has tagged it with all but the
  tags it still has to do; the tag sets themselves; or an invalidation that has
  it on its list and will delete it.  The second clause covers the refresh,
  which stores without tagging and relies on those that are there.  The third
  is the subtle one: between an invalidation's reading of a tag set and its
  deleting of the set, an entry there must be on the invalidation's list, or the
  set would take the only way to the entry with it.
- *Lock of getOrSet.*  `HolderInv`: as long as the lock has not lapsed, what Redis
  holds is the stamp of the call that was given it, and of a call that has just
  read its own stamp there and is about to delete it.  Two holders would have the
  same stamp, hence have signed in the same moment, which is a lapse.  The `get`
  and `del` of the release being two commands is why the place `unlock` is part of
  the invariant.
- *Backups.*  `BackupSound` follows one backup through its job (the dump is whole
  from the measuring on, recorded before there is an entry, no longer touched by
  its job when it is old) and `CleanerSound` says that a cleanup has only old ones on its
  list, whenever it made the list; so whoever loses a dump is old, and jobs, cleanups
  and crashes do not meet.  A base is on record before an incremental one starts
  its dump, because it was read from an entry and entries come after the record.
- *Geofencing.*  Two arguments.  `InsideIsBoxed`: a point that ray casting puts
  inside a boundary lies in a cell of the boundary's box, whatever the polygon.
  Some edge crosses the ray, so one corner lies on each side of the point in the
  first coordinate and one at or beyond it in the second (`CrossedEdge`); were
  none at or before it, the ray would cross every edge that passes the point's
  first coordinate (`EdgeBeyond`), and around a closed walk these are even in
  number (`ChangesAreEven`, by induction along the walk), while inside means odd.
  `GeoInv`: the index holds exactly the cells of the fences there are
  (`IndexExact`), and ids are given away once, so that no subscriber was told of a
  fence that comes after one of the same name; what a clear dropped and what the
  service holds are kept apart, because a report in a dropped fence is an enter
  event again.
- *Driver assignment.*  Both sorts are strict total orders (`BeforeOrders`), a
  finite set has a first element in one (`FirstElement`), the short list is an
  initial part of the first (`ShortListIsInitial`), and the chosen driver is the
  first of it in the second; who would beat the driver on both sorts would be on the
  short list too.

**Induction.**  The induction theorems of the library take an operator and cannot
be used with the installed provers; `InductiveSet` states induction for a set of
numbers instead and is derived from the well-foundedness of `<` (`LeastElement`).
That is enough for what is counted here: crossings along a boundary, and who is
ahead of a driver.

**Model-checked only.**  The liveness properties `Recovers`, `PlacedOrdersAreTold`,
`JobsEnd`, `EventuallyFresh`, `EveryCallAnswered`, `EventuallyQueued`,
`SilentEntitiesDwell`, `FailoversEnd` and `OldBackupsGo`: they hold under fairness,
whose proofs need ENABLED, which the installed provers do not handle.

## 5. Plan

What would come next, in this order.

1. Contracts for `Payments` (a ledger of charges and refunds) and `Backups` (a
   catalogue that promises a dump per entry), and the refinements proved from
   the invariants of section 4.
2. A composition of `OrderLifecycle` with `Payments`: `processNewOrder` charging an
   order that is being cancelled.
3. `PaymentRetry` once something calls `processRetryQueue`, and the tracking worker
   once it is a provider: today both would be checked in isolation from any caller.
4. Larger instances of `TaggedCache` (two keys that share a tag) and `Backups`
   (a third job).

The runs stay at a dozen, about one for each component's questions.

## 6. What is not modelled

- *Payments.*  The retry queue beyond joining it, the payment cache's expiry (no
  key is ever looked up twice), `voidPayment` and `getPaymentStatus`: nothing calls
  them.  Amounts and currencies, except the amounts of refunds.
- *Orders and notifications.*  Prices, addresses, texts and templates;
  preferences, which are one upsert; sharding, which is a pure hash.
- *Caching.*  `clear`, `deleteByPattern` and deletion by key, which nothing calls;
  the version entries, which nobody reads; statistics;
  `src/common/cache/enhanced-redis-cache.ts`, an unused copy.  The application
  imports `CacheModule` nowhere; the class is modelled as its own module wires it.
- *Tracking.*  The rows of active deliveries, which nothing creates; sockets,
  their rooms and the connection limit.
- *Geofencing.*  `findGeofencesWithinRadius` (floating point) and the geo caches,
  which nothing uses.  A stored delivery zone's copy of other data than its fence.
- *Menus.*  Onboarding and listing (synchronous maps); `invalidate` and `warmCache`,
  which nothing calls; the in-memory cache, whose reads and writes are one stretch
  each; `EnhancedRedisMenuCache`, which no valid configuration selects.
- *Disaster recovery and backups.*  The weekly test, whose steps log or read the
  lag; `restoreFromBackup` and the upload, which are stubs; retention,
  verification and replication services, whose placeholders find no backups;
  the controller's placeholder endpoints.
- *Security.*  Rate limits and API keys are consulted by nothing, the scheduler that
  would rotate and report is not a provider, and the compliance service consists of
  stubs.
- *Users.*  Registration is a check and an insert around the hashing of a password;
  two registrations of one address can both pass, and no property says more.
- *Read replicas.*  No repository reads through them.
- *Everything else* `PROJECT.json` lists as not modelled, with its reason there:
  output only (observability), tuning (performance services), stateless request
  processing, wiring, generated load (the simulator).
