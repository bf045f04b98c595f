# A TLA+ development of the OpenBao secret-sync plugin

The plugin keeps versioned secrets inside OpenBao and copies them to external
stores (AWS Secrets Manager, Kubernetes secrets, GitLab CI variables). A request never talks to a remote store: it changes the source
records and durably queues operations; dispatch passes claim those operations,
call a provider and record the outcome. This directory models that queue and how it is stored, the passes and
what starts them, the crash recovery around them, the requests that configure
associations and destinations, the providers, the drift sweep and the cache of
provider connections. It checks the models with TLC on small instances and
proves the central properties with TLAPS for every instance.

All code paths below are relative to `src/internal/backend/` unless they name
another directory.

## 1. Inventory

| Part | State it keeps | Operations | What makes it correct |
|---|---|---|---|
| Source versions (`path_data.go`, `path_versions.go`, `storage_source.go`) | `metadata/<path>` with the current version, one record per version | write, delete, undelete, destroy, metadata requests, pruning | metadata never names a missing version; version states and metadata agree after recovery |
| Outbox (`enqueue.go`, `association_enqueue.go`, `storage_outbox.go`, `path_queue.go`) | operation records by deterministic id, index entries by path, state and due time | enqueue, replace, re-enqueue, retry, cancel, scan, prune terminal records | accepted work is never lost; `queue_capacity` bounds the queued operations; the index finds every record wherever a write stopped |
| Dispatcher (`dispatcher.go`) | claim fields of a record; the pass's own copy of it | claim, stale check, load context, provider call, commit, fail, abandon | a live claim is not disturbed; one committer per operation; outcomes are not applied out of order |
| Enqueue intents (`recovery.go`, `storage_transactions.go`) | `enqueue_intent/<path>/<version>` | record before the mutation, delete after it, recover | wherever a mutation is interrupted its work is stored or recoverable; intents drain |
| Status (`storage_status.go`) | one record per association object | put, mark disabled, drift fields | the reported version never goes back; SYNCED tells the truth |
| Associations (`path_associations.go`, `association_*.go`, `storage_association.go`) | association records, name reservations | create, update, enable, disable, sync, delete | one association per remote name; an enabled association has its work; a rejected request changes nothing |
| Providers (`src/internal/providers/*`) | none; the remote objects with ownership metadata | upsert, delete, plan, read state | success means the value is there; an older version never overwrites a newer one; what belongs to others is not touched; plan, reconcile and upsert agree |
| Configuration (`path_config.go`, `runtime_state.go`) | global config, restore epoch and guard | write, gates | no claim while dispatch is switched off |
| Event loop (`event_dispatch.go`, `backend.go`) | wakeup channel, retry timer, worker goroutine | signal, run, periodic callback | a wakeup is not lost; due work is dispatched |
| Runtime cache (`provider_runtime_cache.go`) | runtimes by destination, builds under way, epochs | get, single-flight build, wait, publish, invalidate, clear, close | the runtime matches the configuration the caller read; each runtime is closed once; no stale build is cached; no waiter is stranded |
| Write locks (`write_locks.go`) | striped mutexes, `enqueueMu` | lock | no deadlock; one request per path |
| Destinations (`path_destinations.go`, `storage_destination.go`) | destination records and sensitive versions | two-phase write, delete | a destination never names sensitive data that is missing |
| Reconcile (`path_reconcile.go`, `periodic_reconcile.go`) | drift fields of the status | sweep, manual reconcile, repair | every object has its turn; status settles on the truth; drift does not last; repairs are not duplicated |
| Payloads, schemas, responses, metrics, tooling | none that the queue reads | conversion and presentation | outside the models |

How the parts interact: a request takes its path lock and `enqueueMu`, changes
source and outbox records, releases both and signals the event loop. A pass
recovers the leftover intents, lists due operations and for each one takes
`enqueueMu` to claim it, releases it, reads source, association and destination
records and calls the provider without any lock, and takes `enqueueMu` again to
commit if the record still carries its claim. The periodic callback and the
event loop can both run a pass, so passes overlap, and the process may restart
between any two storage writes.

The hard behaviours are therefore: overlapping passes and requests on one
operation id; leases that expire under a slow pass; ids that are deterministic,
so that a deleted operation comes back under the same id; remote writes whose
answer is lost; crashes between the writes of a mutation; and recovery racing
dispatch. `PROJECT.json` lists the individual hazards with their lines.

## 2. Modules

### SecretSync

The core: one secret path, its versions, the outbox, overlapping passes, the
remote objects and the status records, over associations `Assoc` and passes
`Worker`.

* Everything done under `enqueueMu` is one action; this is what the mutex gives
  on storage without transactions, because the dispatcher reads single keys
  between its acquisitions and every other reader holds the mutex or the path
  lock. Interruption inside such a section is the subject of EnqueueRecovery.
* A request is one action: `PathDataWrite`, `PathDataDelete`,
  `PathVersionDelete`, `PathVersionUndelete`, `PathVersionDestroy`,
  `PathAssociationSync`, `PathAssociationEnable`, `PathQueueOperationRetry`,
  `PathQueueOperationCancel`, `PathConfigWrite`. Disable is two actions,
  `AssociationDisableCancel` and `AssociationDisablePersist`, because the code
  releases `enqueueMu` between them while it keeps the path lock (`disabling`).
  `UserOps` selects the handlers of an instance.
* A pass walks through `ClaimOutboxRecord`, `CheckStale`, `LoadVersion`,
  `LoadTarget`, `ProviderGet`, `ProviderPut` and one of `CommitSuccess`,
  `CommitFailure`, `CommitCancel`; `ProviderError` and `Abandon` may end it
  early. `rec` is the pass's own copy of the record. The commits
  compare owner, expiry and attempt of that copy with the stored record and
  compute retry times from the time of the claim, as the code does with the
  `now` it passes down.
* An operation id is what the code hashes: kind, version, association and salt.
  An association has one remote object (secret-path granularity).
* The due list is abstracted to "any due operation"; the retry delay to one
  constant `RetryDelay`; provider failures to the classes retryable and
  terminal. Payload preparation and its failures are the terminal class.
* `Restart` is a new process (a new `dispatchWorkerID`, no passes, storage
  kept). `Overrun` says whether a pass may outlive its lease.
* `RemoteCAS` says whether the provider conditions its write on what it read
  (the Kubernetes resource version, for updates and deletes alike) or writes
  blindly (GitLab). The precondition is modelled by the source version of the
  object, which is weaker than a resource version: the model accepts a write
  after the object was deleted and created again. A rejected write is terminal
  (collision, drift, validation), as in the error classification. The single
  calls of the providers are the subject of RemoteObject.
* `waived` is a history variable: operators who cancel an operation give up its
  work, and `NoLostWork` must not count it.

### EnqueueRecovery

A source mutation one storage write at a time: intent, version record,
metadata, cancels, operations, intent deletion. `Interrupt` ends it between any
two writes, for a crash and for a failing storage write alike (the handler
returns the error and what is stored stays). `RecoverEnqueueIntent` opens a
recovery job that takes the same write actions with the differences of
`recovery.go`: it derives what to do from the version record, repairs metadata,
leaves existing operations alone. A claimed operation among the cancels ends
the job with an error. The dispatcher is abstract (`Claim`, `CommitClaimed`).
In the code a pass recovers intents before it dispatches; the model also lets it
dispatch first, which a pass that started before the interruption does.

### RuntimeCache

The provider runtimes a pass or request asks for (`destinationRuntime`), over
destinations `Ref`, configurations `Fp` and concurrent callers `Caller`.

* What the code does under `cacheMu` is one action: `Lookup` (take the entry,
  wait for the registered build or start one), `FinishBuild`,
  `DropDestination` and `DropAll`. Opening (`OpenRuntime`, `OpenOwn`), using
  (`Release` ends it) and closing (`CloseRuntime`) happen outside. A waiter
  goes round again when the build is done (`Wake`), inherits its error, or ends
  with its context (`GiveUp`).
* A configuration is read some time before the runtime is asked for
  (`ReadDestination`), so callers with an older configuration meet a newer
  cache entry and the reverse. A destination write stores and then invalidates
  in two steps; OpenBao's `invalidate` may come at any time, and caching may be
  switched off, where each call clears the cache and opens its own runtime.
  To the cache a destination delete is an invalidation of its key.
* `builds` and `cache` name builds by number; `closing` holds the runtimes
  taken out of the cache and not yet closed; `stale` is a history variable: the
  builds that an invalidation overtook.
* `ready` is the channel of a build. That waiters wake up is stated as the
  safety property `NoStrandedWaiter` rather than as liveness, because an
  `OpenDestination` call has no deadline of its own.

### OutboxQueue and OutboxIndex

`OutboxQueue` is what the outbox promises its callers: a map from operation ids
to records in which puts and deletes take effect at once, and a scan that
returns every operation that stayed due while it ran and none that never was.
`OutboxIndex` is how `storage_outbox.go` does it with single-key writes.

* A handler (`Enqueue`, `Complete`, `Fail`, `Retry`, `Cancel`) fixes what the
  holder of `enqueueMu` will write: `adding` (index entries), `storing` (the
  record), `dropping` (entries only the old record had). `PutIndex`,
  `PutRecord` and `DropIndex` are the single storage calls, in the code's order;
  `StorageError` and `Crash` stop between any two of them.
* The scan (`ScanStart`, `ScanList`, `ScanSort`, `ScanLookup`, `ScanEnd`) and
  terminal pruning (`PruneStart` ... `PruneEnd`) take no mutex for their reads and
  proceed key by key beside the writers. `PruneOne` reads the record again under
  the mutex, as `pruneTerminalOutboxRecord` does.
* `ImplementsQueue` instantiates OutboxQueue; a write is visible to the abstract
  queue when the record is written, not when its index entries are.

### RemoteObject

One remote object under the providers `aws`, `gitlab`, `k8s` and `k8s_map` (a
Kubernetes Secret whose data keys are shared). `SecretSync` treats a provider as
get and put; this module has every remote call.

* `AfterUpsertRead` and `AfterDeleteRead` are the decisions of `Upsert` and
  `Delete` after their first read; `Create`, `Put`, `Tag`, `Restore`, `Delete`,
  `ReadValue` the calls that follow. A call may be refused, fail on the way, or
  take effect and lose its answer (`Apply`). AWS writes value and tags in two
  calls and restores a secret scheduled for deletion first.
* `Plan` and `ReadState` with `ReconcileState` are the readers, one operator per
  provider, as each provider has code of its own.
* `overlap` says whether passes for one object may overlap (a lease was
  overrun); `Edit...` are other clients of the remote service. `clean` is a
  history field: nobody else changed the object since the call read it.
* A payload and its hash are the same value. `readable` is
  `value_drift_detection` for AWS and "not hidden" for GitLab. AWS's
  de-duplication of equal `ClientRequestToken`s and GitLab's validation of masked
  and hidden values are left out.

### Associations

Requests on associations, destinations, sources and data, one stored key at a
time. A request takes its write locks, reads and decides, and `todo` holds the
storage changes it has still to make; `Step` makes the next one, `Refused`,
`StorageFails` and `Crash` end it. A loop of the code over index entries or
over associations is one entry of `todo` that is taken round by round
(`IndexStep`, `RefreshStep`) until nothing is left of it (`LoopEnds`); the rounds
may come in any order, which includes the code's. What a handler undoes after a failure is
`undo` (`Rollback`, `rollbackAssociationEnable`, deletion of a new sensitive
version).

* An association write has two actions: `WriteDraft` reads the stored record
  before the locks are taken, `Write` checks and stores under them.
* `names` are the concrete remote names of an association that writes one
  object per key; a data write checks them (`DataWrite`), stores the renamed
  associations one after the other (`Refresh`) and then commits the version with
  its operations (`Commit`).
* `work` is what was enqueued for an association since its last change. Which
  operations there are, and whether they survive, is SecretSync and
  EnqueueRecovery. `excused` marks associations whose work the code does not
  promise: a request on them died, or their data was written while the
  destination was disabled or the source not eligible.
* Locks are per key and taken together; the code stripes them, which only makes
  it interleave less.

### EventDispatch

What makes the dispatcher run: the channel of one signal, the goroutine with its
retry timer (`Receive`, `TimerFires`, `Exit`), `Initialize` with stop and start
(`Stop`, `StopDone`, `Start`), the periodic callback (`Tick`) and the switches.
A pass lists due operations once (`Begin`), claims and finishes up to its limit,
and looks again when it reached it (`PassRepeats`). Claims are reduced to who
holds an operation. Times are relative to the clock and of past times only the
order is kept, so that time can go on for ever in finitely many states.

### DriftReconcile

The background sweep (`SweepStart`, `SweepRead`, `SweepPut`, `SweepRepair`) over
the objects of one association, a manual reconcile (`ReconcileStart`,
`ReconcileRead`, `ReconcilePut`), the dispatcher of the repairs, and what may
change beside them: source, association, destination, configuration, restore
epoch, the remote objects, restarts. The queue is a bag, so that duplicate
repairs show. `rank` orders the times of reconciles.

### The proof modules

`SecretSyncProofs`, `EnqueueRecoveryProofs`, `AssociationsProofs`,
`OutboxIndexProofs`, `RemoteObjectProofs`, `RuntimeCacheProofs`,
`EventDispatchProofs` and `DriftReconcileProofs` hold the theorems about the
modules they extend, see section 5.

The `MC...` modules give constants their values and declare the symmetry sets.
Operators introduced by a comment "Mutant of ..." are plausible wrong versions of
the definition that follows them; they are used only to confirm that a
property notices the mistake.

## 3. Runs

| Run | Question | Result |
|---|---|---|
| `claims` | `TypeOK`, `ClaimIntact`, `OneCommitter`, `StatusNeverOlder` with two passes, expiring leases, a restart, two versions, operator retry and cancel, disable, enable, pause | holds |
| `lost_work` | `NoLostWork` for two associations across writes, deletes and destroys by version number, undeletes, cancels, failures and overrun leases | holds |
| `remote_truth` | `SyncedIsRemote`, `NoLostWork`, `QueueWithinCapacity`, `RemoteNeverOlder` with two versions, manual syncs, a queue of two, conditional remote writes, lost answers and passes that end within their lease | holds |
| `runtime_cache` | `TypeOK`, `RightRuntime`, `OneOwner`, `NeverPublishedStale`, `SingleFlight`, `NoStrandedWaiter` with two callers, two configurations, invalidations and uncached use | holds |
| `recovery` | `TypeOK`, `WorkRecorded`, `CurrentVersionExists` with an interruption at every write of a mutation and of a recovery | holds |
| `recovery_drains` | `IntentsDrain` (liveness) with endless requests and dispatches | holds |
| `outbox_index` | `IndexComplete`, `IndexExact`, `QueuedNotPruned` and the refinement `ImplementsQueue` with an interruption at every storage write, scans and pruning | holds |
| `associations` | `AssociationIndexed`, `OwnNameOnce`, `DestinationPresent`, `SensitiveStored`, `EnabledHasWork` with two concurrent requests out of three and a crash or failed storage call | holds |
| `providers` | `SuccessIsValue`, `ReadersAgree`, `ForeignUntouched`, `UnmanagedKept`, `VersionForward` for the three providers, two calls and two edits | holds |
| `event_dispatch` | `SignalNotLost`, `OneLoop` and `DueDispatched` (liveness) with restarts of the goroutine, failing passes and switches | holds |
| `drift` | `OneRepair` and the liveness properties `SweepReachesAll`, `StatusConverges`, `DriftRepaired` | holds |
| `one_manager` | `OneManager`: two associations never manage one remote name | violated |

`one_manager` is a disagreement of the code with its documentation. Names are
reserved and checked by the requests that enqueue, and a data write does not
enqueue for an association whose destination is disabled. Create `k` (one object
per key) and `a` (named `n`), disable the destination, write a key that renders
to `n` under `k`, enable the destination, and sync `k` by hand: the sync queues
`n`, which `a` manages (`pathAssociationSync`, `path_associations.go:472`), while
`docs/configure/associations.md:127` says that "two associations cannot manage
the same remote object".

### Properties known not to hold

These configurations show a property failing and are kept for whoever changes
the code; each states what the listed document says.

* `reclaimed_delete.cfg` (`OneCommitter`, `path_versions.go:226`).
  `mutateCurrentVersionDelete` does not look at the state of the current
  version. A second delete or destroy of it writes the delete operation over the
  claimed record with claim attempt 0; the next pass in the same instant gets
  the identical claim, and both passes commit
  (`docs/reference/status-and-diagnostics.md:90`). With undelete also allowed,
  an upsert and the old delete race and SYNCED can be reported for a missing
  object.
* `late_upsert.cfg` (`MissingIsRemote`, `dispatcher.go:243`). The stale check
  precedes the provider call. An upsert of version 1 past the check can create
  the object after version 2 was deleted remotely
  (`docs/concepts/sync-model.md:110`). `SyncedIsRemote` is not affected: a
  provider refuses to replace a newer object, but a deleted one leaves nothing
  to compare with.
* `rejected_disable.cfg` (`NoLostWork`, `storage_outbox.go:488`). A disable that
  meets a claimed operation is rejected, but operations it deleted before that
  stay deleted (`docs/development/backend/request-lifecycle.md:174`).
* `overwritten_intent.cfg` (`WorkRecorded`, `enqueue.go:193`). Intents are keyed
  by path and version. A manual sync of one association between an interrupted
  write and its recovery replaces the write's intent and then deletes it; the
  other association's operation is lost (`docs/concepts/sync-model.md:97`).
* `unrepaired_metadata.cfg` (`MetadataAgrees`, `recovery.go:187`). A delete
  interrupted before its metadata write is not repaired if a newer version was
  written before recovery (`docs/development/backend/queue-and-dispatch.md:68`).
* `torn_tags.cfg` (`SuccessIsValueByTags`, AWS `provider.go:326`). With
  `value_drift_detection` off, after a value was written and its tags were not,
  an upsert of the content the tags still name finds nothing to do
  (`docs/development/provider-contract.md:209`). `SuccessIsValue` leaves this case out by
  `Trustworthy`.
* `recreated_missing.cfg` (`MissingNotRecreated`, `association_enqueue.go:158`).
  A repair of one drifted object queues all objects of the association, the
  missing ones too (`docs/concepts/ownership-and-drift.md:158`).

Smaller observations: `pathQueueOperationRetry` has no capacity check, so
`QueueWithinCapacity` fails with `"retry"` in `UserOps` and a small queue. With
`RemoteCAS = FALSE`, `RemoteNeverOlder` fails: a provider that reads and then
writes without a precondition relies on passes for one object not overlapping
(RemoteObject says the same with `overlap`). A caller may be using a runtime that
an invalidation closes; the providers' `Close` does nothing. An association
update that leaves out `enabled` may undo a concurrent disable, because the
stored record is read before the locks. Data written while a destination is
disabled is not enqueued when it is enabled. A retry scheduled by a periodic
pass, or due while a pass ends, has no timer and waits for the periodic
callback. A stop whose context has expired leaves the old goroutine beside the
new one (`overlap` in `OneLoop`). A reconcile may write its older finding over a
newer SYNCED of the same version until a later sweep corrects it. Deleting the
last managed key of a shared Kubernetes Secret strips its ownership, and later
upserts are refused.

### Bounds

Two passes are what an interleaving of claims needs: properties about claims
compare pairs of passes. Two versions are what staleness, ordering and
replacement need; one association where the property is about a single
object, two where operations of one mutation can be treated differently.
`Lease` is one or two ticks and `MaxTime` leaves room for a
claim, its expiry and a second claim; `MaxClaims = 2` and
`MaxAttempts` 1 or 2 allow a retry and its exhaustion. `MaxProc = 2` is one
restart. In EnqueueRecovery one request and one recovery may be interrupted;
with two interrupted requests and no recovery between them `WorkRecorded` fails
for the reason shown by `overwritten_intent` (a write and then a delete of the
same version share an intent key). `recovery_drains` has one version and two
interrupted requests, because the cost of the liveness check grows quickly;
a blocked intent and endless delete and undelete requests occur with one
version already.

RuntimeCache has two callers (one builds, one waits, or two build in different
epochs), three builds (an entry, the one that replaces it and one overtaken)
and one invalidation of each kind per epoch. One destination is enough for TLC,
as destinations meet only in a clear; the theorems are for any number.

OutboxIndex has two operations (the sorted scan needs an order), one interrupted
write and one tick; a retention of one record makes both reasons for pruning
occur. RemoteObject has three versions, of which the third has the content of
the first under other keys, so that a torn write and a renamed key matter; the
theorems cover the rest. Associations has two associations that want one name
and a third that renders names from keys, three requests of which two run at
once, and one fault; `one_manager` needs five requests and no concurrency.
EventDispatch either has two operations, one goroutine and one fault, or one
operation, a goroutine that is replaced and two faults; both limits are one, so
that a pass is cut short. DriftReconcile has two objects, batches of one and
two, and two changes by others between which the system may run for ever.

`CHECK_DEADLOCK FALSE` is set where versions, claims, requests and the clock are
bounded: an instance that used them up has nothing left to do. The program
itself waits for requests. `providers` checks for deadlock.

`remote_truth` sets `Overrun = FALSE`: with a pass that outlives its lease a late
delete can hit the object of a newer operation after its success is recorded, so
`SyncedIsRemote` depends on the five-minute lease exceeding the provider
timeouts. The claim properties are checked with `Overrun = TRUE`.

### Fairness

EnqueueRecovery, EventDispatch and DriftReconcile have a `FairSpec`; no fairness
is assumed of requests, operators, other clients, failures or interruptions.

*EnqueueRecovery.* A handler that holds
`enqueueMu` does finish (`WF` on its storage writes). Recovery is retried by the
periodic callback forever and waits for a `sync.Mutex`, which hands over to a
waiter that starves, so it is strongly fair although requests keep taking the
mutex in between; the same holds for the commit of each claimed operation. Intents are taken
in key order and the first failure ends the pass, as in the code.

*EventDispatch.* OpenBao calls the periodic callback again and again (`Tick`), a
goroutine waiting in `select` takes what is ready, a pass goes on, an abandoned
lease runs out and time passes: weak fairness of each. No strong fairness is
needed. `DueDispatched` does not rest on signals: it holds because the periodic
callback catches what signals and timers miss.

*DriftReconcile.* Weak fairness of the sweep, of a reconcile that has begun, of the
dispatcher and of time. The number of changes is bounded, so that the
environment comes to rest, which the properties' `<>[]` premises describe.

## 4. Properties

* `ClaimIntact`: within its lease a pass finds its claim on the stored record,
  whatever requests and other passes do.
* `OneCommitter`: of the passes dispatching one operation at most one passes the
  comparison of `commitIfOutboxClaimHeld`, also after leases expired and the
  record was deleted and created again under its id.
* `NoLostWork`: the wanted state of the current version of an enabled
  association is queued, failed for the operator to see, reported by the
  status, or was cancelled by an operator.
* `SyncedIsRemote`, `MissingIsRemote`: once the work of an association has
  drained the status agrees with the remote object.
* `RemoteNeverOlder`, `StatusNeverOlder`: action properties on the remote object
  and the status record.
* `QueueWithinCapacity`: the queue is bounded in every state, not only when a
  request was admitted.
* `WorkRecorded`, `CurrentVersionExists`, `MetadataAgrees`, `IntentsDrain`: crash
  consistency of source mutations.
* `IndexComplete`, `IndexExact`: a stored record is in all its indexes wherever a
  write stopped, and while none was interrupted the index holds nothing else.
* `QueuedNotPruned`: pruning, which works from an old listing, spares a record
  that was queued again. `ImplementsQueue`: the refinement.
* `AssociationIndexed`, `OwnNameOnce`, `DestinationPresent`, `SensitiveStored`,
  `EnabledHasWork`, `OneManager`: consistency between records that different
  requests write under different locks.
* `SuccessIsValue`: an upsert that reports success has left its value, whatever
  torn writes and lost answers came before, if nobody else came between.
* `ForeignUntouched`, `UnmanagedKept`, `VersionForward`: what a provider may do
  to an object; `ReadersAgree`: what plan and reconcile say of it is what an
  upsert does.
* `SignalNotLost`, `OneLoop`, `DueDispatched`: wakeups.
* `OneRepair`, `SweepReachesAll`, `StatusConverges`, `DriftRepaired`: the drift
  sweep.
* `RightRuntime`: a caller uses a runtime of the configuration it read, however
  often it waited and whatever was invalidated meanwhile.
* `OneOwner`: an open runtime is in the cache, about to be closed, held by its
  builder or by a caller with a release function, and in one of these only.
* `NeverPublishedStale`: a build overtaken by an invalidation is never cached.
* `SingleFlight`, `NoStrandedWaiter`: between two clears a destination has one
  build, and the build of a waiter is done or somebody is at work on it.

## 5. Proofs

Every invariant and every action property that holds in a run is also a theorem.
Where a theorem has a hypothesis besides the assumptions on the constants, the
text says what fails without it.

`SecretSyncProofs.tla` proves, for all values of the constants that satisfy
`ConstantsAssumption` and `NoneAssumption` (any number of associations, passes,
versions, restarts; any lease and delay):

| Theorem | Statement |
|---|---|
| `TypeCorrect` | `Spec => []TypeOK` |
| `ClaimsStayIntact` | `ClaimSafeOps /\ Spec => []ClaimIntact` |
| `AtMostOneCommits` | `ClaimSafeOps /\ Spec => []OneCommitter` |
| `StatusNeverGoesBack` | `Spec => StatusNeverOlder` |
| `RemoteNeverGoesBack` | `RemoteCAS /\ Spec => RemoteNeverOlder` |
| `CapacityRespected` | `Spec /\ [][FailedNotRetried]_vars => []QueueWithinCapacity` |
| `WorkNeverLost` | `WorkKeepingOps /\ Spec => []NoLostWork` |
| `SyncedTellsTheTruth` | `TruthfulSetting /\ Spec => []SyncedIsRemote` |

`ConstantsAssumption` asks that `Assoc` be finite: without it a queue that never
exceeds its capacity could not be counted.

`ClaimSafeOps` excludes exactly what breaks the claims: delete and destroy by
version number (`reclaimed_delete`), and source delete or undelete together with
operator retry, which may requeue and claim a delete of a live version that the next
source delete overwrites.

*Type correctness* is not inductive alone: a failed operation's retry time is
`expires - Lease + RetryDelay`, a natural number only because a pass's copy
carries an expiry of at least `Lease`. `TypeInv` adds `ClaimTimes`.

*The claim properties* rest on `ClaimInv`. `ClaimIntact` is preserved by a claim
only because `Claimable` refuses a record with an active claim, and by
requests only because the operations they put are not being dispatched:
`StoredOps` gives this for a new version or a new salt (no stored or claimed
operation has that version or salt yet), `QueuedOpsWanted` for delete and
undelete (a queued operation of the current version is an upsert exactly when
the version is live, so the operations they put are not queued, hence not
claimed). `ExpiriesDiffer` gives `OneCommitter`: two passes on one operation
carry different expiries, because the second could claim only at or after the
expiry of the first and its own expiry is later by a whole lease. It is this,
and not `claim_attempt`, that survives the record's deletion and re-creation.

The part of `ClaimInv` that every handler keeps is `QueueInv` (`TypeOK`,
`ClaimTimes`, `StoredOps`, `QueuedOpsWanted`); it is inductive for all values of
`UserOps`, and the proofs about work start from it.

*The remote order* uses `ReadInv`: what a pass read and has not refused is not newer
than its operation, so a conditioned write replaces a version at most as new.

*Capacity.* `CapacityInv` says that the queue is finite and that a claimed record
is a queued one, so that whatever a pass commits is written over a record that
was counted. The rest is the arithmetic of `ensureQueueCapacityAfterReplacement`
(`CapacityCounted`). `FailedNotRetried` is what the bound needs and the code does
not have: `pathQueueOperationRetry` makes a failed operation pending without
counting. Retries of queued operations are covered.

*Work.* `WorkInv` is `QueueInv`, `NoLostWork` and four facts that hold with the
handlers of `WorkKeepingOps`. A pass removes a record only together with the
status that reports its outcome, and `StatusBehind` makes sure that `putStatus`
takes it. The outcome settles the work because a pass whose claim still matches
has a queued record and a queued record of the current version is of the kind
that version wants (`HeldIsWanted`); nothing is said of passes that lost their
claim, so the theorem covers expired leases and the deletes by version number
that break `ClaimIntact`. Two things are excluded. A disable may lose work
(`rejected_disable`). A retry beside deletes may too: a failed delete of a version
that was undeleted can be retried and claimed, the next source delete overwrites
the record that is being dispatched, and the pass commits REMOTE_MISSING for a
version that is live after another undelete. `WorkKeepingOps` therefore has no
`"disable"`, and `"retry"` only without deletes and undeletes.

*Truth of SYNCED.* `TruthInv` follows a pass: within its lease it dispatches an
operation that is wanted (`RunningIsWanted`), when it reports an upsert of the
current version the object has it (`DoneIsRemote`), and while a SYNCED status is
not true an operation that corrects it is queued (`SyncedOrQueued`).
`TruthfulSetting` is that of the run `remote_truth` with every number of associations,
passes and versions: conditional remote writes, passes that end within their
lease, and no request that takes the correcting operation away or overwrites one
that is being dispatched (a cancel, a disable, a delete by version number, a
retry).

`EnqueueRecoveryProofs.tla` proves, from `RecoveryConstants`:

| Theorem | Statement |
|---|---|
| `TypeCorrect` | `Spec => []TypeOK` |
| `CurrentVersionAlwaysExists` | `Spec => []CurrentVersionExists` |
| `WorkRecordedWithoutReplacement` | `Spec /\ [][IntentNotReplaced]_vars => []WorkRecorded` |
| `WorkRecordedAfterOneInterruption` | if `MaxInterrupts <= 1` and `"manual_sync" \notin UserOps` then `Spec => []WorkRecorded` |

`RecoveryInv` says of an intent that it is about one version and one kind of
operation and cancels only what its own operations supersede (`IntentsOK`), of
a version that is not yet current that it was written and nothing else, of a job
how its phase and the stored version state belong together (`RequestJob`,
`RecoveryJob`), and that what a job has still to do is in its intent
(`IntentCovered`). `WorkKept` is `WorkRecorded` with the one moment in which it may
be false made explicit. It is not inductive: `putPendingEnqueueIntent`
(`enqueue.go:193`) stores over an intent that still waits for recovery. The first
theorem makes this the hypothesis (`IntentNotReplaced`), for any number of
interruptions. The second shows that a single interrupted request is harmless:
later requests replace its intent, but run to their end
(`SafeReplacement`, `FirstInterruption`). With two interrupted requests
`WorkRecorded` is false, as it is with manual syncs (`overwritten_intent`).

`AssociationsProofs.tla` proves, from `AssociationsAssumption` (any associations,
paths, destinations, names and keys, any number of concurrent requests and of
faults; the associations of an initial state have different names at one
destination):

| Theorem | Statement |
|---|---|
| `StoredAssociationsAreIndexed` | `Spec => []AssociationIndexed` |
| `DestinationsStayForAssociations` | `Spec => []DestinationPresent` |
| `ReservationNamesAreUnique` | `Spec => []OwnNameOnce` |
| `SensitiveConfigurationsStay` | `Spec => []SensitiveStored` |
| `EnabledAssociationsHaveWork` | `Spec => []EnabledHasWork` |

The state of a request is the list of what it has still to do, so the
invariants are about lists. `BaseInv` says that requests in progress hold
different locks, that a request holds the locks of whatever its steps read and
change (`StepsHeld`), and what the lists and their undo lists look like
(`Shape`). Each request's list is shown to be such a list once, when it begins
(`Planned...`), and each invariant to survive a round of a loop, the step to the
next entry, the turn to the undo list, a failure and a crash. `IndexInv`: before a
record is stored its index entries are there or are put, and an entry is deleted
only when the record no longer needs it (`PutsFirst`, `DelsLast`), also when the
request is undone (`UndoPuts`). `PresenceInv`: whoever is about to create a record
holds path, name and destination lock, with the destination present and the name
free (`MayStore`); a destination about to be deleted has no association
(`DeletesAllowed`), which needs `AssociationIndexed`, as the handler finds
associations by their index. `SecretInv` says the same of sensitive configurations and the
destination record. `WorkInv`: work that a stored record is owed is pending in the
request that holds its path (`OwedIsPending`), and a request that can still be
refused without a trace owes nothing (`NothingOwed`).

`RuntimeCacheProofs.tla` proves, from `CacheConstants` only:

| Theorem | Statement |
|---|---|
| `CacheInvariant` | `Spec => []CacheInv` |
| `CacheTypes` | `Spec => []TypeOK` |
| `UsesRightRuntime` | `Spec => []RightRuntime` |
| `ClosedByOne` | `Spec => []OneOwner` |
| `StaleNeverCached` | `Spec => []NeverPublishedStale` |
| `OneBuildAtATime` | `Spec => []SingleFlight` |
| `WaitersNotStranded` | `Spec => []NoStrandedWaiter` |

`CacheInv` adds to the properties what each of them needs one step earlier. A
caller that opens, finishes or owns a runtime has its build to itself
(`PrivateBuilds`), which is what makes closing unique. `Epochs` is the heart of
`NeverPublishedStale`: a build of the present cache epoch is the registered one,
and if it is stale its destination's epoch has moved past the one it captured.
A clear resets the destination epochs, but no build under way then has the new
cache epoch, so the reset cannot make a captured epoch current again.
`Registered` (a registered build has a builder) gives `NoStrandedWaiter` when
a caller starts to wait, and `Epochs` gives `SingleFlight` when it starts a build.

`OutboxIndexProofs.tla` proves, from `OutboxIndexAssumption` only:

| Theorem | Statement |
|---|---|
| `IndexStaysComplete` | `Spec => []IndexComplete` |
| `IndexStaysExact` | `Spec => []IndexExact` |
| `RetentionSparesQueued` | `Spec => QueuedNotPruned` |
| `OutboxImplementsQueue` | `Spec => ImplementsQueue` |

`IndexInv` adds to `IndexComplete` what the lock holder has in hand. `Writing`:
the entries of the record to be stored are there or in `adding`, and `dropping`
holds what only the old record has, so that storing the record (possible once
`adding` is empty) keeps the index complete. `Dropping`: after that no entry of a
stored record is dropped. `Accounted` says the same of superfluous entries, for
`IndexExact`. The refinement needs `ScanInv`: an operation the scan must return
(`must`) is on its way, because it is collected, its index entry is listed, or the
directory of its due time has still to be listed (`OnTheWay`), and whatever
became due is allowed (`may`). That index entries are written before and deleted
after the record is what keeps `OnTheWay` true in every step.

`RemoteObjectProofs.tla` proves, from `RemoteObjectAssumption` only (any number
of overlapping calls, versions, payloads, data keys and edits):

| Theorem | Statement |
|---|---|
| `RemoteInvariant` | `Spec => []RemoteInv` |
| `SuccessTellsTheTruth` | `Spec => []SuccessIsValue` |
| `VersionsGoForward` | `Spec => VersionForward` |
| `UnmanagedKeysStay` | `Spec => UnmanagedKept` |
| `ForeignObjectsStay` | `Spec => ForeignUntouched` |
| `ReadersForetell` | `Spec => []ReadersAgree` |

`RemoteInv` relates each call to the object. `ReadInv` is what its first read
established and no step can take away (the object was owned, its version not
newer, no unmanaged key in the way): with a conditional write this is true of
the object written, which gives the three action properties for Kubernetes.
`OwnedInv` and `UpsertInv` are what still holds of the object itself while the
call is undisturbed; `UpsertInv` follows an AWS upsert through restore, value and
tags. `OneCall` makes `remote.ver <= c.ver` survive where passes do not overlap.
`ReadersForetell` needs of the invariant that an owned object has a source
version, and that a GitLab variable nobody edited holds what its metadata says.

`EventDispatchProofs.tla` proves, for any number of operations, goroutines and
passes and any limits:

| Theorem | Statement |
|---|---|
| `SignalsNotLost` | `Spec => []SignalNotLost` |
| `LoopsDoNotOverlap` | `Spec => []OneLoop` |

`OneLoop` rests on `GoroutinesOK` and `OverlapOK`: a goroutine that runs is the
current one or cancelled, and when a new one starts the cancelled ones are gone
unless the stop gave up waiting. `SignalNotLost` needs that an operation a signal
was sent for stays due and unclaimed while the gates are open (`ToldOK`), so that the
next list has it, and that a pass holds one operation at most (`ClaimsOK`), so
that a list cut off at its limit is followed by another pass.

`DriftReconcileProofs.tla` proves, for any number of objects, versions and changes:

| Theorem | Statement |
|---|---|
| `RepairQueuedOnce` | `Spec => []OneRepair` |

`enqueuePeriodicDriftRepair` queues all objects of an association unless one
of them has a queued upsert of this version or a newer one. `RepairInv` adds to `OneRepair` that what is queued is an operation
on one of the association's objects (`QueueOK`) and that the version of the source
and of the sweep in hand is a number (`SourceOK`, `SweepOK`), whatever
changed since the sweep read it; it is then inductive.

*Only model-checked.* The liveness properties `IntentsDrain`, `DueDispatched`,
`SweepReachesAll`, `StatusConverges` and `DriftRepaired`: fairness and `ENABLED` are
out of the prover's reach. The properties known not to hold are not theorems,
of course; `OneManager`, `MissingIsRemote` and `MetadataAgrees` among them.

## 6. Not modelled, and the plan

Not modelled by choice: payload conversion, schemas, responses, metrics and
tooling (no state the queue reads); provider configuration, authentication and
health checks (calls without state). One sequence is allowed by the model and
promised nowhere: a write that failed after its version record was stored is
committed by recovery later, after requests that were accepted in between.

Left, in this order:

1. Theorems under weaker hypotheses: `SyncedIsRemote` with cancels, for the
   associations that were not cancelled; `MissingIsRemote` for a provider that
   remembers deleted versions. That EnqueueRecovery and EventDispatch implement
   what SecretSync assumes of them.
2. Storage with transactions, where mutations do not take `enqueueMu`: claim,
   read-back and commit against conflicting transactions.
3. The order of the striped locks and freedom from deadlock.
4. Pruning of old source versions and metadata requests; how the restore epoch
   advances; retry delays with jitter as bounded functions.

## 7. Running

    tlc -workers 2 -config claims.cfg MCSecretSync
    tlc -workers 2 -config recovery.cfg MCEnqueueRecovery
    tlc -workers 2 -config runtime_cache.cfg MCRuntimeCache
    tlc -workers 2 -config outbox_index.cfg MCOutboxIndex
    tlc -workers 2 -config associations.cfg MCAssociations
    tlc -workers 2 -config providers.cfg MCRemoteObject
    tlc -workers 2 -config event_dispatch.cfg MCEventDispatch
    tlc -workers 2 -config drift.cfg MCDriftReconcile
    tlapm OutboxIndexProofs.tla

and likewise for the other configurations and proof modules. A run takes up to
three minutes on two cores, a proof module up to two, AssociationsProofs six.
