# TLA+ models of kong-portal-controller

This project holds TLA+ models of the KongFile engine in `src/`, together with
the TLC configurations that check them. The engine is a Kubernetes controller.
It pushes `KongFile` custom resources to the Kong Admin API `/files` endpoint
and keeps a local cache of what it pushed.

## The system

The engine has these parts:

- **KongFile resource** (`pkg/apis/v1/kongfile_types.go`). Its spec fields are
  `layout`, `path`, `title`, `name`, `content` and `kind`, and its status has one
  field, `validated`.
- **Admission webhook** (`internal/admission`). On every create and update,
  `handleValidation` runs `ValidateKongFile`. The checks are: the object name,
  spec name and spec path are non-empty, and a `CONTENT` file also has a title
  and a layout.
- **Class filters** (`internal/controllers/utils`, `internal/annotations`).
  The watch predicates come from
  `GeneratePredicateFuncsForControllerClassFilter(class, false, true)`.
  - Create, Delete and Generic events pass only when the
    `developer.konghq.com/controller.class` annotation equals the class.
  - Update events always pass. `IsControllerClassSpecConfigured` returns true,
    and Go's `&&`/`||` precedence lets that unguarded term decide.
  - `Reconcile` then filters with `MatchesControllerClassName`, which is an
    exact match.
- **Reconciler** (`internal/controllers/developer/kongfile_controller.go`).
  Each pass handles one key, in this order:
  1. If the object is NotFound, `EnsureProxyDeleteObject` deletes it through
     the proxy if the proxy cache has it.
  2. If the object is being deleted, `ObjectExists` checks the backend, a file
     found there is deleted, and the pass requeues.
  3. If the object is out of class, nothing happens.
  4. If `status.validated` is false, `UpdateObject` pushes the object and then
     `Status().Update` writes `validated = true`.

  An error or `Requeue: true` puts the key back on the work queue.
- **Cached proxy resolver** (`internal/dataplane/proxy`). `UpdateObject` and
  `DeleteObject` write the local cache store and then call the backend, with no
  rollback when the call fails. `Build` maps a spec to a backend path and
  contents. `IsReady` drives the readyz check.
- **Cache store** (`internal/store`). An in-memory `cache.Store` keyed
  `namespace/name`, guarded by an RWMutex.
- **File service** (`internal/kong/file_service.go`). It sends HTTP
  PUT/GET/DELETE requests for `/files/{path}` and refuses an empty path.
- **Manager** (`internal/manager`). Leader election is always on. The
  informer resyncs every `--sync-period`. `MaxConcurrentReconciles` is never
  set, so the controller has one worker. `Run` builds a fresh proxy cache and
  then calls `MaybeSetupWithManager`. That call registers the KongFile
  controller only if `crdExistsChecker.CRDExists` finds the CRD at that
  moment, and it never checks again.

These parts interact as follows. The API server (users, other controllers'
finalizers) produces events. The predicates filter them into the work queue.
The single worker runs `Reconcile`, which calls the proxy, and the proxy
changes the cache and the backend. The status write goes back to the API server
and raises another Update event.

## Modules

| Module | Models | State | Actions / operators |
|---|---|---|---|
| `KongFile` | types, `Build`, `ValidateKongFile`, class filters | none (pure) | `BuildPath`, `BuildContents`, `ValidateKongFile`, `PredicateForObject`, `PredicateForUpdate`, `validController` |
| `CacheStores` | `store.CacheStores` | `cache`: key → spec or `NoObject` | `Get`, `Add`, `Update`, `Delete` (one atomic step each: the store lock is held throughout) |
| `FileService` | `kong.FileService` plus the backend's file table | `backend`: path → contents or `NoFile` | `Update`, `Delete`, `GetResults`. The outcomes are `ok`, `lost` (applied, answer lost), `failed` and `invalid` (empty path). |
| `CachedProxyResolver` | `CachedProxyResolver` | `cache`, `backend`, `configApplied` | `UpdateObject`, `DeleteObject`, `ObjectExistsResults`, `ObjectExistsInCache`, `IsReady` |
| `KongFileSync` | what the engine promises about status and publication, with no proxy, queue or process | `objects`, `published` | `UserCreate`, `UserEdit`, `UserMark`, `UserRemove`, `Publish`, `Validate` |
| `KongFileReconciler` | the reconciler composed with the proxy, the API server, the predicates, the work queue and the manager process | adds `store`, `view`, `queue`, `pending`, `clock`, `edits`, `restarts`, `acked`, `up`, `registered`, `crd`, `applied` | environment: `CreateKongFile`, `EditKongFile`, `DeleteKongFile`, `RemoveFinalizer`, `ClockPasses`, `InformerSync`, `InstallCRD`, `Crash`, `Start`, `Resync`; controller: `ReconcileNotFound`, `ReconcileDeleting`, `ReconcileOutOfClass`, `ReconcileValidated`, `ReconcileUpdateObject`, `UpdateStatus` |
| `MCKongFile`, `MCKongFileReconciler` | TLC instantiations | | |

In `KongFileReconciler`, the variables mean the following:

- `store` is the API server's copy of each object. It holds the spec, the
  annotation, the resourceVersion and `validated`. It also holds whether a
  deletionTimestamp is set (`marked`) and whether that timestamp has passed
  by the controller's clock (`passed`). Finally, `validatedFor` is a history
  field holding the spec the object carried when validated.
- `view` is the manager's informer cache, the copy that `r.Get` reads
  (`Found(k)`) and from which watch events are computed (`EventPasses`:
  Create, Update or Delete through the predicates). A write to the API
  server changes `store` and reaches `view` through `Observe`. Without
  `InformerLag`, `Observe` delivers the write in the same step. With
  `InformerLag`, the weakly fair `InformerSync` delivers it later, and a
  user's next write to that key waits until it has been delivered, so
  `view` lags by at most one write per key. The status write's conflict
  check still compares with `store`. While the process is down,
  `InformerSync` stands for the next process's initial list, taken key by
  key, and `Start` finds `view = store`.
- `Terminating(k)` is the condition of the deleting branch,
  `!DeletionTimestamp.IsZero() && time.Now().After(DeletionTimestamp)`.
  With `ClockSkew` the controller's clock may lag the API server's, so a
  new deletionTimestamp has not passed yet. `ClockPasses` is the later
  moment when the clock reaches it.
- `applied` is history: an `UpdateObject` of the running process has
  succeeded. That is what spec §4.5 says `configApplied` records.
- `pending` is a pass that has pushed its object and has not yet written the
  status. The status write is a separate step so that user edits can fall
  between the push and the write. `clock` issues resourceVersions.
- `acked[k]` is history: the specs of `k` that the backend accepted during the
  object's lifetime.
- `Crash` ends the process, or the process loses its lease. The work queue
  and an unfinished pass are lost.
- `Start` is `manager.Run` up to `mgr.Start`. It builds an empty cache and
  sets `registered` to `MaybeSetupWithManager(TRUE, crd)`. If the controller
  is registered, the informer's initial list raises Create events, which the
  create predicate filters.
- User writes pass `Admitted`: the model assumes the admission webhook
  gates every write. The default `--admission-webhook-listen` is `off`,
  and `setupAdmissionServer` then fails to listen on it, so without the
  flag nothing validates the writes. No run depends on this: every spec in
  the runs' `SpecsOf` is admitted.
- `InstallCRD` is an administrator installing the KongFile CRD. Users can
  create objects only once the CRD exists.
- `Resync` models the SyncPeriod relist: an Update event for every cached
  object. The period never ends in the code, and `MaxResyncs` bounds it.

## Refinement

`KongFileSync` is the abstract specification. It says:

- the engine publishes only the current spec of a live, in-class object that
  is neither being deleted nor validated, and only a spec with a backend path;
- the engine sets `validated` only on such an object whose current spec it
  published;
- the engine never changes anything else a user owns.

`KongFileReconciler` maps its state onto that specification:

- `objects` is the objects as the controller observes them (`view`),
  without their resourceVersion or history, so an API write is an abstract
  step when the watch delivers it;
- `published` is `acked`.

`ImplementsKongFileSync == Sync!Spec` is checked as a PROPERTY in
`reconcile_safety`. The property fails if the status write loses its
resourceVersion check, because an edit between the push and the write would
then validate a spec that was never published.

## Runs

| Run | Expect | What it shows |
|---|---|---|
| `kong_file_paths` | pass | Admitted specs of different kinds never get the same backend path. The run covers every pair of specs over paths and names that contain `/`. |
| `reconcile_safety` | pass | With an informer cache that lags the API server. `TypeOK`. `ImplementsKongFileSync`: the reconciler refines `KongFileSync`, with crashes and faults. `ValidatedFileIntact`: no delete, retry or restart path removes or overwrites the file of a validated, live object. `EventuallyConverged`: once users stop, every live, in-class, buildable object ends validated, despite transient backend and status faults and a crash. |
| `no_orphans_without_faults` | pass | With no backend faults, crashes, class changes or path changes, no file outlives its object once the controller is idle. This holds with foreign finalizers, with a controller clock that lags deletionTimestamps, and with a lagging informer cache. The cfg also lets the CRD be installed after the start, which fires `InstallCRD`; with no restarts the controller then never registers, so those behaviours have no files and check nothing (`late_crd` shows the consequence). |
| `admission_unbuildable` | violation | A kind such as `"PAGE"` is admitted, and `Build` gives it an empty path. |
| `orphan_path_change` | violation | A path change before the status write leaves the old file behind after deletion. |
| `orphan_delete_failure` | violation | A failed backend delete after the cache delete leaves the file for good. |
| `orphan_restart` | violation | A restart loses the cache that deletion relies on. |
| `edits_not_pushed` | violation | An edit after validation is never pushed. |
| `deleting_loop` | violation | A terminating object is requeued forever, because `ObjectExists` never returns false. With `Resync` bounded, only this loop can keep the key queued: letting `ObjectExists` map an empty record to false makes `DeletingSettles` hold under the same cfg. |
| `path_collision` | violation | `docs` + `a/x` and `docs/a` + `x` share a backend file. |
| `readiness_off` | violation | In dbmode `off`, readyz keeps failing after the first successful push, because nothing sets `configApplied`. |
| `late_crd` | violation | If the CRD is installed after the process started, the controller is not registered until the next restart. Objects created after the install are never pushed, while readyz passes (durable mode). |

Each property of a passing run has a mutant in `PROJECT.json`. A mutant is an
operator placed just before the definition it replaces, for example a status
write without the resourceVersion check, and TLC finds the property violated
under it.

Four further defects are known but have no run of their own:

- `Reconcile` filters with `MatchesControllerClassName`, an exact match. An
  object with no class annotation is therefore never reconciled, although
  spec §4.6 says exact-or-empty. Only the unused `Store.ListKongFiles` is
  exact-or-empty.

- Moving a pushed object to another class and then deleting it filters the
  Delete event, so its file stays. NoOrphanFiles finds this once the
  annotation may change.
- The spec counts dbmode `""` as in-memory too, but `IsReady` tests only
  `"off"`, so with `""` the proxy is ready before anything was applied.
  `ReadyIffApplied` finds this with dbmode `""`.
- With a lagging controller clock, a terminating object falls through to
  the class check and is pushed and validated. `ImplementsKongFileSync`
  then fails, because `KongFileSync` publishes only objects that are not
  being deleted. The code does what spec §4.6 says relative to its own
  clock, and no file is orphaned, so `reconcile_safety` keeps the clocks in
  step (`ClockSkew = FALSE`).

## Bounds

- Two keys `k1` and `k2`, each with two specs:
  - `k1` has two contents at one path, so edits race the status write;
  - `k2` has a `CONTENT` spec and a `"PAGE"` spec, so an unbuildable object
    shares the queue with a buildable one.
- Annotations are {absent, `kong`, `other`}.
- `MaxEdits = 3` user steps and `MaxRestarts = 1` crash. `MaxResyncs` is
  1 in the no-orphans and deleting-loop runs, which is enough to requeue a
  key whose pass already ended. It is 0 in the safety run, where a resync
  adds only requeues that the status write's own Update event already
  causes.
- The no-orphans run starts with and without the CRD, so `InstallCRD`
  happens before and after the first `Start`. It allows no restarts, so
  when the CRD comes after `Start` the controller never registers and no
  file is ever written: that case fires `InstallCRD` but checks nothing.
- The shortest interesting behaviours need up to three user steps: create,
  edit, delete. Examples are an edit racing the status write, and a delete
  racing a restart.
- Each violation run narrows the constants to the case it is about and uses
  up to 4 user steps.
- Both pass runs set `InformerLag`. A lag of one write per key is
  enough for a pass to read the version before its own status write, or
  before a user's edit or delete. A lagging view includes every behaviour
  without lag, because a delivery may follow its write at once. The
  violation runs keep `InformerLag = FALSE`, so their traces stay short.
- The safety run reaches about 167,000 distinct states and also checks
  liveness there, in under a minute.

## Fairness

The model assumes these fairness conditions:

- `Reconcile(k)` is strongly fair for each key: the work queue hands every
  queued key to the single worker.
- `ReconcileUpdateObject(k, "ok")` and `UpdateStatus("ok")` are strongly fair:
  a transient backend or API server failure that keeps being retried
  eventually succeeds.
- `UpdateStatus` is weakly fair.
- `Start` is weakly fair, because the Deployment restarts a process that
  exited.
- `ClockPasses(k)` is weakly fair, because the controller's clock keeps
  moving.
- `InformerSync(k)` is weakly fair, because the watch (or, after a
  restart, the relist) eventually delivers every write.
- The environment (users, finalizers, crashes, the CRD install, resync) is
  not fair: users may stop at any time.

`CHECK_DEADLOCK FALSE` is set because an idle controller with nothing queued
really does wait.

## Not modelled

- The TLS admission server, the HTTP decoding and the AdmissionReview
  marshalling.
- The diagnostics and metrics servers.
- Flag parsing and Cobra wiring.
- `Store.ListKongFiles`, `GetKongFile`, `CacheStores.Add` and
  `FileService.Create`, which nothing calls.
- The liveness failure of an object whose path is empty. `Converged`
  excludes such objects, and `admission_unbuildable` shows that they are
  admitted. The requeue loop follows from `ReconcileUpdateObject` with the
  `invalid` outcome, which the pass runs fire.
- A backend call that never returns. The Kong HTTP client is built
  outside this repository, so whether it has a deadline is unknown here. A
  hung call would block the only worker, and every liveness property here
  would fail under it.
- A leader handover with two active processes. Leader election keeps one
  process active; only lease timing controller-runtime leaves to the
  cluster could break that. The model's `Crash` covers losing the lease
  and the restart after it.
- An abstract specification of the proxy alone (desired files against
  backend files). `CachedProxyResolver` is checked through the reconciler's
  properties; on its own, the cache is not a refinement of the backend,
  because a lost delete answer makes them differ by design.
- The diagnostics server's error channel. It is unbuffered and nothing
  reads it once the context is cancelled, so a `ListenAndServe` error after
  that would block its goroutine for good. Spec §9 calls the diagnostics plumbing inert, and no other
  state depends on it.
